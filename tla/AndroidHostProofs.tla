-------------------------- MODULE AndroidHostProofs --------------------------
(***************************************************************************)
(* Proofs about AndroidHost, for every set of nodes and every value of the *)
(* bounds.  What holds in every app comes first, types before all, then    *)
(* what the host's tree and the native trees keep of each other in an app  *)
(* whose Liberties the theorem names.                                      *)
(***************************************************************************)
EXTENDS AndroidHost, ListLemmas

-----------------------------------------------------------------------------
(* Lists. *)

\* indexOf finds a position that holds x.
LEMMA IndexOfType ==
  ASSUME NEW S, NEW s \in Seq(S), NEW x \in ToSet(s)
  PROVE  IndexOf(s, x) \in 1..Len(s) /\ s[IndexOf(s, x)] = x
<1> DEFINE I == {i \in DOMAIN s : s[i] = x}
<1>1. I \in SUBSET Nat /\ I # {}
  BY DEF ToSet
<1>2. Min(I) \in I
  BY <1>1, MinInSet
<1> QED
  BY <1>2 DEF IndexOf

\* A splice cuts x out of a list, all of it if no element comes twice.
LEMMA CutElements ==
  ASSUME NEW S, NEW s \in Seq(S), NEW x
  PROVE  /\ Cut(s, x) \in Seq(S)
         /\ IsInjective(s) => /\ IsInjective(Cut(s, x))
                             /\ ToSet(Cut(s, x)) = ToSet(s) \ {x}
<1>1. CASE x \in ToSet(s)
  <2>1. IndexOf(s, x) \in 1..Len(s) /\ s[IndexOf(s, x)] = x
    BY <1>1, IndexOfType
  <2>2. Cut(s, x) = RemoveAt(s, IndexOf(s, x))
    BY <1>1 DEF Cut
  <2> QED
    BY <2>1, <2>2, RemoveAtElements
<1>2. CASE x \notin ToSet(s)
  BY <1>2 DEF Cut
<1> QED
  BY <1>1, <1>2

-----------------------------------------------------------------------------
(* Types. *)

LEMMA ClosureType ==
  ASSUME NEW S, NEW f
  PROVE  Closure(S, f) \subseteq Node
  BY DEF Closure

LEMMA ForgetType ==
  ASSUME TypeOK, NEW dead, NEW timers \in [Node -> Parent \cup {None}],
         Forget(dead, timers)
  PROVE  /\ tracked' \subseteq issued
         /\ kids' \in [Parent -> Seq(Node)]
         /\ parent' \in [Node -> Parent \cup {None}]
         /\ exitTransitions' \subseteq Node
         /\ exitTimers' \in [Node -> Parent \cup {None}]
<1>1. tracked' \subseteq issued /\ exitTransitions' \subseteq Node
  BY DEF Forget, TypeOK, HostTypeOK, FlushTypeOK
<1>2. kids' \in [Parent -> Seq(Node)]
  <2>1. <<>> \in Seq(Node)
    OBVIOUS
  <2> QED
    BY <2>1 DEF Forget, TypeOK, HostTypeOK, FlushTypeOK
<1>3. parent' \in [Node -> Parent \cup {None}]
  BY DEF Forget, TypeOK, HostTypeOK, FlushTypeOK
<1>4. exitTimers' \in [Node -> Parent \cup {None}]
  BY DEF Forget
<1> QED
  BY <1>1, <1>2, <1>3, <1>4

LEMMA DoFlushType ==
  ASSUME TypeOK, NEW q \in Seq(InsertOp), DoFlush(q), UNCHANGED issued
  PROVE  FlushTypeOK'
<1> DEFINE dead    == Subtree(ready)
           exits   == Leaving \cap (exitTransitions \ dead)
           plain   == Leaving \ exits
           timers  == [n \in Node |-> IF n \in exits THEN pendingRemovals[n]
                                     ELSE exitTimers[n]]
<1>1. Leaving \subseteq Node /\ dead \subseteq Node
  BY ClosureType DEF Leaving, Removed, Subtree
<1>2. \A n \in Leaving : pendingRemovals[n] \in Parent
  BY DEF Leaving, Removed, TypeOK, HostTypeOK, FlushTypeOK
<1>3. timers \in [Node -> Parent \cup {None}]
  BY <1>2 DEF TypeOK, HostTypeOK, FlushTypeOK
<1>4. Forget(dead, timers)
  BY DEF DoFlush
<1>5. {<<pendingRemovals[n], n>> : n \in plain} \in SUBSET (Parent \X Node)
  BY <1>1, <1>2
<1>6. pendingDrops \cup dead \in SUBSET Node
  BY <1>1 DEF TypeOK, HostTypeOK, FlushTypeOK
<1>7. commit' \in [removes : SUBSET (Parent \X Node),
                  inserts : Seq(InsertOp), drops : SUBSET Node]
  BY <1>5, <1>6 DEF DoFlush
<1>8. ready' \subseteq Node
  <2>1. ready' = plain
    BY DEF DoFlush
  <2> QED
    BY <1>1, <2>1
<1>9. /\ rescued' = {} /\ pendingDrops' = {} /\ queue' = <<>>
      /\ flushScheduled' = FALSE
      /\ pendingRemovals' = [n \in Node |-> None]
  BY Zenon DEF DoFlush
<1>10. /\ queue' \in Seq(InsertOp)
       /\ pendingRemovals' \in [Node -> Parent \cup {None}]
  BY <1>9
<1>11. flushScheduled' \in BOOLEAN
  BY <1>9
<1> HIDE DEF dead, timers
<1>12. /\ tracked' \subseteq issued'
       /\ kids' \in [Parent -> Seq(Node)]
       /\ parent' \in [Node -> Parent \cup {None}]
       /\ exitTransitions' \subseteq Node
       /\ exitTimers' \in [Node -> Parent \cup {None}]
  BY <1>3, <1>4, ForgetType
<1>13. rescued' \subseteq Node /\ pendingDrops' \subseteq Node
  BY <1>9
<1> QED
  BY <1>7, <1>8, <1>10, <1>11, <1>12, <1>13, Zenon DEF FlushTypeOK

LEMMA RunFlushType ==
  ASSUME TypeOK, NEW q \in Seq(InsertOp), NEW b, NEW nb \in BOOLEAN,
         RunFlush(q, b, nb), UNCHANGED issued
  PROVE  FlushTypeOK'
<1>1. CASE b # <<>> \/ nb
  BY <1>1 DEF RunFlush, TypeOK, HostTypeOK, FlushTypeOK, treeVars, doomVars
<1>2. CASE ~(b # <<>> \/ nb)
  BY <1>2, DoFlushType DEF RunFlush
<1> QED
  BY <1>1, <1>2

LEMMA EnqueueType ==
  ASSUME TypeOK, NEW op \in InsertOp, Enqueue(op)
  PROVE  queue' \in Seq(InsertOp) /\ batch' \in Seq(Seq(InsertOp))
<1>1. queue \in Seq(InsertOp) /\ batch \in Seq(Seq(InsertOp))
  BY DEF TypeOK, HostTypeOK, FlushTypeOK
<1>2. CASE batch = <<>>
  BY <1>1, <1>2 DEF Enqueue
<1>3. CASE batch # <<>>
  <2>1. Len(batch) \in 1..Len(batch)
    BY <1>1, <1>3
  <2>2. Append(batch[Len(batch)], op) \in Seq(InsertOp)
    BY <1>1, <2>1
  <2>3. [batch EXCEPT ![Len(batch)] = Append(batch[Len(batch)], op)]
          \in Seq(Seq(InsertOp))
    BY <1>1, <2>1, <2>2, ExceptSeq
  <2> QED
    BY <1>1, <1>3, <2>3 DEF Enqueue
<1> QED
  BY <1>2, <1>3

LEMMA ScheduleType ==
  ASSUME TypeOK, NEW b, Schedule(b)
  PROVE  flushScheduled' \in BOOLEAN /\ frames' \in Nat
<1>1. flushScheduled \in BOOLEAN /\ frames \in Nat
  BY DEF TypeOK, HostTypeOK, FlushTypeOK
<1>2. flushScheduled' \in BOOLEAN
  BY <1>1 DEF Schedule, schedVars
<1>3. frames' \in Nat
  BY <1>1, HostAssumption DEF Schedule, schedVars
<1> QED
  BY <1>2, <1>3

-----------------------------------------------------------------------------
\* What one operation of the native host leaves of the types of its state.
LEMMA NativeTypes ==
  /\ \A n \in Node : NativeTypeOK /\ NativeCreate(n) => NativeTypeOK'
  /\ \A r \in SUBSET (Parent \X Node) :
       NativeTypeOK /\ NativeRemove(r) => NativeTypeOK'
  /\ \A p \in Parent, n \in Node, at \in Nat :
       NativeTypeOK /\ NativeInsert(p, n, at) => NativeTypeOK'
  /\ \A d \in SUBSET Node : NativeTypeOK /\ NativeDrop(d) => NativeTypeOK'
<1>1. ASSUME NEW n \in Node, NativeTypeOK, NativeCreate(n) PROVE NativeTypeOK'
  BY <1>1 DEF NativeTypeOK, RecordTypeOK, NativeCreate
<1>2. ASSUME NEW r \in SUBSET (Parent \X Node), NativeTypeOK, NativeRemove(r)
      PROVE NativeTypeOK'
  <2> DEFINE valid   == {x \in r : Addressable(x[1])}
             gone(p) == {x[2] : x \in {v \in valid : v[1] = p}}
  <2>1. RecordTypeOK'
    BY <1>2 DEF NativeTypeOK, RecordTypeOK, NativeRemove
  <2>2. yogaKids' = [p \in Parent |-> Without(yogaKids[p], gone(p))]
    BY <1>2 DEF NativeRemove
  <2>3. \A p \in Parent : yogaKids[p] \in Seq(Node)
    BY <1>2 DEF NativeTypeOK
  <2> HIDE DEF gone
  <2>4. \A p \in Parent : Without(yogaKids[p], gone(p)) \in Seq(Node)
    BY <2>3, WithoutElements
  <2> QED
    BY <2>1, <2>2, <2>4 DEF NativeTypeOK
<1>3. ASSUME NEW p \in Parent, NEW n \in Node, NEW at \in Nat,
             NativeTypeOK, NativeInsert(p, n, at)
      PROVE NativeTypeOK'
  <2>1. CASE UNCHANGED nativeVars
    BY <1>3, <2>1 DEF NativeTypeOK, RecordTypeOK, nativeVars
  <2>2. CASE n \in alive /\ Addressable(p)
    <3> DEFINE rest == YogaDetached(n)
               pos  == IF at > Len(rest[p]) THEN Len(rest[p]) ELSE at
    <3>1. recParent' = [recParent EXCEPT ![n] = p] /\ UNCHANGED <<issued, alive>>
      BY <1>3, <2>2, Zenon DEF NativeInsert
    <3>2. recKids' = [m \in Node |-> IF m = p THEN recKids[m] \cup {n}
                                    ELSE IF m = recParent[n] THEN recKids[m] \ {n}
                                    ELSE recKids[m]]
      BY <1>3, <2>2, Zenon DEF NativeInsert
    <3>3. yogaKids' = [rest EXCEPT ![p] = InsertAt(rest[p], pos + 1, n)]
      BY <1>3, <2>2, Zenon DEF NativeInsert
    <3>4. rest \in [Parent -> Seq(Node)]
      BY <1>3, WithoutElements DEF NativeTypeOK, YogaDetached
    <3>5. Len(rest[p]) \in Nat /\ pos + 1 \in 1 .. Len(rest[p]) + 1
      <4>1. Len(rest[p]) \in Nat
        BY <3>4, LenProperties
      <4> HIDE DEF rest
      <4> QED
        BY <1>3, <4>1
    <3> HIDE DEF rest, pos
    <3>6. InsertAt(rest[p], pos + 1, n) \in Seq(Node)
      BY <3>4, <3>5, InsertAtElements
    <3>7. yogaKids' \in [Parent -> Seq(Node)]
      BY <3>3, <3>4, <3>6
    <3> QED
      BY <1>3, <3>1, <3>2, <3>7 DEF NativeTypeOK, RecordTypeOK
  <2> QED
    BY <1>3, <2>1, <2>2 DEF NativeInsert
<1>4. ASSUME NEW d \in SUBSET Node, NativeTypeOK, NativeDrop(d) PROVE NativeTypeOK'
  <2> DEFINE dead == Closure(d \cap alive, recKids)
  <2>1. RecordTypeOK'
    BY <1>4 DEF NativeTypeOK, RecordTypeOK, NativeDrop
  <2>2. yogaKids' = [p \in Parent |->
                      IF p \in dead THEN <<>> ELSE Without(yogaKids[p], dead)]
    BY <1>4 DEF NativeDrop
  <2> HIDE DEF dead
  <2>3. <<>> \in Seq(Node) /\ \A p \in Parent : Without(yogaKids[p], dead) \in Seq(Node)
    BY <1>4, WithoutElements, EmptySeq DEF NativeTypeOK
  <2> QED
    BY <2>1, <2>2, <2>3 DEF NativeTypeOK
<1> QED
  BY <1>1, <1>2, <1>3, <1>4

LEMMA InitTyping == Init => TypeOK
<1> SUFFICES ASSUME Init PROVE TypeOK
  OBVIOUS
<1>1. NativeTypeOK
  <2>1. <<>> \in Seq(Node)
    OBVIOUS
  <2> QED
    BY <2>1 DEF Init, NativeInit, NativeTypeOK, RecordTypeOK
<1>2. NoCommit \in [removes : SUBSET (Parent \X Node),
                   inserts : Seq(InsertOp), drops : SUBSET Node]
  BY DEF NoCommit
<1>3. flushScheduled \in BOOLEAN /\ nativeBatching \in BOOLEAN
  BY DEF Init
<1>4. queue \in Seq(InsertOp) /\ batch \in Seq(Seq(InsertOp)) /\ frames \in Nat
  BY DEF Init
<1>5. kids \in [Parent -> Seq(Node)]
  BY DEF Init
<1> QED
  BY <1>1, <1>2, <1>3, <1>4, <1>5 DEF Init, NativeInit, TypeOK, HostTypeOK, FlushTypeOK

\* The types of AndroidHost that one renderer call or callback preserves.
LEMMA TypingStep == TypeOK /\ [Next]_vars => TypeOK'
<1> SUFFICES ASSUME TypeOK, [Next]_vars PROVE TypeOK'
  OBVIOUS
<1>0. /\ FlushTypeOK /\ NativeTypeOK
      /\ queue \in Seq(InsertOp) /\ batch \in Seq(Seq(InsertOp))
      /\ frames \in Nat /\ nativeBatching \in BOOLEAN
  BY DEF TypeOK, HostTypeOK, FlushTypeOK
<1>1. ASSUME NEW n \in Node, CreateNode(n) PROVE TypeOK'
  <2>1. NativeTypeOK'
    BY <1>0, <1>1, NativeTypes DEF CreateNode
  <2>2. flushScheduled' \in BOOLEAN /\ frames' \in Nat
    BY <1>1, ScheduleType DEF CreateNode
  <2>3. tracked' \subseteq issued'
    BY <1>0, <1>1 DEF CreateNode, NativeCreate, FlushTypeOK
  <2> QED
    BY <1>0, <1>1, <2>1, <2>2, <2>3
    DEF CreateNode, TypeOK, HostTypeOK, FlushTypeOK, doomVars
<1>2. ASSUME NEW n \in Node, NEW on \in BOOLEAN, SetExitTransition(n, on)
      PROVE TypeOK'
  <2>1. exitTransitions' \subseteq Node
    BY <1>0, <1>2 DEF SetExitTransition, FlushTypeOK
  <2> QED
    BY <1>0, <1>2, <2>1
    DEF SetExitTransition, TypeOK, HostTypeOK, FlushTypeOK, NativeTypeOK, RecordTypeOK,
        treeVars, schedVars, nativeVars
<1>3. ASSUME NEW p \in Parent, NEW n \in Node, NEW a \in Node \cup {None},
             InsertNode(p, n, a)
      PROVE TypeOK'
  <2> DEFINE rest == Cut(kids[p], n)
             at   == IF a = None THEN Len(rest) + 1 ELSE IndexOf(rest, a)
             op   == [parent |-> p, child |-> n, at |-> at - 1]
  <2>1. rest \in Seq(Node)
    BY <1>0, CutElements DEF FlushTypeOK
  <2>2. at \in 1..Len(rest)+1
    <3>1. CASE a = None
      BY <2>1, <3>1
    <3>2. CASE a # None
      <4>1. a \in ToSet(rest)
        BY <1>3, <3>2 DEF InsertNode
      <4>2. IndexOf(rest, a) \in 1..Len(rest)
        BY <2>1, <4>1, IndexOfType
      <4> QED
        BY <2>1, <3>2, <4>2
    <3> QED
      BY <3>1, <3>2
  <2>3. InsertAt(rest, at, n) \in Seq(Node)
    BY <2>1, <2>2, InsertAtElements
  <2>4. kids' = [kids EXCEPT ![p] = InsertAt(rest, at, n)]
    BY <1>3 DEF InsertNode
  <2>5. op \in InsertOp
    BY <2>1, <2>2 DEF InsertOp
  <2>6. Enqueue(op) /\ Schedule(batch)
    BY <1>3 DEF InsertNode
  <2> HIDE DEF rest, at, op
  <2>7. queue' \in Seq(InsertOp) /\ batch' \in Seq(Seq(InsertOp))
    BY <2>5, <2>6, EnqueueType
  <2>8. flushScheduled' \in BOOLEAN /\ frames' \in Nat
    BY <2>6, ScheduleType
  <2>9. kids' \in [Parent -> Seq(Node)]
    BY <1>0, <2>3, <2>4 DEF FlushTypeOK
  <2>10. /\ exitTimers' \in [Node -> Parent \cup {None}]
         /\ parent' \in [Node -> Parent \cup {None}]
         /\ pendingDrops' \subseteq Node /\ rescued' \subseteq Node
         /\ ready' \subseteq Node
    BY <1>0, <1>3 DEF InsertNode, Reprieve, FlushTypeOK
  <2>11. tracked' \subseteq issued'
    BY <1>0, <1>3 DEF InsertNode, MayInsert, FlushTypeOK, nativeVars
  <2>12. UNCHANGED <<pendingRemovals, exitTransitions, nativeBatching, commit,
                     nativeVars>>
    BY <1>3 DEF InsertNode
  <2> QED
    BY <1>0, <2>7, <2>8, <2>9, <2>10, <2>11, <2>12
    DEF TypeOK, HostTypeOK, FlushTypeOK, NativeTypeOK, RecordTypeOK, nativeVars
<1>4. ASSUME NEW p \in Parent, NEW n \in Node, RemoveNode(p, n) PROVE TypeOK'
  <2>1. kids' \in [Parent -> Seq(Node)]
    BY <1>0, <1>4, CutElements DEF RemoveNode, FlushTypeOK
  <2>2. flushScheduled' \in BOOLEAN /\ frames' \in Nat
    BY <1>4, ScheduleType DEF RemoveNode
  <2>3. /\ parent' \in [Node -> Parent \cup {None}]
        /\ pendingRemovals' \in [Node -> Parent \cup {None}]
        /\ rescued' \subseteq Node
    BY <1>0, <1>4 DEF RemoveNode, FlushTypeOK
  <2>4. UNCHANGED <<tracked, ready, pendingDrops, exitTransitions, exitTimers,
                    queue, batch, nativeBatching, commit, nativeVars>>
    BY <1>4 DEF RemoveNode
  <2> QED
    BY <1>0, <2>1, <2>2, <2>3, <2>4
    DEF TypeOK, HostTypeOK, FlushTypeOK, NativeTypeOK, RecordTypeOK, nativeVars
<1>5. CASE Flush
  <2>1. FlushTypeOK'
    BY <1>0, <1>5, RunFlushType DEF Flush, nativeVars
  <2> QED
    BY <1>0, <1>5, <2>1 DEF Flush, TypeOK, HostTypeOK, NativeTypeOK, RecordTypeOK, nativeVars
<1>6. CASE BeginBatch
  <2>1. FlushTypeOK'
    <3>1. CASE batch = <<>>
      BY <1>0, <1>6, <3>1, RunFlushType DEF BeginBatch, nativeVars
    <3>2. CASE batch # <<>>
      BY <1>0, <1>6, <3>2 DEF BeginBatch, FlushTypeOK, treeVars, doomVars, nativeVars
    <3> QED
      BY <3>1, <3>2
  <2>2. batch' \in Seq(Seq(InsertOp))
    BY <1>0, <1>6 DEF BeginBatch
  <2> QED
    BY <1>0, <1>6, <2>1, <2>2
    DEF BeginBatch, TypeOK, HostTypeOK, NativeTypeOK, RecordTypeOK, nativeVars
<1>7. CASE EndInnerBatch
  <2> DEFINE i == Len(batch) - 1
  <2>0. Len(batch) > 1
    BY <1>7 DEF EndInnerBatch
  <2>a. batch \in Seq(Seq(InsertOp))
    BY <1>0
  <2>1. i \in Nat \ {0} /\ Len(batch) \in Nat
    BY <2>a, <2>0
  <2>2. Front(batch) \in Seq(Seq(InsertOp)) /\ Len(Front(batch)) = i
    BY <2>a, <2>0, <2>1 DEF Front
  <2>3. Front(batch)[i] \o Last(batch) \in Seq(InsertOp)
    BY <2>a, <2>0, <2>1, <2>2 DEF Last
  <2>4. batch' = [Front(batch) EXCEPT ![i] = Front(batch)[i] \o Last(batch)]
    BY <1>7 DEF EndInnerBatch
  <2>5. i \in 1..Len(Front(batch))
    BY <2>1, <2>2
  <2> HIDE DEF i
  <2>6. batch' \in Seq(Seq(InsertOp))
    BY <2>2, <2>3, <2>4, <2>5, ExceptSeq
  <2> QED
    BY <1>0, <1>7, <2>6
    DEF EndInnerBatch, TypeOK, HostTypeOK, FlushTypeOK, NativeTypeOK, RecordTypeOK,
        treeVars, doomVars, schedVars, nativeVars
<1>8. ASSUME NEW s \in BOOLEAN, EndBatch(s) PROVE TypeOK'
  <2> DEFINE q == queue \o batch[1]
  <2>0. Len(batch) = 1 /\ batch' = <<>>
    BY <1>8 DEF EndBatch
  <2>a. queue \in Seq(InsertOp) /\ batch \in Seq(Seq(InsertOp))
    BY <1>0
  <2>b. batch[1] \in Seq(InsertOp)
    <3>1. 1 \in 1 .. Len(batch)
      BY <2>0
    <3> QED
      BY <2>a, <3>1, ElementOfSeq
  <2>1. q \in Seq(InsertOp) /\ batch' \in Seq(Seq(InsertOp))
    BY <2>a, <2>b, <2>0
  <2>2. FlushTypeOK' /\ frames' \in Nat
    <3>1. CASE s
      <4>1. RunFlush(q, <<>>, nativeBatching) /\ UNCHANGED <<frames, nativeVars>>
        BY <1>8, <3>1, Zenon DEF EndBatch
      <4> QED
        BY <1>0, <2>1, <4>1, RunFlushType DEF nativeVars
    <3>2. CASE ~s
      <4>1. /\ queue' = q /\ Schedule(<<>>)
            /\ UNCHANGED <<treeVars, doomVars, commit, nativeVars>>
        BY <1>8, <3>2, Zenon DEF EndBatch
      <4>2. flushScheduled' \in BOOLEAN /\ frames' \in Nat
        BY <4>1, ScheduleType
      <4> QED
        BY <1>0, <2>1, <4>1, <4>2 DEF FlushTypeOK, treeVars, doomVars, nativeVars
    <3> QED
      BY <3>1, <3>2
  <2>3. UNCHANGED <<nativeBatching, nativeVars>>
    BY <1>8 DEF EndBatch
  <2> QED
    BY <1>0, <2>1, <2>2, <2>3 DEF TypeOK, HostTypeOK, NativeTypeOK, RecordTypeOK, nativeVars
<1>9. CASE BeginNative
  BY <1>0, <1>9
  DEF BeginNative, TypeOK, HostTypeOK, FlushTypeOK, NativeTypeOK, RecordTypeOK,
      treeVars, doomVars, schedVars, nativeVars
<1>10. CASE EndNative
  <2>1. FlushTypeOK'
    <3>1. CASE flushScheduled
      BY <1>0, <1>10, <3>1, RunFlushType DEF EndNative, nativeVars
    <3>2. CASE ~flushScheduled
      BY <1>0, <1>10, <3>2 DEF EndNative, FlushTypeOK, treeVars, doomVars, nativeVars
    <3> QED
      BY <3>1, <3>2
  <2> QED
    BY <1>0, <1>10, <2>1
    DEF EndNative, TypeOK, HostTypeOK, NativeTypeOK, RecordTypeOK, nativeVars
<1>11. CASE AnimationFrame
  <2>1. FlushTypeOK'
    <3>1. CASE flushScheduled
      BY <1>0, <1>11, <3>1, RunFlushType DEF AnimationFrame, nativeVars
    <3>2. CASE ~flushScheduled
      BY <1>0, <1>11, <3>2
      DEF AnimationFrame, FlushTypeOK, treeVars, doomVars, nativeVars
    <3> QED
      BY <3>1, <3>2
  <2>2. frames' \in Nat
    BY <1>0, <1>11 DEF AnimationFrame
  <2> QED
    BY <1>0, <1>11, <2>1, <2>2
    DEF AnimationFrame, TypeOK, HostTypeOK, NativeTypeOK, RecordTypeOK, nativeVars
<1>12. ASSUME NEW n \in Node, ExitTimerFires(n) PROVE TypeOK'
  <2> DEFINE dead == Subtree({n})
  <2>1. dead \subseteq Node
    BY ClosureType DEF Subtree
  <2>2. exitTimers[n] \in Parent
    BY <1>0, <1>12 DEF ExitTimerFires, Exiting, FlushTypeOK
  <2>3. commit' \in [removes : SUBSET (Parent \X Node),
                    inserts : Seq(InsertOp), drops : SUBSET Node]
    <3>1. {<<exitTimers[n], n>>} \in SUBSET (Parent \X Node)
      BY <2>2
    <3>2. commit' = [removes |-> {<<exitTimers[n], n>>}, inserts |-> <<>>, drops |-> {}]
      BY <1>12 DEF ExitTimerFires, NoCommit
    <3> QED
      BY <3>1, <3>2
  <2>4. Forget(dead, exitTimers) /\ pendingDrops' = pendingDrops \cup dead
    BY <1>12 DEF ExitTimerFires
  <2>5. UNCHANGED <<pendingRemovals, rescued, ready, schedVars, queue, batch,
                    nativeBatching, nativeVars>>
    BY <1>12 DEF ExitTimerFires
  <2> HIDE DEF dead
  <2>6. /\ tracked' \subseteq issued
        /\ kids' \in [Parent -> Seq(Node)]
        /\ parent' \in [Node -> Parent \cup {None}]
        /\ exitTransitions' \subseteq Node
        /\ exitTimers' \in [Node -> Parent \cup {None}]
    BY <1>0, <2>4, ForgetType DEF FlushTypeOK
  <2>7. pendingDrops' \subseteq Node
    BY <1>0, <2>1, <2>4 DEF FlushTypeOK
  <2> QED
    BY <1>0, <2>3, <2>5, <2>6, <2>7
    DEF TypeOK, HostTypeOK, FlushTypeOK, NativeTypeOK, RecordTypeOK, schedVars, nativeVars
<1>13. CASE ApplyCommit
  <2>1. /\ commit.removes \in SUBSET (Parent \X Node)
        /\ commit.inserts \in Seq(InsertOp) /\ commit.drops \in SUBSET Node
    BY <1>0 DEF FlushTypeOK
  <2>2. issued' = issued /\ UNCHANGED hostVars
    BY <1>13 DEF ApplyCommit, CommitRemoves, CommitInsert, CommitDrops,
                 NativeRemove, NativeInsert, NativeDrop, nativeVars
  <2>3. NativeTypeOK' /\ commit' \in [removes : SUBSET (Parent \X Node),
                              inserts : Seq(InsertOp), drops : SUBSET Node]
    <3>1. CASE CommitRemoves
      <4>1. commit' = [commit EXCEPT !.removes = {}]
        BY <3>1 DEF CommitRemoves
      <4> QED
        BY <1>0, <2>1, <3>1, <4>1, NativeTypes DEF CommitRemoves, FlushTypeOK
    <3>2. CASE CommitInsert
      <4> DEFINE op == Head(commit.inserts)
      <4>1. op \in InsertOp /\ Tail(commit.inserts) \in Seq(InsertOp)
        BY <2>1, <3>2 DEF CommitInsert
      <4>2. op.parent \in Parent /\ op.child \in Node /\ op.at \in Nat
        BY <4>1 DEF InsertOp
      <4>3. NativeInsert(op.parent, op.child, op.at)
        BY <3>2 DEF CommitInsert
      <4>4. commit' = [commit EXCEPT !.inserts = Tail(commit.inserts)]
        BY <3>2 DEF CommitInsert
      <4>5. NativeTypeOK'
        BY <1>0, <4>2, <4>3, NativeTypes
      <4> QED
        BY <1>0, <4>1, <4>4, <4>5 DEF FlushTypeOK
    <3>3. CASE CommitDrops
      BY <1>0, <2>1, <3>3, NativeTypes DEF CommitDrops, NoCommit
    <3> QED
      BY <1>13, <3>1, <3>2, <3>3 DEF ApplyCommit
  <2> QED
    BY <1>0, <2>2, <2>3
    DEF TypeOK, HostTypeOK, FlushTypeOK, hostVars, treeVars, doomVars, schedVars
<1>14. CASE UNCHANGED vars
  BY <1>0, <1>14
  DEF vars, TypeOK, HostTypeOK, FlushTypeOK, NativeTypeOK, RecordTypeOK,
      treeVars, doomVars, schedVars, nativeVars
<1> QED
  BY <1>1, <1>2, <1>3, <1>4, <1>5, <1>6, <1>7, <1>8, <1>9, <1>10, <1>11,
     <1>12, <1>13, <1>14 DEF Next, RendererCall

(***************************************************************************)
(* The types of the host's state and of the native tree, whatever the      *)
(* renderer calls and whenever frames, timers and native sections come.    *)
(***************************************************************************)
THEOREM TypesHold == Spec => []TypeOK
  BY InitTyping, TypingStep, PTL DEF Spec

-----------------------------------------------------------------------------
(* Native sections. *)

\* A native section and a commit exclude each other.
QuietInv == nativeBatching \in BOOLEAN /\ (nativeBatching => ~Busy)

\* One step keeps them apart, and sends and applies nothing inside a section.
LEMMA QuietInvStep ==
  QuietInv /\ [Next]_vars =>
    /\ QuietInv'
    /\ nativeBatching /\ nativeBatching' =>
         UNCHANGED <<commit, recParent, recKids, yogaKids>>
<1> DEFINE Quiet == nativeBatching /\ nativeBatching' =>
                      UNCHANGED <<commit, recParent, recKids, yogaKids>>
<1> SUFFICES ASSUME QuietInv, [Next]_vars PROVE QuietInv' /\ Quiet
  OBVIOUS
<1> USE DEF QuietInv, Busy
<1>1. ASSUME NEW n \in Node, CreateNode(n) PROVE QuietInv' /\ Quiet
  BY <1>1 DEF CreateNode, NativeCreate
<1>2. ASSUME NEW n \in Node, NEW on \in BOOLEAN, SetExitTransition(n, on)
      PROVE QuietInv' /\ Quiet
  BY <1>2 DEF SetExitTransition, nativeVars
<1>3. ASSUME NEW p \in Parent, NEW n \in Node, NEW a \in Node \cup {None},
             InsertNode(p, n, a)
      PROVE QuietInv' /\ Quiet
  BY <1>3 DEF InsertNode, nativeVars
<1>4. ASSUME NEW p \in Parent, NEW n \in Node, RemoveNode(p, n)
      PROVE QuietInv' /\ Quiet
  BY <1>4 DEF RemoveNode, nativeVars
<1>5. CASE Flush
  BY <1>5 DEF Flush, RunFlush, nativeVars
<1>6. CASE BeginBatch
  BY <1>6 DEF BeginBatch, RunFlush, nativeVars
<1>7. CASE EndInnerBatch
  BY <1>7 DEF EndInnerBatch, nativeVars
<1>8. ASSUME NEW s \in BOOLEAN, EndBatch(s) PROVE QuietInv' /\ Quiet
  BY <1>8 DEF EndBatch, RunFlush, nativeVars
<1>9. CASE BeginNative
  BY <1>9 DEF BeginNative, Idle, nativeVars
<1>10. CASE EndNative
  BY <1>10 DEF EndNative
<1>11. CASE AnimationFrame
  BY <1>11 DEF AnimationFrame, Idle
<1>12. ASSUME NEW n \in Node, ExitTimerFires(n) PROVE QuietInv' /\ Quiet
  BY <1>12 DEF ExitTimerFires, Idle
<1>13. CASE ApplyCommit
  <2>1. Busy /\ nativeBatching' = nativeBatching
    BY <1>13 DEF ApplyCommit, CommitRemoves, CommitInsert, CommitDrops,
                 NoCommit, hostVars
  <2> QED
    BY <2>1
<1>14. CASE UNCHANGED vars
  BY <1>14 DEF vars, nativeVars
<1> QED
  BY <1>1, <1>2, <1>3, <1>4, <1>5, <1>6, <1>7, <1>8, <1>9, <1>10, <1>11,
     <1>12, <1>13, <1>14 DEF Next, RendererCall

(***************************************************************************)
(* While native code dispatches layout events the host sends no commit and *)
(* none is being applied, whatever the handlers call: runFlush holds the   *)
(* flush back and the end of the section runs it.                          *)
(***************************************************************************)
THEOREM NativeIsQuiet == Spec => NativeQuiet
<1>1. Init => QuietInv
  BY DEF Init, QuietInv, Busy
<1>2. QuietInv /\ [Next]_vars =>
        QuietInv' /\ [nativeBatching /\ nativeBatching' =>
                        UNCHANGED <<commit, recParent, recKids, yogaKids>>]_vars
  BY QuietInvStep
<1> QED
  BY <1>1, <1>2, PTL DEF Spec, NativeQuiet

-----------------------------------------------------------------------------
(* The duty to flush. *)

\* A flush that runs leaves no edit waiting and no flush scheduled.
LEMMA DoFlushArmed ==
  ASSUME NEW q, DoFlush(q)
  PROVE  queue' = <<>> /\ Removed' = {} /\ flushScheduled' = FALSE
<1>1. /\ queue' = <<>> /\ flushScheduled' = FALSE
      /\ pendingRemovals' = [n \in Node |-> None]
  BY Zenon DEF DoFlush
<1> QED
  BY <1>1 DEF Removed

\* schedule() outside a batch leaves a flush scheduled and a frame requested.
LEMMA ScheduleArmed ==
  ASSUME TypeOK, NEW b, Schedule(b),
         flushScheduled => frames > 0 \/ nativeBatching
  PROVE  /\ b = <<>> => flushScheduled'
         /\ flushScheduled' => frames' > 0 \/ nativeBatching
<1>1. frames \in Nat /\ MaxFrames \in Nat \ {0}
  BY HostAssumption DEF TypeOK, HostTypeOK
<1>2. CASE flushScheduled \/ b # <<>>
  BY <1>2 DEF Schedule, schedVars
<1>3. CASE ~(flushScheduled \/ b # <<>>)
  <2>1. /\ flushScheduled' = TRUE
        /\ frames' = IF frames < MaxFrames THEN frames + 1 ELSE frames
    BY <1>3 DEF Schedule
  <2>2. frames' > 0
    BY <1>1, <2>1
  <2> QED
    BY <2>1, <2>2
<1> QED
  BY <1>2, <1>3

\* One step hands the duty on.
LEMMA ArmedStep == TypeOK /\ FlushArmed /\ [Next]_vars => FlushArmed'
<1> SUFFICES ASSUME TypeOK, FlushArmed, [Next]_vars PROVE FlushArmed'
  OBVIOUS
<1>0. /\ queue \in Seq(InsertOp) /\ batch \in Seq(Seq(InsertOp))
      /\ frames \in Nat
  BY DEF TypeOK, HostTypeOK, FlushTypeOK
<1>b. flushScheduled \in BOOLEAN /\ nativeBatching \in BOOLEAN
  BY DEF TypeOK, HostTypeOK, FlushTypeOK
<1>1. ASSUME NEW n \in Node, CreateNode(n) PROVE FlushArmed'
  <2>1. Schedule(batch) /\ UNCHANGED <<doomVars, queue, batch, nativeBatching>>
    BY <1>1 DEF CreateNode
  <2> QED
    BY <2>1, ScheduleArmed DEF FlushArmed, Removed, doomVars, Schedule, schedVars
<1>2. ASSUME NEW n \in Node, NEW on \in BOOLEAN, SetExitTransition(n, on)
      PROVE FlushArmed'
  BY <1>2 DEF SetExitTransition, FlushArmed, Removed, schedVars
<1>3. ASSUME NEW p \in Parent, NEW n \in Node, NEW a \in Node \cup {None},
             InsertNode(p, n, a)
      PROVE FlushArmed'
  <2>1. PICK op : Enqueue(op)
    BY <1>3 DEF InsertNode
  <2>2. Schedule(batch) /\ UNCHANGED nativeBatching
    BY <1>3 DEF InsertNode
  <2>3. batch # <<>> => batch' # <<>>
    <3>1. CASE batch # <<>>
      <4>1. batch' = [batch EXCEPT ![Len(batch)] = Append(batch[Len(batch)], op)]
        BY <2>1, <3>1 DEF Enqueue
      <4>2. Len(batch') = Len(batch)
        BY <1>0, <4>1
      <4> QED
        BY <1>0, <3>1, <4>2
    <3> QED
      BY <3>1
  <2> QED
    BY <2>2, <2>3, ScheduleArmed DEF FlushArmed
<1>4. ASSUME NEW p \in Parent, NEW n \in Node, RemoveNode(p, n)
      PROVE FlushArmed'
  <2>1. Schedule(batch) /\ UNCHANGED <<batch, nativeBatching>>
    BY <1>4 DEF RemoveNode
  <2> QED
    BY <2>1, ScheduleArmed DEF FlushArmed
<1>5. CASE Flush
  BY <1>5, <1>b, DoFlushArmed DEF Flush, RunFlush, FlushArmed, Removed, doomVars
<1>6. CASE BeginBatch
  <2>1. batch' # <<>>
    BY <1>0, <1>6 DEF BeginBatch
  <2> QED
    BY <1>6, <1>b, <2>1, DoFlushArmed DEF BeginBatch, RunFlush, FlushArmed
<1>7. CASE EndInnerBatch
  <2>1. /\ batch' = [Front(batch) EXCEPT
                       ![Len(batch) - 1] = Front(batch)[Len(batch) - 1] \o Last(batch)]
        /\ Len(batch) > 1
    BY <1>7 DEF EndInnerBatch
  <2>2. Len(Front(batch)) = Len(batch) - 1 /\ Front(batch) \in Seq(Seq(InsertOp))
    BY <1>0, <2>1 DEF Front
  <2>3. Len(batch') = Len(batch) - 1
    BY <1>0, <2>1, <2>2
  <2>4. batch' # <<>> /\ batch # <<>>
    BY <1>0, <2>1, <2>3
  <2> QED
    BY <1>7, <2>4 DEF EndInnerBatch, FlushArmed, Removed, doomVars, schedVars
<1>8. ASSUME NEW s \in BOOLEAN, EndBatch(s) PROVE FlushArmed'
  <2>1. CASE s
    <3>1. /\ RunFlush(queue \o batch[1], <<>>, nativeBatching)
          /\ UNCHANGED nativeBatching
      BY <1>8, <2>1, Zenon DEF EndBatch
    <3> QED
      BY <3>1, <1>b, DoFlushArmed DEF RunFlush, FlushArmed
  <2>2. CASE ~s
    <3>1. Schedule(<<>>) /\ UNCHANGED nativeBatching
      BY <1>8, <2>2, Zenon DEF EndBatch
    <3> QED
      BY <3>1, ScheduleArmed DEF FlushArmed
  <2> QED
    BY <2>1, <2>2
<1>9. CASE BeginNative
  BY <1>9 DEF BeginNative, FlushArmed, Removed, doomVars, schedVars
<1>10. CASE EndNative
  BY <1>10, <1>b, DoFlushArmed
  DEF EndNative, RunFlush, FlushArmed, Removed, doomVars
<1>11. CASE AnimationFrame
  BY <1>11, <1>b, DoFlushArmed
  DEF AnimationFrame, Idle, RunFlush, FlushArmed, Removed, doomVars
<1>12. ASSUME NEW n \in Node, ExitTimerFires(n) PROVE FlushArmed'
  BY <1>12 DEF ExitTimerFires, FlushArmed, Removed, schedVars
<1>13. CASE ApplyCommit
  BY <1>13 DEF ApplyCommit, CommitRemoves, CommitInsert, CommitDrops, hostVars,
               FlushArmed, Removed, doomVars, schedVars
<1>14. CASE UNCHANGED vars
  BY <1>14 DEF vars, FlushArmed, Removed, doomVars, schedVars
<1> QED
  BY <1>1, <1>2, <1>3, <1>4, <1>5, <1>6, <1>7, <1>8, <1>9, <1>10, <1>11,
     <1>12, <1>13, <1>14 DEF Next, RendererCall

(***************************************************************************)
(* An edit that waits for a flush is behind an open batch or a scheduled   *)
(* flush, and a scheduled flush has a frame on its way or a native section *)
(* that will run it: schedule, runFlush, endBatch and __setNativeBatching  *)
(* never drop the duty between them.                                       *)
(***************************************************************************)
THEOREM FlushIsArmed == Spec => []FlushArmed
<1>1. Init => FlushArmed
  BY DEF Init, FlushArmed, Removed
<1> QED
  BY <1>1, InitTyping, TypingStep, ArmedStep, PTL DEF Spec

-----------------------------------------------------------------------------
(* Nodes on their way to destruction. *)

\* A flush dooms only nodes that were detached already.
LEMMA DoFlushDoomed ==
  ASSUME TypeOK, DoomedDetached, NEW q, DoFlush(q)
  PROVE  DoomedDetached'
<1> DEFINE dead    == Subtree(ready)
           exits   == Leaving \cap (exitTransitions \ dead)
           plain   == Leaving \ exits
           timers  == [n \in Node |-> IF n \in exits THEN pendingRemovals[n]
                                     ELSE exitTimers[n]]
<1>1. ready' = plain /\ pendingDrops' = {} /\ rescued' = {}
  BY Zenon DEF DoFlush
<1>2. Removed' = {}
  BY DoFlushArmed
<1>3. /\ parent' = [n \in Node |-> IF n \in dead THEN None ELSE parent[n]]
      /\ exitTimers' = [n \in Node |-> IF n \in dead THEN None ELSE timers[n]]
  BY DEF DoFlush, Forget
<1>4. \A n \in plain : n \in Node /\ parent[n] = None
  BY DEF DoomedDetached, Leaving, Removed
<1>5. \A n \in Exiting' : n \in Node /\ parent[n] = None
  BY <1>3 DEF DoomedDetached, Leaving, Removed, Exiting
<1> QED
  BY <1>1, <1>2, <1>3, <1>4, <1>5 DEF DoomedDetached

LEMMA RunFlushDoomed ==
  ASSUME TypeOK, DoomedDetached, NEW q, NEW b, NEW nb, RunFlush(q, b, nb)
  PROVE  DoomedDetached'
<1>1. CASE b # <<>> \/ nb
  BY <1>1 DEF RunFlush, DoomedDetached, Removed, Exiting, treeVars, doomVars
<1>2. CASE ~(b # <<>> \/ nb)
  BY <1>2, DoFlushDoomed DEF RunFlush
<1> QED
  BY <1>1, <1>2

\* One step keeps doomed nodes detached.
LEMMA DoomedStep == TypeOK /\ DoomedDetached /\ [Next]_vars => DoomedDetached'
<1> SUFFICES ASSUME TypeOK, DoomedDetached, [Next]_vars PROVE DoomedDetached'
  OBVIOUS
<1>0. /\ parent \in [Node -> Parent \cup {None}]
      /\ pendingRemovals \in [Node -> Parent \cup {None}]
      /\ exitTimers \in [Node -> Parent \cup {None}]
      /\ ready \subseteq Node /\ pendingDrops \subseteq Node
  BY DEF TypeOK, HostTypeOK, FlushTypeOK
<1>1. CASE UNCHANGED <<parent, pendingRemovals, rescued, ready, pendingDrops,
                       exitTimers>>
  BY <1>1 DEF DoomedDetached, Removed, Exiting
<1>2. ASSUME NEW p \in Parent, NEW n \in Node, NEW a \in Node \cup {None},
             InsertNode(p, n, a)
      PROVE DoomedDetached'
  <2>1. /\ exitTimers' = [exitTimers EXCEPT ![n] = None]
        /\ parent' = [parent EXCEPT ![n] = p]
        /\ pendingDrops' = pendingDrops \ {n} /\ ready' = ready \ {n}
        /\ rescued' = IF n \in Removed THEN rescued \cup {n} ELSE rescued
        /\ UNCHANGED pendingRemovals
    BY <1>2 DEF InsertNode, Reprieve
  <2>2. Removed' = Removed
    BY <2>1 DEF Removed
  <2>3. Exiting' = Exiting \ {n}
    BY <1>0, <2>1 DEF Exiting
  <2>4. n \notin ready' \cup pendingDrops' \cup Exiting' \cup (Removed' \ rescued')
    BY <2>1, <2>2, <2>3
  <2>5. Removed' \ rescued' \subseteq Removed \ rescued
    BY <2>1, <2>2
  <2> QED
    BY <1>0, <2>1, <2>3, <2>4, <2>5 DEF DoomedDetached, Removed, Exiting
<1>3. ASSUME NEW p \in Parent, NEW n \in Node, RemoveNode(p, n)
      PROVE DoomedDetached'
  <2>1. /\ parent' = [parent EXCEPT ![n] = None]
        /\ pendingRemovals' = [pendingRemovals EXCEPT ![n] = p]
        /\ rescued' = rescued \ {n}
        /\ UNCHANGED <<ready, pendingDrops, exitTimers>>
    BY <1>3 DEF RemoveNode
  <2>2. Removed' \subseteq Removed \cup {n} /\ Exiting' = Exiting
    BY <1>0, <2>1 DEF Removed, Exiting
  <2> QED
    BY <1>0, <2>1, <2>2 DEF DoomedDetached, Removed, Exiting
<1>4. ASSUME NEW n \in Node, ExitTimerFires(n) PROVE DoomedDetached'
  <2> DEFINE dead == Subtree({n})
  <2>1. /\ Forget(dead, exitTimers) /\ pendingDrops' = pendingDrops \cup dead
        /\ UNCHANGED <<pendingRemovals, rescued, ready>>
    BY <1>4 DEF ExitTimerFires
  <2>2. dead \subseteq Node
    BY ClosureType DEF Subtree
  <2> HIDE DEF dead
  <2>3. /\ parent' = [m \in Node |-> IF m \in dead THEN None ELSE parent[m]]
        /\ exitTimers' = [m \in Node |-> IF m \in dead THEN None ELSE exitTimers[m]]
    BY <2>1 DEF Forget
  <2>4. Exiting' \subseteq Exiting /\ Removed' = Removed
    BY <2>1, <2>3 DEF Exiting, Removed
  <2> QED
    BY <1>0, <2>1, <2>2, <2>3, <2>4 DEF DoomedDetached, Removed, Exiting
<1>5. ASSUME NEW q, NEW b, NEW nb, RunFlush(q, b, nb) PROVE DoomedDetached'
  BY <1>5, RunFlushDoomed
<1>6. \/ UNCHANGED <<parent, pendingRemovals, rescued, ready, pendingDrops,
                     exitTimers>>
      \/ \E p \in Parent, n \in Node, a \in Node \cup {None} : InsertNode(p, n, a)
      \/ \E p \in Parent, n \in Node : RemoveNode(p, n)
      \/ \E n \in Node : ExitTimerFires(n)
      \/ RunFlush(queue, batch, nativeBatching)
      \/ RunFlush(queue \o batch[1], <<>>, nativeBatching)
      \/ RunFlush(queue, batch, FALSE)
  BY DEF Next, RendererCall, CreateNode, SetExitTransition, Flush, BeginBatch,
         EndInnerBatch, EndBatch, BeginNative, EndNative, AnimationFrame,
         ApplyCommit, CommitRemoves, CommitInsert, CommitDrops,
         vars, treeVars, doomVars, hostVars
<1> QED
  BY <1>1, <1>2, <1>3, <1>4, <1>5, <1>6

(***************************************************************************)
(* A node on its way to destruction has no parent in the host's tree, for  *)
(* every order of insertions, removals, flushes and exit timers.           *)
(***************************************************************************)
THEOREM DoomedIsDetached == Spec => []DoomedDetached
<1>1. Init => DoomedDetached
  BY DEF Init, DoomedDetached, Removed, Exiting
<1> QED
  BY <1>1, InitTyping, TypingStep, DoomedStep, PTL DEF Spec

-----------------------------------------------------------------------------
(* No node is lost. *)

LEMMA ClosureHasStart ==
  ASSUME NEW S \in SUBSET Node, NEW f
  PROVE  S \subseteq Closure(S, f)
  BY DEF Closure

\* What a flush forgets, it drops.
LEMMA RunFlushLeak ==
  ASSUME NoLeak, ~Busy, NEW q, NEW b, NEW nb, RunFlush(q, b, nb),
         UNCHANGED alive
  PROVE  NoLeak'
<1>1. CASE b # <<>> \/ nb
  BY <1>1 DEF RunFlush, NoLeak, treeVars, doomVars
<1>2. CASE ~(b # <<>> \/ nb)
  <2> DEFINE dead == Subtree(ready)
  <2>1. DoFlush(q)
    BY <1>2 DEF RunFlush
  <2>2. commit'.drops = pendingDrops \cup dead
    BY <2>1 DEF DoFlush
  <2>3. tracked' = tracked \ dead
    BY <2>1 DEF DoFlush, Forget
  <2>4. commit.drops = {}
    BY DEF Busy, NoCommit
  <2> QED
    BY <2>2, <2>3, <2>4 DEF NoLeak
<1> QED
  BY <1>1, <1>2

\* One step loses no node.
LEMMA LeakStep == TypeOK /\ NoLeak /\ [Next]_vars => NoLeak'
<1> SUFFICES ASSUME TypeOK, NoLeak, [Next]_vars PROVE NoLeak'
  OBVIOUS
<1>1. CASE UNCHANGED <<alive, tracked, pendingDrops, commit>>
  BY <1>1 DEF NoLeak
<1>2. ASSUME NEW n \in Node, CreateNode(n) PROVE NoLeak'
  BY <1>2 DEF CreateNode, NativeCreate, NoLeak, doomVars
<1>3. ASSUME NEW p \in Parent, NEW n \in Node, NEW a \in Node \cup {None},
             InsertNode(p, n, a)
      PROVE NoLeak'
  BY <1>3 DEF InsertNode, Reprieve, NoLeak, nativeVars
<1>4. ASSUME NEW q, NEW b, NEW nb, RunFlush(q, b, nb), ~Busy, UNCHANGED alive
      PROVE NoLeak'
  BY <1>4, RunFlushLeak
<1>5. ASSUME NEW n \in Node, ExitTimerFires(n) PROVE NoLeak'
  <2>1. commit.drops = {}
    BY <1>5 DEF ExitTimerFires, Idle, Busy, NoCommit
  <2>2. /\ tracked' = tracked \ Subtree({n}) /\ alive' = alive
        /\ pendingDrops' = pendingDrops \cup Subtree({n})
    BY <1>5 DEF ExitTimerFires, Forget, nativeVars
  <2> QED
    BY <2>1, <2>2 DEF NoLeak
<1>6. CASE CommitRemoves
  BY <1>6 DEF CommitRemoves, NativeRemove, NoLeak, hostVars, treeVars, doomVars
<1>7. CASE CommitInsert
  <2>1. alive' = alive
    BY <1>7 DEF CommitInsert, NativeInsert, nativeVars
  <2>2. commit' = [commit EXCEPT !.inserts = Tail(commit.inserts)]
    BY <1>7 DEF CommitInsert
  <2>3. commit'.drops = commit.drops
    BY <2>2 DEF TypeOK, HostTypeOK, FlushTypeOK
  <2> QED
    BY <1>7, <2>1, <2>3 DEF CommitInsert, NoLeak, hostVars, treeVars, doomVars
<1>8. CASE CommitDrops
  <2> DEFINE dead == Closure(commit.drops \cap alive, recKids)
  <2>1. commit.drops \cap alive \in SUBSET Node
    BY DEF TypeOK, NativeTypeOK, RecordTypeOK
  <2>2. commit.drops \cap alive \subseteq dead
    BY <2>1, ClosureHasStart
  <2>3. alive' = alive \ dead
    BY <1>8 DEF CommitDrops, NativeDrop
  <2> QED
    BY <1>8, <2>2, <2>3 DEF CommitDrops, NoLeak, hostVars, treeVars, doomVars
<1>9. \/ UNCHANGED <<alive, tracked, pendingDrops, commit>>
      \/ \E n \in Node : CreateNode(n) \/ ExitTimerFires(n)
      \/ \E p \in Parent, n \in Node, a \in Node \cup {None} : InsertNode(p, n, a)
      \/ /\ ~Busy /\ UNCHANGED alive
         /\ \/ RunFlush(queue, batch, nativeBatching)
            \/ RunFlush(queue \o batch[1], <<>>, nativeBatching)
            \/ RunFlush(queue, batch, FALSE)
      \/ CommitRemoves \/ CommitInsert \/ CommitDrops
  BY DEF Next, RendererCall, SetExitTransition, RemoveNode, Flush, BeginBatch,
         EndInnerBatch, EndBatch, BeginNative, EndNative, AnimationFrame, Idle,
         ApplyCommit, vars, treeVars, doomVars, nativeVars
<1> QED
  BY <1>1, <1>2, <1>3, <1>4, <1>5, <1>6, <1>7, <1>8, <1>9

(***************************************************************************)
(* A node that lives natively is known to the host, or its drop is         *)
(* recorded or being applied: destroySubtreeTracking, the exit timer and   *)
(* insertNode lose none between them.                                      *)
(***************************************************************************)
THEOREM NothingLeaks == Spec => []NoLeak
<1>1. Init => NoLeak
  BY DEF Init, NativeInit, NoLeak
<1> QED
  BY <1>1, InitTyping, TypingStep, LeakStep, PTL DEF Spec
-----------------------------------------------------------------------------
(* Reachability. *)

LEMMA ClosureClosed ==
  ASSUME NEW S, NEW f, NEW x \in Closure(S, f), NEW y \in Node, y \in f[x]
  PROVE  y \in Closure(S, f)
  BY DEF Closure

LEMMA ClosureLeast ==
  ASSUME NEW S, NEW f, NEW T \in SUBSET Node, S \subseteq T,
         \A x \in T : f[x] \subseteq T
  PROVE  Closure(S, f) \subseteq T
  BY DEF Closure

\* Nodes out of reach do not count.
LEMMA ClosureSame ==
  ASSUME NEW S \in SUBSET Node, NEW f, NEW g,
         \A x \in Closure(S, f) : f[x] \subseteq Node /\ g[x] = f[x]
  PROVE  Closure(S, g) = Closure(S, f)
<1> DEFINE C == Closure(S, f)
           D == Closure(S, g)
<1>1. C \in SUBSET Node /\ D \in SUBSET Node /\ S \subseteq C /\ S \subseteq D
  BY ClosureType, ClosureHasStart
<1>2. \A x \in C : f[x] \subseteq C
  BY ClosureClosed
<1>3. D \subseteq C
  <2>1. \A x \in C : g[x] \subseteq C
    BY <1>2
  <2> HIDE DEF C
  <2> QED
    BY <1>1, <2>1, ClosureLeast
<1>4. C \subseteq D
  <2> DEFINE T == C \cap D
  <2>1. \A x \in D : \A y \in g[x] : y \in Node => y \in D
    BY ClosureClosed
  <2>2. \A x \in T : f[x] \subseteq T
    BY <1>2, <2>1
  <2>3. T \in SUBSET Node /\ S \subseteq T
    BY <1>1
  <2>4. Closure(S, f) \subseteq T
    <3> HIDE DEF T
    <3> QED
      BY <2>2, <2>3, ClosureLeast
  <2> QED
    BY <2>4
<1> QED
  BY <1>3, <1>4

-----------------------------------------------------------------------------
(* One tree. *)

\* Children are nodes, so a subtree is closed under them.
LEMMA SubtreeClosed ==
  ASSUME TypeOK, TreeConsistent, NEW S \in SUBSET Node
  PROVE  /\ S \subseteq Subtree(S) /\ Subtree(S) \subseteq Node
         /\ \A x \in Node : kidSets[x] \subseteq Node
         /\ \A x, y \in Node : y \in kidSets[x] <=> parent[y] = x
         /\ \A x, y \in Node : x \in Subtree(S) /\ parent[y] = x => y \in Subtree(S)
<1>1. \A x \in Node : kidSets[x] = ToSet(kids[x]) /\ kids[x] \in Seq(Node)
  BY DEF kidSets, TypeOK, HostTypeOK, FlushTypeOK, Parent
<1>2. \A x \in Node : ToSet(kids[x]) \subseteq Node
  BY <1>1, LenProperties, ElementOfSeq DEF ToSet
<1>3. \A x, y \in Node : y \in kidSets[x] <=> parent[y] = x
  BY <1>1 DEF TreeConsistent, Parent
<1>4. S \subseteq Subtree(S) /\ Subtree(S) \subseteq Node
  BY ClosureHasStart, ClosureType DEF Subtree
<1>5. \A x, y \in Node : x \in Subtree(S) /\ parent[y] = x => y \in Subtree(S)
  BY <1>3, ClosureClosed DEF Subtree
<1> QED
  BY <1>1, <1>2, <1>3, <1>4, <1>5

\* Below detached nodes everyone but them has a parent that is there too.
LEMMA SubtreeParents ==
  ASSUME TypeOK, TreeConsistent, NEW S \in SUBSET Node
  PROVE  \A n \in Subtree(S) : n \in S \/ parent[n] \in Subtree(S)
<1> DEFINE T == {n \in Subtree(S) : n \in S \/ parent[n] \in Subtree(S)}
<1>1. S \subseteq T /\ T \in SUBSET Node
  BY SubtreeClosed
<1>2. \A x \in T : kidSets[x] \subseteq T
  BY SubtreeClosed
<1>3. Subtree(S) \subseteq T
  <2> HIDE DEF T
  <2> QED
    BY <1>1, <1>2, ClosureLeast DEF Subtree
<1> QED
  BY <1>3

\* destroySubtreeTracking cuts whole subtrees off.
LEMMA ForgetTree ==
  ASSUME TypeOK, TreeConsistent, NEW S \in SUBSET Node,
         \A n \in S : parent[n] = None, NEW timers, Forget(Subtree(S), timers)
  PROVE  TreeConsistent'
<1> DEFINE dead == Subtree(S)
<1>1. /\ kids' = [p \in Parent |-> IF p \in dead THEN <<>> ELSE kids[p]]
      /\ parent' = [n \in Node |-> IF n \in dead THEN None ELSE parent[n]]
  BY DEF Forget
<1>2. \A n \in dead : parent[n] = None \/ parent[n] \in dead
  BY SubtreeParents
<1>3. \A x, y \in Node : x \in dead /\ parent[y] = x => y \in dead
  BY SubtreeClosed
<1>d. dead \subseteq Node
  BY SubtreeClosed
<1> HIDE DEF dead
<1>4. \A p \in Parent : p # None
  BY NodeAssumption DEF Parent
<1>5. IsInjective(<<>>) /\ ToSet(<<>>) = {}
  BY EmptySeq DEF IsInjective, ToSet
<1> SUFFICES ASSUME NEW p \in Parent
             PROVE  /\ IsInjective(kids'[p])
                    /\ \A n \in Node : n \in ToSet(kids'[p]) <=> parent'[n] = p
  BY DEF TreeConsistent
<1>6. CASE p \in dead
  <2>1. kids'[p] = <<>>
    BY <1>1, <1>6
  <2>2. \A n \in Node : parent'[n] # p
    BY <1>1, <1>3, <1>4, <1>6, <1>d
  <2> QED
    BY <1>5, <2>1, <2>2
<1>7. CASE p \notin dead
  <2>1. kids'[p] = kids[p]
    BY <1>1, <1>7
  <2>2. \A n \in Node : parent'[n] = p <=> parent[n] = p
    BY <1>1, <1>2, <1>4, <1>7
  <2> QED
    BY <2>1, <2>2 DEF TreeConsistent
<1> QED
  BY <1>6, <1>7

\* A flush forgets what the previous one removed, which was detached.
LEMMA RunFlushTree ==
  ASSUME TypeOK, TreeConsistent, DoomedDetached, NEW q, NEW b, NEW nb,
         RunFlush(q, b, nb)
  PROVE  TreeConsistent'
<1>1. CASE b # <<>> \/ nb
  BY <1>1 DEF RunFlush, TreeConsistent, treeVars
<1>2. CASE ~(b # <<>> \/ nb)
  <2>1. PICK timers : Forget(Subtree(ready), timers)
    BY <1>2 DEF RunFlush, DoFlush
  <2>2. ready \in SUBSET Node /\ \A n \in ready : parent[n] = None
    BY DEF TypeOK, HostTypeOK, FlushTypeOK, DoomedDetached
  <2> QED
    BY <2>1, <2>2, ForgetTree
<1> QED
  BY <1>1, <1>2

\* One step of an app that does not move nodes without removing them.
LEMMA TreeStep ==
  ASSUME "move" \notin Liberties, TypeOK, DoomedDetached, TreeConsistent, [Next]_vars
  PROVE  TreeConsistent'
<1>0. kids \in [Parent -> Seq(Node)] /\ parent \in [Node -> Parent \cup {None}]
  BY DEF TypeOK, HostTypeOK, FlushTypeOK
<1>n. \A p \in Parent : p # None
  BY NodeAssumption DEF Parent
<1>1. CASE UNCHANGED <<kids, parent>>
  BY <1>1 DEF TreeConsistent
<1>2. ASSUME NEW p \in Parent, NEW n \in Node, NEW a \in Node \cup {None},
             InsertNode(p, n, a)
      PROVE  TreeConsistent'
  <2> DEFINE rest == Cut(kids[p], n)
             at   == IF a = None THEN Len(rest) + 1 ELSE IndexOf(rest, a)
  <2>1. /\ kids' = [kids EXCEPT ![p] = InsertAt(rest, at, n)]
        /\ parent' = [parent EXCEPT ![n] = p]
        /\ parent[n] \in {None, p}
        /\ a = None \/ a \in ToSet(rest)
    BY <1>2 DEF InsertNode, MayInsert
  <2>2. /\ rest \in Seq(Node) /\ IsInjective(rest)
        /\ ToSet(rest) = ToSet(kids[p]) \ {n}
    BY <1>0, CutElements DEF TreeConsistent
  <2>3. at \in 1 .. Len(rest) + 1
    <3>1. Len(rest) \in Nat
      BY <2>2, LenProperties
    <3>2. a # None => IndexOf(rest, a) \in 1 .. Len(rest)
      BY <2>1, <2>2, IndexOfType
    <3> HIDE DEF rest
    <3> QED
      BY <3>1, <3>2
  <2> HIDE DEF rest, at
  <2>4. /\ IsInjective(InsertAt(rest, at, n))
        /\ ToSet(InsertAt(rest, at, n)) = ToSet(rest) \cup {n}
    BY <2>2, <2>3, InsertAtElements
  <2>5. kids'[p] = InsertAt(rest, at, n) /\ \A r \in Parent : r # p => kids'[r] = kids[r]
    BY <1>0, <2>1
  <2>6. parent'[n] = p /\ \A m \in Node : m # n => parent'[m] = parent[m]
    BY <1>0, <2>1
  <2>7. \A m \in Node : m \in ToSet(kids'[p]) <=> parent'[m] = p
    BY <2>2, <2>4, <2>5, <2>6 DEF TreeConsistent
  <2>8. \A r \in Parent, m \in Node : r # p => (m \in ToSet(kids'[r]) <=> parent'[m] = r)
    BY <1>n, <2>1, <2>5, <2>6 DEF TreeConsistent
  <2> QED
    BY <2>4, <2>5, <2>7, <2>8 DEF TreeConsistent
<1>3. ASSUME NEW p \in Parent, NEW n \in Node, RemoveNode(p, n)
      PROVE  TreeConsistent'
  <2>1. /\ kids' = [kids EXCEPT ![p] = Cut(kids[p], n)]
        /\ parent' = [parent EXCEPT ![n] = None]
        /\ n \in ToSet(kids[p])
    BY <1>3 DEF RemoveNode
  <2>2. IsInjective(Cut(kids[p], n)) /\ ToSet(Cut(kids[p], n)) = ToSet(kids[p]) \ {n}
    BY <1>0, CutElements DEF TreeConsistent
  <2>3. kids'[p] = Cut(kids[p], n) /\ \A r \in Parent : r # p => kids'[r] = kids[r]
    BY <1>0, <2>1
  <2>4. parent'[n] = None /\ \A m \in Node : m # n => parent'[m] = parent[m]
    BY <1>0, <2>1
  <2>5. parent[n] = p
    BY <2>1 DEF TreeConsistent
  <2>6. \A m \in Node : m \in ToSet(kids'[p]) <=> parent'[m] = p
    BY <1>n, <2>2, <2>3, <2>4 DEF TreeConsistent
  <2>7. \A r \in Parent, m \in Node : r # p => (m \in ToSet(kids'[r]) <=> parent'[m] = r)
    BY <1>n, <2>3, <2>4, <2>5 DEF TreeConsistent
  <2> QED
    BY <2>2, <2>3, <2>6, <2>7 DEF TreeConsistent
<1>4. ASSUME NEW n \in Node, ExitTimerFires(n) PROVE TreeConsistent'
  <2>1. Forget(Subtree({n}), exitTimers) /\ n \in Exiting
    BY <1>4 DEF ExitTimerFires
  <2>2. {n} \in SUBSET Node /\ \A m \in {n} : parent[m] = None
    BY <2>1 DEF DoomedDetached
  <2> QED
    BY <2>1, <2>2, ForgetTree
<1>5. ASSUME NEW q, NEW b, NEW nb, RunFlush(q, b, nb) PROVE TreeConsistent'
  BY <1>5, RunFlushTree
<1>6. \/ UNCHANGED <<kids, parent>>
      \/ \E p \in Parent, n \in Node, a \in Node \cup {None} : InsertNode(p, n, a)
      \/ \E p \in Parent, n \in Node : RemoveNode(p, n)
      \/ \E n \in Node : ExitTimerFires(n)
      \/ RunFlush(queue, batch, nativeBatching)
      \/ RunFlush(queue \o batch[1], <<>>, nativeBatching)
      \/ RunFlush(queue, batch, FALSE)
  BY DEF Next, RendererCall, CreateNode, SetExitTransition, Flush, BeginBatch,
         EndInnerBatch, EndBatch, BeginNative, EndNative, AnimationFrame,
         ApplyCommit, CommitRemoves, CommitInsert, CommitDrops,
         vars, treeVars, hostVars
<1> QED
  BY <1>1, <1>2, <1>3, <1>4, <1>5, <1>6

(***************************************************************************)
(* CHILDREN and PARENTS describe one tree, in which every node is among    *)
(* the children of its parent once and of nobody else, in every app that   *)
(* takes a node away from one parent before it gives it to another:        *)
(* insertNode leaves the lists of other parents alone.                     *)
(***************************************************************************)
THEOREM TreeIsConsistent ==
  ASSUME "move" \notin Liberties
  PROVE  Spec => []TreeConsistent
<1>1. Init => TreeConsistent
  <2> SUFFICES ASSUME Init PROVE TreeConsistent
    OBVIOUS
  <2>1. IsInjective(<<>>) /\ ToSet(<<>>) = {}
    BY EmptySeq DEF IsInjective, ToSet
  <2>2. \A p \in Parent : p # None
    BY NodeAssumption DEF Parent
  <2>3. \A p \in Parent : kids[p] = <<>> /\ \A n \in Node : parent[n] = None
    BY DEF Init
  <2> QED
    BY <2>1, <2>2, <2>3 DEF TreeConsistent
<1>2. TypeOK /\ DoomedDetached /\ TreeConsistent /\ [Next]_vars => TreeConsistent'
  BY TreeStep
<1> QED
  BY <1>1, <1>2, InitTyping, TypingStep, DoomedIsDetached, PTL DEF Spec
-----------------------------------------------------------------------------
(* The kinds of steps. *)

\* The insertions among q and the batches b.
OpsOf(q, b) == ToSet(q) \cup (UNION {ToSet(b[i]) : i \in DOMAIN b})

\* Opening and closing batches, and queueing, lose no insertion.
LEMMA OpsOfBatches ==
  ASSUME NEW X, NEW q \in Seq(X), NEW b \in Seq(Seq(X))
  PROVE  /\ OpsOf(q, <<>>) = ToSet(q)
         /\ OpsOf(q, Append(b, <<>>)) = OpsOf(q, b)
         /\ Len(b) = 1 => /\ q \o b[1] \in Seq(X)
                          /\ ToSet(q \o b[1]) = OpsOf(q, b)
         /\ Len(b) > 1 =>
              OpsOf(q, [Front(b) EXCEPT ![Len(b) - 1] = @ \o Last(b)]) = OpsOf(q, b)
<1>0. Len(b) \in Nat /\ DOMAIN b = 1 .. Len(b) /\ \A i \in 1 .. Len(b) : b[i] \in Seq(X)
  BY LenProperties, ElementOfSeq
<1>1. OpsOf(q, <<>>) = ToSet(q)
  BY EmptySeq DEF OpsOf
<1>2. OpsOf(q, Append(b, <<>>)) = OpsOf(q, b)
  <2> DEFINE c == Append(b, <<>>)
  <2>1. /\ DOMAIN c = 1 .. Len(b) + 1 /\ c[Len(b) + 1] = <<>>
        /\ \A i \in 1 .. Len(b) : c[i] = b[i]
    <3>1. <<>> \in Seq(X)
      BY EmptySeq
    <3>2. /\ c \in Seq(Seq(X)) /\ Len(c) = Len(b) + 1 /\ c[Len(b) + 1] = <<>>
          /\ \A i \in 1 .. Len(b) : c[i] = b[i]
      BY <3>1, AppendProperties
    <3> QED
      BY <3>2, LenProperties
  <2>2. ToSet(<<>>) = {}
    BY EmptySeq DEF ToSet
  <2>3. \A i \in 1 .. Len(b) + 1 : i \in 1 .. Len(b) \/ i = Len(b) + 1
    BY <1>0
  <2>4. \A i \in 1 .. Len(b) : i \in 1 .. Len(b) + 1
    BY <1>0
  <2> HIDE DEF c
  <2>5. UNION {ToSet(c[i]) : i \in DOMAIN c} \subseteq UNION {ToSet(b[i]) : i \in DOMAIN b}
    BY <1>0, <2>1, <2>2, <2>3
  <2>6. UNION {ToSet(b[i]) : i \in DOMAIN b} \subseteq UNION {ToSet(c[i]) : i \in DOMAIN c}
    BY <1>0, <2>1, <2>4
  <2> QED
    BY <2>5, <2>6 DEF OpsOf, c
<1>3. ASSUME Len(b) = 1
      PROVE  q \o b[1] \in Seq(X) /\ ToSet(q \o b[1]) = OpsOf(q, b)
  <2>1. DOMAIN b = {1} /\ b[1] \in Seq(X)
    BY <1>0, <1>3
  <2>2. UNION {ToSet(b[i]) : i \in DOMAIN b} = ToSet(b[1])
    BY <2>1
  <2> QED
    BY <2>1, <2>2, ConcatElements DEF OpsOf
<1>4. ASSUME Len(b) > 1
      PROVE  OpsOf(q, [Front(b) EXCEPT ![Len(b) - 1] = @ \o Last(b)]) = OpsOf(q, b)
  <2> DEFINE f == Front(b)
             k == Len(b) - 1
             c == [f EXCEPT ![k] = f[k] \o Last(b)]
  <2>1. k \in Nat /\ 1 <= k /\ Len(b) = k + 1
    BY <1>0, <1>4
  <2>2. DOMAIN f = 1 .. k /\ \A i \in 1 .. k : f[i] = b[i]
    BY <2>1, FrontEntries
  <2>3. Last(b) = b[k + 1] /\ b[k + 1] \in Seq(X) /\ b[k] \in Seq(X)
    BY <1>0, <2>1 DEF Last
  <2> HIDE DEF f, k
  <2>4. /\ DOMAIN c = 1 .. k /\ c[k] = b[k] \o b[k + 1]
        /\ \A i \in 1 .. k : i # k => c[i] = b[i]
    <3>1. k \in 1 .. k
      BY <2>1
    <3>2. DOMAIN c = DOMAIN f /\ (k \in DOMAIN f => c[k] = f[k] \o Last(b))
          /\ \A i \in DOMAIN f : i # k => c[i] = f[i]
      OBVIOUS
    <3> HIDE DEF c
    <3> QED
      BY <2>2, <2>3, <3>1, <3>2
  <2> HIDE DEF c
  <2>5. ToSet(c[k]) = ToSet(b[k]) \cup ToSet(b[k + 1])
    BY <2>3, <2>4, ConcatElements
  <2>6. DOMAIN b = 1 .. k + 1 /\ k \in 1 .. k /\ k + 1 \in 1 .. k + 1 /\ k \in 1 .. k + 1
    BY <1>0, <2>1
  <2>7. \A i \in 1 .. k + 1 : i = k \/ i = k + 1 \/ (i \in 1 .. k /\ i # k)
    BY <2>1
  <2>8. \A i \in 1 .. k : i \in 1 .. k + 1
    BY <2>1
  <2>9. UNION {ToSet(c[i]) : i \in DOMAIN c} \subseteq UNION {ToSet(b[i]) : i \in DOMAIN b}
    BY <2>4, <2>5, <2>6, <2>8
  <2>10. UNION {ToSet(b[i]) : i \in DOMAIN b} \subseteq UNION {ToSet(c[i]) : i \in DOMAIN c}
    BY <2>4, <2>5, <2>6, <2>7
  <2> QED
    BY <2>9, <2>10 DEF OpsOf, c, f, k
<1> QED
  BY <1>1, <1>2, <1>3, <1>4

\* enqueueBatchOp and tryEnqueueBatch add the operation, wherever it goes.
LEMMA EnqueueOps ==
  ASSUME TypeOK, NEW op \in InsertOp, Enqueue(op)
  PROVE  Waiting' = Waiting \cup {op}
<1>1. queue \in Seq(InsertOp) /\ batch \in Seq(Seq(InsertOp))
  BY DEF TypeOK, HostTypeOK, FlushTypeOK
<1>2. CASE batch = <<>>
  <2>1. queue' = Append(queue, op) /\ batch' = batch
    BY <1>2 DEF Enqueue
  <2>2. ToSet(queue') = ToSet(queue) \cup {op}
    BY <1>1, <2>1, AppendElements
  <2> QED
    BY <2>1, <2>2 DEF Waiting
<1>3. CASE batch # <<>>
  <2> DEFINE k == Len(batch)
             t == Append(batch[k], op)
  <2>1. queue' = queue /\ batch' = [batch EXCEPT ![k] = t]
    BY <1>3 DEF Enqueue
  <2>2. k \in 1 .. Len(batch) /\ DOMAIN batch = 1 .. k
    <3>1. Len(batch) \in Nat /\ Len(batch) # 0
      BY <1>1, <1>3, LenProperties, EmptySeq
    <3> QED
      BY <1>1, <3>1, LenProperties
  <2>3. batch[k] \in Seq(InsertOp)
    BY <1>1, <2>2, ElementOfSeq
  <2>4. ToSet(t) = ToSet(batch[k]) \cup {op}
    BY <2>3, AppendElements
  <2> HIDE DEF k, t
  <2>5. batch'[k] = t /\ DOMAIN batch' = DOMAIN batch /\ k \in DOMAIN batch
        /\ \A i \in DOMAIN batch : i # k => batch'[i] = batch[i]
    BY <2>1, <2>2 DEF k
  <2>6. UNION {ToSet(batch'[i]) : i \in DOMAIN batch'}
          = (UNION {ToSet(batch[i]) : i \in DOMAIN batch}) \cup {op}
    BY <2>4, <2>5
  <2> QED
    BY <2>1, <2>6 DEF Waiting
<1> QED
  BY <1>2, <1>3

\* What the tree and the lists of doomed nodes consist of.
treeState == <<tracked, kids, parent, pendingRemovals, rescued, ready,
               pendingDrops, exitTimers, commit, nativeVars>>

\* A step that leaves them alone, and a flush that is carried out.
QuietStep == UNCHANGED treeState /\ Waiting' = Waiting
FlushStep ==
  /\ ~Busy /\ UNCHANGED nativeVars /\ Waiting' = {}
  /\ \E q \in Seq(InsertOp) : ToSet(q) = Waiting /\ DoFlush(q)

\* runFlush outside a commit is one of the two.
LEMMA RunFlushKinds ==
  ASSUME TypeOK, ~Busy, UNCHANGED nativeVars,
         NEW q \in Seq(InsertOp), NEW b, NEW nb, RunFlush(q, b, nb),
         OpsOf(q, batch') = Waiting, b = <<>> => ToSet(q) = Waiting /\ OpsOf(<<>>, batch') = {}
  PROVE  QuietStep \/ FlushStep
<1>1. CASE b # <<>> \/ nb
  <2>1. queue' = q /\ UNCHANGED <<treeVars, doomVars, commit>>
    BY <1>1 DEF RunFlush
  <2>2. Waiting' = OpsOf(queue', batch')
    BY DEF Waiting, OpsOf
  <2> QED
    BY <2>1, <2>2 DEF QuietStep, treeState, treeVars, doomVars
<1>2. CASE ~(b # <<>> \/ nb)
  <2>1. DoFlush(q)
    BY <1>2 DEF RunFlush
  <2>2. queue' = <<>>
    BY <2>1, DoFlushArmed
  <2>3. Waiting' = OpsOf(queue', batch')
    BY DEF Waiting, OpsOf
  <2> QED
    BY <1>2, <2>1, <2>2, <2>3 DEF FlushStep
<1> QED
  BY <1>1, <1>2

LEMMA StepKinds ==
  ASSUME TypeOK, [Next]_vars
  PROVE  \/ QuietStep \/ FlushStep
         \/ \E n \in Node : CreateNode(n) \/ ExitTimerFires(n)
         \/ \E p \in Parent, n \in Node, a \in Node \cup {None} : InsertNode(p, n, a)
         \/ \E p \in Parent, n \in Node : RemoveNode(p, n)
         \/ CommitRemoves \/ CommitInsert \/ CommitDrops
<1>0. queue \in Seq(InsertOp) /\ batch \in Seq(Seq(InsertOp))
  BY DEF TypeOK, HostTypeOK, FlushTypeOK
<1>w. Waiting = OpsOf(queue, batch) /\ Waiting' = OpsOf(queue', batch')
  BY DEF Waiting, OpsOf
<1>e. <<>> \in Seq(InsertOp) /\ ToSet(<<>>) = {} /\ <<>> \in Seq(Seq(InsertOp))
  BY EmptySeq DEF ToSet
<1>1. ASSUME NEW n \in Node, NEW on \in BOOLEAN, SetExitTransition(n, on)
      PROVE  QuietStep
  BY <1>1, <1>w DEF SetExitTransition, QuietStep, treeState, treeVars
<1>2. ASSUME Flush PROVE QuietStep \/ FlushStep
  <2>1. /\ ~Busy /\ UNCHANGED nativeVars /\ batch' = batch
        /\ RunFlush(queue, batch, nativeBatching)
    BY <1>2 DEF Flush
  <2>2. batch = <<>> => ToSet(queue) = Waiting /\ OpsOf(<<>>, batch) = {}
    BY <1>0, <1>e, <1>w, OpsOfBatches
  <2> QED
    BY <1>0, <1>w, <2>1, <2>2, RunFlushKinds
<1>3. ASSUME BeginBatch PROVE QuietStep \/ FlushStep
  <2>1. /\ ~Busy /\ UNCHANGED nativeVars /\ batch' = Append(batch, <<>>)
    BY <1>3 DEF BeginBatch
  <2>2. OpsOf(queue, batch') = Waiting
    BY <1>0, <1>w, <2>1, OpsOfBatches
  <2>3. CASE batch = <<>>
    <3>1. RunFlush(queue, <<>>, nativeBatching)
      BY <1>3, <2>3 DEF BeginBatch
    <3>2. ToSet(queue) = Waiting
      BY <1>0, <1>w, <2>3, OpsOfBatches
    <3>3. OpsOf(<<>>, batch') = {}
      BY <1>e, <2>1, <2>3, OpsOfBatches
    <3> QED
      BY <1>0, <2>1, <2>2, <3>1, <3>2, <3>3, RunFlushKinds
  <2>4. CASE batch # <<>>
    <3>1. UNCHANGED <<treeVars, doomVars, flushScheduled, queue, commit>>
      BY <1>3, <2>4 DEF BeginBatch
    <3> QED
      BY <1>w, <2>1, <2>2, <3>1 DEF QuietStep, treeState, treeVars, doomVars
  <2> QED
    BY <2>3, <2>4
<1>4. ASSUME EndInnerBatch PROVE QuietStep
  <2>1. /\ Len(batch) > 1 /\ UNCHANGED <<treeVars, doomVars, queue, commit, nativeVars>>
        /\ batch' = [Front(batch) EXCEPT ![Len(batch) - 1] = @ \o Last(batch)]
    BY <1>4 DEF EndInnerBatch
  <2>2. OpsOf(queue, batch') = OpsOf(queue, batch)
    BY <1>0, <2>1, OpsOfBatches
  <2> QED
    BY <1>w, <2>1, <2>2 DEF QuietStep, treeState, treeVars, doomVars
<1>5. ASSUME NEW s \in BOOLEAN, EndBatch(s) PROVE QuietStep \/ FlushStep
  <2> DEFINE q == queue \o batch[1]
  <2>1. ~Busy /\ UNCHANGED nativeVars /\ batch' = <<>> /\ Len(batch) = 1
    BY <1>5 DEF EndBatch
  <2>2. q \in Seq(InsertOp) /\ ToSet(q) = Waiting
    BY <1>0, <1>w, <2>1, OpsOfBatches
  <2>3. s => RunFlush(q, <<>>, nativeBatching)
    BY <1>5 DEF EndBatch
  <2>4. ~s => queue' = q /\ UNCHANGED <<treeVars, doomVars, commit>>
    BY <1>5 DEF EndBatch
  <2> HIDE DEF q
  <2>5. OpsOf(q, batch') = Waiting /\ OpsOf(<<>>, batch') = {}
    BY <1>e, <2>1, <2>2, OpsOfBatches
  <2>6. CASE s
    BY <2>1, <2>2, <2>3, <2>5, <2>6, RunFlushKinds
  <2>7. CASE ~s
    BY <1>w, <2>1, <2>4, <2>5, <2>7 DEF QuietStep, treeState, treeVars, doomVars
  <2> QED
    BY <2>6, <2>7
<1>6. ASSUME BeginNative PROVE QuietStep
  BY <1>6, <1>w DEF BeginNative, QuietStep, treeState, treeVars, doomVars
<1>7. ASSUME NEW nb, RunFlush(queue, batch, nb), ~Busy, batch = <<>>, batch' = batch,
             UNCHANGED nativeVars
      PROVE  QuietStep \/ FlushStep
  <2>1. ToSet(queue) = Waiting /\ OpsOf(<<>>, batch') = {}
    BY <1>0, <1>e, <1>w, <1>7, OpsOfBatches
  <2>2. OpsOf(queue, batch') = Waiting
    BY <1>w, <1>7
  <2> QED
    BY <1>0, <1>7, <2>1, <2>2, RunFlushKinds
<1>8. ASSUME EndNative PROVE QuietStep \/ FlushStep
  <2>1. ~Busy /\ batch = <<>> /\ batch' = batch /\ UNCHANGED nativeVars
    BY <1>8 DEF EndNative
  <2>2. CASE flushScheduled
    BY <1>7, <1>8, <2>1, <2>2 DEF EndNative
  <2>3. CASE ~flushScheduled
    BY <1>8, <1>w, <2>1, <2>3 DEF EndNative, QuietStep, treeState, treeVars, doomVars
  <2> QED
    BY <2>2, <2>3
<1>9. ASSUME AnimationFrame PROVE QuietStep \/ FlushStep
  <2>1. ~Busy /\ batch = <<>> /\ batch' = batch /\ UNCHANGED nativeVars
    BY <1>9 DEF AnimationFrame, Idle
  <2>2. CASE flushScheduled
    BY <1>7, <1>9, <2>1, <2>2 DEF AnimationFrame
  <2>3. CASE ~flushScheduled
    BY <1>9, <1>w, <2>1, <2>3 DEF AnimationFrame, QuietStep, treeState, treeVars, doomVars
  <2> QED
    BY <2>2, <2>3
<1>10. ASSUME UNCHANGED vars PROVE QuietStep
  BY <1>10, <1>w DEF vars, QuietStep, treeState, treeVars, doomVars
<1> QED
  BY <1>1, <1>2, <1>3, <1>4, <1>5, <1>6, <1>8, <1>9, <1>10
  DEF Next, RendererCall, ApplyCommit
-----------------------------------------------------------------------------
(* What the host and the native tree know of each other, in an app that    *)
(* takes no liberty but to mix.                                            *)

Known == tracked \cup {Root}

\* The subtrees whose exit transition runs.
Fading == Subtree(Exiting)

\* The nodes on whose parent the two sides may differ, and why: a removal, an
\* exit, an insertion or a native removal is still to come.
Unsettled ==
  (Removed \ rescued) \cup Exiting
    \cup {op.child : op \in Waiting \cup ToSet(commit.inserts)}
    \cup {r[2] : r \in commit.removes}

\* Who has a parent is known, and so is the parent.
KnownTree == \A n \in Node : parent[n] # None => n \in tracked /\ parent[n] \in Known

\* A doomed node is known and doomed in one way; a rescue waits as an insertion.
DoomedApart ==
  /\ Removed \subseteq tracked /\ ready \subseteq tracked /\ Exiting \subseteq tracked
  /\ Removed \cap ready = {} /\ Removed \cap Exiting = {} /\ ready \cap Exiting = {}
  /\ \A n \in Removed \cap rescued : \E op \in Waiting : op.child = n

\* What is to be dropped is forgotten, and was once created.
DropsForgotten ==
  /\ (pendingDrops \cup commit.drops) \cap tracked = {}
  /\ pendingDrops \cup commit.drops \subseteq issued

\* An insertion that waits is what the tree says, outside fading subtrees.
WaitingMatches ==
  \A op \in Waiting :
    /\ parent[op.child] = op.parent
    /\ op.child \in Known \ Fading /\ op.parent \in Known \ Fading

\* One that is being applied finds both nodes, and the tree still says so, or
\* both were forgotten by the flush that sent it.
InsertsMatch ==
  \A op \in ToSet(commit.inserts) :
    /\ op.child \in alive /\ Addressable(op.parent)
    /\ \/ parent[op.child] = op.parent
       \/ op.child \notin tracked /\ op.parent \notin Known

\* A removal that is being applied names the recorded parent.
RemovesMatch ==
  \A r \in commit.removes :
    /\ r[2] \in alive => recParent[r[2]] = r[1]
    /\ r[2] \in ready \/ r[2] \notin tracked

\* While a flush is applied nothing waits for the next one.
FlushTakesAll ==
  commit.drops # {} \/ commit.inserts # <<>> => Waiting = {} /\ Removed = {}

\* The two native trees are one.
RecordsAgree ==
  /\ \A x, n \in Node : n \in recKids[x] <=> recParent[n] = x
  /\ \A p \in Parent, n \in Node : n \in ToSet(yogaKids[p]) <=> recParent[n] = p
  /\ \A n \in Node : recParent[n] # None => n \in alive /\ Addressable(recParent[n])

\* A node that leaves is natively where the host will have it removed from.
LeavingMatches ==
  /\ \A n \in Removed \ rescued : recParent[n] = pendingRemovals[n]
  /\ \A n \in Exiting \cap alive : recParent[n] = exitTimers[n]

\* All others have the parent the host gave them; forgotten ones are apart.
SettledMatches ==
  /\ \A n \in (tracked \cap alive) \ Unsettled : recParent[n] = parent[n]
  /\ \A n \in alive \ (tracked \cup Unsettled) : recParent[n] \notin Known

\* A known node lives, unless a former ancestor of its fading subtree went.
KnownLives == tracked \ Fading \subseteq alive

Agreement ==
  /\ KnownTree /\ DoomedApart /\ DropsForgotten /\ WaitingMatches
  /\ InsertsMatch /\ RemovesMatch /\ FlushTakesAll /\ RecordsAgree
  /\ LeavingMatches /\ SettledMatches /\ KnownLives

Sound == TypeOK /\ DoomedDetached /\ TreeConsistent /\ Agreement

LEMMA TypeFacts ==
  ASSUME TypeOK
  PROVE  /\ tracked \subseteq issued /\ alive \subseteq issued /\ issued \subseteq Node
         /\ kids \in [Parent -> Seq(Node)] /\ parent \in [Node -> Parent \cup {None}]
         /\ queue \in Seq(InsertOp) /\ batch \in Seq(Seq(InsertOp))
         /\ pendingRemovals \in [Node -> Parent \cup {None}]
         /\ rescued \subseteq Node /\ ready \subseteq Node /\ pendingDrops \subseteq Node
         /\ exitTimers \in [Node -> Parent \cup {None}]
         /\ commit.removes \subseteq Parent \X Node
         /\ commit.inserts \in Seq(InsertOp) /\ commit.drops \subseteq Node
         /\ commit = [removes |-> commit.removes, inserts |-> commit.inserts,
                      drops |-> commit.drops]
         /\ recParent \in [Node -> Parent \cup {None}]
         /\ recKids \in [Node -> SUBSET Node] /\ yogaKids \in [Parent -> Seq(Node)]
         /\ None \notin Parent /\ Root \notin Node
  BY NodeAssumption
  DEF TypeOK, HostTypeOK, FlushTypeOK, NativeTypeOK, RecordTypeOK, Parent

\* An insertion names nodes.
LEMMA WaitingType ==
  ASSUME TypeOK
  PROVE  Waiting \subseteq InsertOp /\ ToSet(commit.inserts) \subseteq InsertOp
<1>1. \A s \in Seq(InsertOp) : ToSet(s) \subseteq InsertOp
  BY LenProperties, ElementOfSeq DEF ToSet
<1>2. \A i \in DOMAIN batch : batch[i] \in Seq(InsertOp)
  BY TypeFacts, LenProperties, ElementOfSeq
<1> QED
  BY <1>1, <1>2, TypeFacts DEF Waiting

LEMMA FadingFacts ==
  ASSUME TypeOK, TreeConsistent
  PROVE  /\ Exiting \subseteq Fading /\ Fading \subseteq Node
         /\ \A n \in Fading : n \in Exiting \/ parent[n] \in Fading
         /\ \A x, y \in Node : x \in Fading /\ parent[y] = x => y \in Fading
<1>1. Exiting \in SUBSET Node
  BY DEF Exiting
<1> QED
  BY <1>1, SubtreeClosed, SubtreeParents DEF Fading

\* An edit of the children of a node outside them leaves the fading subtrees.
LEMMA FadingSame ==
  ASSUME TypeOK, TreeConsistent, Exiting' = Exiting, NEW p \in Parent, p \notin Fading,
         \A r \in Parent : r # p => kids'[r] = kids[r]
  PROVE  Fading' = Fading
<1>1. Exiting \in SUBSET Node
  BY DEF Exiting
<1>2. \A x \in Fading : kidSets[x] \subseteq Node /\ kidSets'[x] = kidSets[x]
  BY FadingFacts, <1>1, SubtreeClosed DEF kidSets, Parent
<1> QED
  BY <1>1, <1>2, ClosureSame DEF Fading, Subtree

\* So does, for what is left of them, the forgetting of whole subtrees.
LEMMA FadingForgets ==
  ASSUME TypeOK, TreeConsistent, NEW S \in SUBSET Node, NEW timers,
         Forget(Subtree(S), timers)
  PROVE  /\ Exiting \subseteq Exiting' \cup Subtree(S) => Fading \subseteq Fading' \cup Subtree(S)
         /\ Exiting' \subseteq Exiting => Fading' \subseteq Fading
         /\ Exiting' \subseteq Fading'
<1> DEFINE dead == Subtree(S)
<1>1. /\ dead \subseteq Node /\ Exiting \in SUBSET Node /\ Exiting' \in SUBSET Node
      /\ Fading \in SUBSET Node /\ Fading' \in SUBSET Node
  BY ClosureType DEF Subtree, Exiting, Fading
<1>2. kids' = [p \in Parent |-> IF p \in dead THEN <<>> ELSE kids[p]]
  BY DEF Forget
<1>3. \A x, y \in Node : x \in dead /\ y \in kidSets[x] => y \in dead
  BY SubtreeClosed
<1>4. \A x \in Node : kidSets[x] \subseteq Node
  BY SubtreeClosed
<1> HIDE DEF dead
<1>5. \A x \in Node : kidSets'[x] = IF x \in dead THEN {} ELSE kidSets[x]
  <2>1. ToSet(<<>>) = {}
    BY EmptySeq DEF ToSet
  <2> QED
    BY <1>2, <2>1 DEF kidSets, Parent
<1>6. Exiting \subseteq Fading /\ Exiting' \subseteq Fading'
  BY <1>1, ClosureHasStart DEF Fading, Subtree
<1>7. ASSUME Exiting \subseteq Exiting' \cup dead
      PROVE  Fading \subseteq Fading' \cup dead
  <2> DEFINE T == Fading' \cup dead
  <2>1. T \in SUBSET Node /\ Exiting \subseteq T
    BY <1>1, <1>6, <1>7
  <2>2. \A x \in Fading', y \in Node : y \in kidSets'[x] => y \in Fading'
    BY ClosureClosed DEF Fading, Subtree
  <2>3. \A x \in T : kidSets[x] \subseteq T
    BY <1>1, <1>3, <1>4, <1>5, <2>2
  <2> HIDE DEF T
  <2>4. Fading \subseteq T
    BY <2>1, <2>3, ClosureLeast DEF Fading, Subtree
  <2> QED
    BY <2>4 DEF T
<1>8. ASSUME Exiting' \subseteq Exiting
      PROVE  Fading' \subseteq Fading
  <2>1. \A x \in Fading, y \in Node : y \in kidSets[x] => y \in Fading
    BY ClosureClosed DEF Fading, Subtree
  <2>2. \A x \in Fading : kidSets'[x] \subseteq Fading
    BY <1>1, <1>4, <1>5, <2>1
  <2>3. Exiting' \subseteq Fading
    BY <1>6, <1>8
  <2>4. Closure(Exiting', kidSets') \subseteq Fading
    BY <1>1, <2>2, <2>3, ClosureLeast
  <2> QED
    BY <2>4 DEF Fading, Subtree
<1> QED
  BY <1>6, <1>7, <1>8 DEF dead

\* While nothing is applied the commit is empty.
LEMMA NotBusy ==
  ASSUME ~Busy
  PROVE  commit.removes = {} /\ commit.inserts = <<>> /\ commit.drops = {}
         /\ ToSet(commit.inserts) = {}
  BY EmptySeq DEF Busy, NoCommit, ToSet

LEMMA QuietKeeps ==
  ASSUME Sound, QuietStep
  PROVE  Agreement'
<1>1. /\ tracked' = tracked /\ kids' = kids /\ parent' = parent
      /\ pendingRemovals' = pendingRemovals /\ rescued' = rescued /\ ready' = ready
      /\ pendingDrops' = pendingDrops /\ exitTimers' = exitTimers
      /\ commit' = commit /\ issued' = issued /\ alive' = alive
      /\ recParent' = recParent /\ recKids' = recKids /\ yogaKids' = yogaKids
      /\ Waiting' = Waiting
  BY DEF QuietStep, treeState, nativeVars
<1>2. Removed' = Removed /\ Exiting' = Exiting /\ Known' = Known
  BY <1>1 DEF Removed, Exiting, Known
<1>3. Fading' = Fading
  BY <1>1, <1>2 DEF Fading, Subtree, kidSets
<1>4. Unsettled' = Unsettled
  BY <1>1, <1>2 DEF Unsettled
<1>a. /\ KnownTree /\ DoomedApart /\ DropsForgotten /\ WaitingMatches
      /\ InsertsMatch /\ RemovesMatch /\ FlushTakesAll /\ RecordsAgree
      /\ LeavingMatches /\ SettledMatches /\ KnownLives
  BY DEF Sound, Agreement
<1>5. KnownTree' /\ DoomedApart' /\ DropsForgotten' /\ WaitingMatches'
  BY <1>a, <1>1, <1>2, <1>3 DEF KnownTree, DoomedApart, DropsForgotten, WaitingMatches
<1>6. InsertsMatch' /\ RemovesMatch' /\ FlushTakesAll'
  BY <1>a, <1>1, <1>2 DEF InsertsMatch, RemovesMatch, FlushTakesAll, Addressable
<1>7. RecordsAgree' /\ LeavingMatches'
  BY <1>a, <1>1, <1>2 DEF RecordsAgree, LeavingMatches, Addressable
<1>8. SettledMatches' /\ KnownLives'
  BY <1>a, <1>1, <1>2, <1>3, <1>4 DEF SettledMatches, KnownLives
<1> QED
  BY <1>5, <1>6, <1>7, <1>8 DEF Agreement
LEMMA AgreementParts ==
  ASSUME Sound
  PROVE  /\ TypeOK /\ DoomedDetached /\ TreeConsistent
         /\ KnownTree /\ DoomedApart /\ DropsForgotten /\ WaitingMatches
         /\ InsertsMatch /\ RemovesMatch /\ FlushTakesAll /\ RecordsAgree
         /\ LeavingMatches /\ SettledMatches /\ KnownLives
  BY DEF Sound, Agreement

\* A commit that is not under way promises nothing.
LEMMA IdleCommit ==
  ASSUME ~Busy, commit' = commit
  PROVE  InsertsMatch' /\ RemovesMatch' /\ FlushTakesAll'
<1>1. /\ commit'.removes = {} /\ commit'.inserts = <<>> /\ commit'.drops = {}
      /\ ToSet(commit'.inserts) = {}
  BY NotBusy
<1> QED
  BY <1>1 DEF InsertsMatch, RemovesMatch, FlushTakesAll

LEMMA CreateKeeps ==
  ASSUME Sound, NEW n \in Node, CreateNode(n)
  PROVE  Agreement'
<1>1. /\ ~Busy /\ n \notin issued /\ issued' = issued \cup {n}
      /\ alive' = alive \cup {n} /\ tracked' = tracked \cup {n}
      /\ kids' = kids /\ parent' = parent
      /\ pendingRemovals' = pendingRemovals /\ rescued' = rescued /\ ready' = ready
      /\ pendingDrops' = pendingDrops /\ exitTimers' = exitTimers
      /\ queue' = queue /\ batch' = batch /\ commit' = commit
      /\ recParent' = recParent /\ recKids' = recKids /\ yogaKids' = yogaKids
  BY DEF CreateNode, NativeCreate, doomVars
<1>2. /\ Waiting' = Waiting /\ Removed' = Removed /\ Exiting' = Exiting
      /\ Known' = Known \cup {n}
  BY <1>1 DEF Waiting, Removed, Exiting, Known
<1>3. Fading' = Fading
  BY <1>1, <1>2 DEF Fading, Subtree, kidSets
<1>4. Unsettled' = Unsettled
  BY <1>1, <1>2 DEF Unsettled
<1>a. /\ TypeOK /\ KnownTree /\ DoomedApart /\ DropsForgotten /\ WaitingMatches
      /\ RecordsAgree /\ LeavingMatches /\ SettledMatches /\ KnownLives
  BY AgreementParts
<1>b. n \notin tracked /\ n \notin alive /\ n # Root /\ n # None
  BY <1>a, <1>1, TypeFacts DEF Parent
<1>5. KnownTree' /\ DoomedApart' /\ WaitingMatches'
  BY <1>a, <1>1, <1>2, <1>3 DEF KnownTree, DoomedApart, WaitingMatches
<1>6. DropsForgotten'
  BY <1>a, <1>1 DEF DropsForgotten
<1>7. InsertsMatch' /\ RemovesMatch' /\ FlushTakesAll'
  BY <1>1, IdleCommit
<1>8. RecordsAgree'
  BY <1>a, <1>1 DEF RecordsAgree, Addressable
<1>9. n \notin Exiting
  BY <1>a, <1>b DEF DoomedApart
<1>10. LeavingMatches'
  BY <1>a, <1>1, <1>2, <1>9 DEF LeavingMatches
<1>11. parent[n] = None /\ recParent[n] = None /\ \A m \in Node : recParent[m] # n
  BY <1>a, <1>b DEF KnownTree, RecordsAgree, Addressable
<1>12. SettledMatches'
  <2>1. \A m \in (tracked' \cap alive') \ Unsettled : recParent[m] = parent[m]
    BY <1>a, <1>1, <1>11 DEF SettledMatches
  <2>2. \A m \in alive' \ (tracked' \cup Unsettled) : recParent[m] \notin Known \cup {n}
    BY <1>a, <1>1, <1>11, TypeFacts DEF SettledMatches
  <2> QED
    BY <1>1, <1>2, <1>4, <2>1, <2>2 DEF SettledMatches
<1>13. KnownLives'
  BY <1>a, <1>1, <1>3 DEF KnownLives
<1> QED
  BY <1>5, <1>6, <1>7, <1>8, <1>10, <1>12, <1>13 DEF Agreement

LEMMA InsertKeeps ==
  ASSUME Sound, Liberties \subseteq {"mix"},
         NEW p \in Parent, NEW n \in Node, NEW a \in Node \cup {None},
         InsertNode(p, n, a)
  PROVE  Agreement'
<1> DEFINE rest == Cut(kids[p], n)
           at   == IF a = None THEN Len(rest) + 1 ELSE IndexOf(rest, a)
           op   == [parent |-> p, child |-> n, at |-> at - 1]
<1>1. /\ ~Busy /\ Enqueue(op) /\ MayInsert(p, n) /\ Reprieve(n)
      /\ kids' = [kids EXCEPT ![p] = InsertAt(rest, at, n)]
      /\ parent' = [parent EXCEPT ![n] = p]
      /\ tracked' = tracked \cup {n}
      /\ UNCHANGED <<pendingRemovals, commit, nativeVars>>
      /\ a = None \/ a \in ToSet(rest)
  BY DEF InsertNode
<1>a. /\ TypeOK /\ DoomedDetached /\ TreeConsistent
      /\ KnownTree /\ DoomedApart /\ DropsForgotten /\ WaitingMatches
      /\ RecordsAgree /\ LeavingMatches /\ SettledMatches /\ KnownLives
  BY AgreementParts
<1>t. op \in InsertOp
  <2>1. rest \in Seq(Node)
    BY <1>a, TypeFacts, CutElements
  <2>2. Len(rest) \in Nat /\ (a # None => IndexOf(rest, a) \in 1 .. Len(rest))
    BY <1>1, <2>1, LenProperties, IndexOfType
  <2> HIDE DEF rest
  <2>3. at - 1 \in Nat
    BY <2>2
  <2> HIDE DEF at
  <2> QED
    BY <2>3 DEF InsertOp
<1>o. op.parent = p /\ op.child = n
  OBVIOUS
<1> HIDE DEF op, rest, at
<1>2. n \in tracked \ Fading /\ p \in Known \ Fading /\ parent[n] \in {None, p}
  BY <1>1, <1>a, TypeFacts DEF MayInsert, Known, Fading
<1>3. /\ n \notin Exiting
  BY <1>2, <1>a, FadingFacts
<1>4. /\ exitTimers' = [exitTimers EXCEPT ![n] = None]
      /\ pendingDrops' = pendingDrops \ {n} /\ ready' = ready \ {n}
      /\ rescued' = IF n \in Removed THEN rescued \cup {n} ELSE rescued
  BY <1>1 DEF Reprieve
<1>5. /\ Removed' = Removed /\ Exiting' = Exiting /\ tracked' = tracked
      /\ Known' = Known /\ Waiting' = Waiting \cup {op} /\ exitTimers' = exitTimers
  <2>1. exitTimers' = exitTimers
    BY <1>3, <1>4, <1>a, TypeFacts DEF Exiting
  <2> QED
    BY <1>1, <1>2, <1>a, <1>t, <2>1, EnqueueOps DEF Removed, Exiting, Known
<1>6. Fading' = Fading
  BY <1>1, <1>2, <1>5, <1>a, FadingSame, TypeFacts
<1>7. /\ commit' = commit /\ issued' = issued /\ alive' = alive /\ recParent' = recParent
      /\ recKids' = recKids /\ yogaKids' = yogaKids /\ pendingRemovals' = pendingRemovals
  BY <1>1 DEF nativeVars
<1>8. Unsettled' = Unsettled \cup {n}
  <2>1. (Removed' \ rescued') \cup {n} = (Removed \ rescued) \cup {n}
    BY <1>4, <1>5
  <2>2. {o.child : o \in Waiting' \cup ToSet(commit'.inserts)}
          = {o.child : o \in Waiting \cup ToSet(commit.inserts)} \cup {n}
    BY <1>5, <1>7, <1>o
  <2> QED
    BY <1>5, <1>7, <2>1, <2>2 DEF Unsettled
<1>9. parent'[n] = p /\ \A m \in Node : m # n => parent'[m] = parent[m]
  BY <1>1, <1>a, TypeFacts
<1>10. KnownTree'
  BY <1>a, <1>2, <1>5, <1>9 DEF KnownTree
<1>11. DoomedApart'
  <2>1. \A m \in Removed' \cap rescued' : \E o \in Waiting' : o.child = m
    BY <1>a, <1>4, <1>5, <1>o DEF DoomedApart
  <2> QED
    BY <1>a, <1>4, <1>5, <2>1 DEF DoomedApart
<1>12. DropsForgotten'
  BY <1>a, <1>4, <1>5, <1>7 DEF DropsForgotten
<1>13. WaitingMatches'
  <2>1. \A o \in Waiting : o.child \in Node /\ o.parent \in Parent /\ o.parent # None
    BY <1>a, WaitingType, TypeFacts DEF InsertOp
  <2>2. \A o \in Waiting : o.child = n => o.parent = p
    BY <1>a, <1>2, <2>1 DEF WaitingMatches
  <2>3. \A o \in Waiting : parent'[o.child] = o.parent
    BY <1>a, <1>9, <2>1, <2>2 DEF WaitingMatches
  <2>4. parent'[op.child] = op.parent /\ op.child \in Known \ Fading
        /\ op.parent \in Known \ Fading
    BY <1>2, <1>9, <1>o DEF Known
  <2> QED
    BY <1>a, <1>5, <1>6, <2>3, <2>4 DEF WaitingMatches
<1>14. InsertsMatch' /\ RemovesMatch' /\ FlushTakesAll'
  BY <1>1, IdleCommit
<1>15. RecordsAgree'
  BY <1>a, <1>7 DEF RecordsAgree, Addressable
<1>16. LeavingMatches'
  BY <1>a, <1>4, <1>5, <1>7 DEF LeavingMatches
<1>17. SettledMatches'
  BY <1>a, <1>5, <1>7, <1>8, <1>9, TypeFacts DEF SettledMatches
<1>18. KnownLives'
  BY <1>a, <1>5, <1>6, <1>7 DEF KnownLives
<1> QED
  BY <1>10, <1>11, <1>12, <1>13, <1>14, <1>15, <1>16, <1>17, <1>18 DEF Agreement

LEMMA RemoveKeeps ==
  ASSUME Sound, Liberties \subseteq {"mix"},
         NEW p \in Parent, NEW n \in Node, RemoveNode(p, n)
  PROVE  Agreement'
<1>1. /\ ~Busy /\ n \in ToSet(kids[p]) /\ MayRemove(p, n)
      /\ kids' = [kids EXCEPT ![p] = Cut(kids[p], n)]
      /\ parent' = [parent EXCEPT ![n] = None]
      /\ rescued' = rescued \ {n}
      /\ pendingRemovals' = [pendingRemovals EXCEPT ![n] = p]
      /\ UNCHANGED <<tracked, ready, pendingDrops, exitTimers, queue, batch, commit,
                     nativeVars>>
  BY DEF RemoveNode
<1>a. /\ TypeOK /\ DoomedDetached /\ TreeConsistent
      /\ KnownTree /\ DoomedApart /\ DropsForgotten /\ WaitingMatches
      /\ RecordsAgree /\ LeavingMatches /\ SettledMatches /\ KnownLives
  BY AgreementParts
<1>2. /\ p \notin Fading /\ p # None /\ parent[n] = p
      /\ \A op \in Waiting : op.child # n
  BY <1>1, <1>a, TypeFacts DEF MayRemove, Fading, TreeConsistent
<1>3. /\ n \in tracked /\ n \notin Exiting /\ n \notin ready /\ n \notin Removed \ rescued
  BY <1>2, <1>a DEF KnownTree, DoomedDetached
<1>4. n \notin Fading /\ n \in alive
  BY <1>2, <1>3, <1>a, FadingFacts DEF KnownLives
<1>5. n \notin Removed
  BY <1>2, <1>3, <1>a DEF DoomedApart
<1>6. /\ Removed' = Removed \cup {n} /\ Exiting' = Exiting /\ Known' = Known
      /\ Waiting' = Waiting
      /\ \A m \in Node : m # n => pendingRemovals'[m] = pendingRemovals[m]
      /\ pendingRemovals'[n] = p
  BY <1>1, <1>2, <1>a, TypeFacts DEF Removed, Exiting, Known, Waiting
<1>7. /\ commit' = commit /\ issued' = issued /\ alive' = alive /\ recParent' = recParent
      /\ recKids' = recKids /\ yogaKids' = yogaKids /\ exitTimers' = exitTimers
      /\ tracked' = tracked /\ ready' = ready /\ pendingDrops' = pendingDrops
  BY <1>1 DEF nativeVars
<1>8. Fading' = Fading
  BY <1>1, <1>2, <1>6, <1>a, FadingSame, TypeFacts
<1>9. parent'[n] = None /\ \A m \in Node : m # n => parent'[m] = parent[m]
  BY <1>1, <1>a, TypeFacts
<1>10. Removed' \ rescued' = (Removed \ rescued) \cup {n}
  BY <1>1, <1>5, <1>6
<1>11. Unsettled' = Unsettled \cup {n}
  BY <1>6, <1>7, <1>10 DEF Unsettled
<1>12. n \notin Unsettled
  <2>1. commit.removes = {} /\ ToSet(commit.inserts) = {}
    BY <1>1, NotBusy
  <2> QED
    BY <1>2, <1>3, <2>1 DEF Unsettled
<1>13. recParent[n] = p
  BY <1>2, <1>3, <1>4, <1>12, <1>a DEF SettledMatches
<1>14. KnownTree'
  BY <1>a, <1>6, <1>7, <1>9 DEF KnownTree
<1>15. DoomedApart'
  <2>1. n \notin ready /\ n \notin Exiting /\ n \in tracked
    BY <1>3
  <2>2. Removed' \cap rescued' \subseteq Removed \cap rescued
    BY <1>1, <1>6
  <2> QED
    BY <1>a, <1>6, <1>7, <2>1, <2>2 DEF DoomedApart
<1>16. DropsForgotten'
  BY <1>a, <1>7 DEF DropsForgotten
<1>17. WaitingMatches'
  <2>1. \A o \in Waiting : o.child \in Node /\ o.child # n
    BY <1>2, <1>a, WaitingType DEF InsertOp
  <2> QED
    BY <1>a, <1>6, <1>8, <1>9, <2>1 DEF WaitingMatches
<1>18. InsertsMatch' /\ RemovesMatch' /\ FlushTakesAll'
  BY <1>1, IdleCommit
<1>19. RecordsAgree'
  BY <1>a, <1>7 DEF RecordsAgree, Addressable
<1>20. LeavingMatches'
  <2>1. \A m \in Removed \ rescued : m # n /\ m \in Node
    BY <1>5 DEF Removed
  <2> QED
    BY <1>a, <1>6, <1>7, <1>10, <1>13, <2>1 DEF LeavingMatches
<1>21. SettledMatches'
  <2>1. \A m \in (tracked \cap alive) \ Unsettled' : recParent[m] = parent'[m]
    <3>1. tracked \subseteq Node
      BY <1>a, TypeFacts
    <3> QED
      BY <1>a, <1>9, <1>11, <3>1 DEF SettledMatches
  <2>2. \A m \in alive \ (tracked \cup Unsettled') : recParent[m] \notin Known
    BY <1>a, <1>11 DEF SettledMatches
  <2> QED
    BY <1>6, <1>7, <2>1, <2>2 DEF SettledMatches
<1>22. KnownLives'
  BY <1>a, <1>7, <1>8 DEF KnownLives
<1> QED
  BY <1>14, <1>15, <1>16, <1>17, <1>18, <1>19, <1>20, <1>21, <1>22 DEF Agreement
\* Below detached nodes no other node is detached.
LEMMA DetachedBelow ==
  ASSUME TypeOK, TreeConsistent, NEW S \in SUBSET Node
  PROVE  \A n \in Subtree(S) : parent[n] = None => n \in S
<1>1. \A n \in Subtree(S) : n \in S \/ parent[n] \in Subtree(S)
  BY SubtreeParents
<1>2. Subtree(S) \subseteq Node /\ None \notin Node
  BY SubtreeClosed, TypeFacts DEF Parent
<1> QED
  BY <1>1, <1>2

\* Forgetting keeps what is said of the trees: the nodes that are forgotten
\* take everything below them along.
LEMMA ForgetFacts ==
  ASSUME Sound, NEW S \in SUBSET Node, \A n \in S : parent[n] = None,
         NEW timers, Forget(Subtree(S), timers)
  PROVE  /\ tracked' = tracked \ Subtree(S)
         /\ \A n \in Node : parent'[n] = IF n \in Subtree(S) THEN None ELSE parent[n]
         /\ \A n \in Node : parent[n] # None => (n \in Subtree(S) <=> parent[n] \in Subtree(S))
         /\ S \subseteq Subtree(S) /\ Subtree(S) \subseteq Node /\ Root \notin Subtree(S)
         /\ KnownTree'
<1> DEFINE dead == Subtree(S)
<1>a. TypeOK /\ TreeConsistent /\ KnownTree
  BY AgreementParts
<1>1. /\ tracked' = tracked \ dead
      /\ \A n \in Node : parent'[n] = IF n \in dead THEN None ELSE parent[n]
  BY DEF Forget
<1>2. S \subseteq dead /\ dead \subseteq Node /\ Root \notin dead
  BY <1>a, SubtreeClosed, TypeFacts
<1>3. \A n \in Node : parent[n] # None => (n \in dead <=> parent[n] \in dead)
  <2>1. \A n \in dead : n \in S \/ parent[n] \in dead
    BY <1>a, SubtreeParents
  <2>2. \A x, y \in Node : x \in dead /\ parent[y] = x => y \in dead
    BY <1>a, SubtreeClosed
  <2> HIDE DEF dead
  <2> QED
    BY <1>2, <2>1, <2>2
<1> HIDE DEF dead
<1>4. KnownTree'
  <2>1. Known' = Known \ dead
    BY <1>1, <1>2 DEF Known
  <2> QED
    BY <1>a, <1>1, <1>3, <2>1 DEF KnownTree
<1> QED
  BY <1>1, <1>2, <1>3, <1>4 DEF dead

LEMMA FlushKeeps ==
  ASSUME Sound, FlushStep
  PROVE  Agreement'
<1>a. /\ TypeOK /\ DoomedDetached /\ TreeConsistent
      /\ KnownTree /\ DoomedApart /\ DropsForgotten /\ WaitingMatches
      /\ RecordsAgree /\ LeavingMatches /\ SettledMatches /\ KnownLives
  BY AgreementParts
<1>0. PICK q \in Seq(InsertOp) : ToSet(q) = Waiting /\ DoFlush(q)
  BY DEF FlushStep
<1> DEFINE dead   == Subtree(ready)
           exits  == Leaving \cap (exitTransitions \ dead)
           plain  == Leaving \ exits
           timers == [n \in Node |-> IF n \in exits THEN pendingRemovals[n]
                                     ELSE exitTimers[n]]
<1>1. /\ commit' = [removes |-> {<<pendingRemovals[n], n>> : n \in plain},
                   inserts |-> q, drops |-> pendingDrops \cup dead]
      /\ Forget(dead, timers) /\ ready' = plain /\ pendingDrops' = {} /\ rescued' = {}
  BY <1>0 DEF DoFlush
<1>2. /\ Removed' = {} /\ Waiting' = {} /\ ~Busy
      /\ issued' = issued /\ alive' = alive /\ recParent' = recParent
      /\ recKids' = recKids /\ yogaKids' = yogaKids
  BY <1>0, DoFlushArmed DEF FlushStep, nativeVars
<1>3. /\ ready \in SUBSET Node /\ \A n \in ready : parent[n] = None
  BY <1>a, TypeFacts DEF DoomedDetached
<1>4. /\ tracked' = tracked \ dead
      /\ \A n \in Node : parent'[n] = IF n \in dead THEN None ELSE parent[n]
      /\ \A n \in Node : parent[n] # None => (n \in dead <=> parent[n] \in dead)
      /\ ready \subseteq dead /\ dead \subseteq Node /\ Root \notin dead
      /\ KnownTree'
  BY <1>1, <1>3, ForgetFacts
<1>5. \A n \in dead : parent[n] = None => n \in ready
  BY <1>a, <1>3, DetachedBelow
<1>6. Leaving \cap dead = {} /\ Exiting \cap dead = {}
  BY <1>a, <1>5 DEF Leaving, DoomedDetached, DoomedApart
<1>7. /\ exits \subseteq Leaving /\ plain \subseteq Leaving /\ exits \cup plain = Leaving
      /\ exits \cap plain = {} /\ Leaving = Removed \ rescued /\ Leaving \subseteq Node
  BY DEF Leaving, Removed
<1>8. \A n \in Node : timers[n] = IF n \in exits THEN pendingRemovals[n] ELSE exitTimers[n]
  OBVIOUS
<1>9. exitTimers' = [n \in Node |-> IF n \in dead THEN None ELSE timers[n]]
  BY <1>1 DEF Forget
<1>10. \A n \in Leaving : pendingRemovals[n] # None
  BY DEF Leaving, Removed
<1>11. Exiting \subseteq Exiting' \cup dead => Fading \subseteq Fading' \cup dead
  BY <1>a, <1>1, <1>3, FadingForgets
<1> HIDE DEF dead, exits, plain, timers
<1>12. Exiting' = Exiting \cup exits
  BY <1>6, <1>7, <1>8, <1>9, <1>10 DEF Exiting
<1>13. Fading \subseteq Fading' \cup dead
  BY <1>11, <1>12
<1>14. Known' = Known \ dead /\ Known' \subseteq Known
  BY <1>4 DEF Known
<1>15. /\ commit'.removes = {<<pendingRemovals[n], n>> : n \in plain}
       /\ commit'.inserts = q /\ commit'.drops = pendingDrops \cup dead
  BY <1>1
<1>16. {r[2] : r \in commit'.removes} = plain
  <2>1. \A n : <<pendingRemovals[n], n>>[2] = n
    OBVIOUS
  <2>2. {r[2] : r \in {<<pendingRemovals[n], n>> : n \in plain}} = plain
    BY <2>1
  <2> QED
    BY <1>15, <2>2
<1>17. Unsettled' = Unsettled
  <2>1. commit.removes = {} /\ ToSet(commit.inserts) = {}
    BY <1>2, NotBusy
  <2>2. Unsettled' = Exiting' \cup {op.child : op \in Waiting} \cup plain
    BY <1>0, <1>2, <1>15, <1>16 DEF Unsettled
  <2>3. Unsettled = Leaving \cup Exiting \cup {op.child : op \in Waiting}
    BY <1>7, <2>1 DEF Unsettled
  <2> QED
    BY <1>7, <1>12, <2>2, <2>3
<1>18. DoomedApart'
  BY <1>a, <1>1, <1>2, <1>4, <1>6, <1>7, <1>12 DEF DoomedApart
<1>19. DropsForgotten'
  <2>1. dead \subseteq issued
    <3>1. \A n \in dead : n \in ready \/ parent[n] # None
      BY <1>5
    <3>2. \A n \in dead : n \in tracked
      BY <1>a, <1>4, <3>1 DEF DoomedApart, KnownTree
    <3> QED
      BY <1>a, <3>2, TypeFacts
  <2> QED
    BY <1>a, <1>1, <1>2, <1>4, <1>15, <2>1 DEF DropsForgotten
<1>20. WaitingMatches' /\ FlushTakesAll'
  BY <1>2 DEF WaitingMatches, FlushTakesAll
<1>21. InsertsMatch'
  <2> SUFFICES ASSUME NEW op \in Waiting
               PROVE  /\ op.child \in alive' /\ Addressable(op.parent)'
                      /\ \/ parent'[op.child] = op.parent
                         \/ op.child \notin tracked' /\ op.parent \notin Known'
    BY <1>0, <1>15 DEF InsertsMatch
  <2>1. op.child \in Node /\ op.parent \in Parent /\ op.parent # None
    BY <1>a, WaitingType, TypeFacts DEF InsertOp
  <2>2. /\ parent[op.child] = op.parent
        /\ op.child \in Known \ Fading /\ op.parent \in Known \ Fading
    BY <1>a DEF WaitingMatches
  <2>3. op.child \in alive /\ op.parent \in alive \cup {Root}
    BY <1>a, <2>1, <2>2, TypeFacts DEF KnownLives, Known
  <2>4. CASE op.child \in dead
    <3>1. op.parent \in dead
      BY <1>4, <2>1, <2>2, <2>4
    <3> QED
      BY <1>2, <1>4, <1>14, <2>3, <2>4, <3>1 DEF Addressable
  <2>5. CASE op.child \notin dead
    BY <1>2, <1>4, <2>1, <2>2, <2>3, <2>5 DEF Addressable
  <2> QED
    BY <2>4, <2>5
<1>22. RemovesMatch'
  <2> SUFFICES ASSUME NEW n \in plain
               PROVE  (n \in alive' => recParent'[n] = pendingRemovals[n]) /\ n \in ready'
    BY <1>15 DEF RemovesMatch
  <2> QED
    BY <1>a, <1>1, <1>2, <1>7 DEF LeavingMatches
<1>23. RecordsAgree'
  BY <1>a, <1>2 DEF RecordsAgree, Addressable
<1>24. LeavingMatches'
  <2>1. ASSUME NEW n \in Exiting' \cap alive PROVE recParent[n] = exitTimers'[n]
    <3>1. n \in Node /\ n \notin dead
      BY <1>6, <1>7, <1>12 DEF Exiting
    <3>2. CASE n \in exits
      BY <1>a, <1>7, <1>8, <1>9, <3>1, <3>2 DEF LeavingMatches
    <3>3. CASE n \notin exits
      BY <1>a, <1>8, <1>9, <1>12, <2>1, <3>1, <3>3 DEF LeavingMatches
    <3> QED
      BY <3>2, <3>3
  <2> QED
    BY <1>2, <2>1 DEF LeavingMatches
<1>25. SettledMatches'
  <2>1. ASSUME NEW n \in (tracked' \cap alive) \ Unsettled PROVE recParent[n] = parent'[n]
    BY <1>a, <1>4, TypeFacts DEF SettledMatches
  <2>2. ASSUME NEW n \in alive \ (tracked' \cup Unsettled) PROVE recParent[n] \notin Known'
    <3>1. CASE n \notin tracked
      BY <1>a, <1>14, <3>1 DEF SettledMatches
    <3>2. CASE n \in tracked
      <4>1. n \in dead /\ n \in Node
        BY <1>4, <3>2
      <4>2. recParent[n] = parent[n]
        BY <1>a, <2>2, <3>2 DEF SettledMatches
      <4>3. parent[n] = None \/ parent[n] \in dead
        BY <1>4, <4>1
      <4>4. None \notin Known
        BY <1>a, TypeFacts DEF Known, Parent
      <4> QED
        BY <1>14, <4>2, <4>3, <4>4
    <3> QED
      BY <3>1, <3>2
  <2> QED
    BY <1>2, <1>17, <2>1, <2>2 DEF SettledMatches
<1>26. KnownLives'
  BY <1>a, <1>2, <1>4, <1>13 DEF KnownLives
<1> QED
  BY <1>4, <1>18, <1>19, <1>20, <1>21, <1>22, <1>23, <1>24, <1>25, <1>26 DEF Agreement

LEMMA TimerKeeps ==
  ASSUME Sound, NEW n \in Node, ExitTimerFires(n)
  PROVE  Agreement'
<1>a. /\ TypeOK /\ DoomedDetached /\ TreeConsistent
      /\ KnownTree /\ DoomedApart /\ DropsForgotten /\ WaitingMatches
      /\ RecordsAgree /\ LeavingMatches /\ SettledMatches /\ KnownLives
  BY AgreementParts
<1> DEFINE dead == Subtree({n})
<1>1. /\ ~Busy /\ n \in Exiting /\ Forget(dead, exitTimers)
      /\ commit' = [NoCommit EXCEPT !.removes = {<<exitTimers[n], n>>}]
      /\ pendingDrops' = pendingDrops \cup dead
      /\ UNCHANGED <<pendingRemovals, rescued, ready, queue, batch, nativeVars>>
  BY DEF ExitTimerFires, Idle
<1>2. /\ Removed' = Removed /\ Waiting' = Waiting
      /\ issued' = issued /\ alive' = alive /\ recParent' = recParent
      /\ recKids' = recKids /\ yogaKids' = yogaKids /\ ready' = ready
      /\ rescued' = rescued /\ pendingRemovals' = pendingRemovals
  BY <1>1 DEF Removed, Waiting, nativeVars
<1>3. {n} \in SUBSET Node /\ \A m \in {n} : parent[m] = None
  BY <1>a, <1>1 DEF DoomedDetached
<1>4. /\ tracked' = tracked \ dead
      /\ \A m \in Node : parent'[m] = IF m \in dead THEN None ELSE parent[m]
      /\ \A m \in Node : parent[m] # None => (m \in dead <=> parent[m] \in dead)
      /\ {n} \subseteq dead /\ dead \subseteq Node /\ Root \notin dead
      /\ KnownTree'
  BY <1>1, <1>3, ForgetFacts
<1>5. \A m \in dead : parent[m] = None => m = n
  BY <1>a, <1>3, DetachedBelow
<1>6. dead \subseteq Fading
  <2>1. \A x \in Fading : kidSets[x] \subseteq Fading
    BY <1>a, <1>3, FadingFacts, SubtreeClosed
  <2>2. {n} \subseteq Fading /\ Fading \in SUBSET Node
    BY <1>a, <1>1, FadingFacts
  <2> QED
    BY <2>1, <2>2, ClosureLeast DEF Subtree
<1>7. exitTimers' = [m \in Node |-> IF m \in dead THEN None ELSE exitTimers[m]]
  BY <1>1 DEF Forget
<1>8. /\ Exiting \subseteq Exiting' \cup dead => Fading \subseteq Fading' \cup dead
      /\ Exiting' \subseteq Exiting => Fading' \subseteq Fading
  BY <1>a, <1>1, <1>3, FadingForgets
<1> HIDE DEF dead
<1>9. \A m \in Exiting : m \in dead <=> m = n
  BY <1>a, <1>4, <1>5 DEF DoomedDetached
<1>10. Exiting' = Exiting \ {n} /\ \A m \in Exiting' : exitTimers'[m] = exitTimers[m]
  BY <1>4, <1>7, <1>9 DEF Exiting
<1>11. Fading \subseteq Fading' \cup dead /\ Fading' \subseteq Fading
  BY <1>4, <1>8, <1>10
<1>12. Known' = Known \ dead /\ Known' \subseteq Known
  BY <1>4 DEF Known
<1>13. /\ commit'.removes = {<<exitTimers[n], n>>} /\ commit'.inserts = <<>>
       /\ commit'.drops = {} /\ ToSet(commit'.inserts) = {}
  <2>1. commit' = [removes |-> {<<exitTimers[n], n>>}, inserts |-> <<>>, drops |-> {}]
    BY <1>1 DEF NoCommit
  <2> QED
    BY <2>1, EmptySeq DEF ToSet
<1>14. {r[2] : r \in commit'.removes} = {n}
  BY <1>13
<1>15. Unsettled' = Unsettled
  <2>1. commit.removes = {} /\ ToSet(commit.inserts) = {}
    BY <1>1, NotBusy
  <2>2. Unsettled' = (Removed \ rescued) \cup Exiting' \cup {op.child : op \in Waiting} \cup {n}
    BY <1>2, <1>13, <1>14 DEF Unsettled
  <2>3. Unsettled = (Removed \ rescued) \cup Exiting \cup {op.child : op \in Waiting}
    BY <2>1 DEF Unsettled
  <2> QED
    BY <1>1, <1>10, <2>2, <2>3
<1>16. DoomedApart'
  <2>1. Removed \cap dead = {}
    <3> SUFFICES ASSUME NEW m \in Removed, m \in dead PROVE FALSE
      OBVIOUS
    <3>1. m \notin rescued
      <4>1. m \notin rescued \/ \E op \in Waiting : op.child = m
        BY <1>a DEF DoomedApart
      <4> QED
        BY <1>a, <1>6, <4>1 DEF WaitingMatches
    <3>2. parent[m] = None
      BY <1>a, <3>1 DEF DoomedDetached
    <3> QED
      BY <1>a, <1>1, <1>5, <3>2 DEF DoomedApart
  <2>2. ready \cap dead = {}
    BY <1>a, <1>1, <1>5 DEF DoomedApart, DoomedDetached
  <2>3. Exiting' \cap dead = {}
    BY <1>9, <1>10
  <2> QED
    BY <1>a, <1>2, <1>4, <1>10, <2>1, <2>2, <2>3 DEF DoomedApart
<1>17. DropsForgotten'
  <2>1. dead \subseteq issued
    <3>1. \A m \in dead : m \in tracked
      BY <1>a, <1>1, <1>4, <1>5 DEF DoomedApart, KnownTree
    <3> QED
      BY <1>a, <3>1, TypeFacts
  <2> QED
    BY <1>a, <1>1, <1>2, <1>4, <1>13, <2>1 DEF DropsForgotten
<1>18. WaitingMatches'
  <2> SUFFICES ASSUME NEW op \in Waiting
               PROVE  /\ parent'[op.child] = op.parent
                      /\ op.child \in Known' \ Fading' /\ op.parent \in Known' \ Fading'
    BY <1>2 DEF WaitingMatches
  <2>1. op.child \in Node /\ parent[op.child] = op.parent
        /\ op.child \in Known \ Fading /\ op.parent \in Known \ Fading
    BY <1>a, WaitingType DEF InsertOp, WaitingMatches
  <2> QED
    BY <1>4, <1>6, <1>11, <1>12, <2>1
<1>19. InsertsMatch' /\ FlushTakesAll'
  BY <1>13 DEF InsertsMatch, FlushTakesAll
<1>20. RemovesMatch'
  BY <1>a, <1>1, <1>2, <1>4, <1>13 DEF RemovesMatch, LeavingMatches
<1>21. RecordsAgree'
  BY <1>a, <1>2 DEF RecordsAgree, Addressable
<1>22. LeavingMatches'
  BY <1>a, <1>2, <1>10 DEF LeavingMatches
<1>23. SettledMatches'
  <2>1. ASSUME NEW m \in (tracked' \cap alive) \ Unsettled PROVE recParent[m] = parent'[m]
    BY <1>a, <1>4, TypeFacts DEF SettledMatches
  <2>2. ASSUME NEW m \in alive \ (tracked' \cup Unsettled) PROVE recParent[m] \notin Known'
    <3>1. CASE m \notin tracked
      BY <1>a, <1>12, <3>1 DEF SettledMatches
    <3>2. CASE m \in tracked
      <4>1. m \in dead /\ m \in Node
        BY <1>4, <3>2
      <4>2. recParent[m] = parent[m]
        BY <1>a, <2>2, <3>2 DEF SettledMatches
      <4>3. parent[m] = None \/ parent[m] \in dead
        BY <1>4, <4>1
      <4>4. None \notin Known
        BY <1>a, TypeFacts DEF Known, Parent
      <4> QED
        BY <1>12, <4>2, <4>3, <4>4
    <3> QED
      BY <3>1, <3>2
  <2> QED
    BY <1>2, <1>15, <2>1, <2>2 DEF SettledMatches
<1>24. KnownLives'
  BY <1>a, <1>2, <1>4, <1>11 DEF KnownLives
<1> QED
  BY <1>4, <1>16, <1>17, <1>18, <1>19, <1>20, <1>21, <1>22, <1>23, <1>24 DEF Agreement
\* A commit leaves the host's side alone.
LEMMA HostWaits ==
  ASSUME UNCHANGED hostVars
  PROVE  /\ tracked' = tracked /\ parent' = parent /\ kids' = kids /\ ready' = ready
         /\ pendingRemovals' = pendingRemovals /\ rescued' = rescued
         /\ pendingDrops' = pendingDrops /\ exitTimers' = exitTimers
         /\ Waiting' = Waiting /\ Removed' = Removed /\ Exiting' = Exiting
         /\ Known' = Known /\ Fading' = Fading
<1>1. /\ tracked' = tracked /\ parent' = parent /\ kids' = kids /\ ready' = ready
      /\ pendingRemovals' = pendingRemovals /\ rescued' = rescued
      /\ pendingDrops' = pendingDrops /\ exitTimers' = exitTimers
      /\ queue' = queue /\ batch' = batch
  BY DEF hostVars, treeVars, doomVars
<1>2. /\ Waiting' = Waiting /\ Removed' = Removed /\ Exiting' = Exiting /\ Known' = Known
  BY <1>1 DEF Waiting, Removed, Exiting, Known
<1>3. Fading' = Fading
  BY <1>1, <1>2 DEF Fading, Subtree, kidSets
<1> QED
  BY <1>1, <1>2, <1>3

\* removeChild for the removals of a commit: each takes its node from the
\* parent that the record names.
LEMMA CommitRemovesKeeps ==
  ASSUME Sound, CommitRemoves
  PROVE  Agreement'
<1>a. /\ TypeOK /\ DoomedDetached
      /\ KnownTree /\ DoomedApart /\ DropsForgotten /\ WaitingMatches
      /\ InsertsMatch /\ RemovesMatch /\ FlushTakesAll /\ RecordsAgree
      /\ LeavingMatches /\ SettledMatches /\ KnownLives
  BY AgreementParts
<1> DEFINE valid   == {r \in commit.removes : Addressable(r[1])}
           gone(p) == {r[2] : r \in {v \in valid : v[1] = p}}
           child   == {r[2] : r \in valid}
<1>1. /\ commit' = [commit EXCEPT !.removes = {}] /\ UNCHANGED hostVars
      /\ recParent' = [n \in Node |-> IF n \in child \cap alive
                                       THEN None ELSE recParent[n]]
      /\ recKids' = [n \in Node |-> recKids[n] \ gone(n)]
      /\ yogaKids' = [p \in Parent |-> Without(yogaKids[p], gone(p))]
      /\ issued' = issued /\ alive' = alive
  BY DEF CommitRemoves, NativeRemove
<1>2. /\ tracked' = tracked /\ parent' = parent /\ ready' = ready
      /\ pendingRemovals' = pendingRemovals /\ rescued' = rescued
      /\ pendingDrops' = pendingDrops /\ exitTimers' = exitTimers
      /\ Waiting' = Waiting /\ Removed' = Removed /\ Exiting' = Exiting
      /\ Known' = Known /\ Fading' = Fading
  BY <1>1, HostWaits
<1>3. commit'.removes = {} /\ commit'.inserts = commit.inserts /\ commit'.drops = commit.drops
  BY <1>1, <1>a, TypeFacts
<1>4. commit.removes \subseteq Parent \X Node
  BY <1>a, TypeFacts
<1>5. \A n \in child : n \in Node /\ (n \in alive => \E r \in valid : r[2] = n /\ r[1] = recParent[n])
  BY <1>a, <1>4 DEF RemovesMatch
<1>6. \A n \in child \cap alive : \A p : n \in gone(p) <=> p = recParent[n]
  <2> TAKE n \in child \cap alive
  <2> TAKE p
  <2>1. n \in gone(p) => p = recParent[n]
    BY <1>a DEF RemovesMatch
  <2>2. PICK r \in valid : r[2] = n /\ r[1] = recParent[n]
    BY <1>5
  <2>3. p = recParent[n] => n \in gone(p)
    BY <2>2
  <2> QED
    BY <2>1, <2>3
<1>7. \A n, p : n \in gone(p) => n \in child
  OBVIOUS
<1>8. \A n \in child : n \in ready \/ n \notin tracked
  BY <1>a DEF RemovesMatch
<1>u. /\ Unsettled' \subseteq Unsettled
      /\ \A n \in Unsettled : n \in Unsettled' \/ \E r \in commit.removes : r[2] = n
  BY <1>2, <1>3 DEF Unsettled
<1>v. \A r \in commit.removes : r[2] \in alive => r[2] \in child
  <2> SUFFICES ASSUME NEW r \in commit.removes, r[2] \in alive PROVE r \in valid
    OBVIOUS
  <2>1. recParent[r[2]] = r[1] /\ r[1] \in Parent /\ r[2] \in Node
    BY <1>a, <1>4 DEF RemovesMatch
  <2>2. r[1] # None
    BY <1>a, <2>1, TypeFacts
  <2> QED
    BY <1>a, <2>1, <2>2 DEF RecordsAgree
<1>9. \A n \in Node : recParent'[n] = IF n \in child \cap alive THEN None ELSE recParent[n]
  BY <1>1
<1> HIDE DEF gone, child, valid
<1>10. KnownTree' /\ DoomedApart' /\ WaitingMatches'
  BY <1>a, <1>2 DEF KnownTree, DoomedApart, WaitingMatches
<1>11. DropsForgotten'
  BY <1>a, <1>1, <1>2, <1>3 DEF DropsForgotten
<1>12. InsertsMatch' /\ RemovesMatch' /\ FlushTakesAll'
  BY <1>a, <1>1, <1>2, <1>3 DEF InsertsMatch, RemovesMatch, FlushTakesAll, Addressable
<1>13. RecordsAgree'
  <2>0. \A n \in Node : recParent[n] # None => n \in alive
    BY <1>a DEF RecordsAgree
  <2>p. \A p \in Parent : p # None
    BY <1>a, TypeFacts
  <2>1. ASSUME NEW p \in Parent, NEW n \in Node
        PROVE  recParent'[n] = p <=> recParent[n] = p /\ n \notin gone(p)
    BY <1>6, <1>7, <1>9, <2>0, <2>p
  <2>2. \A x, n \in Node : n \in recKids'[x] <=> recParent'[n] = x
    BY <1>a, <1>1, <2>1 DEF RecordsAgree, Parent
  <2>3. \A p \in Parent : ToSet(yogaKids'[p]) = ToSet(yogaKids[p]) \ gone(p)
    BY <1>a, <1>1, TypeFacts, WithoutElements
  <2>4. \A p \in Parent, n \in Node : n \in ToSet(yogaKids'[p]) <=> recParent'[n] = p
    BY <1>a, <2>1, <2>3 DEF RecordsAgree
  <2>5. \A n \in Node : recParent'[n] # None => n \in alive' /\ recParent'[n] \in alive' \cup {Root}
    BY <1>a, <1>1, <1>9 DEF RecordsAgree, Addressable
  <2> QED
    BY <2>2, <2>4, <2>5 DEF RecordsAgree, Addressable
<1>14. LeavingMatches'
  <2>1. \A n \in Removed \ rescued : n \notin child /\ n \in Node
    BY <1>a, <1>8 DEF DoomedApart, Removed
  <2>2. \A n \in Exiting : n \notin child /\ n \in Node
    BY <1>a, <1>8 DEF DoomedApart, Exiting
  <2> QED
    BY <1>a, <1>1, <1>2, <1>9, <2>1, <2>2 DEF LeavingMatches
<1>15. SettledMatches'
  <2>1. ASSUME NEW n \in (tracked \cap alive) \ Unsettled' PROVE recParent'[n] = parent[n]
    <3>1. n \in Node
      BY <1>a, TypeFacts
    <3>2. CASE n \in child
      BY <1>a, <1>8, <1>9, <2>1, <3>1, <3>2 DEF DoomedDetached
    <3>3. CASE n \notin child
      <4>1. n \notin Unsettled
        BY <1>u, <1>v, <2>1, <3>3
      <4> QED
        BY <1>a, <1>9, <2>1, <3>1, <3>3, <4>1 DEF SettledMatches
    <3> QED
      BY <3>2, <3>3
  <2>2. ASSUME NEW n \in alive \ (tracked \cup Unsettled') PROVE recParent'[n] \notin Known
    <3>1. n \in Node /\ None \notin Known
      BY <1>a, TypeFacts DEF Known, Parent
    <3>2. CASE n \in child
      BY <1>9, <2>2, <3>1, <3>2
    <3>3. CASE n \notin child
      <4>1. n \notin Unsettled
        BY <1>u, <1>v, <2>2, <3>3
      <4> QED
        BY <1>a, <1>9, <2>2, <3>1, <3>3, <4>1 DEF SettledMatches
    <3> QED
      BY <3>2, <3>3
  <2> QED
    BY <1>1, <1>2, <2>1, <2>2 DEF SettledMatches
<1>16. KnownLives'
  BY <1>a, <1>1, <1>2 DEF KnownLives
<1> QED
  BY <1>10, <1>11, <1>12, <1>13, <1>14, <1>15, <1>16 DEF Agreement

\* insertChild for the next insertion of a commit, whose nodes both live.
LEMMA CommitInsertKeeps ==
  ASSUME Sound, CommitInsert
  PROVE  Agreement'
<1>a. /\ TypeOK /\ DoomedDetached
      /\ KnownTree /\ DoomedApart /\ DropsForgotten /\ WaitingMatches
      /\ InsertsMatch /\ RemovesMatch /\ FlushTakesAll /\ RecordsAgree
      /\ LeavingMatches /\ SettledMatches /\ KnownLives
  BY AgreementParts
<1> DEFINE op == Head(commit.inserts)
           c  == op.child
           p  == op.parent
           rest == YogaDetached(c)
           pos  == IF op.at > Len(rest[p]) THEN Len(rest[p]) ELSE op.at
<1>1. /\ commit' = [commit EXCEPT !.inserts = Tail(commit.inserts)] /\ UNCHANGED hostVars
      /\ commit.removes = {} /\ commit.inserts # <<>>
      /\ NativeInsert(p, c, op.at)
  BY DEF CommitInsert
<1>2. /\ tracked' = tracked /\ parent' = parent /\ ready' = ready
      /\ pendingRemovals' = pendingRemovals /\ rescued' = rescued
      /\ pendingDrops' = pendingDrops /\ exitTimers' = exitTimers
      /\ Waiting' = Waiting /\ Removed' = Removed /\ Exiting' = Exiting
      /\ Known' = Known /\ Fading' = Fading
  BY <1>1, HostWaits
<1>3. /\ commit'.removes = {} /\ commit'.inserts = Tail(commit.inserts)
      /\ commit'.drops = commit.drops
  BY <1>1, <1>a, TypeFacts
<1>4. /\ op \in InsertOp
      /\ ToSet(commit.inserts) = {op} \cup ToSet(Tail(commit.inserts))
  BY <1>1, <1>a, TypeFacts, TailElements
<1>5. c \in Node /\ p \in Parent /\ op.at \in Nat /\ p # None
  BY <1>4, <1>a, TypeFacts DEF InsertOp
<1>6. /\ c \in alive /\ Addressable(p)
      /\ parent[c] = p \/ (c \notin tracked /\ p \notin Known)
  BY <1>a, <1>4 DEF InsertsMatch
<1>7. Waiting = {} /\ Removed = {}
  BY <1>a, <1>1 DEF FlushTakesAll
<1>8. /\ recParent' = [recParent EXCEPT ![c] = p] /\ issued' = issued /\ alive' = alive
      /\ recKids' = [m \in Node |-> IF m = p THEN recKids[m] \cup {c}
                                   ELSE IF m = recParent[c] THEN recKids[m] \ {c}
                                   ELSE recKids[m]]
      /\ yogaKids' = [rest EXCEPT ![p] = InsertAt(rest[p], pos + 1, c)]
  BY <1>1, <1>6, Zenon DEF NativeInsert
<1> HIDE DEF op
<1>9. recParent'[c] = p /\ \A n \in Node : n # c => recParent'[n] = recParent[n]
  BY <1>5, <1>8, <1>a, TypeFacts
<1>10. /\ Unsettled' \subseteq Unsettled
       /\ \A n \in Unsettled : n \in Unsettled' \/ n = c
  BY <1>1, <1>2, <1>3, <1>4 DEF Unsettled
<1>11. c \notin Exiting
  BY <1>a, <1>5, <1>6 DEF DoomedDetached, DoomedApart
<1>12. KnownTree' /\ DoomedApart' /\ WaitingMatches'
  BY <1>a, <1>2 DEF KnownTree, DoomedApart, WaitingMatches
<1>13. DropsForgotten'
  BY <1>a, <1>2, <1>3, <1>8 DEF DropsForgotten
<1>14. InsertsMatch' /\ RemovesMatch' /\ FlushTakesAll'
  BY <1>a, <1>2, <1>3, <1>4, <1>7, <1>8
  DEF InsertsMatch, RemovesMatch, FlushTakesAll, Addressable
<1>15. RecordsAgree'
  <2>1. \A x, n \in Node : n \in recKids'[x] <=> recParent'[n] = x
    <3> SUFFICES ASSUME NEW x \in Node, NEW n \in Node
                 PROVE  n \in recKids'[x] <=> recParent'[n] = x
      OBVIOUS
    <3>1. n \in recKids[x] <=> recParent[n] = x
      BY <1>a DEF RecordsAgree
    <3>2. recKids'[x] = IF x = p THEN recKids[x] \cup {c}
                        ELSE IF x = recParent[c] THEN recKids[x] \ {c} ELSE recKids[x]
      BY <1>8
    <3> QED
      BY <1>9, <3>1, <3>2
  <2>2. /\ \A q \in Parent : rest[q] \in Seq(Node) /\ ToSet(rest[q]) = ToSet(yogaKids[q]) \ {c}
        /\ rest = [q \in Parent |-> rest[q]]
    BY <1>a, TypeFacts, WithoutElements DEF YogaDetached
  <2>3. pos + 1 \in 1 .. Len(rest[p]) + 1
    <3>1. Len(rest[p]) \in Nat
      BY <1>5, <2>2, LenProperties
    <3> HIDE DEF rest
    <3> QED
      BY <1>5, <3>1
  <2> HIDE DEF rest, pos
  <2>4. ToSet(InsertAt(rest[p], pos + 1, c)) = ToSet(rest[p]) \cup {c}
    BY <1>5, <2>2, <2>3, InsertAtElements
  <2>5. yogaKids'[p] = InsertAt(rest[p], pos + 1, c)
        /\ \A q \in Parent : q # p => yogaKids'[q] = rest[q]
    BY <1>5, <1>8, <2>2
  <2>6. \A q \in Parent, n \in Node : n \in ToSet(yogaKids'[q]) <=> recParent'[n] = q
    <3> SUFFICES ASSUME NEW q \in Parent, NEW n \in Node
                 PROVE  n \in ToSet(yogaKids'[q]) <=> recParent'[n] = q
      OBVIOUS
    <3>1. n \in ToSet(yogaKids[q]) <=> recParent[n] = q
      BY <1>a DEF RecordsAgree
    <3>2. ToSet(rest[q]) = ToSet(yogaKids[q]) \ {c}
      BY <2>2
    <3>3. CASE q = p
      BY <1>9, <2>4, <2>5, <3>1, <3>2, <3>3
    <3>4. CASE q # p
      BY <1>9, <2>5, <3>1, <3>2, <3>4
    <3> QED
      BY <3>3, <3>4
  <2>7. \A n \in Node : recParent'[n] # None => n \in alive' /\ recParent'[n] \in alive' \cup {Root}
    BY <1>a, <1>6, <1>8, <1>9 DEF RecordsAgree, Addressable
  <2> QED
    BY <2>1, <2>6, <2>7 DEF RecordsAgree, Addressable
<1> HIDE DEF c, p
<1>16. LeavingMatches'
  BY <1>a, <1>2, <1>7, <1>8, <1>9, <1>11 DEF LeavingMatches, Exiting
<1>17. SettledMatches'
  <2>1. ASSUME NEW n \in (tracked \cap alive) \ Unsettled' PROVE recParent'[n] = parent[n]
    <3>1. n \in Node
      BY <1>a, TypeFacts
    <3>2. CASE n = c
      BY <1>6, <1>9, <2>1, <3>2
    <3>3. CASE n # c
      BY <1>a, <1>9, <1>10, <2>1, <3>1, <3>3 DEF SettledMatches
    <3> QED
      BY <3>2, <3>3
  <2>2. ASSUME NEW n \in alive \ (tracked \cup Unsettled') PROVE recParent'[n] \notin Known
    <3>1. n \in Node
      BY <1>a, TypeFacts
    <3>2. CASE n = c
      <4>1. parent[c] # p
        BY <1>a, <1>5, <2>2, <3>1, <3>2 DEF KnownTree
      <4> QED
        BY <1>6, <1>9, <3>2, <4>1
    <3>3. CASE n # c
      BY <1>a, <1>9, <1>10, <2>2, <3>1, <3>3 DEF SettledMatches
    <3> QED
      BY <3>2, <3>3
  <2> QED
    BY <1>2, <1>8, <2>1, <2>2 DEF SettledMatches
<1>18. KnownLives'
  BY <1>a, <1>2, <1>8 DEF KnownLives
<1> QED
  BY <1>12, <1>13, <1>14, <1>15, <1>16, <1>17, <1>18 DEF Agreement

\* What dropNode reaches is forgotten or fades.
LEMMA DropsReach ==
  ASSUME Sound, commit.removes = {}, commit.inserts = <<>>
  PROVE  Closure(commit.drops \cap alive, recKids) \cap (tracked \ Fading) = {}
<1>a. /\ TypeOK /\ TreeConsistent
      /\ KnownTree /\ DropsForgotten /\ FlushTakesAll /\ RecordsAgree /\ SettledMatches
  BY AgreementParts
<1> DEFINE start == commit.drops \cap alive
           T == {n \in alive : n \notin tracked \/ n \in Fading}
<1>1. T \in SUBSET Node /\ start \subseteq T
  BY <1>a, TypeFacts DEF DropsForgotten
<1>2. CASE commit.drops = {}
  <2>1. {} \in SUBSET Node /\ start \subseteq {} /\ \A x \in {} : recKids[x] \subseteq {}
    BY <1>2
  <2>2. Closure(start, recKids) \subseteq {}
    BY <2>1, ClosureLeast
  <2> QED
    BY <2>2
<1>3. CASE commit.drops # {}
  <2>1. Unsettled = Exiting
    <3>1. Waiting = {} /\ Removed = {} /\ ToSet(commit.inserts) = {}
      BY <1>a, <1>3, EmptySeq DEF FlushTakesAll, ToSet
    <3> QED
      BY <3>1 DEF Unsettled
  <2>2. ASSUME NEW x \in T, NEW y \in recKids[x] PROVE y \in T
    <3>1. x \in Node /\ y \in Node /\ x # Root
      BY <1>1, <1>a, TypeFacts
    <3>2. recParent[y] = x /\ y \in alive
      BY <1>a, <3>1, TypeFacts DEF RecordsAgree, Parent
    <3>3. CASE y \notin tracked
      BY <3>2, <3>3
    <3>4. CASE y \in Exiting
      BY <1>a, <3>2, <3>4, FadingFacts
    <3>5. CASE y \in tracked /\ y \notin Exiting
      <4>1. parent[y] = x
        BY <1>a, <2>1, <3>2, <3>5 DEF SettledMatches
      <4>2. x \in tracked
        BY <1>a, <3>1, <4>1, TypeFacts DEF KnownTree, Known, Parent
      <4>3. x \in Fading
        BY <4>2
      <4> QED
        BY <1>a, <3>1, <3>2, <4>1, <4>3, FadingFacts
    <3> QED
      BY <3>3, <3>4, <3>5
  <2> HIDE DEF T, start
  <2>3. Closure(start, recKids) \subseteq T
    BY <1>1, <2>2, ClosureLeast
  <2> QED
    BY <2>3 DEF T, start
<1> QED
  BY <1>2, <1>3

\* dropNode for the drops of a commit.
LEMMA CommitDropsKeeps ==
  ASSUME Sound, CommitDrops
  PROVE  Agreement'
<1>a. /\ TypeOK /\ DoomedDetached
      /\ KnownTree /\ DoomedApart /\ DropsForgotten /\ WaitingMatches
      /\ InsertsMatch /\ RemovesMatch /\ FlushTakesAll /\ RecordsAgree
      /\ LeavingMatches /\ SettledMatches /\ KnownLives
  BY AgreementParts
<1> DEFINE dead == Closure(commit.drops \cap alive, recKids)
<1>1. /\ commit.removes = {} /\ commit.inserts = <<>> /\ commit.drops # {}
      /\ commit' = NoCommit /\ UNCHANGED hostVars
      /\ alive' = alive \ dead /\ issued' = issued
      /\ recParent' = [n \in Node |-> IF n \in dead THEN None ELSE recParent[n]]
      /\ recKids' = [n \in Node |->
           IF n \in dead THEN {} ELSE recKids[n] \ {c \in dead : recParent[c] = n}]
      /\ yogaKids' = [p \in Parent |->
           IF p \in dead THEN <<>> ELSE Without(yogaKids[p], dead)]
  BY DEF CommitDrops, NativeDrop
<1>2. /\ tracked' = tracked /\ parent' = parent /\ ready' = ready
      /\ pendingRemovals' = pendingRemovals /\ rescued' = rescued
      /\ pendingDrops' = pendingDrops /\ exitTimers' = exitTimers
      /\ Waiting' = Waiting /\ Removed' = Removed /\ Exiting' = Exiting
      /\ Known' = Known /\ Fading' = Fading
  BY <1>1, HostWaits
<1>3. /\ commit'.removes = {} /\ commit'.inserts = <<>> /\ commit'.drops = {}
      /\ ToSet(commit'.inserts) = {} /\ ToSet(commit.inserts) = {}
  BY <1>1, EmptySeq DEF NoCommit, ToSet
<1>4. Waiting = {} /\ Removed = {}
  BY <1>a, <1>1 DEF FlushTakesAll
<1>5. dead \cap (tracked \ Fading) = {}
  BY <1>1, DropsReach
<1>6. dead \subseteq Node /\ Root \notin dead
  BY <1>a, ClosureType, TypeFacts
<1>7. \A x, n \in Node : x \in dead /\ recParent[n] = x => n \in dead
  BY <1>a, ClosureClosed DEF RecordsAgree
<1>8. Unsettled' = Unsettled
  BY <1>1, <1>2, <1>3, <1>4 DEF Unsettled
<1> HIDE DEF dead
<1>9. \A n \in Node : recParent'[n] = IF n \in dead THEN None ELSE recParent[n]
  BY <1>1
<1>10. KnownTree' /\ DoomedApart' /\ WaitingMatches'
  BY <1>a, <1>2 DEF KnownTree, DoomedApart, WaitingMatches
<1>11. DropsForgotten'
  BY <1>a, <1>1, <1>2, <1>3 DEF DropsForgotten
<1>12. InsertsMatch' /\ RemovesMatch' /\ FlushTakesAll'
  BY <1>3 DEF InsertsMatch, RemovesMatch, FlushTakesAll
<1>13. RecordsAgree'
  <2>p. \A p \in Parent : p # None
    BY <1>a, TypeFacts
  <2>1. \A x, n \in Node : n \in recKids'[x] <=> recParent'[n] = x
    <3> SUFFICES ASSUME NEW x \in Node, NEW n \in Node
                 PROVE  n \in recKids'[x] <=> recParent'[n] = x
      OBVIOUS
    <3>1. n \in recKids[x] <=> recParent[n] = x
      BY <1>a DEF RecordsAgree
    <3>2. recKids'[x] = IF x \in dead THEN {}
                        ELSE recKids[x] \ {c \in dead : recParent[c] = x}
      BY <1>1
    <3>3. x # None
      BY <2>p DEF Parent
    <3> QED
      BY <1>7, <1>9, <3>1, <3>2, <3>3
  <2>2. \A p \in Parent : ToSet(yogaKids'[p])
                            = IF p \in dead THEN {} ELSE ToSet(yogaKids[p]) \ dead
    <3>1. ToSet(<<>>) = {}
      BY EmptySeq DEF ToSet
    <3>2. \A p \in Parent : ToSet(Without(yogaKids[p], dead)) = ToSet(yogaKids[p]) \ dead
      BY <1>a, TypeFacts, WithoutElements
    <3> QED
      BY <1>1, <3>1, <3>2
  <2>3. \A p \in Parent, n \in Node : n \in ToSet(yogaKids'[p]) <=> recParent'[n] = p
    <3> SUFFICES ASSUME NEW p \in Parent, NEW n \in Node
                 PROVE  n \in ToSet(yogaKids'[p]) <=> recParent'[n] = p
      OBVIOUS
    <3>1. n \in ToSet(yogaKids[p]) <=> recParent[n] = p
      BY <1>a DEF RecordsAgree
    <3>2. p \in dead /\ recParent[n] = p => n \in dead
      BY <1>6, <1>7
    <3> QED
      BY <1>9, <2>2, <2>p, <3>1, <3>2
  <2>4. \A n \in Node : recParent'[n] # None => n \in alive' /\ recParent'[n] \in alive' \cup {Root}
    <3> SUFFICES ASSUME NEW n \in Node, recParent'[n] # None
                 PROVE  n \in alive \ dead /\ recParent'[n] \in (alive \ dead) \cup {Root}
      BY <1>1 DEF Addressable
    <3>1. n \notin dead /\ recParent'[n] = recParent[n] /\ recParent[n] # None
      BY <1>9
    <3>2. n \in alive /\ recParent[n] \in alive \cup {Root}
      BY <1>a, <3>1 DEF RecordsAgree, Addressable
    <3>3. recParent[n] \notin dead
      BY <1>6, <1>7, <3>1
    <3> QED
      BY <3>1, <3>2, <3>3
  <2> QED
    BY <2>1, <2>3, <2>4 DEF RecordsAgree, Addressable
<1>14. LeavingMatches'
  <2>1. ASSUME NEW n \in Exiting \cap alive' PROVE recParent'[n] = exitTimers[n]
    BY <1>a, <1>1, <1>9 DEF LeavingMatches, Exiting
  <2> QED
    BY <1>2, <1>4, <2>1 DEF LeavingMatches
<1>15. SettledMatches'
  <2>1. \A n \in alive' : n \in alive /\ n \in Node /\ recParent'[n] = recParent[n]
    BY <1>a, <1>1, <1>9, TypeFacts
  <2> QED
    BY <1>a, <1>2, <1>8, <2>1 DEF SettledMatches
<1>16. KnownLives'
  BY <1>a, <1>1, <1>2, <1>5 DEF KnownLives
<1> QED
  BY <1>10, <1>11, <1>12, <1>13, <1>14, <1>15, <1>16 DEF Agreement
LEMMA InitSound == Init => Sound
<1> SUFFICES ASSUME Init PROVE Sound
  OBVIOUS
<1>1. TypeOK
  BY InitTyping
<1>2. /\ \A n \in Node : parent[n] = None /\ pendingRemovals[n] = None
                          /\ exitTimers[n] = None /\ recParent[n] = None /\ recKids[n] = {}
      /\ \A p \in Parent : kids[p] = <<>> /\ yogaKids[p] = <<>>
      /\ tracked = {} /\ ready = {} /\ pendingDrops = {} /\ rescued = {} /\ alive = {}
      /\ queue = <<>> /\ batch = <<>> /\ commit = NoCommit
  BY DEF Init, NativeInit
<1>3. Removed = {} /\ Exiting = {}
  BY <1>2 DEF Removed, Exiting
<1>4. IsInjective(<<>>) /\ ToSet(<<>>) = {} /\ DOMAIN <<>> = {}
  BY EmptySeq DEF IsInjective, ToSet
<1>5. Waiting = {}
  BY <1>2, <1>4 DEF Waiting
<1>6. commit.removes = {} /\ commit.inserts = <<>> /\ commit.drops = {}
  BY <1>2 DEF NoCommit
<1>n. \A p \in Parent : p # None
  BY NodeAssumption DEF Parent
<1>7. DoomedDetached /\ TreeConsistent
  BY <1>2, <1>3, <1>4, <1>n DEF DoomedDetached, TreeConsistent
<1>8. KnownTree /\ DoomedApart /\ DropsForgotten /\ WaitingMatches
  BY <1>2, <1>3, <1>5, <1>6 DEF KnownTree, DoomedApart, DropsForgotten, WaitingMatches
<1>9. InsertsMatch /\ RemovesMatch /\ FlushTakesAll
  BY <1>4, <1>6 DEF InsertsMatch, RemovesMatch, FlushTakesAll
<1>10. RecordsAgree
  BY <1>2, <1>4, <1>n DEF RecordsAgree, Parent
<1>11. LeavingMatches /\ SettledMatches /\ KnownLives
  BY <1>2, <1>3 DEF LeavingMatches, SettledMatches, KnownLives
<1> QED
  BY <1>1, <1>7, <1>8, <1>9, <1>10, <1>11 DEF Sound, Agreement

LEMMA SoundStep ==
  ASSUME Liberties \subseteq {"mix"}, Sound, [Next]_vars
  PROVE  Sound'
<1>1. TypeOK /\ DoomedDetached /\ TreeConsistent
  BY AgreementParts
<1>2. TypeOK' /\ DoomedDetached' /\ TreeConsistent'
  BY <1>1, TypingStep, DoomedStep, TreeStep
<1>3. Agreement'
  BY <1>1, StepKinds, QuietKeeps, CreateKeeps, InsertKeeps, RemoveKeeps, FlushKeeps,
     TimerKeeps, CommitRemovesKeeps, CommitInsertKeeps, CommitDropsKeeps
<1> QED
  BY <1>2, <1>3 DEF Sound

\* What is attached is known, has a parent and does not fade.
LEMMA AttachedFacts ==
  ASSUME Sound
  PROVE  /\ Attached \subseteq tracked \ Fading
         /\ \A n \in Attached : parent[n] \in Parent
<1>a. TypeOK /\ DoomedDetached /\ TreeConsistent /\ KnownTree
  BY AgreementParts
<1> DEFINE start == ToSet(kids[Root])
           T == {n \in Node \ Fading : parent[n] # None}
<1>1. \A n \in Node : n \in start <=> parent[n] = Root
  BY <1>a DEF TreeConsistent, Parent
<1>2. start \subseteq Node
  <2>1. kids[Root] \in Seq(Node)
    BY <1>a, TypeFacts DEF Parent
  <2> QED
    BY <2>1, LenProperties, ElementOfSeq DEF ToSet
<1>3. \A n \in Fading : parent[n] = None \/ parent[n] \in Fading
  BY <1>a, FadingFacts DEF DoomedDetached
<1>4. start \subseteq T
  BY <1>1, <1>2, <1>3, <1>a, FadingFacts, TypeFacts, NodeAssumption
<1>5. ASSUME NEW x \in T, NEW y \in kidSets[x] PROVE y \in T
  <2>1. y \in Node /\ parent[y] = x /\ x # None
    BY <1>a, SubtreeClosed, NodeAssumption
  <2> QED
    BY <1>3, <2>1
<1>6. T \in SUBSET Node
  OBVIOUS
<1> HIDE DEF T, start
<1>7. Attached \subseteq T
  BY <1>4, <1>5, <1>6, ClosureLeast DEF Attached, Subtree, start
<1> QED
  BY <1>7, <1>a, TypeFacts DEF T, KnownTree

\* Once the host has settled, the two sides differ on exits alone.
LEMMA SettledFacts ==
  ASSUME Sound, Settled
  PROVE  Unsettled = Exiting
<1>1. commit.removes = {} /\ ToSet(commit.inserts) = {}
  BY NotBusy DEF Settled
<1> QED
  BY <1>1 DEF Settled, Unsettled

LEMMA SoundMeans ==
  ASSUME Sound
  PROVE  TrackedAlive /\ DropsSpareAttached /\ AttachedPlaced /\ NoGhosts
<1>a. /\ TypeOK /\ DoomedDetached /\ TreeConsistent
      /\ RecordsAgree /\ SettledMatches /\ KnownLives
  BY AgreementParts
<1>1. TrackedAlive
  BY <1>a DEF KnownLives, TrackedAlive, Fading
<1>2. DropsSpareAttached
  BY DropsReach, AttachedFacts DEF DropsSpareAttached
<1>3. ASSUME Settled, NEW n \in Attached PROVE Shown(n)
  <2>1. n \in Node /\ n \in tracked /\ n \notin Fading /\ parent[n] \in Parent
    BY <1>a, AttachedFacts, TypeFacts
  <2>2. n \in alive /\ n \notin Unsettled
    BY <1>a, <1>3, <2>1, SettledFacts, FadingFacts DEF KnownLives
  <2>3. recParent[n] = parent[n]
    BY <1>a, <2>1, <2>2 DEF SettledMatches
  <2> QED
    BY <1>a, <2>1, <2>3 DEF RecordsAgree, Shown
<1>4. ASSUME Settled, NEW p \in Attached \cup {Root}, NEW n \in ToSet(yogaKids[p])
      PROVE  parent[n] = p \/ n \in Exiting
  <2>1. p \in Parent /\ p \in Known
    BY <1>a, AttachedFacts, TypeFacts DEF Known, Parent
  <2>2. n \in Node
    <3>1. yogaKids[p] \in Seq(Node)
      BY <1>a, <2>1, TypeFacts
    <3> QED
      BY <3>1, LenProperties, ElementOfSeq DEF ToSet
  <2>3. recParent[n] = p /\ p # None
    BY <1>a, <2>1, <2>2, TypeFacts DEF RecordsAgree
  <2>4. n \in alive
    BY <1>a, <2>2, <2>3 DEF RecordsAgree
  <2>5. CASE n \in tracked
    BY <1>a, <1>4, <2>3, <2>4, <2>5, SettledFacts DEF SettledMatches
  <2>6. CASE n \notin tracked
    BY <1>a, <1>4, <2>1, <2>3, <2>4, <2>6, SettledFacts DEF SettledMatches
  <2> QED
    BY <2>5, <2>6
<1> QED
  BY <1>1, <1>2, <1>3, <1>4 DEF AttachedPlaced, NoGhosts

(***************************************************************************)
(* In every app that uses the host as it expects, or mixes insertions and  *)
(* removals under one parent as well, whatever its frames, batches, exits  *)
(* and rescues: the host's tree, its waiting operations and the native     *)
(* tree agree (Agreement).  This is the inductive invariant of the four    *)
(* theorems below.                                                         *)
(***************************************************************************)
THEOREM HostAndTreeAgree ==
  ASSUME Liberties \subseteq {"mix"}
  PROVE  Spec => []Sound
<1>1. Sound /\ [Next]_vars => Sound'
  BY SoundStep
<1> QED
  BY <1>1, InitSound, PTL DEF Spec

\* In such an app every node the host knows lives natively, fading subtrees
\* aside: what destroySubtreeTracking forgets and what dropNode frees agree.
THEOREM TrackedIsAlive ==
  ASSUME Liberties \subseteq {"mix"}
  PROVE  Spec => []TrackedAlive
<1>1. Sound => TrackedAlive
  BY SoundMeans
<1> QED
  BY <1>1, HostAndTreeAgree, PTL

\* In such an app dropNode, which takes the recorded children along, never
\* takes a node that the host shows, though it runs a flush later.
THEOREM DropsSpareTheAttached ==
  ASSUME Liberties \subseteq {"mix"}
  PROVE  Spec => []DropsSpareAttached
<1>1. Sound => DropsSpareAttached
  BY SoundMeans
<1> QED
  BY <1>1, HostAndTreeAgree, PTL

\* In such an app every node under the root is laid out under the parent the
\* app gave it, once the host has settled.
THEOREM AttachedIsPlaced ==
  ASSUME Liberties \subseteq {"mix"}
  PROVE  Spec => []AttachedPlaced
<1>1. Sound => AttachedPlaced
  BY SoundMeans
<1> QED
  BY <1>1, HostAndTreeAgree, PTL

\* And nothing else is laid out there but nodes whose exit transition runs.
THEOREM NoGhostsRemain ==
  ASSUME Liberties \subseteq {"mix"}
  PROVE  Spec => []NoGhosts
<1>1. Sound => NoGhosts
  BY SoundMeans
<1> QED
  BY <1>1, HostAndTreeAgree, PTL
-----------------------------------------------------------------------------
(* What a list of insertions makes of the children of a parent p.          *)

\* The children l of p after op; an index beyond the end does not fit.
After(p, op, l) ==
  IF op.parent = p THEN InsertAt(Without(l, {op.child}), op.at + 1, op.child) ELSE l
Fits(p, op, l) == op.parent = p => op.at <= Len(Without(l, {op.child}))

\* The insertions of s lead from a to z, through fitting ones only.
Leads(p, a, s, z) ==
  \E f \in [0 .. Len(s) -> Seq(Node)] :
    /\ f[0] = a /\ f[Len(s)] = z
    /\ \A i \in 1 .. Len(s) : Fits(p, s[i], f[i - 1]) /\ f[i] = After(p, s[i], f[i - 1])

\* So do those of q and then of the batches b.
Chain(p, a, q, b, z) ==
  \E t \in [0 .. Len(b) -> Seq(Node)] :
    /\ Leads(p, a, q, t[0]) /\ t[Len(b)] = z
    /\ \A i \in 1 .. Len(b) : Leads(p, t[i - 1], b[i], t[i])

LEMMA AfterType ==
  ASSUME NEW p, NEW op \in InsertOp, NEW l \in Seq(Node), Fits(p, op, l)
  PROVE  After(p, op, l) \in Seq(Node)
<1> DEFINE w == Without(l, {op.child})
<1>1. w \in Seq(Node)
  BY WithoutElements
<1>2. Len(w) \in Nat /\ op.child \in Node /\ op.at \in Nat
  BY <1>1, LenProperties DEF InsertOp
<1>3. CASE op.parent = p
  <2>1. op.at + 1 \in 1 .. Len(w) + 1
    BY <1>2, <1>3 DEF Fits
  <2> HIDE DEF w
  <2>2. InsertAt(w, op.at + 1, op.child) \in Seq(Node)
    BY <1>1, <1>2, <2>1, InsertAtEntries
  <2> QED
    BY <1>3, <2>2 DEF After, w
<1>4. CASE op.parent # p
  BY <1>4 DEF After
<1> QED
  BY <1>3, <1>4

LEMMA LeadsType ==
  ASSUME NEW p, NEW a, NEW s \in Seq(InsertOp), NEW z, Leads(p, a, s, z)
  PROVE  a \in Seq(Node) /\ z \in Seq(Node)
<1>1. Len(s) \in Nat /\ 0 \in 0 .. Len(s) /\ Len(s) \in 0 .. Len(s)
  BY LenProperties
<1> QED
  BY <1>1 DEF Leads

\* Insertions under other parents lead nowhere.
LEMMA LeadsNowhere ==
  ASSUME NEW p, NEW a \in Seq(Node), NEW s \in Seq(InsertOp), NEW z,
         \A i \in 1 .. Len(s) : s[i].parent # p
  PROVE  Leads(p, a, s, z) <=> z = a
<1>1. Len(s) \in Nat
  BY LenProperties
<1>2. ASSUME Leads(p, a, s, z) PROVE z = a
  <2>1. PICK f \in [0 .. Len(s) -> Seq(Node)] :
          /\ f[0] = a /\ f[Len(s)] = z
          /\ \A i \in 1 .. Len(s) : Fits(p, s[i], f[i - 1]) /\ f[i] = After(p, s[i], f[i - 1])
    BY <1>2 DEF Leads
  <2>2. \A i \in 1 .. Len(s) : f[i] = f[i - 1]
    BY <2>1 DEF After
  <2> DEFINE bad == {i \in 0 .. Len(s) : f[i] # a}
  <2>3. bad = {}
    <3> SUFFICES ASSUME bad # {} PROVE FALSE
      OBVIOUS
    <3>1. PICK m : m \in bad /\ \A y \in bad : m <= y
      <4>1. bad \in SUBSET Nat
        BY <1>1
      <4> HIDE DEF bad
      <4> QED
        BY <4>1, MinInSet
    <3>2. m # 0 /\ m \in 1 .. Len(s) /\ m - 1 \in 0 .. Len(s) /\ ~(m <= m - 1)
      BY <1>1, <2>1, <3>1
    <3> QED
      BY <2>2, <3>1, <3>2
  <2> QED
    BY <1>1, <2>1, <2>3
<1>3. ASSUME z = a PROVE Leads(p, a, s, z)
  <2> DEFINE f == [i \in 0 .. Len(s) |-> a]
  <2>1. f \in [0 .. Len(s) -> Seq(Node)] /\ f[0] = a /\ f[Len(s)] = z
    BY <1>1, <1>3
  <2>2. \A i \in 1 .. Len(s) : f[i - 1] = a /\ f[i] = a
    BY <1>1
  <2> HIDE DEF f
  <2>3. \A i \in 1 .. Len(s) : Fits(p, s[i], f[i - 1]) /\ f[i] = After(p, s[i], f[i - 1])
    BY <2>2 DEF Fits, After
  <2> QED
    BY <2>1, <2>3 DEF Leads
<1> QED
  BY <1>2, <1>3

LEMMA LeadsByNone ==
  ASSUME NEW p, NEW a \in Seq(Node), NEW z
  PROVE  Leads(p, a, <<>>, z) <=> z = a
<1>1. <<>> \in Seq(InsertOp) /\ \A i \in 1 .. Len(<<>>) : <<>>[i].parent # p
  BY EmptySeq
<1> QED
  BY <1>1, LeadsNowhere

\* One list after the other.
LEMMA LeadsOn ==
  ASSUME NEW p, NEW a, NEW s \in Seq(InsertOp), NEW m,
         NEW t \in Seq(InsertOp), NEW z, Leads(p, a, s, m), Leads(p, m, t, z)
  PROVE  s \o t \in Seq(InsertOp) /\ Leads(p, a, s \o t, z)
<1> DEFINE r == s \o t
           k == Len(s)
           n == Len(t)
<1>1. /\ r \in Seq(InsertOp) /\ Len(r) = k + n /\ k \in Nat /\ n \in Nat
      /\ \A i \in 1 .. k + n : r[i] = IF i <= k THEN s[i] ELSE t[i - k]
  BY ConcatProperties, LenProperties
<1> HIDE DEF r
<1>2. PICK f \in [0 .. k -> Seq(Node)] :
        /\ f[0] = a /\ f[k] = m
        /\ \A i \in 1 .. k : Fits(p, s[i], f[i - 1]) /\ f[i] = After(p, s[i], f[i - 1])
  BY DEF Leads
<1>3. PICK g \in [0 .. n -> Seq(Node)] :
        /\ g[0] = m /\ g[n] = z
        /\ \A i \in 1 .. n : Fits(p, t[i], g[i - 1]) /\ g[i] = After(p, t[i], g[i - 1])
  BY DEF Leads
<1> HIDE DEF k, n
<1> DEFINE h == [i \in 0 .. k + n |-> IF i <= k THEN f[i] ELSE g[i - k]]
<1>4. h \in [0 .. k + n -> Seq(Node)]
  BY <1>1, <1>2, <1>3
<1>5. /\ \A i \in 0 .. k : h[i] = f[i]
      /\ \A i \in k .. k + n : h[i] = g[i - k]
  <2>1. \A i \in 0 .. k : i \in 0 .. k + n /\ i <= k
    BY <1>1
  <2>2. \A i \in k .. k + n : i \in 0 .. k + n /\ (i <= k => i = k /\ i - k = 0)
    BY <1>1
  <2> QED
    BY <1>2, <1>3, <2>1, <2>2
<1> HIDE DEF h
<1>6. h[0] = a /\ h[k + n] = z
  <2> DEFINE e == k + n
  <2>1. 0 \in 0 .. k /\ e \in k .. k + n /\ e - k = n
    BY <1>1
  <2> HIDE DEF e
  <2>2. h[0] = f[0] /\ h[e] = g[e - k]
    BY <1>5, <2>1
  <2>3. g[e - k] = g[n]
    BY <2>1
  <2> QED
    BY <1>2, <1>3, <2>2, <2>3 DEF e
<1>7. ASSUME NEW i \in 1 .. k + n
      PROVE  Fits(p, r[i], h[i - 1]) /\ h[i] = After(p, r[i], h[i - 1])
  <2>1. CASE i <= k
    <3>1. i \in 1 .. k /\ i \in 0 .. k /\ i - 1 \in 0 .. k
      BY <1>1, <2>1
    <3> QED
      BY <1>1, <1>2, <1>5, <2>1, <3>1
  <2>2. CASE ~(i <= k)
    <3>1. i \in k .. k + n /\ i - 1 \in k .. k + n /\ i - k \in 1 .. n
          /\ (i - 1) - k = (i - k) - 1
      BY <1>1, <2>2
    <3> QED
      BY <1>1, <1>3, <1>5, <2>2, <3>1
  <2> QED
    BY <2>1, <2>2
<1>8. Leads(p, a, r, z)
  BY <1>1, <1>4, <1>6, <1>7 DEF Leads
<1> QED
  BY <1>1, <1>8 DEF r

LEMMA LeadsByOne ==
  ASSUME NEW p, NEW a, NEW s \in Seq(InsertOp), NEW z, Leads(p, a, s, z),
         NEW op \in InsertOp, Fits(p, op, z)
  PROVE  /\ Append(s, op) \in Seq(InsertOp)
         /\ Leads(p, a, Append(s, op), After(p, op, z))
<1> DEFINE r == Append(s, op)
           k == Len(s)
           y == After(p, op, z)
<1>1. /\ r \in Seq(InsertOp) /\ Len(r) = k + 1 /\ k \in Nat /\ r[k + 1] = op
      /\ \A i \in 1 .. k : r[i] = s[i]
  BY AppendProperties, LenProperties
<1> HIDE DEF r
<1>2. PICK f \in [0 .. k -> Seq(Node)] :
        /\ f[0] = a /\ f[k] = z
        /\ \A i \in 1 .. k : Fits(p, s[i], f[i - 1]) /\ f[i] = After(p, s[i], f[i - 1])
  BY DEF Leads
<1>3. y \in Seq(Node)
  BY LeadsType, AfterType
<1> HIDE DEF y, k
<1> DEFINE h == [i \in 0 .. k + 1 |-> IF i <= k THEN f[i] ELSE y]
<1>4. h \in [0 .. k + 1 -> Seq(Node)]
  BY <1>1, <1>2, <1>3
<1>5. h[k + 1] = y /\ \A i \in 0 .. k : h[i] = f[i]
  <2>1. \A i \in 0 .. k : i \in 0 .. k + 1 /\ i <= k
    BY <1>1
  <2>2. k + 1 \in 0 .. k + 1 /\ ~(k + 1 <= k)
    BY <1>1
  <2> QED
    BY <2>1, <2>2
<1> HIDE DEF h
<1>6. h[0] = a
  BY <1>1, <1>2, <1>5
<1>7. ASSUME NEW i \in 1 .. k + 1
      PROVE  Fits(p, r[i], h[i - 1]) /\ h[i] = After(p, r[i], h[i - 1])
  <2>1. CASE i \in 1 .. k
    <3>1. i \in 0 .. k /\ i - 1 \in 0 .. k
      BY <1>1, <2>1
    <3> QED
      BY <1>1, <1>2, <1>5, <2>1, <3>1
  <2>2. CASE i = k + 1
    <3>1. i - 1 = k /\ k \in 0 .. k
      BY <1>1, <2>2
    <3>2. h[i - 1] = z /\ h[i] = y /\ r[i] = op
      BY <1>1, <1>2, <1>5, <2>2, <3>1
    <3> QED
      BY <3>2 DEF y
  <2> QED
    BY <1>1, <2>1, <2>2
<1>8. Leads(p, a, r, y)
  BY <1>1, <1>4, <1>5, <1>6, <1>7 DEF Leads
<1> QED
  BY <1>1, <1>8 DEF r, y

\* The first one, and the others.
LEMMA LeadsFrom ==
  ASSUME NEW p, NEW a, NEW s \in Seq(InsertOp), s # <<>>, NEW z, Leads(p, a, s, z)
  PROVE  Fits(p, Head(s), a) /\ Leads(p, After(p, Head(s), a), Tail(s), z)
<1> DEFINE r == Tail(s)
           n == Len(r)
<1>1. /\ r \in Seq(InsertOp) /\ Len(s) = n + 1 /\ n \in Nat /\ s[1] = Head(s)
      /\ \A i \in 1 .. n : r[i] = s[i + 1]
  <2>1. r \in Seq(InsertOp) /\ n = Len(s) - 1 /\ \A i \in 1 .. n : r[i] = s[i + 1]
    BY HeadTailProperties
  <2>2. Len(s) \in Nat /\ n \in Nat
    BY <2>1, LenProperties
  <2>3. Head(s) = s[1]
    OBVIOUS
  <2> QED
    BY <2>1, <2>2, <2>3
<1> HIDE DEF r, n
<1>2. PICK f \in [0 .. n + 1 -> Seq(Node)] :
        /\ f[0] = a /\ f[n + 1] = z
        /\ \A i \in 1 .. n + 1 : Fits(p, s[i], f[i - 1]) /\ f[i] = After(p, s[i], f[i - 1])
  BY <1>1 DEF Leads
<1>3. Fits(p, Head(s), a) /\ f[1] = After(p, Head(s), a)
  <2>1. 1 \in 1 .. n + 1 /\ 1 - 1 = 0
    BY <1>1
  <2> QED
    BY <1>1, <1>2, <2>1
<1> DEFINE h == [i \in 0 .. n |-> f[i + 1]]
<1>4. h \in [0 .. n -> Seq(Node)] /\ \A i \in 0 .. n : h[i] = f[i + 1]
  BY <1>1, <1>2
<1> HIDE DEF h
<1>5. h[0] = f[1] /\ h[n] = z
  BY <1>1, <1>2, <1>4
<1>6. ASSUME NEW i \in 1 .. n
      PROVE  Fits(p, r[i], h[i - 1]) /\ h[i] = After(p, r[i], h[i - 1])
  <2>1. i \in 0 .. n /\ i - 1 \in 0 .. n /\ i + 1 \in 1 .. n + 1
        /\ i - 1 + 1 = i /\ (i + 1) - 1 = i
    BY <1>1
  <2> QED
    BY <1>1, <1>2, <1>4, <2>1
<1>7. Leads(p, f[1], r, z)
  BY <1>4, <1>5, <1>6, <1>1 DEF Leads, n
<1> QED
  BY <1>3, <1>7 DEF r
LEMMA ChainAlone ==
  ASSUME NEW p, NEW a, NEW q \in Seq(InsertOp), NEW z
  PROVE  Chain(p, a, q, <<>>, z) <=> Leads(p, a, q, z)
<1>1. Len(<<>>) = 0 /\ 0 \in 0 .. 0 /\ 1 .. 0 = {}
  BY EmptySeq
<1>2. ASSUME Leads(p, a, q, z) PROVE Chain(p, a, q, <<>>, z)
  <2> DEFINE t == [i \in 0 .. 0 |-> z]
  <2>1. z \in Seq(Node)
    BY <1>2, LeadsType
  <2>2. t \in [0 .. Len(<<>>) -> Seq(Node)] /\ t[0] = z /\ t[Len(<<>>)] = z
    BY <1>1, <2>1
  <2> HIDE DEF t
  <2>3. \A i \in 1 .. Len(<<>>) : Leads(p, t[i - 1], <<>>[i], t[i])
    BY <1>1
  <2> QED
    BY <1>2, <2>2, <2>3 DEF Chain
<1>3. ASSUME Chain(p, a, q, <<>>, z) PROVE Leads(p, a, q, z)
  BY <1>1, <1>3 DEF Chain
<1> QED
  BY <1>2, <1>3

\* The batches, as functions.
LEMMA BatchLists ==
  ASSUME NEW b \in Seq(Seq(InsertOp))
  PROVE  /\ Len(b) \in Nat /\ DOMAIN b = 1 .. Len(b)
         /\ \A i \in 1 .. Len(b) : b[i] \in Seq(InsertOp)
  BY LenProperties, ElementOfSeq

LEMMA ChainNowhere ==
  ASSUME NEW p, NEW a \in Seq(Node), NEW q \in Seq(InsertOp), NEW b \in Seq(Seq(InsertOp)),
         NEW z, \A op \in OpsOf(q, b) : op.parent # p
  PROVE  Chain(p, a, q, b, z) <=> z = a
<1>1. Len(b) \in Nat /\ DOMAIN b = 1 .. Len(b) /\ \A i \in 1 .. Len(b) : b[i] \in Seq(InsertOp)
  BY BatchLists
<1>2. \A s \in Seq(InsertOp) : \A j \in 1 .. Len(s) : s[j] \in ToSet(s)
  BY LenProperties DEF ToSet
<1>3. \A j \in 1 .. Len(q) : q[j].parent # p
  BY <1>2 DEF OpsOf
<1>4. \A i \in 1 .. Len(b) : \A j \in 1 .. Len(b[i]) : b[i][j].parent # p
  <2> SUFFICES ASSUME NEW i \in 1 .. Len(b), NEW j \in 1 .. Len(b[i]) PROVE b[i][j].parent # p
    OBVIOUS
  <2>1. b[i][j] \in ToSet(b[i])
    BY <1>1, <1>2
  <2> QED
    BY <1>1, <2>1 DEF OpsOf
<1>5. \A x \in Seq(Node) : \A y : Leads(p, x, q, y) <=> y = x
  BY <1>3, LeadsNowhere
<1>6. \A i \in 1 .. Len(b), x \in Seq(Node) : \A y : Leads(p, x, b[i], y) <=> y = x
  BY <1>1, <1>4, LeadsNowhere
<1>7. ASSUME Chain(p, a, q, b, z) PROVE z = a
  <2>1. PICK t \in [0 .. Len(b) -> Seq(Node)] :
          /\ Leads(p, a, q, t[0]) /\ t[Len(b)] = z
          /\ \A i \in 1 .. Len(b) : Leads(p, t[i - 1], b[i], t[i])
    BY <1>7 DEF Chain
  <2>2. t[0] = a
    BY <1>5, <2>1
  <2>3. \A i \in 1 .. Len(b) : t[i] = t[i - 1]
    <3> SUFFICES ASSUME NEW i \in 1 .. Len(b) PROVE t[i] = t[i - 1]
      OBVIOUS
    <3>1. i - 1 \in 0 .. Len(b)
      BY <1>1
    <3>2. t[i - 1] \in Seq(Node)
      BY <3>1
    <3> QED
      BY <1>6, <2>1, <3>2
  <2> DEFINE bad == {i \in 0 .. Len(b) : t[i] # a}
  <2>4. bad = {}
    <3> SUFFICES ASSUME bad # {} PROVE FALSE
      OBVIOUS
    <3>1. PICK m : m \in bad /\ \A y \in bad : m <= y
      <4>1. bad \in SUBSET Nat
        BY <1>1
      <4> HIDE DEF bad
      <4> QED
        BY <4>1, MinInSet
    <3>2. m # 0 /\ m \in 1 .. Len(b) /\ m - 1 \in 0 .. Len(b) /\ ~(m <= m - 1)
      BY <1>1, <2>2, <3>1
    <3> QED
      BY <2>3, <3>1, <3>2
  <2> QED
    BY <1>1, <2>1, <2>4
<1>8. ASSUME z = a PROVE Chain(p, a, q, b, z)
  <2> DEFINE t == [i \in 0 .. Len(b) |-> a]
  <2>1. t \in [0 .. Len(b) -> Seq(Node)] /\ t[0] = a /\ t[Len(b)] = z
    BY <1>1, <1>8
  <2>2. \A i \in 1 .. Len(b) : t[i - 1] = a /\ t[i] = a
    BY <1>1
  <2> HIDE DEF t
  <2>3. Leads(p, a, q, t[0])
    BY <1>5, <2>1
  <2>4. \A i \in 1 .. Len(b) : Leads(p, t[i - 1], b[i], t[i])
    BY <1>6, <2>2
  <2> QED
    BY <2>1, <2>3, <2>4 DEF Chain
<1> QED
  BY <1>7, <1>8

\* beginBatch.
LEMMA ChainOpens ==
  ASSUME NEW p, NEW a, NEW q \in Seq(InsertOp), NEW b \in Seq(Seq(InsertOp)), NEW z,
         Chain(p, a, q, b, z)
  PROVE  Chain(p, a, q, Append(b, <<>>), z)
<1> DEFINE k == Len(b)
           c == Append(b, <<>>)
<1>0. <<>> \in Seq(InsertOp)
  BY EmptySeq
<1>1. /\ k \in Nat /\ Len(c) = k + 1 /\ c[k + 1] = <<>> /\ \A i \in 1 .. k : c[i] = b[i]
  BY <1>0, AppendProperties, LenProperties
<1>2. PICK t \in [0 .. k -> Seq(Node)] :
        /\ Leads(p, a, q, t[0]) /\ t[k] = z
        /\ \A i \in 1 .. k : Leads(p, t[i - 1], b[i], t[i])
  BY DEF Chain
<1> HIDE DEF k, c
<1> DEFINE u == [i \in 0 .. k + 1 |-> IF i <= k THEN t[i] ELSE z]
<1>3. z \in Seq(Node) /\ u \in [0 .. k + 1 -> Seq(Node)]
  BY <1>1, <1>2
<1>4. u[k + 1] = z /\ \A i \in 0 .. k : u[i] = t[i]
  <2>1. \A i \in 0 .. k : i \in 0 .. k + 1 /\ i <= k
    BY <1>1
  <2>2. k + 1 \in 0 .. k + 1 /\ ~(k + 1 <= k)
    BY <1>1
  <2> QED
    BY <2>1, <2>2
<1> HIDE DEF u
<1>5. Leads(p, a, q, u[0])
  BY <1>1, <1>2, <1>4
<1>6. ASSUME NEW i \in 1 .. k + 1 PROVE Leads(p, u[i - 1], c[i], u[i])
  <2>1. CASE i \in 1 .. k
    <3>1. i \in 0 .. k /\ i - 1 \in 0 .. k
      BY <1>1, <2>1
    <3> QED
      BY <1>1, <1>2, <1>4, <2>1, <3>1
  <2>2. CASE i = k + 1
    <3>1. i - 1 = k /\ k \in 0 .. k
      BY <1>1, <2>2
    <3>2. u[i - 1] = z /\ u[i] = z /\ c[i] = <<>>
      BY <1>1, <1>2, <1>4, <2>2, <3>1
    <3> QED
      BY <1>3, <3>2, LeadsByNone
  <2> QED
    BY <1>1, <2>1, <2>2
<1>7. Chain(p, a, q, c, z)
  BY <1>1, <1>3, <1>4, <1>5, <1>6 DEF Chain
<1> QED
  BY <1>7 DEF c

\* endBatch of an inner batch.
LEMMA ChainJoins ==
  ASSUME NEW p, NEW a, NEW q \in Seq(InsertOp), NEW b \in Seq(Seq(InsertOp)), NEW z,
         Chain(p, a, q, b, z), Len(b) > 1
  PROVE  Chain(p, a, q, [Front(b) EXCEPT ![Len(b) - 1] = @ \o Last(b)], z)
<1> DEFINE f == Front(b)
           k == Len(b) - 1
           c == [f EXCEPT ![k] = f[k] \o Last(b)]
<1>0. Len(b) \in Nat /\ DOMAIN b = 1 .. Len(b) /\ \A i \in 1 .. Len(b) : b[i] \in Seq(InsertOp)
  BY BatchLists
<1>1. k \in Nat /\ 1 <= k /\ Len(b) = k + 1
  BY <1>0
<1>2. f \in Seq(Seq(InsertOp)) /\ Len(f) = k /\ DOMAIN f = 1 .. k /\ \A i \in 1 .. k : f[i] = b[i]
  BY <1>0, <1>1, FrontEntries
<1>3. Last(b) = b[k + 1] /\ b[k + 1] \in Seq(InsertOp) /\ b[k] \in Seq(InsertOp)
      /\ b[k] \o b[k + 1] \in Seq(InsertOp)
  <2>1. Last(b) = b[k + 1] /\ b[k + 1] \in Seq(InsertOp) /\ b[k] \in Seq(InsertOp)
    BY <1>0, <1>1 DEF Last
  <2> QED
    BY <2>1, ConcatElements
<1>4. PICK t \in [0 .. k + 1 -> Seq(Node)] :
        /\ Leads(p, a, q, t[0]) /\ t[k + 1] = z
        /\ \A i \in 1 .. k + 1 : Leads(p, t[i - 1], b[i], t[i])
  BY <1>1 DEF Chain
<1> HIDE DEF f, k
<1>5. /\ c \in Seq(Seq(InsertOp)) /\ Len(c) = k /\ c[k] = b[k] \o b[k + 1]
      /\ \A i \in 1 .. k : i # k => c[i] = b[i]
  <2>1. k \in 1 .. k
    BY <1>1
  <2>2. c \in Seq(Seq(InsertOp)) /\ Len(c) = Len(f)
    BY <1>2, <1>3, <2>1, ExceptSeq
  <2>3. c[k] = f[k] \o Last(b) /\ \A i \in DOMAIN f : i # k => c[i] = f[i]
    BY <1>2, <2>1
  <2> HIDE DEF c
  <2> QED
    BY <1>2, <1>3, <2>1, <2>2, <2>3
<1> HIDE DEF c
<1> DEFINE u == [i \in 0 .. k |-> IF i = k THEN z ELSE t[i]]
<1>6. u \in [0 .. k -> Seq(Node)]
  <2>1. z \in Seq(Node)
    BY <1>1, <1>4
  <2> QED
    BY <1>1, <1>4, <2>1
<1>7. u[k] = z /\ \A i \in 0 .. k : i # k => u[i] = t[i]
  BY <1>1
<1> HIDE DEF u
<1>8. Leads(p, a, q, u[0])
  BY <1>1, <1>4, <1>7
<1>9. ASSUME NEW i \in 1 .. k PROVE Leads(p, u[i - 1], c[i], u[i])
  <2>0. i \in 0 .. k /\ i - 1 \in 0 .. k /\ i - 1 # k /\ i \in 1 .. k + 1
    BY <1>1
  <2>1. CASE i # k
    BY <1>4, <1>5, <1>7, <2>0, <2>1
  <2>2. CASE i = k
    <3>1. k + 1 \in 1 .. k + 1 /\ (k + 1) - 1 = k
      BY <1>1
    <3>2. Leads(p, t[k - 1], b[k], t[k]) /\ Leads(p, t[k], b[k + 1], z)
      BY <1>4, <2>0, <2>2, <3>1
    <3>3. Leads(p, t[k - 1], b[k] \o b[k + 1], z)
      BY <1>3, <3>2, LeadsOn
    <3> QED
      BY <1>5, <1>7, <2>0, <2>2, <3>3
  <2> QED
    BY <2>1, <2>2
<1>10. Chain(p, a, q, c, z)
  BY <1>5, <1>6, <1>7, <1>8, <1>9 DEF Chain
<1> QED
  BY <1>10 DEF c, f, k

\* endBatch of the outermost batch.
LEMMA ChainEnds ==
  ASSUME NEW p, NEW a, NEW q \in Seq(InsertOp), NEW b \in Seq(Seq(InsertOp)), NEW z,
         Chain(p, a, q, b, z), Len(b) = 1
  PROVE  q \o b[1] \in Seq(InsertOp) /\ Leads(p, a, q \o b[1], z)
<1>1. b[1] \in Seq(InsertOp) /\ 1 \in 1 .. 1 /\ 1 - 1 = 0
  BY BatchLists
<1>2. PICK t \in [0 .. 1 -> Seq(Node)] :
        /\ Leads(p, a, q, t[0]) /\ t[1] = z
        /\ \A i \in 1 .. 1 : Leads(p, t[i - 1], b[i], t[i])
  BY DEF Chain
<1>3. Leads(p, t[0], b[1], z)
  BY <1>1, <1>2
<1> QED
  BY <1>1, <1>2, <1>3, LeadsOn

\* enqueueBatchOp and tryEnqueueBatch, of an insertion that fits.
LEMMA ChainQueues ==
  ASSUME TypeOK, NEW op \in InsertOp, Enqueue(op), NEW p, NEW a, NEW z,
         Chain(p, a, queue, batch, z), Fits(p, op, z)
  PROVE  Chain(p, a, queue', batch', After(p, op, z))
<1>1. queue \in Seq(InsertOp) /\ batch \in Seq(Seq(InsertOp))
  BY TypeFacts
<1>2. CASE batch = <<>>
  <2>1. queue' = Append(queue, op) /\ batch' = <<>>
    BY <1>2 DEF Enqueue
  <2>2. Leads(p, a, queue, z)
    BY <1>1, <1>2, ChainAlone
  <2>3. queue' \in Seq(InsertOp) /\ Leads(p, a, queue', After(p, op, z))
    BY <1>1, <2>1, <2>2, LeadsByOne
  <2> QED
    BY <2>1, <2>3, ChainAlone
<1>3. CASE batch # <<>>
  <2> DEFINE k == Len(batch)
             s == Append(batch[k], op)
             y == After(p, op, z)
  <2>1. queue' = queue /\ batch' = [batch EXCEPT ![k] = s]
    BY <1>3 DEF Enqueue
  <2>2. k \in Nat /\ 1 <= k /\ k \in 1 .. k /\ DOMAIN batch = 1 .. k
    <3>1. k \in Nat /\ k # 0 /\ DOMAIN batch = 1 .. k
      BY <1>1, <1>3, LenProperties, EmptySeq
    <3> QED
      BY <3>1
  <2>3. \A i \in 1 .. k : batch[i] \in Seq(InsertOp)
    BY <1>1, BatchLists
  <2>4. PICK t \in [0 .. k -> Seq(Node)] :
          /\ Leads(p, a, queue, t[0]) /\ t[k] = z
          /\ \A i \in 1 .. k : Leads(p, t[i - 1], batch[i], t[i])
    BY DEF Chain
  <2>5. s \in Seq(InsertOp) /\ Leads(p, t[k - 1], s, y)
    BY <2>2, <2>3, <2>4, LeadsByOne
  <2>6. y \in Seq(Node)
    BY <2>5, LeadsType
  <2> HIDE DEF k, s, y
  <2>7. Len(batch') = k /\ batch'[k] = s /\ \A i \in 1 .. k : i # k => batch'[i] = batch[i]
    <3>1. Len(batch') = Len(batch)
      BY <1>1, <2>1, <2>2, <2>5, ExceptSeq
    <3> QED
      BY <2>1, <2>2, <3>1 DEF k
  <2> DEFINE u == [i \in 0 .. k |-> IF i = k THEN y ELSE t[i]]
  <2>8. u \in [0 .. k -> Seq(Node)]
    BY <2>2, <2>4, <2>6
  <2>9. u[k] = y /\ \A i \in 0 .. k : i # k => u[i] = t[i]
    BY <2>2
  <2> HIDE DEF u
  <2>10. Leads(p, a, queue, u[0])
    BY <2>2, <2>4, <2>9
  <2>11. ASSUME NEW i \in 1 .. k PROVE Leads(p, u[i - 1], batch'[i], u[i])
    <3>0. i \in 0 .. k /\ i - 1 \in 0 .. k /\ i - 1 # k
      BY <2>2
    <3>1. CASE i # k
      BY <2>4, <2>7, <2>9, <3>0, <3>1
    <3>2. CASE i = k
      BY <2>5, <2>7, <2>9, <3>0, <3>2
    <3> QED
      BY <3>1, <3>2
  <2>12. Chain(p, a, queue', batch', y)
    BY <2>1, <2>7, <2>8, <2>9, <2>10, <2>11 DEF Chain
  <2> QED
    BY <2>12 DEF y
<1> QED
  BY <1>2, <1>3
-----------------------------------------------------------------------------
(* The order of the children, in an app that takes no liberties and has no *)
(* exit transitions.                                                       *)

NoExits == exitTransitions = {} /\ Exiting = {} /\ rescued = {}

\* A node to be inserted is natively where it is to go, or under nobody known.
NotAstray ==
  \A op \in Waiting \cup ToSet(commit.inserts) :
    recParent[op.child] \in Known => recParent[op.child] = op.parent

\* The Yoga children of p that no removal still to come takes away.
Leavers(p) == {n \in Node : pendingRemovals[n] = p \/ <<p, n>> \in commit.removes}
Staying(p) == Without(yogaKids[p], Leavers(p))

\* The insertions still to come, in their order and at their indices, make of
\* the children that stay those that the host lists.
Orderly ==
  \A p \in Known : \E m :
    Leads(p, Staying(p), commit.inserts, m) /\ Chain(p, m, queue, batch, kids[p])

InOrder == NoExits /\ NotAstray /\ Orderly

LEMMA CutIsWithout ==
  ASSUME NEW X, NEW s \in Seq(X), NEW x, IsInjective(s)
  PROVE  Cut(s, x) = Without(s, {x})
<1>1. CASE x \in ToSet(s)
  <2> DEFINE k == IndexOf(s, x)
  <2>1. k \in 1 .. Len(s) /\ s[k] = x
    BY <1>1, IndexOfType
  <2> HIDE DEF k
  <2>2. Without(s, {s[k]}) = RemoveAt(s, k)
    BY <2>1, WithoutOne
  <2> QED
    BY <1>1, <2>1, <2>2 DEF Cut, k
<1>2. CASE x \notin ToSet(s)
  <2>1. ToSet(s) \cap {x} = {}
    BY <1>2
  <2> QED
    BY <1>2, <2>1, WithoutNone DEF Cut
<1> QED
  BY <1>1, <1>2

LEMMA NothingFades ==
  ASSUME Exiting = {}
  PROVE  Fading = {}
<1>1. {} \in SUBSET Node /\ Exiting \subseteq {} /\ \A x \in {} : kidSets[x] \subseteq {}
  OBVIOUS
<1> QED
  BY <1>1 DEF Fading, Subtree, Closure

LEMMA KnownType ==
  ASSUME TypeOK
  PROVE  /\ \A p \in Known : p \in Parent /\ p # None /\ yogaKids[p] \in Seq(Node)
                             /\ kids[p] \in Seq(Node) /\ Staying(p) \in Seq(Node)
         /\ \A p \in Known : p = Root \/ p \in tracked
<1>1. \A p \in Known : p \in Parent
  BY TypeFacts DEF Known, Parent
<1>2. \A p \in Parent : yogaKids[p] \in Seq(Node) /\ kids[p] \in Seq(Node) /\ p # None
  BY TypeFacts
<1>3. \A p \in Parent : Staying(p) \in Seq(Node)
  BY <1>2, WithoutElements DEF Staying
<1> QED
  BY <1>1, <1>2, <1>3 DEF Known

\* Outside a commit only the queue and the batches are still to come.
LEMMA OrderlyIdle ==
  ASSUME TypeOK, ~Busy
  PROVE  Orderly <=> \A p \in Known : Chain(p, Staying(p), queue, batch, kids[p])
<1>1. commit.inserts = <<>>
  BY NotBusy
<1>2. ASSUME NEW p \in Known, NEW m
      PROVE  Leads(p, Staying(p), commit.inserts, m) <=> m = Staying(p)
  BY <1>1, KnownType, LeadsByNone
<1> QED
  BY <1>2 DEF Orderly

LEMMA OrderlyNext ==
  ASSUME TypeOK', ~Busy', \A p \in Known' : Chain(p, Staying(p)', queue', batch', kids'[p])
  PROVE  Orderly'
<1>1. commit'.inserts = <<>> /\ queue' \in Seq(InsertOp)
  BY DEF Busy, NoCommit, TypeOK, HostTypeOK, FlushTypeOK
<1>2. ASSUME NEW p \in Known' PROVE Leads(p, Staying(p)', commit'.inserts, Staying(p)')
  <2> DEFINE x == Staying(p)'
  <2>1. Chain(p, x, queue', batch', kids'[p])
    OBVIOUS
  <2> HIDE DEF x
  <2>2. PICK y : Leads(p, x, queue', y)
    BY <2>1 DEF Chain
  <2>3. x \in Seq(Node)
    BY <1>1, <2>2, LeadsType
  <2>4. Leads(p, x, commit'.inserts, x)
    BY <1>1, <2>3, LeadsByNone
  <2> QED
    BY <2>4 DEF x
<1> QED
  BY <1>2 DEF Orderly

LEMMA InOrderInit == Init => InOrder
<1> SUFFICES ASSUME Init PROVE InOrder
  OBVIOUS
<1>1. /\ exitTransitions = {} /\ Exiting = {} /\ rescued = {} /\ tracked = {}
      /\ queue = <<>> /\ batch = <<>> /\ commit = NoCommit
      /\ \A p \in Parent : kids[p] = <<>> /\ yogaKids[p] = <<>>
  BY DEF Init, NativeInit, Exiting
<1>2. TypeOK /\ ~Busy
  BY <1>1, InitTyping DEF Busy
<1>3. Waiting = {} /\ ToSet(commit.inserts) = {}
  BY <1>1, <1>2, NotBusy, EmptySeq DEF Waiting, ToSet
<1>4. ASSUME NEW p \in Known PROVE Chain(p, Staying(p), queue, batch, kids[p])
  <2>1. p \in Parent /\ Staying(p) \in Seq(Node) /\ yogaKids[p] = <<>> /\ kids[p] = <<>>
    BY <1>1, <1>2, KnownType
  <2>2. ToSet(<<>>) \cap Leavers(p) = {} /\ <<>> \in Seq(Node) /\ <<>> \in Seq(InsertOp)
    BY EmptySeq DEF ToSet
  <2>3. Staying(p) = <<>>
    BY <2>1, <2>2, WithoutNone DEF Staying
  <2>4. Leads(p, <<>>, <<>>, <<>>)
    BY <2>2, LeadsByNone
  <2> QED
    BY <1>1, <2>1, <2>2, <2>3, <2>4, ChainAlone
<1>5. Orderly
  BY <1>2, <1>4, OrderlyIdle
<1> QED
  BY <1>1, <1>3, <1>5 DEF InOrder, NoExits, NotAstray
LEMMA CreateOrder ==
  ASSUME Sound, InOrder, NEW n \in Node, CreateNode(n)
  PROVE  InOrder'
<1>1. /\ ~Busy /\ n \notin issued /\ tracked' = tracked \cup {n}
      /\ kids' = kids /\ exitTransitions' = exitTransitions
      /\ pendingRemovals' = pendingRemovals /\ rescued' = rescued /\ exitTimers' = exitTimers
      /\ queue' = queue /\ batch' = batch /\ commit' = commit
      /\ recParent' = recParent /\ yogaKids' = yogaKids
  BY DEF CreateNode, NativeCreate, doomVars
<1>a. TypeOK /\ TreeConsistent /\ KnownTree /\ RecordsAgree /\ WaitingMatches
  BY AgreementParts
<1>2. /\ Waiting' = Waiting /\ Known' = Known \cup {n} /\ ~Busy' /\ Exiting' = Exiting
      /\ \A p : Staying(p)' = Staying(p)
  BY <1>1 DEF Waiting, Known, Busy, NoCommit, Exiting, Staying, Leavers
<1>3. n \notin tracked /\ n \notin alive /\ n \notin Known /\ n \in Parent /\ n # None /\ n # Root
  BY <1>1, <1>a, TypeFacts DEF Known, Parent
<1>4. TypeOK'
  <2>1. [Next]_vars
    BY DEF Next, RendererCall
  <2> QED
    BY <1>a, <2>1, TypingStep
<1>5. NoExits'
  BY <1>1, <1>2 DEF InOrder, NoExits
<1>6. NotAstray'
  <2>1. \A m \in Node : recParent[m] # n
    BY <1>a, <1>3 DEF RecordsAgree, Addressable, Parent
  <2>2. \A op \in Waiting \cup ToSet(commit.inserts) : op.child \in Node
    BY <1>a, WaitingType DEF InsertOp
  <2> QED
    BY <1>1, <1>2, <2>1, <2>2 DEF InOrder, NotAstray
<1>7. Chain(n, Staying(n), queue, batch, kids[n])
  <2>1. \A m \in Node : recParent[m] # n /\ parent[m] # n
    BY <1>a, <1>3 DEF RecordsAgree, Addressable, KnownTree, Parent
  <2>2. kids[n] \in Seq(Node) /\ yogaKids[n] \in Seq(Node)
    BY <1>a, <1>3, TypeFacts
  <2>3. kids[n] = <<>> /\ yogaKids[n] = <<>>
    <3>1. \A m \in Node : m \notin ToSet(kids[n]) /\ m \notin ToSet(yogaKids[n])
      BY <1>a, <1>3, <2>1 DEF RecordsAgree, TreeConsistent
    <3> QED
      BY <2>2, <3>1, NoElements
  <2>4. Staying(n) = <<>> /\ <<>> \in Seq(Node)
    <3>1. ToSet(<<>>) \cap Leavers(n) = {} /\ <<>> \in Seq(Node)
      BY EmptySeq DEF ToSet
    <3> QED
      BY <2>3, <3>1, WithoutNone DEF Staying
  <2>5. \A op \in OpsOf(queue, batch) : op.parent # n
    BY <1>a, <1>3 DEF WaitingMatches, Waiting, OpsOf
  <2>6. queue \in Seq(InsertOp) /\ batch \in Seq(Seq(InsertOp))
    BY <1>a, TypeFacts
  <2>7. Chain(n, <<>>, queue, batch, <<>>)
    BY <2>4, <2>5, <2>6, ChainNowhere
  <2> QED
    BY <2>3, <2>4, <2>7
<1>8. \A p \in Known' : Chain(p, Staying(p)', queue', batch', kids'[p])
  <2>1. \A p \in Known : Chain(p, Staying(p), queue, batch, kids[p])
    BY <1>1, <1>a, OrderlyIdle DEF InOrder
  <2> QED
    BY <1>1, <1>2, <1>7, <2>1
<1>9. Orderly'
  BY <1>2, <1>4, <1>8, OrderlyNext
<1> QED
  BY <1>5, <1>6, <1>9 DEF InOrder

LEMMA InsertOrder ==
  ASSUME Sound, InOrder, Liberties = {},
         NEW p \in Parent, NEW n \in Node, NEW a \in Node \cup {None},
         InsertNode(p, n, a)
  PROVE  InOrder'
<1> DEFINE rest == Cut(kids[p], n)
           at   == IF a = None THEN Len(rest) + 1 ELSE IndexOf(rest, a)
           op   == [parent |-> p, child |-> n, at |-> at - 1]
<1>1. /\ ~Busy /\ Enqueue(op) /\ MayInsert(p, n) /\ Reprieve(n)
      /\ kids' = [kids EXCEPT ![p] = InsertAt(rest, at, n)]
      /\ tracked' = tracked \cup {n}
      /\ UNCHANGED <<pendingRemovals, exitTransitions, commit, nativeVars>>
      /\ a = None \/ a \in ToSet(rest)
  BY DEF InsertNode
<1>a. /\ TypeOK /\ TreeConsistent /\ KnownTree /\ WaitingMatches
      /\ RecordsAgree /\ SettledMatches /\ KnownLives
  BY AgreementParts
<1>2. rest \in Seq(Node) /\ rest = Without(kids[p], {n})
  BY <1>a, TypeFacts, CutElements, CutIsWithout DEF TreeConsistent
<1>3. at \in 1 .. Len(rest) + 1 /\ at - 1 \in Nat /\ at - 1 <= Len(rest) /\ at - 1 + 1 = at
  <2>1. Len(rest) \in Nat /\ (a # None => IndexOf(rest, a) \in 1 .. Len(rest))
    BY <1>1, <1>2, LenProperties, IndexOfType
  <2> HIDE DEF rest
  <2> QED
    BY <2>1
<1> HIDE DEF rest, at
<1>4. /\ op \in InsertOp /\ op.parent = p /\ op.child = n
      /\ op.at + 1 = at /\ op.at <= Len(rest)
  BY <1>3 DEF InsertOp
<1> HIDE DEF op
<1>5. Fits(p, op, kids[p]) /\ After(p, op, kids[p]) = InsertAt(rest, at, n)
  BY <1>2, <1>4 DEF Fits, After
<1>6. \A r \in Parent : r # p => Fits(r, op, kids[r]) /\ After(r, op, kids[r]) = kids[r]
  BY <1>4 DEF Fits, After
<1>7. /\ n \in tracked /\ p \in Known /\ parent[n] \in {None, p} /\ n \notin Removed
  BY <1>1, <1>a, TypeFacts DEF MayInsert, Known
<1>8. /\ exitTimers' = [exitTimers EXCEPT ![n] = None]
      /\ rescued' = rescued
  BY <1>1, <1>7 DEF Reprieve
<1>9. TypeOK'
  <2>1. [Next]_vars
    BY DEF Next, RendererCall
  <2> QED
    BY <1>a, <2>1, TypingStep
<1>10. NoExits'
  <2>1. \A m \in Node : exitTimers[m] = None
    BY DEF InOrder, NoExits, Exiting
  <2>2. \A m \in Node : exitTimers'[m] = None
    BY <1>8, <2>1, <1>a, TypeFacts
  <2> QED
    BY <1>1, <1>8, <2>2 DEF InOrder, NoExits, Exiting
<1>11. /\ Known' = Known /\ commit' = commit /\ recParent' = recParent
       /\ Waiting' = Waiting \cup {op} /\ ~Busy'
       /\ \A r : Staying(r)' = Staying(r)
  <2>1. commit' = commit /\ recParent' = recParent /\ yogaKids' = yogaKids
        /\ pendingRemovals' = pendingRemovals
    BY <1>1 DEF nativeVars
  <2>2. \A r : Staying(r)' = Staying(r)
    BY <2>1 DEF Staying, Leavers
  <2>3. Waiting' = Waiting \cup {op}
    BY <1>1, <1>4, <1>a, EnqueueOps
  <2>4. Known' = Known
    BY <1>1, <1>7 DEF Known
  <2>5. ~Busy'
    BY <1>1, <2>1 DEF Busy, NoCommit
  <2> QED
    BY <2>1, <2>2, <2>3, <2>4, <2>5
<1>12. NotAstray'
  <2>1. recParent[n] \in Known => recParent[n] = p
    <3>1. CASE \E o \in Waiting : o.child = n
      <4>1. PICK o \in Waiting : o.child = n
        BY <3>1
      <4>2. parent[n] = o.parent /\ o.parent \in Known
        BY <4>1, <1>a DEF WaitingMatches
      <4>3. o.parent = p
        BY <1>7, <1>a, <4>2, KnownType
      <4> QED
        BY <4>1, <4>3 DEF InOrder, NotAstray
    <3>2. CASE ~ \E o \in Waiting : o.child = n
      <4>1. n \notin Unsettled
        <5>1. ToSet(commit.inserts) = {} /\ commit.removes = {} /\ Exiting = {}
          BY <1>1, NotBusy DEF InOrder, NoExits
        <5> QED
          BY <1>7, <3>2, <5>1 DEF Unsettled
      <4>2. n \in alive
        BY <1>7, <1>a, NothingFades DEF InOrder, NoExits, KnownLives
      <4>3. recParent[n] = parent[n]
        BY <1>7, <1>a, <4>1, <4>2 DEF SettledMatches
      <4> QED
        BY <1>7, <1>a, <4>3, KnownType
    <3> QED
      BY <3>1, <3>2
  <2>2. ASSUME NEW o \in Waiting' \cup ToSet(commit'.inserts), recParent'[o.child] \in Known'
        PROVE  recParent'[o.child] = o.parent
    <3>1. CASE o = op
      BY <1>4, <1>11, <2>1, <2>2, <3>1
    <3>2. CASE o # op
      BY <1>11, <2>2, <3>2 DEF InOrder, NotAstray
    <3> QED
      BY <3>1, <3>2
  <2> QED
    BY <2>2 DEF NotAstray
<1>13. \A r \in Known' : Chain(r, Staying(r)', queue', batch', kids'[r])
  <2> SUFFICES ASSUME NEW r \in Known' PROVE Chain(r, Staying(r)', queue', batch', kids'[r])
    OBVIOUS
  <2>1. r \in Known /\ r \in Parent
    BY <1>11, <1>a, KnownType
  <2>2. Chain(r, Staying(r), queue, batch, kids[r])
    BY <1>1, <1>a, <2>1, OrderlyIdle DEF InOrder
  <2>3. Fits(r, op, kids[r]) /\ kids'[r] = After(r, op, kids[r])
    BY <1>1, <1>5, <1>6, <2>1, <1>a, TypeFacts
  <2>4. Chain(r, Staying(r), queue', batch', After(r, op, kids[r]))
    BY <1>1, <1>4, <1>a, <2>2, <2>3, ChainQueues
  <2> QED
    BY <1>11, <2>3, <2>4
<1>14. Orderly'
  BY <1>9, <1>11, <1>13, OrderlyNext
<1> QED
  BY <1>10, <1>12, <1>14 DEF InOrder

LEMMA RemoveOrder ==
  ASSUME Sound, InOrder, Liberties = {}, NEW p \in Parent, NEW n \in Node, RemoveNode(p, n)
  PROVE  InOrder'
<1>1. /\ ~Busy /\ n \in ToSet(kids[p]) /\ MayRemove(p, n)
      /\ kids' = [kids EXCEPT ![p] = Cut(kids[p], n)]
      /\ rescued' = rescued \ {n}
      /\ pendingRemovals' = [pendingRemovals EXCEPT ![n] = p]
      /\ UNCHANGED <<tracked, exitTransitions, exitTimers, queue, batch, commit,
                     nativeVars>>
  BY DEF RemoveNode
<1>a. TypeOK /\ DoomedDetached /\ TreeConsistent /\ KnownTree
  BY AgreementParts
<1>2. /\ tracked' = tracked /\ exitTimers' = exitTimers /\ queue' = queue /\ batch' = batch
      /\ commit' = commit /\ recParent' = recParent /\ yogaKids' = yogaKids
      /\ exitTransitions' = exitTransitions
      /\ Waiting' = Waiting /\ Known' = Known /\ Exiting' = Exiting /\ ~Busy'
  BY <1>1 DEF nativeVars, Waiting, Known, Exiting, Busy, NoCommit
<1>3. parent[n] = p /\ p # None /\ p \in Known /\ \A op \in Waiting : op.parent # p
  BY <1>1, <1>a, TypeFacts DEF MayRemove, TreeConsistent, KnownTree
<1>4. pendingRemovals[n] = None
  BY <1>3, <1>a DEF DoomedDetached, InOrder, NoExits, Removed
<1>5. pendingRemovals'[n] = p /\ \A m \in Node : m # n => pendingRemovals'[m] = pendingRemovals[m]
  BY <1>1, <1>a, TypeFacts
<1>6. Leavers(p)' = Leavers(p) \cup {n} /\ \A r \in Known : r # p => Leavers(r)' = Leavers(r)
  BY <1>2, <1>4, <1>5, <1>a, KnownType DEF Leavers
<1>7. TypeOK'
  <2>1. [Next]_vars
    BY DEF Next, RendererCall
  <2> QED
    BY <1>a, <2>1, TypingStep
<1>8. NoExits' /\ NotAstray'
  BY <1>1, <1>2 DEF InOrder, NoExits, NotAstray
<1>9. \A r \in Known : Chain(r, Staying(r), queue, batch, kids[r])
  BY <1>1, <1>a, OrderlyIdle DEF InOrder
<1>10. Chain(p, Staying(p)', queue', batch', kids'[p])
  <2>1. queue \in Seq(InsertOp) /\ batch \in Seq(Seq(InsertOp)) /\ Staying(p) \in Seq(Node)
        /\ yogaKids[p] \in Seq(Node) /\ kids[p] \in Seq(Node)
    BY <1>3, <1>a, TypeFacts, KnownType
  <2>2. \A op \in OpsOf(queue, batch) : op.parent # p
    BY <1>3 DEF Waiting, OpsOf
  <2>3. kids[p] = Staying(p)
    BY <1>3, <1>9, <2>1, <2>2, ChainNowhere
  <2>4. Without(Without(yogaKids[p], Leavers(p)), {n}) = Without(yogaKids[p], Leavers(p) \cup {n})
    <3> DEFINE S == Leavers(p)
               U == {n}
               s == yogaKids[p]
    <3>1. s \in Seq(Node)
      BY <2>1
    <3> HIDE DEF S, U, s
    <3>2. Without(Without(s, S), U) = Without(s, S \cup U)
      BY <3>1, WithoutTwice
    <3> QED
      BY <3>2 DEF S, U, s
  <2>5. Cut(kids[p], n) = Without(kids[p], {n})
    BY <1>a, <2>1, CutIsWithout DEF TreeConsistent
  <2>6. kids'[p] = Cut(kids[p], n)
    BY <1>1, <1>a, TypeFacts
  <2>7. Staying(p)' = Without(yogaKids[p], Leavers(p) \cup {n})
    BY <1>2, <1>6 DEF Staying
  <2>8. kids'[p] = Staying(p)' /\ kids'[p] \in Seq(Node)
    <3>1. kids'[p] = Staying(p)'
      BY <2>3, <2>4, <2>5, <2>6, <2>7 DEF Staying
    <3>2. kids'[p] \in Seq(Node)
      BY <2>1, <2>5, <2>6, WithoutElements
    <3> QED
      BY <3>1, <3>2
  <2>9. Chain(p, kids'[p], queue, batch, kids'[p])
    BY <2>1, <2>2, <2>8, ChainNowhere
  <2> QED
    BY <1>2, <2>8, <2>9
<1>11. ASSUME NEW r \in Known, r # p PROVE Chain(r, Staying(r)', queue', batch', kids'[r])
  <2>1. Staying(r)' = Staying(r)
    BY <1>2, <1>6, <1>11 DEF Staying
  <2>2. kids'[r] = kids[r]
    BY <1>1, <1>11, <1>a, TypeFacts, KnownType
  <2> QED
    BY <1>2, <1>9, <2>1, <2>2
<1>12. Orderly'
  <2>1. \A r \in Known' : Chain(r, Staying(r)', queue', batch', kids'[r])
    BY <1>2, <1>10, <1>11
  <2> QED
    BY <1>2, <1>7, <2>1, OrderlyNext
<1> QED
  BY <1>8, <1>12 DEF InOrder
\* A step that leaves the tree alone and loses no insertion that waits.
LEMMA QuietOrder ==
  ASSUME Sound, InOrder, QuietStep, TypeOK', ~Busy, exitTransitions' = exitTransitions,
         \A p \in Known : Chain(p, Staying(p), queue', batch', kids[p])
  PROVE  InOrder'
<1>1. /\ tracked' = tracked /\ kids' = kids /\ pendingRemovals' = pendingRemovals
      /\ rescued' = rescued /\ exitTimers' = exitTimers /\ commit' = commit
      /\ recParent' = recParent /\ yogaKids' = yogaKids /\ Waiting' = Waiting
  BY DEF QuietStep, treeState, nativeVars
<1>2. Known' = Known /\ Exiting' = Exiting /\ ~Busy' /\ \A p : Staying(p)' = Staying(p)
  BY <1>1 DEF Known, Exiting, Busy, NoCommit, Staying, Leavers
<1>3. NoExits' /\ NotAstray'
  BY <1>1, <1>2 DEF InOrder, NoExits, NotAstray
<1>4. Orderly'
  BY <1>1, <1>2, OrderlyNext
<1> QED
  BY <1>3, <1>4 DEF InOrder

\* A flush that is carried out, with q for the queue.
LEMMA FlushOrder ==
  ASSUME Sound, InOrder, TypeOK', ~Busy, UNCHANGED nativeVars,
         NEW q \in Seq(InsertOp), DoFlush(q), ToSet(q) = Waiting, OpsOf(<<>>, batch') = {},
         \A p \in Known : Leads(p, Staying(p), q, kids[p])
  PROVE  InOrder'
<1> DEFINE dead   == Subtree(ready)
           exits  == Leaving \cap (exitTransitions \ dead)
           plain  == Leaving \ exits
           timers == [n \in Node |-> IF n \in exits THEN pendingRemovals[n]
                                     ELSE exitTimers[n]]
<1>a. TypeOK
  BY AgreementParts
<1>1. /\ commit' = [removes |-> {<<pendingRemovals[n], n>> : n \in plain},
                   inserts |-> q, drops |-> pendingDrops \cup dead]
      /\ Forget(dead, timers) /\ rescued' = {} /\ queue' = <<>>
      /\ pendingRemovals' = [n \in Node |-> None]
  BY DEF DoFlush
<1>2. recParent' = recParent /\ yogaKids' = yogaKids
  BY DEF nativeVars
<1>3. dead \subseteq Node /\ Root \notin dead
  BY <1>a, ClosureType, TypeFacts DEF Subtree
<1>4. exits = {} /\ plain = Removed
  BY DEF InOrder, NoExits, Leaving
<1>5. /\ tracked' = tracked \ dead /\ exitTransitions' = exitTransitions \ dead
      /\ kids' = [p \in Parent |-> IF p \in dead THEN <<>> ELSE kids[p]]
      /\ exitTimers' = [n \in Node |-> IF n \in dead THEN None ELSE timers[n]]
  BY <1>1 DEF Forget
<1>6. NoExits'
  <2>1. \A n \in Node : exitTimers[n] = None
    BY DEF InOrder, NoExits, Exiting
  <2>2. \A n \in Node : exitTimers'[n] = None
    BY <1>4, <1>5, <2>1
  <2> QED
    BY <1>1, <1>5, <2>2 DEF InOrder, NoExits, Exiting
<1> HIDE DEF exits, plain, timers
<1>7. /\ commit'.inserts = q
      /\ \A p, n : <<p, n>> \in commit'.removes <=> n \in Removed /\ p = pendingRemovals[n]
  BY <1>1, <1>4
<1>8. Known' \subseteq Known /\ \A p \in Known' : kids'[p] = kids[p]
  <2>1. Known' \subseteq Known
    BY <1>5 DEF Known
  <2>2. \A p \in Known' : p \in Parent /\ p \notin dead
    BY <1>3, <1>5, <1>a, <2>1, KnownType DEF Known
  <2> QED
    BY <1>5, <2>1, <2>2
<1>9. Waiting' = {}
  BY <1>1 DEF Waiting, OpsOf
<1>10. NotAstray'
  BY <1>2, <1>7, <1>8, <1>9 DEF InOrder, NotAstray
<1>11. \A p \in Known : Leavers(p)' = Leavers(p)
  <2> SUFFICES ASSUME NEW p \in Known PROVE Leavers(p)' = Leavers(p)
    OBVIOUS
  <2>1. p # None /\ commit.removes = {}
    BY <1>a, KnownType, NotBusy
  <2>2. \A n \in Node : pendingRemovals'[n] = None
    BY <1>1
  <2> QED
    BY <1>7, <2>1, <2>2 DEF Leavers, Removed
<1>12. ASSUME NEW p \in Known'
       PROVE  Leads(p, Staying(p)', commit'.inserts, kids'[p])
              /\ Chain(p, kids'[p], queue', batch', kids'[p])
  <2>1. p \in Known /\ kids[p] \in Seq(Node)
    BY <1>8, <1>a, KnownType
  <2>2. Staying(p)' = Staying(p)
    BY <1>2, <1>11, <2>1 DEF Staying
  <2>3. Leads(p, Staying(p), q, kids[p])
    BY <2>1
  <2>4. batch' \in Seq(Seq(InsertOp)) /\ <<>> \in Seq(InsertOp)
    BY EmptySeq DEF TypeOK, HostTypeOK
  <2>5. Chain(p, kids[p], <<>>, batch', kids[p])
    BY <2>1, <2>4, ChainNowhere
  <2> QED
    BY <1>1, <1>7, <1>8, <2>2, <2>3, <2>5
<1>13. Orderly'
  BY <1>12 DEF Orderly
<1> QED
  BY <1>6, <1>10, <1>13 DEF InOrder

\* runFlush, which carries it out or holds it back.
LEMMA RunFlushOrder ==
  ASSUME Sound, InOrder, TypeOK', ~Busy, UNCHANGED nativeVars,
         NEW q \in Seq(InsertOp), NEW b, NEW nb, RunFlush(q, b, nb),
         OpsOf(q, batch') = Waiting,
         \A p \in Known : Chain(p, Staying(p), q, batch', kids[p]),
         b = <<>> => /\ ToSet(q) = Waiting /\ OpsOf(<<>>, batch') = {}
                     /\ \A p \in Known : Leads(p, Staying(p), q, kids[p])
  PROVE  InOrder'
<1>1. CASE b # <<>> \/ nb
  <2>1. queue' = q /\ UNCHANGED <<treeVars, doomVars, commit>>
    BY <1>1 DEF RunFlush
  <2>2. Waiting' = Waiting
    BY <2>1 DEF Waiting, OpsOf
  <2>3. QuietStep /\ exitTransitions' = exitTransitions
    BY <2>1, <2>2 DEF QuietStep, treeState, treeVars, doomVars
  <2> QED
    BY <2>1, <2>3, QuietOrder
<1>2. CASE ~(b # <<>> \/ nb)
  <2>1. DoFlush(q)
    BY <1>2 DEF RunFlush
  <2> QED
    BY <1>2, <2>1, FlushOrder
<1> QED
  BY <1>1, <1>2

LEMMA HostOrder ==
  ASSUME Sound, InOrder, TypeOK',
         \/ Flush \/ BeginBatch \/ EndInnerBatch \/ BeginNative \/ EndNative \/ AnimationFrame
         \/ \E s \in BOOLEAN : EndBatch(s)
  PROVE  InOrder'
<1>a. TypeOK
  BY AgreementParts
<1>0. queue \in Seq(InsertOp) /\ batch \in Seq(Seq(InsertOp))
  BY <1>a, TypeFacts
<1>w. Waiting = OpsOf(queue, batch) /\ Waiting' = OpsOf(queue', batch')
  BY DEF Waiting, OpsOf
<1>e. <<>> \in Seq(InsertOp) /\ ToSet(<<>>) = {} /\ <<>> \in Seq(Seq(InsertOp))
  BY EmptySeq DEF ToSet
<1>c. ~Busy => \A p \in Known : Chain(p, Staying(p), queue, batch, kids[p])
  BY <1>a, OrderlyIdle DEF InOrder
<1>l. ~Busy /\ batch = <<>> => \A p \in Known : Leads(p, Staying(p), queue, kids[p])
  BY <1>0, <1>c, ChainAlone
<1>o. batch = <<>> => ToSet(queue) = Waiting /\ OpsOf(<<>>, batch) = {}
  BY <1>0, <1>e, <1>w, OpsOfBatches
<1>1. ASSUME ~Busy, UNCHANGED nativeVars, batch' = batch, NEW nb, RunFlush(queue, batch, nb)
      PROVE  InOrder'
  BY <1>0, <1>1, <1>c, <1>l, <1>o, <1>w, RunFlushOrder
<1>2. ASSUME ~Busy, QuietStep, exitTransitions' = exitTransitions, queue' = queue, batch' = batch
      PROVE  InOrder'
  BY <1>2, <1>c, QuietOrder
<1>3. ASSUME Flush PROVE InOrder'
  BY <1>1, <1>3 DEF Flush
<1>4. ASSUME BeginBatch PROVE InOrder'
  <2>1. /\ ~Busy /\ UNCHANGED nativeVars /\ batch' = Append(batch, <<>>)
    BY <1>4 DEF BeginBatch
  <2>2. OpsOf(queue, batch') = Waiting
    BY <1>0, <1>w, <2>1, OpsOfBatches
  <2>3. \A p \in Known : Chain(p, Staying(p), queue, batch', kids[p])
    BY <1>0, <1>c, <2>1, ChainOpens
  <2>4. CASE batch = <<>>
    <3>1. RunFlush(queue, <<>>, nativeBatching)
      BY <1>4, <2>4 DEF BeginBatch
    <3>2. OpsOf(<<>>, batch') = {}
      BY <1>e, <2>1, <2>4, OpsOfBatches
    <3> QED
      BY <1>0, <1>l, <1>o, <2>1, <2>2, <2>3, <2>4, <3>1, <3>2, RunFlushOrder
  <2>5. CASE batch # <<>>
    <3>1. UNCHANGED <<treeVars, doomVars, flushScheduled, queue, commit>>
      BY <1>4, <2>5 DEF BeginBatch
    <3>2. QuietStep /\ exitTransitions' = exitTransitions /\ queue' = queue
      BY <1>w, <2>1, <2>2, <3>1 DEF QuietStep, treeState, treeVars, doomVars
    <3> QED
      BY <2>1, <2>3, <3>2, QuietOrder
  <2> QED
    BY <2>4, <2>5
<1>5. ASSUME EndInnerBatch PROVE InOrder'
  <2>1. /\ ~Busy /\ Len(batch) > 1 /\ UNCHANGED <<treeVars, doomVars, queue, commit, nativeVars>>
        /\ batch' = [Front(batch) EXCEPT ![Len(batch) - 1] = @ \o Last(batch)]
    BY <1>5 DEF EndInnerBatch
  <2>2. OpsOf(queue, batch') = OpsOf(queue, batch)
    BY <1>0, <2>1, OpsOfBatches
  <2>3. QuietStep /\ exitTransitions' = exitTransitions /\ queue' = queue
    BY <1>w, <2>1, <2>2 DEF QuietStep, treeState, treeVars, doomVars
  <2>4. \A p \in Known : Chain(p, Staying(p), queue, batch', kids[p])
    BY <1>0, <1>c, <2>1, ChainJoins
  <2> QED
    BY <2>1, <2>3, <2>4, QuietOrder
<1>6. ASSUME NEW s \in BOOLEAN, EndBatch(s) PROVE InOrder'
  <2> DEFINE q == queue \o batch[1]
  <2>1. ~Busy /\ UNCHANGED nativeVars /\ batch' = <<>> /\ Len(batch) = 1
    BY <1>6 DEF EndBatch
  <2>2. q \in Seq(InsertOp) /\ ToSet(q) = Waiting
    BY <1>0, <1>w, <2>1, OpsOfBatches
  <2>3. s => RunFlush(q, <<>>, nativeBatching)
    BY <1>6 DEF EndBatch
  <2>4. ~s => queue' = q /\ UNCHANGED <<treeVars, doomVars, commit>>
    BY <1>6 DEF EndBatch
  <2>5. \A p \in Known : Leads(p, Staying(p), q, kids[p])
    BY <1>0, <1>c, <2>1, ChainEnds
  <2> HIDE DEF q
  <2>6. OpsOf(q, batch') = Waiting /\ OpsOf(<<>>, batch') = {}
    BY <1>e, <2>1, <2>2, OpsOfBatches
  <2>7. \A p \in Known : Chain(p, Staying(p), q, batch', kids[p])
    BY <2>1, <2>2, <2>5, ChainAlone
  <2>8. CASE s
    BY <2>1, <2>2, <2>3, <2>5, <2>6, <2>7, <2>8, RunFlushOrder
  <2>9. CASE ~s
    <3>1. QuietStep /\ exitTransitions' = exitTransitions /\ queue' = q
      BY <1>w, <2>1, <2>4, <2>6, <2>9 DEF QuietStep, treeState, treeVars, doomVars
    <3> QED
      BY <2>1, <2>7, <3>1, QuietOrder
  <2> QED
    BY <2>8, <2>9
<1>7. ASSUME BeginNative PROVE InOrder'
  <2>1. /\ ~Busy /\ QuietStep /\ exitTransitions' = exitTransitions
        /\ queue' = queue /\ batch' = batch
    BY <1>7, <1>w DEF BeginNative, Idle, QuietStep, treeState, treeVars, doomVars
  <2> QED
    BY <1>2, <2>1
<1>8. ASSUME EndNative \/ AnimationFrame PROVE InOrder'
  <2>1. ~Busy /\ batch = <<>> /\ batch' = batch /\ UNCHANGED nativeVars
    BY <1>8 DEF EndNative, AnimationFrame, Idle
  <2>2. CASE flushScheduled
    BY <1>1, <1>8, <2>1, <2>2 DEF EndNative, AnimationFrame
  <2>3. CASE ~flushScheduled
    <3>1. QuietStep /\ exitTransitions' = exitTransitions /\ queue' = queue
      BY <1>8, <1>w, <2>1, <2>3
      DEF EndNative, AnimationFrame, QuietStep, treeState, treeVars, doomVars
    <3> QED
      BY <1>2, <2>1, <3>1
  <2> QED
    BY <2>2, <2>3
<1> QED
  BY <1>3, <1>4, <1>5, <1>6, <1>7, <1>8

LEMMA CommitRemovesOrder ==
  ASSUME Sound, InOrder, CommitRemoves
  PROVE  InOrder'
<1> DEFINE valid   == {r \in commit.removes : Addressable(r[1])}
           gone(p) == {r[2] : r \in {v \in valid : v[1] = p}}
           child   == {r[2] : r \in valid}
<1>a. TypeOK /\ KnownLives
  BY AgreementParts
<1>1. /\ commit' = [commit EXCEPT !.removes = {}] /\ UNCHANGED hostVars
      /\ recParent' = [n \in Node |-> IF n \in child \cap alive
                                       THEN None ELSE recParent[n]]
      /\ yogaKids' = [p \in Parent |-> Without(yogaKids[p], gone(p))]
  BY DEF CommitRemoves, NativeRemove
<1>2. /\ kids' = kids /\ pendingRemovals' = pendingRemovals /\ rescued' = rescued
      /\ queue' = queue /\ batch' = batch /\ exitTransitions' = exitTransitions
      /\ Waiting' = Waiting /\ Exiting' = Exiting /\ Known' = Known
  BY <1>1, HostWaits DEF hostVars, doomVars
<1>3. commit'.removes = {} /\ commit'.inserts = commit.inserts
  BY <1>1, <1>a, TypeFacts
<1>4. NoExits'
  BY <1>2 DEF InOrder, NoExits
<1>5. NotAstray'
  <2>1. None \notin Known
    BY <1>a, KnownType
  <2>2. \A op \in Waiting \cup ToSet(commit.inserts) : op.child \in Node
    BY <1>a, WaitingType DEF InsertOp
  <2>3. \A n \in Node : recParent'[n] = None \/ recParent'[n] = recParent[n]
    BY <1>1
  <2> QED
    BY <1>2, <1>3, <2>1, <2>2, <2>3 DEF InOrder, NotAstray
<1>6. ASSUME NEW p \in Known PROVE Staying(p)' = Staying(p)
  <2>1. p \in Parent /\ yogaKids[p] \in Seq(Node) /\ (p = Root \/ p \in tracked)
    BY <1>a, KnownType
  <2>2. Addressable(p)
    BY <1>a, <2>1, NothingFades DEF InOrder, NoExits, KnownLives, Addressable
  <2>3. gone(p) \cup {n \in Node : pendingRemovals[n] = p} = Leavers(p)
    <3>1. commit.removes \subseteq Parent \X Node
      BY <1>a, TypeFacts
    <3>2. \A n : n \in gone(p) <=> <<p, n>> \in commit.removes
      BY <2>2, <3>1
    <3>3. \A n : <<p, n>> \in commit.removes => n \in Node
      BY <3>1
    <3> HIDE DEF gone
    <3> QED
      BY <3>2, <3>3 DEF Leavers
  <2> DEFINE s == yogaKids[p]
             S == gone(p)
             U == {n \in Node : pendingRemovals[n] = p}
  <2>4. Leavers(p)' = U
    BY <1>2, <1>3 DEF Leavers
  <2>5. yogaKids'[p] = Without(s, S)
    BY <1>1, <2>1
  <2>6. s \in Seq(Node) /\ S \cup U = Leavers(p)
    BY <2>1, <2>3
  <2> HIDE DEF s, S, U
  <2>7. Without(Without(s, S), U) = Without(s, S \cup U)
    BY <2>6, WithoutTwice
  <2>8. Staying(p)' = Without(Without(s, S), U)
    BY <2>4, <2>5 DEF Staying
  <2> QED
    BY <2>6, <2>7, <2>8 DEF Staying, s
<1>7. Orderly'
  BY <1>2, <1>3, <1>6 DEF InOrder, Orderly
<1> QED
  BY <1>4, <1>5, <1>7 DEF InOrder

LEMMA CommitInsertOrder ==
  ASSUME Sound, InOrder, CommitInsert
  PROVE  InOrder'
<1>a. /\ TypeOK /\ KnownTree /\ InsertsMatch /\ FlushTakesAll /\ RecordsAgree
  BY AgreementParts
<1> DEFINE op == Head(commit.inserts)
           c  == op.child
           d  == op.parent
           rest == YogaDetached(c)
           pos  == IF op.at > Len(rest[d]) THEN Len(rest[d]) ELSE op.at
<1>1. /\ commit' = [commit EXCEPT !.inserts = Tail(commit.inserts)] /\ UNCHANGED hostVars
      /\ commit.removes = {} /\ commit.inserts # <<>>
      /\ NativeInsert(d, c, op.at)
  BY DEF CommitInsert
<1>2. /\ kids' = kids /\ pendingRemovals' = pendingRemovals /\ rescued' = rescued
      /\ queue' = queue /\ batch' = batch /\ exitTransitions' = exitTransitions
      /\ Waiting' = Waiting /\ Exiting' = Exiting /\ Known' = Known
  BY <1>1, HostWaits DEF hostVars, doomVars
<1>3. commit'.removes = {} /\ commit'.inserts = Tail(commit.inserts)
  BY <1>1, <1>a, TypeFacts
<1>4. /\ op \in InsertOp /\ commit.inserts \in Seq(InsertOp) /\ op \in ToSet(commit.inserts)
      /\ ToSet(Tail(commit.inserts)) \subseteq ToSet(commit.inserts)
  BY <1>1, <1>a, TypeFacts, TailElements
<1>5. c \in Node /\ d \in Parent /\ op.at \in Nat
  BY <1>4 DEF InsertOp
<1>6. /\ c \in alive /\ Addressable(d)
      /\ parent[c] = d \/ (c \notin tracked /\ d \notin Known)
      /\ recParent[c] \in Known => recParent[c] = d
  BY <1>a, <1>4 DEF InsertsMatch, InOrder, NotAstray
<1>7. Waiting = {} /\ Removed = {}
  BY <1>a, <1>1 DEF FlushTakesAll
<1>8. /\ recParent' = [recParent EXCEPT ![c] = d]
      /\ yogaKids' = [rest EXCEPT ![d] = InsertAt(rest[d], pos + 1, c)]
  BY <1>1, <1>6 DEF NativeInsert
<1>9. /\ recParent'[c] = d /\ \A n \in Node : n # c => recParent'[n] = recParent[n]
      /\ \A r \in Parent : rest[r] = Without(yogaKids[r], {c})
      /\ yogaKids'[d] = InsertAt(rest[d], pos + 1, c)
      /\ \A r \in Parent : r # d => yogaKids'[r] = rest[r]
  BY <1>5, <1>8, <1>a, TypeFacts DEF YogaDetached
<1>10. NoExits'
  BY <1>2 DEF InOrder, NoExits
<1>11. NotAstray'
  <2> SUFFICES ASSUME NEW o \in ToSet(commit.inserts), recParent'[o.child] \in Known
               PROVE  recParent'[o.child] = o.parent
    BY <1>2, <1>3, <1>4, <1>7 DEF NotAstray
  <2>1. o.child \in Node
    BY <1>a, WaitingType DEF InsertOp
  <2>2. CASE o.child = c
    <3>1. d \in Known
      BY <1>9, <2>2
    <3>2. parent[c] = d /\ c \in tracked
      BY <1>5, <1>6, <1>a, <3>1, KnownType DEF KnownTree
    <3>3. parent[o.child] = o.parent
      BY <1>a, <2>2, <3>2 DEF InsertsMatch
    <3> QED
      BY <1>9, <2>2, <3>2, <3>3
  <2>3. CASE o.child # c
    BY <1>9, <2>1, <2>3 DEF InOrder, NotAstray
  <2> QED
    BY <2>2, <2>3
<1>12. ASSUME NEW p \in Known, NEW m,
              Leads(p, Staying(p), commit.inserts, m)
       PROVE  Leads(p, Staying(p)', commit'.inserts, m)
  <2>1. /\ p \in Parent /\ p # None /\ yogaKids[p] \in Seq(Node)
    BY <1>a, KnownType
  <2>2. Leavers(p) = {} /\ Leavers(p)' = {}
    BY <1>1, <1>2, <1>3, <1>7, <2>1 DEF Leavers, Removed
  <2>3. Staying(p) = yogaKids[p]
    <3>1. ToSet(yogaKids[p]) \cap {} = {}
      OBVIOUS
    <3> QED
      BY <2>1, <2>2, <3>1, WithoutNone DEF Staying
  <2>4. yogaKids'[p] \in Seq(Node)
    <3>1. TypeOK'
      <4>1. [Next]_vars
        BY DEF Next, ApplyCommit
      <4> QED
        BY <1>a, <4>1, TypingStep
    <3> QED
      BY <2>1, <3>1 DEF TypeOK, NativeTypeOK
  <2>5. Staying(p)' = yogaKids'[p]
    <3> DEFINE y == yogaKids'[p]
    <3>1. y \in Seq(Node)
      BY <2>4
    <3> HIDE DEF y
    <3>2. ToSet(y) \cap {} = {}
      OBVIOUS
    <3>3. Without(y, {}) = y
      BY <3>1, <3>2, WithoutNone
    <3> QED
      BY <2>2, <3>3 DEF Staying, y
  <2>6. Fits(p, op, yogaKids[p]) /\ Leads(p, After(p, op, yogaKids[p]), Tail(commit.inserts), m)
    BY <1>1, <1>4, <1>12, <2>3, LeadsFrom
  <2>7. yogaKids'[p] = After(p, op, yogaKids[p])
    <3>1. CASE d = p
      <4>1. op.at <= Len(rest[d])
        BY <1>5, <1>9, <2>6, <3>1 DEF Fits
      <4>2. Len(rest[d]) \in Nat
        <5>1. rest[d] \in Seq(Node)
          BY <1>9, <2>1, <3>1, WithoutElements
        <5> QED
          BY <5>1, LenProperties
      <4> HIDE DEF rest
      <4>3. pos = op.at
        BY <1>5, <4>1, <4>2
      <4> QED
        BY <1>9, <2>1, <3>1, <4>3 DEF After
    <3>2. CASE d # p
      <4>1. ToSet(yogaKids[p]) \cap {c} = {}
        BY <1>5, <1>6, <1>a, <2>1, <3>2 DEF RecordsAgree
      <4>2. Without(yogaKids[p], {c}) = yogaKids[p]
        BY <2>1, <4>1, WithoutNone
      <4> QED
        BY <1>9, <2>1, <3>2, <4>2 DEF After
    <3> QED
      BY <3>1, <3>2
  <2> QED
    BY <1>3, <2>5, <2>6, <2>7
<1>13. Orderly'
  BY <1>2, <1>12 DEF InOrder, Orderly
<1> QED
  BY <1>10, <1>11, <1>13 DEF InOrder

LEMMA CommitDropsOrder ==
  ASSUME Sound, InOrder, CommitDrops
  PROVE  InOrder'
<1>a. /\ TypeOK /\ FlushTakesAll /\ RecordsAgree /\ SettledMatches /\ KnownLives
  BY AgreementParts
<1> DEFINE dead == Closure(commit.drops \cap alive, recKids)
<1>1. /\ commit.removes = {} /\ commit.inserts = <<>> /\ commit.drops # {}
      /\ commit' = NoCommit /\ UNCHANGED hostVars
      /\ recParent' = [n \in Node |-> IF n \in dead THEN None ELSE recParent[n]]
      /\ yogaKids' = [p \in Parent |->
           IF p \in dead THEN <<>> ELSE Without(yogaKids[p], dead)]
  BY DEF CommitDrops, NativeDrop
<1>2. /\ kids' = kids /\ pendingRemovals' = pendingRemovals /\ rescued' = rescued
      /\ queue' = queue /\ batch' = batch /\ exitTransitions' = exitTransitions
      /\ Waiting' = Waiting /\ Exiting' = Exiting /\ Known' = Known
  BY <1>1, HostWaits DEF hostVars, doomVars
<1>3. commit'.removes = {} /\ commit'.inserts = <<>> /\ ToSet(commit'.inserts) = {}
  BY <1>1, EmptySeq DEF NoCommit, ToSet
<1>4. Waiting = {} /\ Removed = {} /\ ToSet(commit.inserts) = {}
  BY <1>a, <1>1, EmptySeq DEF FlushTakesAll, ToSet
<1>5. dead \subseteq Node /\ dead \cap tracked = {}
  <2>1. Fading = {}
    BY NothingFades DEF InOrder, NoExits
  <2> QED
    BY <1>1, <2>1, DropsReach, ClosureType
<1> HIDE DEF dead
<1>6. NoExits' /\ NotAstray'
  BY <1>2, <1>3, <1>4 DEF InOrder, NoExits, NotAstray
<1>7. ASSUME NEW p \in Known PROVE Staying(p)' = Staying(p)
  <2>1. /\ p \in Parent /\ p # None /\ yogaKids[p] \in Seq(Node) /\ p \notin dead
    BY <1>5, <1>a, KnownType, TypeFacts
  <2>2. ToSet(yogaKids[p]) \cap dead = {}
    <3> SUFFICES ASSUME NEW n \in ToSet(yogaKids[p]), n \in dead PROVE FALSE
      OBVIOUS
    <3>1. n \in Node /\ n \notin tracked
      BY <1>5
    <3>2. recParent[n] = p /\ n \in alive
      BY <1>a, <2>1, <3>1 DEF RecordsAgree
    <3>3. n \notin Unsettled
      BY <1>1, <1>4 DEF InOrder, NoExits, Unsettled
    <3> QED
      BY <1>a, <3>1, <3>2, <3>3 DEF SettledMatches
  <2>3. Without(yogaKids[p], dead) = yogaKids[p]
    BY <2>1, <2>2, WithoutNone
  <2>4. yogaKids'[p] = yogaKids[p]
    BY <1>1, <2>1, <2>3
  <2>5. Leavers(p)' = Leavers(p)
    BY <1>1, <1>2, <1>3 DEF Leavers
  <2> QED
    BY <2>4, <2>5 DEF Staying
<1>8. Orderly'
  BY <1>1, <1>2, <1>3, <1>7 DEF InOrder, Orderly
<1> QED
  BY <1>6, <1>8 DEF InOrder

LEMMA InOrderStep ==
  ASSUME Liberties = {}, ExitNode = {}, Sound, InOrder, [Next]_vars
  PROVE  InOrder'
<1>1. TypeOK'
  BY AgreementParts, TypingStep
<1>2. ASSUME NEW n \in Node, NEW on \in BOOLEAN PROVE ~SetExitTransition(n, on)
  BY DEF SetExitTransition
<1>3. ASSUME NEW n \in Node PROVE ~ExitTimerFires(n)
  BY DEF ExitTimerFires, InOrder, NoExits
<1>4. ASSUME UNCHANGED vars PROVE InOrder'
  <2>1. /\ tracked' = tracked /\ kids' = kids /\ pendingRemovals' = pendingRemovals
        /\ rescued' = rescued /\ exitTimers' = exitTimers /\ commit' = commit
        /\ recParent' = recParent /\ yogaKids' = yogaKids /\ queue' = queue /\ batch' = batch
        /\ exitTransitions' = exitTransitions
    BY <1>4 DEF vars, treeVars, doomVars, nativeVars
  <2>2. /\ Known' = Known /\ Exiting' = Exiting /\ Waiting' = Waiting
        /\ \A p : Staying(p)' = Staying(p)
    BY <2>1 DEF Known, Exiting, Waiting, Staying, Leavers
  <2> QED
    BY <2>1, <2>2 DEF InOrder, NoExits, NotAstray, Orderly
<1> QED
  BY <1>1, <1>2, <1>3, <1>4, CreateOrder, InsertOrder, RemoveOrder, HostOrder,
     CommitRemovesOrder, CommitInsertOrder, CommitDropsOrder
  DEF Next, RendererCall, ApplyCommit

LEMMA InOrderMeans ==
  ASSUME Sound, InOrder
  PROVE  OrderAgrees
<1> SUFFICES ASSUME Settled, NEW p \in Attached \cup {Root}
             PROVE  Without(yogaKids[p], Exiting) = kids[p]
  BY DEF OrderAgrees
<1>a. TypeOK /\ ~Busy
  BY AgreementParts DEF Settled
<1>1. p \in Known
  BY AttachedFacts DEF Known
<1>2. p \in Parent /\ p # None /\ yogaKids[p] \in Seq(Node) /\ Staying(p) \in Seq(Node)
      /\ queue \in Seq(InsertOp) /\ batch \in Seq(Seq(InsertOp))
  BY <1>1, <1>a, KnownType, TypeFacts
<1>3. \A op \in OpsOf(queue, batch) : op.parent # p
  BY DEF Settled, Waiting, OpsOf
<1>4. Chain(p, Staying(p), queue, batch, kids[p])
  BY <1>1, <1>a, OrderlyIdle DEF InOrder
<1>5. kids[p] = Staying(p)
  BY <1>2, <1>3, <1>4, ChainNowhere
<1>6. Leavers(p) = {} /\ Exiting = {}
  BY <1>2, <1>a, NotBusy DEF Settled, Leavers, Removed, InOrder, NoExits
<1> QED
  BY <1>5, <1>6 DEF Staying

\* In an app that takes no liberties and has no exit transitions, the children
\* of every node under the root are laid out in the order of the app, once the
\* host has settled: the indices that insertNode counts, over all that still
\* waits, are those at which insertChild puts the nodes natively.
THEOREM OrderHolds ==
  ASSUME Liberties = {}, ExitNode = {}
  PROVE  Spec => []OrderAgrees
<1>1. Sound /\ InOrder /\ [Next]_vars => InOrder'
  BY InOrderStep
<1>2. Sound /\ InOrder => OrderAgrees
  BY InOrderMeans
<1>3. Liberties \subseteq {"mix"}
  OBVIOUS
<1>4. Spec => []Sound
  BY <1>3, HostAndTreeAgree
<1> QED
  BY <1>1, <1>2, <1>4, InOrderInit, PTL DEF Spec
=============================================================================
