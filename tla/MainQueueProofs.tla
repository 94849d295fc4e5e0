--------------------------- MODULE MainQueueProofs ---------------------------
(***************************************************************************)
(* Proofs about MainQueue, for any number of threads and of blocks: the    *)
(* flag mainQueueScheduled is right, no block is lost or run twice, a      *)
(* thread that waited finds all it handed over applied, and the queue does *)
(* what Handoff says (fairness aside).                                     *)
(***************************************************************************)
EXTENDS MainQueue, SequenceTheorems, TLAPS

-----------------------------------------------------------------------------
(* Types. *)

\* A block is being run when the main thread is at it; a thread waits for the
\* last block that it handed over, and is then nowhere else.
Latches ==
  /\ main = "block" <=> running # None
  /\ \A t \in Thread :
       /\ handed[t] <= MaxBlocks
       /\ at[t] \in {"run", "gone"} => awaited[t] = None
       /\ at[t] = "await" => awaited[t] # None
       /\ awaited[t] # None => awaited[t] = [from |-> t, no |-> handed[t]]

Typing == TypeOK /\ Latches

\* The next block of a thread is a block, and nobody waits for it yet.
LEMMA NextBlock ==
  ASSUME Typing, NEW t \in Thread, handed[t] < MaxBlocks
  PROVE  [from |-> t, no |-> handed[t] + 1] \in Block
  BY QueueAssumption DEF Typing, TypeOK, Block

LEMMA TypingInit == Init => Typing
<1> SUFFICES ASSUME Init PROVE Typing
  OBVIOUS
<1>1. TypeOK
  <2>1. <<>> \in Seq(Block)
    BY EmptySeq
  <2>2. /\ [t \in Thread |-> "run"] \in [Thread -> {"run", "post", "await", "gone"}]
        /\ [t \in Thread |-> 0] \in [Thread -> Nat]
        /\ [t \in Thread |-> None] \in [Thread -> Block \cup {None}]
    OBVIOUS
  <2> QED
    BY <2>1, <2>2 DEF Init, TypeOK
<1>2. Latches
  BY QueueAssumption DEF Init, Latches
<1> QED
  BY <1>1, <1>2 DEF Typing

LEMMA TypingStep == Typing /\ [Next]_vars => Typing'
<1> SUFFICES ASSUME Typing, [Next]_vars PROVE Typing'
  OBVIOUS
<1> USE QueueAssumption DEF Typing
<1>1. ASSUME NEW t \in Thread, NEW sync \in BOOLEAN, RunOnMain(t, sync)
      PROVE Typing'
  <2> DEFINE b == [from |-> t, no |-> handed[t] + 1]
  <2>1. b \in Block /\ b # None
    BY <1>1, NextBlock DEF RunOnMain, Block
  <2>2. awaited[t] = None
    BY <1>1 DEF RunOnMain, Latches
  <2>3. handed' = [handed EXCEPT ![t] = @ + 1] /\ handed' \in [Thread -> Nat]
    BY <1>1 DEF RunOnMain, TypeOK
  <2>4. /\ awaited' \in [Thread -> Block \cup {None}]
        /\ \A u \in Thread : u # t => awaited'[u] = awaited[u] /\ at'[u] = at[u]
        /\ awaited'[t] = IF sync THEN b ELSE None
        /\ at' \in [Thread -> {"run", "post", "await", "gone"}]
        /\ at'[t] = IF mainQueueScheduled THEN Onward(awaited'[t]) ELSE "post"
    BY <1>1, <2>1, <2>2 DEF RunOnMain, TypeOK, Onward
  <2>5. mainQueue' \in Seq(Block)
    BY <1>1, <2>1 DEF RunOnMain, TypeOK
  <2>6. TypeOK'
    BY <1>1, <2>3, <2>4, <2>5 DEF RunOnMain, TypeOK
  <2>7. Latches'
    <3>1. (main = "block" <=> running # None)'
      BY <1>1 DEF RunOnMain, Latches
    <3>2. ASSUME NEW u \in Thread, u # t
          PROVE  /\ handed'[u] <= MaxBlocks
                 /\ at'[u] \in {"run", "gone"} => awaited'[u] = None
                 /\ at'[u] = "await" => awaited'[u] # None
                 /\ awaited'[u] # None => awaited'[u] = [from |-> u, no |-> handed'[u]]
      BY <2>3, <2>4, <3>2 DEF Latches, TypeOK
    <3>3. /\ handed'[t] <= MaxBlocks
          /\ at'[t] \in {"run", "gone"} => awaited'[t] = None
          /\ at'[t] = "await" => awaited'[t] # None
          /\ awaited'[t] # None => awaited'[t] = [from |-> t, no |-> handed'[t]]
      BY <1>1, <2>1, <2>3, <2>4 DEF RunOnMain, Onward, TypeOK
    <3> QED
      BY <3>1, <3>2, <3>3 DEF Latches
  <2> QED
    BY <2>6, <2>7
<1>2. ASSUME NEW t \in Thread, PostDrain(t) PROVE Typing'
  BY <1>2 DEF PostDrain, Onward, TypeOK, Latches, queueVars
<1>3. ASSUME NEW t \in Thread, Return(t) PROVE Typing'
  BY <1>3 DEF Return, TypeOK, Latches, queueVars
<1>4. CASE Drain
  BY <1>4 DEF Drain, TypeOK, Latches, queueVars
<1>5. CASE Take
  <2>1. CASE mainQueue = <<>>
    BY <1>5, <2>1 DEF Take, TypeOK, Latches
  <2>2. CASE mainQueue # <<>>
    <3>1. Head(mainQueue) \in Block /\ Tail(mainQueue) \in Seq(Block)
      BY <2>2, HeadTailProperties DEF TypeOK
    <3>2. Head(mainQueue) # None
      BY <3>1 DEF Block
    <3> QED
      BY <1>5, <2>2, <3>1, <3>2 DEF Take, TypeOK, Latches
  <2> QED
    BY <2>1, <2>2
<1>6. CASE RunBlock
  <2>1. running \in Block
    BY <1>6 DEF RunBlock, TypeOK, Latches
  <2>2. done' \in Seq(Block)
    BY <1>6, <2>1 DEF RunBlock, TypeOK
  <2> QED
    BY <1>6, <2>2 DEF RunBlock, TypeOK, Latches, queueVars
<1>7. CASE Recheck
  BY <1>7 DEF Recheck, TypeOK, Latches
<1>8. CASE Repost
  BY <1>8 DEF Repost, TypeOK, Latches, queueVars
<1>9. CASE Destroy
  BY <1>9 DEF Destroy, TypeOK, Latches, queueVars
<1>10. CASE Destroyed
  BY <1>10 DEF Destroyed, TypeOK, Latches, queueVars
<1>11. CASE UNCHANGED vars
  BY <1>11 DEF vars, queueVars, TypeOK, Latches
<1> QED
  BY <1>1, <1>2, <1>3, <1>4, <1>5, <1>6, <1>7, <1>8, <1>9, <1>10, <1>11 DEF Next

\* The types of the queue, the flags and the latches (runOnMain, drainMainQueue).
THEOREM TypesHold == Spec => []Typing
  BY TypingInit, TypingStep, PTL DEF Spec

-----------------------------------------------------------------------------
(* The flag. *)

\* Two records of Wakers are equal when their fields are.
LEMMA SameWakers ==
  ASSUME NEW p, NEW a \in BOOLEAN, NEW w, NEW p2, NEW a2 \in BOOLEAN, NEW w2
  PROVE  [posted |-> p, active |-> a, posting |-> w]
           = [posted |-> p2, active |-> a2, posting |-> w2]
         <=> p = p2 /\ (a <=> a2) /\ w = w2
<1> DEFINE r == [posted |-> p, active |-> a, posting |-> w]
           q == [posted |-> p2, active |-> a2, posting |-> w2]
<1>1. r.posted = p /\ r.active = a /\ r.posting = w
  OBVIOUS
<1>2. q.posted = p2 /\ q.active = a2 /\ q.posting = w2
  OBVIOUS
<1>3. (a <=> a2) => a = a2
  OBVIOUS
<1> HIDE DEF r, q
<1>4. r = q => p = p2 /\ a = a2 /\ w = w2
  BY <1>1, <1>2, Zenon
<1>5. p = p2 /\ a = a2 /\ w = w2 => r = q
  BY DEF r, q
<1> QED
  BY <1>3, <1>4, <1>5 DEF r, q

LEMMA OneDrainInit == Init => OneDrain
<1> SUFFICES ASSUME Init PROVE OneDrain
  OBVIOUS
<1>1. {t \in Thread : at[t] = "post"} = {}
  BY DEF Init
<1> DEFINE active == main \in {"take", "block", "recheck", "repost"}
<1>2. drains = 0 /\ ~active /\ active \in BOOLEAN
  BY DEF Init
<1>3. Wakers = [posted |-> 0, active |-> FALSE, posting |-> {}]
  <2> DEFINE posting == {t \in Thread : at[t] = "post"}
  <2>1. Wakers = [posted |-> drains, active |-> active, posting |-> posting]
    BY DEF Wakers
  <2> HIDE DEF active, posting
  <2> QED
    BY <1>1, <1>2, <2>1, SameWakers DEF posting
<1> QED
  BY <1>3 DEF Init, OneDrain

\* What each step does to the drains that are posted, under way or due.
LEMMA OneDrainStep == Typing /\ OneDrain /\ [Next]_vars => OneDrain'
<1> SUFFICES ASSUME Typing, OneDrain, [Next]_vars PROVE OneDrain'
  OBVIOUS
<1> DEFINE active == main \in {"take", "block", "recheck", "repost"}
           posting == {t \in Thread : at[t] = "post"}
           Right == /\ mainQueue # <<>> => mainQueueScheduled
                    /\ mainQueueScheduled =>
                         \/ drains = 1 /\ ~active /\ posting = {}
                         \/ drains = 0 /\ active /\ posting = {}
                         \/ \E t \in Thread : drains = 0 /\ ~active /\ posting = {t}
                    /\ ~mainQueueScheduled => drains = 0 /\ ~active /\ posting = {}
<1>w. ASSUME NEW p, NEW a \in BOOLEAN, NEW w
      PROVE  /\ Wakers = [posted |-> p, active |-> a, posting |-> w]
                 <=> drains = p /\ (active <=> a) /\ posting = w
             /\ Wakers' = [posted |-> p, active |-> a, posting |-> w]
                 <=> drains' = p /\ (active' <=> a) /\ posting' = w
  <2>1. active \in BOOLEAN /\ active' \in BOOLEAN
    OBVIOUS
  <2> HIDE DEF active, posting
  <2>2. /\ Wakers = [posted |-> drains, active |-> active, posting |-> posting]
        /\ Wakers' = [posted |-> drains', active |-> active', posting |-> posting']
    BY DEF Wakers, active, posting
  <2> QED
    BY <2>1, <2>2, SameWakers
<1>0. (Right <=> OneDrain) /\ (Right' <=> OneDrain')
  <2> HIDE DEF active, posting
  <2> QED
    BY <1>w DEF OneDrain
<1>a. Right
  BY <1>0
<1>b. SUFFICES Right'
  BY <1>0
<1>t. TypeOK
  BY DEF Typing
<1> HIDE DEF Right
<1>1. ASSUME NEW t \in Thread, NEW sync \in BOOLEAN, RunOnMain(t, sync)
      PROVE Right'
  <2>1. CASE mainQueueScheduled
    <3>1. posting' = posting
      BY <1>1, <1>t, <2>1 DEF RunOnMain, Onward, TypeOK
    <3> QED
      BY <1>1, <1>a, <2>1, <3>1 DEF RunOnMain, Right
  <2>2. CASE ~mainQueueScheduled
    <3>1. posting' = posting \cup {t}
      BY <1>1, <1>t, <2>2 DEF RunOnMain, TypeOK
    <3> QED
      BY <1>1, <1>a, <2>2, <3>1 DEF RunOnMain, Right
  <2> QED
    BY <2>1, <2>2
<1>2. ASSUME NEW t \in Thread, PostDrain(t) PROVE Right'
  <2>1. posting' = posting \ {t} /\ t \in posting
    BY <1>2, <1>t DEF PostDrain, Onward, TypeOK
  <2>2. drains = 0 /\ ~active /\ posting = {t}
    BY <1>a, <1>t, <2>1 DEF Right, TypeOK
  <2> QED
    BY <1>2, <1>a, <2>1, <2>2 DEF PostDrain, Right, queueVars
<1>3. ASSUME NEW t \in Thread, Return(t) PROVE Right'
  <2>1. posting' = posting
    BY <1>3, <1>t DEF Return, TypeOK
  <2> QED
    BY <1>3, <1>a, <2>1 DEF Return, Right, queueVars
<1>4. CASE Drain
  BY <1>4, <1>a, <1>t DEF Drain, Right, queueVars, TypeOK
<1>5. CASE Take
  BY <1>5, <1>a, <1>t DEF Take, Right, TypeOK
<1>6. CASE RunBlock
  BY <1>6, <1>a DEF RunBlock, Right, queueVars
<1>7. CASE Recheck
  BY <1>7, <1>a, <1>t DEF Recheck, Right, TypeOK
<1>8. CASE Repost
  BY <1>8, <1>a, <1>t DEF Repost, Right, queueVars, TypeOK
<1>9. CASE Destroy
  BY <1>9, <1>a DEF Destroy, Right, queueVars
<1>10. CASE Destroyed
  <2>1. posting' = posting
    BY <1>10, <1>t, QueueAssumption DEF Destroyed, TypeOK
  <2> QED
    BY <1>10, <1>a, <2>1 DEF Destroyed, Right, queueVars
<1>11. CASE UNCHANGED vars
  BY <1>11, <1>a DEF vars, queueVars, Right
<1> QED
  BY <1>1, <1>2, <1>3, <1>4, <1>5, <1>6, <1>7, <1>8, <1>9, <1>10, <1>11 DEF Next

\* No wake-up is lost and one drain runs at a time, for any number of threads
\* (mainQueueScheduled in runOnMain and drainMainQueue).
THEOREM OneDrainHolds == Spec => []OneDrain
  BY TypingInit, TypingStep, OneDrainInit, OneDrainStep, PTL DEF Spec

-----------------------------------------------------------------------------
(* The blocks. *)

\* The blocks that were handed over, in order, each thread's in its own order.
Handed ==
  /\ \A i, j \in 1 .. Len(Blocks) :
       i < j /\ Blocks[i].from = Blocks[j].from => Blocks[i].no < Blocks[j].no
  /\ ToSet(Blocks) = {b \in Block : b.no \in 1 .. handed[b.from]}

LEMMA ConcatAppend ==
  ASSUME NEW S, NEW s \in Seq(S), NEW u \in Seq(S), NEW e \in S
  PROVE  s \o Append(u, e) = Append(s \o u, e)
<1>1. <<e>> \in Seq(S) /\ s \o u \in Seq(S)
  BY ConcatProperties
<1>2. Append(u, e) = u \o <<e>> /\ Append(s \o u, e) = (s \o u) \o <<e>>
  BY <1>1, AppendIsConcat
<1> QED
  BY <1>1, <1>2, ConcatAssociative

LEMMA BlocksType == Typing => Blocks \in Seq(Block) /\ Current \in Seq(Block)
  BY DEF Typing, TypeOK, Blocks, Current

\* A block is put at the end, by runOnMain, and all else moves none.
LEMMA BlocksStep ==
  ASSUME Typing, [Next]_vars
  PROVE  \/ Blocks' = Blocks /\ handed' = handed
         \/ \E t \in Thread :
              /\ handed[t] < MaxBlocks
              /\ Blocks' = Append(Blocks, [from |-> t, no |-> handed[t] + 1])
              /\ handed' = [handed EXCEPT ![t] = @ + 1]
<1>0. TypeOK /\ Latches /\ Current \in Seq(Block)
  BY BlocksType DEF Typing
<1>1. ASSUME NEW t \in Thread, NEW sync \in BOOLEAN, RunOnMain(t, sync)
      PROVE  /\ handed[t] < MaxBlocks
             /\ Blocks' = Append(Blocks, [from |-> t, no |-> handed[t] + 1])
             /\ handed' = [handed EXCEPT ![t] = @ + 1]
  <2> DEFINE b == [from |-> t, no |-> handed[t] + 1]
             before == done \o Current
  <2>1. b \in Block
    BY <1>1, NextBlock DEF RunOnMain
  <2>2. before \in Seq(Block) /\ mainQueue \in Seq(Block)
    BY <1>0, ConcatProperties DEF TypeOK
  <2>3. Current' = Current
    BY <1>1 DEF RunOnMain, Current
  <2>4. Blocks' = before \o Append(mainQueue, b) /\ Blocks = before \o mainQueue
    BY <1>1, <2>3 DEF RunOnMain, Blocks
  <2>5. Blocks' = Append(Blocks, b)
    <3> HIDE DEF b, before
    <3> QED
      BY <2>1, <2>2, <2>4, ConcatAppend
  <2> QED
    BY <1>1, <2>5 DEF RunOnMain
<1>2. ASSUME NEW t \in Thread, PostDrain(t) PROVE Blocks' = Blocks /\ handed' = handed
  BY <1>2 DEF PostDrain, Blocks, Current, queueVars
<1>3. ASSUME NEW t \in Thread, Return(t) PROVE Blocks' = Blocks /\ handed' = handed
  BY <1>3 DEF Return, Blocks, Current, queueVars
<1>4. CASE Drain
  BY <1>4 DEF Drain, Blocks, Current, queueVars
<1>5. CASE Take
  <2>1. CASE mainQueue = <<>>
    BY <1>5, <2>1 DEF Take, Blocks, Current
  <2>2. CASE mainQueue # <<>>
    <3>1. Current = <<>> /\ Current' = <<Head(mainQueue)>>
      <4>1. Head(mainQueue) \in Block
        BY <1>0, <2>2, HeadTailProperties DEF TypeOK
      <4>2. Head(mainQueue) # None
        BY <4>1, QueueAssumption DEF Block
      <4> QED
        BY <1>0, <1>5, <2>2, <4>2 DEF Take, Current, Latches
    <3>2. <<Head(mainQueue)>> \o Tail(mainQueue) = mainQueue
      BY <1>0, <2>2 DEF TypeOK
    <3>3. Blocks' = (done \o <<Head(mainQueue)>>) \o Tail(mainQueue)
      BY <1>5, <2>2, <3>1 DEF Take, Blocks
    <3>4. Blocks = done \o mainQueue
      BY <1>0, <3>1 DEF Blocks, TypeOK
    <3> QED
      BY <1>0, <1>5, <2>2, <3>2, <3>3, <3>4 DEF Take, TypeOK
  <2> QED
    BY <2>1, <2>2
<1>6. CASE RunBlock
  <2>1. running \in Block /\ Current = <<running>> /\ Current' = <<>>
    BY <1>0, <1>6, QueueAssumption DEF RunBlock, Current, TypeOK, Latches
  <2>2. Append(done, running) = done \o <<running>>
    BY <1>0, <2>1, AppendIsConcat DEF TypeOK
  <2>3. Append(done, running) \in Seq(Block)
    BY <1>0, <2>1, AppendProperties DEF TypeOK
  <2>4. Append(done, running) \o <<>> = done \o <<running>>
    BY <2>2, <2>3, ConcatEmptySeq
  <2> QED
    BY <1>0, <1>6, <2>4, <2>1, <2>2 DEF RunBlock, Blocks, queueVars, TypeOK
<1>7. CASE Recheck
  BY <1>7 DEF Recheck, Blocks, Current
<1>8. CASE Repost
  BY <1>8 DEF Repost, Blocks, Current, queueVars
<1>9. CASE Destroy
  BY <1>9 DEF Destroy, Blocks, Current, queueVars
<1>10. CASE Destroyed
  BY <1>10 DEF Destroyed, Blocks, Current, queueVars
<1>11. CASE UNCHANGED vars
  BY <1>11 DEF vars, queueVars, Blocks, Current
<1> QED
  BY <1>1, <1>2, <1>3, <1>4, <1>5, <1>6, <1>7, <1>8, <1>9, <1>10, <1>11 DEF Next

LEMMA HandedInit == Init => Handed
  BY DEF Init, Handed, Blocks, Current, ToSet, Block

LEMMA HandedStep == Typing /\ Handed /\ [Next]_vars => Handed'
<1> SUFFICES ASSUME Typing, Handed, [Next]_vars PROVE Handed'
  OBVIOUS
<1>0. Blocks \in Seq(Block) /\ handed \in [Thread -> Nat]
  BY BlocksType DEF Typing, TypeOK
<1>1. CASE Blocks' = Blocks /\ handed' = handed
  BY <1>1 DEF Handed
<1>2. ASSUME NEW t \in Thread, handed[t] < MaxBlocks,
             Blocks' = Append(Blocks, [from |-> t, no |-> handed[t] + 1]),
             handed' = [handed EXCEPT ![t] = @ + 1]
      PROVE  Handed'
  <2> DEFINE b == [from |-> t, no |-> handed[t] + 1]
             n == Len(Blocks)
  <2>1. b \in Block
    BY <1>2, NextBlock
  <2>2. /\ Len(Blocks') = n + 1 /\ n \in Nat
        /\ \A i \in 1 .. n : Blocks'[i] = Blocks[i]
        /\ Blocks'[n + 1] = b
    BY <1>0, <1>2, <2>1
  <2>3. \A i \in 1 .. n : Blocks[i] \in Block /\ Blocks[i].no \in 1 .. handed[Blocks[i].from]
    BY <1>0 DEF Handed, ToSet
  <2>4. \A i, j \in 1 .. Len(Blocks') :
           i < j /\ Blocks'[i].from = Blocks'[j].from => Blocks'[i].no < Blocks'[j].no
    <3> SUFFICES ASSUME NEW i \in 1 .. n + 1, NEW j \in 1 .. n + 1, i < j,
                        Blocks'[i].from = Blocks'[j].from
                 PROVE  Blocks'[i].no < Blocks'[j].no
      BY <2>2
    <3>1. CASE j = n + 1
      <4>1. i \in 1 .. n
        BY <2>2, <3>1
      <4>2. Blocks[i].from = t /\ Blocks[i].no \in 1 .. handed[t]
        BY <2>2, <2>3, <3>1, <4>1
      <4>3. Blocks'[i].no = Blocks[i].no /\ Blocks'[j].no = handed[t] + 1
        BY <2>2, <3>1, <4>1
      <4>4. handed[t] \in Nat
        BY <1>0
      <4>5. \A x, y : x = Blocks[i].no /\ y = handed[t] + 1 => x < y
        BY <4>2, <4>4
      <4> QED
        BY <4>3, <4>5, Zenon
    <3>2. CASE j # n + 1
      <4>1. i \in 1 .. n /\ j \in 1 .. n
        BY <2>2, <3>2
      <4>2. Blocks'[i] = Blocks[i] /\ Blocks'[j] = Blocks[j]
        BY <2>2, <4>1
      <4>3. Blocks[i].from = Blocks[j].from => Blocks[i].no < Blocks[j].no
        BY <4>1 DEF Handed
      <4> QED
        BY <4>2, <4>3, Zenon
    <3> QED
      BY <3>1, <3>2
  <2>5. ToSet(Blocks') = ToSet(Blocks) \cup {b}
    <3>1. 1 .. n + 1 = (1 .. n) \cup {n + 1}
      BY <2>2
    <3>2. DOMAIN Blocks = 1 .. n /\ DOMAIN Blocks' = 1 .. n + 1
      BY <1>0, <1>2, <2>1
    <3> QED
      BY <2>2, <3>1, <3>2 DEF ToSet
  <2>6. {x \in Block : x.no \in 1 .. handed'[x.from]}
          = {x \in Block : x.no \in 1 .. handed[x.from]} \cup {b}
    <3> DEFINE before == {x \in Block : x.no \in 1 .. handed[x.from]}
               after == {x \in Block : x.no \in 1 .. handed'[x.from]}
    <3>1. ASSUME NEW x \in Block, x.from # t PROVE x \in after <=> x \in before \cup {b}
      BY <1>0, <1>2, <3>1 DEF Block
    <3>2. ASSUME NEW x \in Block, x.from = t PROVE x \in after <=> x \in before \cup {b}
      <4>1. handed'[t] = handed[t] + 1 /\ handed[t] \in Nat /\ x.no \in Nat
        BY <1>0, <1>2 DEF Block
      <4>2. x = b <=> x.no = handed[t] + 1
        BY <3>2 DEF Block
      <4>3. x.no \in 1 .. handed'[t] <=> x.no \in 1 .. handed[t] \/ x.no = handed[t] + 1
        BY <4>1
      <4> QED
        BY <3>2, <4>2, <4>3
    <3> QED
      BY <2>1, <3>1, <3>2
  <2> QED
    BY <2>4, <2>5, <2>6 DEF Handed
<1> QED
  BY <1>1, <1>2, BlocksStep

LEMMA HandedIsEachOnce == Typing /\ Handed => EachOnce
<1> SUFFICES ASSUME Typing, Handed PROVE EachOnce
  OBVIOUS
<1>1. Blocks \in Seq(Block)
  BY BlocksType
<1>2. \A i \in 1 .. Len(Blocks) : Blocks[i].no \in Nat
  <2>1. \A i \in 1 .. Len(Blocks) : Blocks[i] \in Block
    BY <1>1, ElementOfSeq
  <2> QED
    BY <2>1 DEF Block
<1>3. \A i, j \in 1 .. Len(Blocks) : i < j \/ j < i \/ i = j
  BY <1>1
<1> QED
  BY <1>2, <1>3 DEF Handed, EachOnce

\* No block is dropped or run twice, however often a drain stops on its budget
\* (drainMainQueue).
THEOREM EachOnceHolds == Spec => []EachOnce
  BY TypingInit, TypingStep, HandedInit, HandedStep, HandedIsEachOnce, PTL DEF Spec

-----------------------------------------------------------------------------
(* The latch, and what Handoff promises. *)

\* The blocks that have run, before those that have not.
LEMMA BlocksGroup ==
  ASSUME Typing
  PROVE  Blocks = done \o (Current \o mainQueue)
<1>1. done \in Seq(Block) /\ Current \in Seq(Block) /\ mainQueue \in Seq(Block)
  BY BlocksType DEF Typing, TypeOK
<1> QED
  BY <1>1, ConcatAssociative DEF Blocks

\* The latch of a thread opens when all it has handed over is done: its last
\* block is, and blocks run in their order.
LEMMA ReturnSeesAll ==
  ASSUME Typing, Handed, NEW t \in Thread, Return(t), NEW n \in 1 .. handed[t]
  PROVE  [from |-> t, no |-> n] \in ToSet(done)
<1> DEFINE b == [from |-> t, no |-> n]
<1>0. /\ done \in Seq(Block) /\ Current \o mainQueue \in Seq(Block)
      /\ Current \in Seq(Block) /\ mainQueue \in Seq(Block)
      /\ Blocks \in Seq(Block) /\ handed[t] \in Nat /\ handed[t] <= MaxBlocks
  BY BlocksType, ConcatProperties DEF Typing, TypeOK, Latches
<1>1. awaited[t] = [from |-> t, no |-> handed[t]] /\ awaited[t] \in ToSet(done)
  BY DEF Return, Typing, Latches
<1>d. DOMAIN done = 1 .. Len(done)
  BY <1>0
<1>2. PICK k \in 1 .. Len(done) : done[k] = awaited[t]
  BY <1>1, <1>d DEF ToSet
<1>3. b \in ToSet(Blocks)
  BY <1>0, QueueAssumption DEF Handed, Block
<1>4. PICK j \in 1 .. Len(Blocks) : Blocks[j] = b
  BY <1>0, <1>3 DEF ToSet
<1>5. /\ Len(Blocks) >= Len(done) /\ Len(done) \in Nat /\ Len(Blocks) \in Nat
      /\ \A i \in 1 .. Len(done) : Blocks[i] = done[i]
  <2>1. Blocks = done \o (Current \o mainQueue)
    BY BlocksGroup
  <2>2. Len(Current \o mainQueue) \in Nat /\ Len(done) \in Nat
    BY <1>0, LenProperties
  <2> QED
    BY <1>0, <2>1, <2>2, ConcatProperties
<1>6. Blocks[k].from = t /\ Blocks[k].no = handed[t] /\ k \in 1 .. Len(Blocks)
  BY <1>1, <1>2, <1>5
<1>7. Blocks[j].from = t /\ Blocks[j].no = n
  BY <1>4
<1>8. ~(k < j)
  <2>1. k < j => handed[t] < n
    BY <1>6, <1>7 DEF Handed
  <2> QED
    BY <1>0, <2>1
<1>9. j \in 1 .. Len(done)
  BY <1>2, <1>4, <1>5, <1>8
<1>10. done[j] = b
  BY <1>4, <1>5, <1>9
<1> QED
  BY <1>0, <1>9, <1>10 DEF ToSet

LEMMA SyncStep ==
  ASSUME Typing, Handed, [Next]_vars, NEW t \in Thread,
         at[t] = "await", at'[t] = "run"
  PROVE  \A n \in 1 .. handed[t] : [from |-> t, no |-> n] \in ToSet(done)
<1>0. TypeOK
  BY DEF Typing
<1>1. ASSUME NEW u \in Thread, NEW sync \in BOOLEAN, RunOnMain(u, sync) PROVE FALSE
  <2>1. u # t
    BY <1>1 DEF RunOnMain
  <2> QED
    BY <1>0, <1>1, <2>1 DEF RunOnMain, TypeOK
<1>2. ASSUME NEW u \in Thread, PostDrain(u) PROVE FALSE
  <2>1. u # t
    BY <1>2 DEF PostDrain
  <2> QED
    BY <1>0, <1>2, <2>1 DEF PostDrain, TypeOK
<1>3. ASSUME NEW u \in Thread, Return(u) PROVE u = t
  BY <1>0, <1>3 DEF Return, TypeOK
<1>4. Drain \/ Take \/ RunBlock \/ Recheck \/ Repost \/ Destroy => at' = at
  BY DEF Drain, Take, RunBlock, Recheck, Repost, Destroy
<1>5. ~Destroyed
  BY <1>0, QueueAssumption DEF Destroyed, TypeOK
<1>6. ~(UNCHANGED vars)
  BY DEF vars
<1>7. Return(t)
  BY <1>1, <1>2, <1>3, <1>4, <1>5, <1>6 DEF Next
<1> QED
  BY <1>7, ReturnSeesAll

\* A thread that comes back from applyMountTransactionSync finds all that it
\* handed over done.
THEOREM SyncSeesAllHolds == Spec => SyncSeesAll
<1>1. Typing /\ Handed /\ [Next]_vars =>
        [\A t \in Thread : at[t] = "await" /\ at'[t] = "run" =>
           \A n \in 1 .. handed[t] : [from |-> t, no |-> n] \in ToSet(done)]_vars
  BY SyncStep
<1> QED
  BY <1>1, TypingInit, TypingStep, HandedInit, HandedStep, PTL DEF Spec, SyncSeesAll

LEMMA PromiseInit == Init => Promise!Init
<1> SUFFICES ASSUME Init PROVE Promise!Init
  OBVIOUS
<1>1. Current \o mainQueue = <<>>
  BY DEF Init, Current
<1> QED
  BY <1>1 DEF Init, Promise!Init

\* Each step of the queue is a step of the promise, or none of its business.
LEMMA PromiseStep ==
  ASSUME Typing, Handed, [Next]_vars
  PROVE  [Promise!Next]_(Promise!vars)
<1>0. /\ TypeOK /\ Latches /\ Current \in Seq(Block)
      /\ Current \o mainQueue \in Seq(Block)
      /\ Blocks = done \o (Current \o mainQueue)
  <2>1. TypeOK /\ Latches /\ Current \in Seq(Block)
    BY BlocksType DEF Typing
  <2>2. done \in Seq(Block) /\ mainQueue \in Seq(Block)
    BY <2>1 DEF TypeOK
  <2>3. Current \o mainQueue \in Seq(Block)
    BY <2>1, <2>2, ConcatProperties
  <2>4. (done \o Current) \o mainQueue = done \o (Current \o mainQueue)
    <3>1. Current \in Seq(Block)
      BY <2>1
    <3> QED
      BY <2>2, <3>1, ConcatAssociative
  <2> QED
    BY <2>1, <2>3, <2>4 DEF Blocks
<1> DEFINE pending == Current \o mainQueue
           held == main = "join"
<1>s. ASSUME pending' = pending, done' = done, awaited' = awaited, held' = held
      PROVE  UNCHANGED Promise!vars
  BY <1>s DEF Promise!vars
<1>1. ASSUME NEW t \in Thread, NEW sync \in BOOLEAN, RunOnMain(t, sync)
      PROVE  Promise!Next
  <2> DEFINE b == [from |-> t, no |-> handed[t] + 1]
  <2>1. b \in Block
    BY <1>1, NextBlock DEF RunOnMain
  <2>2. pending' = Append(pending, b)
    <3>1. Current' = Current /\ mainQueue' = Append(mainQueue, b)
      BY <1>1 DEF RunOnMain, Current
    <3>2. mainQueue \in Seq(Block)
      BY <1>0 DEF TypeOK
    <3> HIDE DEF b
    <3>3. Current \o Append(mainQueue, b) = Append(Current \o mainQueue, b)
      BY <1>0, <2>1, <3>2, ConcatAppend
    <3> QED
      BY <3>1, <3>3
  <2>3. b \notin ToSet(pending) \cup ToSet(done)
    <3>1. b \notin ToSet(Blocks)
      BY <1>0, <2>1 DEF Handed, TypeOK
    <3>2. ToSet(pending) \cup ToSet(done) \subseteq ToSet(Blocks)
      <4>1. /\ Len(Blocks) = Len(done) + Len(pending)
            /\ Len(done) \in Nat /\ Len(pending) \in Nat
            /\ \A i \in 1 .. Len(Blocks) :
                 Blocks[i] = IF i <= Len(done) THEN done[i] ELSE pending[i - Len(done)]
            /\ DOMAIN Blocks = 1 .. Len(Blocks)
            /\ DOMAIN done = 1 .. Len(done) /\ DOMAIN pending = 1 .. Len(pending)
        BY <1>0, ConcatProperties, LenProperties DEF TypeOK
      <4> HIDE DEF pending
      <4>2. ASSUME NEW i \in DOMAIN done PROVE done[i] \in ToSet(Blocks)
        BY <4>1 DEF ToSet
      <4>3. ASSUME NEW i \in DOMAIN pending PROVE pending[i] \in ToSet(Blocks)
        <5>1. Len(done) + i \in 1 .. Len(Blocks)
          BY <4>1
        <5>2. Blocks[Len(done) + i] = pending[i]
          BY <4>1, <5>1
        <5> QED
          BY <4>1, <5>1, <5>2 DEF ToSet
      <4> QED
        BY <4>2, <4>3 DEF ToSet
    <3> QED
      BY <3>1, <3>2
  <2>4. awaited[t] = None
    BY <1>0, <1>1 DEF RunOnMain, Latches
  <2>5. /\ awaited' = IF sync THEN [awaited EXCEPT ![t] = b] ELSE awaited
        /\ done' = done /\ held' = held
    BY <1>1 DEF RunOnMain
  <2>6. Promise!Hand(t, b, sync)
    <3>1. UNCHANGED <<done, held>>
      BY <2>5
    <3> HIDE DEF b
    <3> QED
      BY <2>2, <2>3, <2>4, <2>5, <3>1, Zenon DEF Promise!Hand, Promise!ToSet, ToSet
  <2> QED
    BY <2>1, <2>6 DEF Promise!Next
<1>2. ASSUME NEW t \in Thread, PostDrain(t) PROVE UNCHANGED Promise!vars
  BY <1>2, <1>s DEF PostDrain, Current, queueVars
<1>3. ASSUME NEW t \in Thread, Return(t) PROVE Promise!Next
  <2>1. /\ awaited[t] \in ToSet(done) /\ awaited' = [awaited EXCEPT ![t] = None]
        /\ pending' = pending /\ done' = done /\ held' = held
    BY <1>3 DEF Return, Current, queueVars
  <2>2. Promise!Return(t)
    <3>1. UNCHANGED <<pending, done, held>>
      BY <2>1
    <3> QED
      BY <2>1, <3>1, Zenon DEF Promise!Return, Promise!ToSet, ToSet
  <2> QED
    BY <2>2 DEF Promise!Next
<1>4. ASSUME Drain PROVE UNCHANGED Promise!vars
  BY <1>4, <1>s DEF Drain, Current, queueVars
<1>5. ASSUME Take PROVE UNCHANGED Promise!vars
  <2>1. CASE mainQueue = <<>>
    BY <1>5, <1>s, <2>1 DEF Take, Current
  <2>2. CASE mainQueue # <<>>
    <3>1. Head(mainQueue) \in Block
      BY <1>0, <2>2, HeadTailProperties DEF TypeOK
    <3>2. Current = <<>> /\ Current' = <<Head(mainQueue)>>
      BY <1>0, <1>5, <2>2, <3>1, QueueAssumption DEF Take, Current, Latches, Block
    <3>3. <<Head(mainQueue)>> \o Tail(mainQueue) = mainQueue /\ <<>> \o mainQueue = mainQueue
      BY <1>0, <2>2 DEF TypeOK
    <3>4. pending' = pending
      BY <1>5, <2>2, <3>2, <3>3 DEF Take
    <3> QED
      BY <1>5, <1>s, <3>4 DEF Take
  <2> QED
    BY <2>1, <2>2
<1>6. ASSUME RunBlock PROVE Promise!Next
  <2>1. running \in Block /\ Current = <<running>> /\ Current' = <<>>
    BY <1>0, <1>6, QueueAssumption DEF RunBlock, Current, TypeOK, Latches
  <2>2. /\ pending # <<>> /\ Head(pending) = running /\ Tail(pending) = mainQueue
        /\ pending' = mainQueue
    BY <1>0, <1>6, <2>1 DEF RunBlock, queueVars, TypeOK
  <2>3. Promise!Run
    BY <1>6, <2>2 DEF RunBlock, Promise!Run
  <2> QED
    BY <2>3 DEF Promise!Next
<1>7. ASSUME Recheck PROVE UNCHANGED Promise!vars
  BY <1>7, <1>s DEF Recheck, Current
<1>8. ASSUME Repost PROVE UNCHANGED Promise!vars
  BY <1>8, <1>s DEF Repost, Current, queueVars
<1>9. ASSUME Destroy \/ Destroyed PROVE Promise!Next
  <2>1. Promise!Hold
    BY <1>9 DEF Destroy, Destroyed, Promise!Hold, Current, queueVars
  <2> QED
    BY <2>1 DEF Promise!Next
<1>11. ASSUME UNCHANGED vars PROVE UNCHANGED Promise!vars
  BY <1>11, <1>s DEF vars, queueVars, Current
<1> QED
  BY <1>1, <1>2, <1>3, <1>4, <1>5, <1>6, <1>7, <1>8, <1>9, <1>11 DEF Next

\* The safety part of KeepsPromise: the queue implements Handoff, whatever the
\* number of threads and of blocks.
THEOREM ImplementsHandoff == Spec => Promise!Init /\ [][Promise!Next]_(Promise!vars)
  BY TypingInit, TypingStep, HandedInit, HandedStep, PromiseInit, PromiseStep, PTL
     DEF Spec
==============================================================================
