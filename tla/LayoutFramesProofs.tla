-------------------------- MODULE LayoutFramesProofs --------------------------
(***************************************************************************)
(* Proofs about LayoutFrames, for any surfaces, listeners and bounds: the  *)
(* frame flag is right, nothing is dirty that is gone, nobody is left      *)
(* waiting for a first frame that was reported, and none is reported while *)
(* its surface shows nothing.                                              *)
(***************************************************************************)
EXTENDS LayoutFrames, SequenceTheorems, TLAPS

\* A listener waits for one surface at most, and only until it was called:
\* what keeps told within its type, and a report with its own surface.
WaitsOnce ==
  \A l \in Listener : \A s \in Surface :
    l \in waiting[s] => /\ told[l] = 0
                        /\ \A t \in Surface : l \in waiting[t] => t = s

Typing == TypeOK /\ WaitsOnce

-----------------------------------------------------------------------------
(* Types. *)

LEMMA BlocksType ==
  ASSUME NEW s \in Surface, NEW after \in {"hide", "show"}, NEW atomic \in BOOLEAN
  PROVE  Blocks(s, after, atomic) \in Seq(Block)
  BY DEF Blocks, Block

\* What a block of a commit does, by its kind.
LEMMA BlockKinds ==
  ASSUME Typing, RunBlock
  PROVE  /\ todo' \in Seq(Block) /\ UNCHANGED commits
         /\ \E s \in Surface : \/ Mount(s) \/ EndAtomic \/ Flush
                               \/ \E x \in SUBSET Surface : Frames(s, x)
<1>1. /\ todo \in Seq(Block) /\ todo # <<>> /\ shown \subseteq Surface
      /\ todo' = Tail(todo) /\ commits' = commits
  BY DEF Typing, TypeOK, RunBlock
<1>2. Head(todo) \in Block /\ Tail(todo) \in Seq(Block)
  BY <1>1, HeadTailProperties
<1>3. Head(todo)[2] \in Surface
  BY <1>2 DEF Block
<1>4. \/ Mount(Head(todo)[2]) \/ EndAtomic \/ Flush
      \/ Frames(Head(todo)[2], shown \ {Head(todo)[2]})
      \/ Frames(Head(todo)[2], shown \cup {Head(todo)[2]})
  BY DEF RunBlock
<1> QED
  BY <1>1, <1>2, <1>3, <1>4

LEMMA TypingInit == Init => Typing
<1> SUFFICES ASSUME Init PROVE Typing
  OBVIOUS
<1>1. TypeOK
  <2>1. <<>> \in Seq(Block)
    BY EmptySeq
  <2>2. /\ gen \in [Surface -> Nat] /\ waiting \in [Surface -> SUBSET Listener]
        /\ told \in [Listener -> 0 .. 1] /\ commits \in 0 .. MaxCommits
    <3>1. \A s \in Surface : (IF s = Main THEN 1 ELSE 0) \in Nat
      OBVIOUS
    <3>2. gen \in [Surface -> Nat]
      BY <3>1 DEF Init
    <3> QED
      BY <3>2, FramesAssumption DEF Init
  <2>3. {registered, attached, shown, dirty, dispatched, drawPending} \subseteq SUBSET Surface
    BY FramesAssumption DEF Init
  <2>4. /\ active \in Surface /\ needsLayout \in BOOLEAN /\ posted \in BOOLEAN
        /\ vsync \in 0 .. 1 /\ todo \in Seq(Block) /\ observers \subseteq Surface \X Nat
        /\ invalid \subseteq Surface
    <3>1. needsLayout \in BOOLEAN /\ posted \in BOOLEAN
      BY Zenon DEF Init
    <3>2. /\ active \in Surface /\ vsync \in 0 .. 1
          /\ todo \in Seq(Block) /\ observers \subseteq Surface \X Nat
          /\ invalid \subseteq Surface
      BY <2>1, FramesAssumption DEF Init
    <3> QED
      BY <3>1, <3>2
  <2> QED
    BY <2>2, <2>3, <2>4 DEF TypeOK
<1>2. WaitsOnce
  BY DEF Init, WaitsOnce
<1> QED
  BY <1>1, <1>2 DEF Typing

\* Asking for a frame keeps its variables typed: there is at most one.
LEMMA AskTyped ==
  ASSUME Typing, OneFramePosted, NEW s \in Surface,
         Ask \/ Mark(s) \/ UNCHANGED frameVars
  PROVE  needsLayout' \in BOOLEAN /\ posted' \in BOOLEAN /\ vsync' \in 0 .. 1
         /\ OneFramePosted'
<1>1. CASE Ask
  <2>1. CASE posted
    BY <1>1, <2>1 DEF OneFramePosted, Ask
  <2>2. CASE ~posted
    BY <1>1, <2>2 DEF OneFramePosted, Ask
  <2> QED
    BY <2>1, <2>2
<1>2. CASE UNCHANGED frameVars
  BY <1>2 DEF Typing, TypeOK, OneFramePosted, frameVars
<1> QED
  BY <1>1, <1>2 DEF Mark

\* Types and the frame flag hold each other up: only the flag says that no
\* second callback is asked for.
LEMMA TypingStep == Typing /\ OneFramePosted /\ [Next]_vars => Typing' /\ OneFramePosted'
<1> SUFFICES ASSUME Typing, OneFramePosted, [Next]_vars
             PROVE  Typing' /\ OneFramePosted'
  OBVIOUS
<1> USE FramesAssumption DEF Typing
<1>1. ASSUME NEW s \in Surface, MarkSurfaceDirty(s)
      PROVE  Typing' /\ OneFramePosted'
  <2>1. dirty' = dirty \cup {s}
    BY <1>1 DEF MarkSurfaceDirty, Mark
  <2> QED
    BY <1>1, <2>1, AskTyped
       DEF MarkSurfaceDirty, TypeOK, WaitsOnce, surfaceVars, firstVars
<1>2. ASSUME NEW s \in Surface, Attach(s) \/ Resize(s)
      PROVE  Typing' /\ OneFramePosted'
  BY <1>2 DEF Attach, Resize, TypeOK, WaitsOnce, OneFramePosted, surfaceVars,
              frameVars, firstVars
<1>3. ASSUME NEW s \in Surface, Unregister(s) PROVE Typing' /\ OneFramePosted'
  BY <1>3 DEF Unregister, TypeOK, WaitsOnce, OneFramePosted, frameVars
<1>4. ASSUME NEW s \in Surface, NEW sized \in BOOLEAN, Register(s, sized)
      PROVE  Typing' /\ OneFramePosted'
  BY <1>4 DEF Register, NewRoot, TypeOK, WaitsOnce, OneFramePosted, frameVars
<1>5. ASSUME NEW s \in Surface, NEW t \in Surface, NEW after \in {"hide", "show"},
             NEW atomic \in BOOLEAN, Commit(s, t, after, atomic)
      PROVE  Typing' /\ OneFramePosted'
  <2>1. todo' \in Seq(Block)
    <3>1. /\ Blocks(s, after, atomic) \in Seq(Block)
          /\ Blocks(t, after, atomic) \in Seq(Block)
          /\ <<<<"flush", t>>>> \in Seq(Block) /\ <<>> \in Seq(Block)
      BY BlocksType DEF Block
    <3> HIDE DEF Blocks
    <3> QED
      BY <1>5, <3>1 DEF Commit
  <2> QED
    BY <1>5, <2>1 DEF Commit, TypeOK, WaitsOnce, OneFramePosted, surfaceVars,
                      frameVars, firstVars
<1>6. ASSUME NEW s \in Surface, NEW l \in Listener, AddListener(s, l)
      PROVE  Typing' /\ OneFramePosted'
  <2>1. WaitsOnce' /\ waiting' \in [Surface -> SUBSET Listener]
                   /\ told' \in [Listener -> 0 .. 1]
    <3>1. CASE s \in dispatched
      BY <1>6, <3>1 DEF AddListener, TypeOK, WaitsOnce
    <3>2. CASE s \notin dispatched
      BY <1>6, <3>2 DEF AddListener, TypeOK, WaitsOnce
    <3> QED
      BY <3>1, <3>2
  <2> QED
    BY <1>6, <2>1 DEF AddListener, TypeOK, OneFramePosted, surfaceVars, frameVars
<1>7. ASSUME NEW s \in Surface, NEW l \in Listener, RemoveListener(s, l)
      PROVE  Typing' /\ OneFramePosted'
  BY <1>7 DEF RemoveListener, TypeOK, WaitsOnce, OneFramePosted, surfaceVars, frameVars
<1>8. CASE RequestLayout
  BY <1>8, AskTyped DEF RequestLayout, TypeOK, WaitsOnce, surfaceVars, firstVars
<1>9. CASE ResizeMain
  <2>1. Ask \/ UNCHANGED frameVars
    BY <1>9 DEF ResizeMain
  <2> QED
    BY <1>9, <2>1, AskTyped DEF ResizeMain, TypeOK, WaitsOnce, surfaceVars, firstVars
<1>10. CASE RunBlock
  <2>1. todo' \in Seq(Block) /\ UNCHANGED commits
    BY <1>10, BlockKinds
  <2>2. ASSUME NEW s \in Surface, Mount(s) PROVE Typing' /\ OneFramePosted'
    <3>1. /\ needsLayout' \in BOOLEAN /\ posted' \in BOOLEAN /\ vsync' \in 0 .. 1
          /\ OneFramePosted' /\ dirty' = dirty \cup {s}
      BY <2>2, AskTyped DEF Mount, Mark
    <3>2. CASE s \in registered
      BY <2>1, <2>2, <3>1, <3>2 DEF Mount, TypeOK, WaitsOnce, surfaceVars, firstVars
    <3>3. CASE s \notin registered
      <4>1. /\ gen' \in [Surface -> Nat] /\ waiting' \in [Surface -> SUBSET Listener]
            /\ WaitsOnce'
        <5>1. /\ gen' = [gen EXCEPT ![s] = @ + 1]
              /\ waiting' = [waiting EXCEPT ![s] = {}] /\ told' = told
          BY <2>2, <3>3 DEF Mount, NewRoot
        <5> QED
          BY <5>1 DEF TypeOK, WaitsOnce
      <4>2. {registered', attached', shown', dirty', dispatched', drawPending'}
              \subseteq SUBSET Surface
        <5>1. attached' \subseteq attached \cup {s}
          BY <2>2, <3>3 DEF Mount
        <5> QED
          BY <2>2, <3>1, <3>3, <5>1 DEF Mount, NewRoot, TypeOK
      <4> QED
        BY <2>1, <2>2, <3>1, <3>3, <4>1, <4>2 DEF Mount, NewRoot, TypeOK
    <3> QED
      BY <3>2, <3>3
  <2>3. ASSUME NEW s \in Surface, NEW x \in SUBSET Surface, Frames(s, x)
        PROVE  Typing' /\ OneFramePosted'
    BY <2>1, <2>3 DEF Frames, TypeOK, WaitsOnce, OneFramePosted, firstVars
  <2>4. CASE EndAtomic
    <3>1. Ask \/ UNCHANGED frameVars
      BY <2>4 DEF EndAtomic
    <3> QED
      BY <2>1, <2>4, <3>1, AskTyped DEF EndAtomic, TypeOK, WaitsOnce, surfaceVars, firstVars
  <2>5. CASE Flush
    BY <2>1, <2>5, AskTyped DEF Flush, TypeOK, WaitsOnce, surfaceVars, firstVars
  <2> QED
    BY <1>10, <2>2, <2>3, <2>4, <2>5, BlockKinds
<1>11. CASE HandleFrame
  <2>1. vsync' \in 0 .. 1 /\ posted' \in BOOLEAN /\ OneFramePosted'
    <3>1. vsync = 1 /\ vsync' = 0 /\ posted' = FALSE
      BY <1>11 DEF HandleFrame, TypeOK
    <3>2. posted' \in BOOLEAN /\ OneFramePosted'
      BY <3>1, Zenon DEF OneFramePosted
    <3>3. vsync' \in 0 .. 1
      BY <3>1
    <3> QED
      BY <3>2, <3>3
  <2>2. /\ dirty' \subseteq dirty /\ needsLayout' \in BOOLEAN
        /\ drawPending' \subseteq drawPending \cup dirty
        /\ observers' \subseteq observers \cup {<<s, gen[s]>> : s \in dirty}
    <3>1. CASE ~needsLayout \/ dirty = {}
      BY <1>11, <3>1 DEF HandleFrame, TypeOK
    <3>2. CASE ~(~needsLayout \/ dirty = {})
      <4> DEFINE new == {s \in dirty \ (dispatched \cup drawPending) : Visible(s)}
      <4>1. /\ dirty' = {} /\ needsLayout' = FALSE
            /\ drawPending' = drawPending \cup new
            /\ observers' = observers \cup {<<s, gen[s]>> : s \in new}
        BY <1>11, <3>2, Zenon DEF HandleFrame
      <4>2. new \subseteq dirty
        OBVIOUS
      <4> HIDE DEF new
      <4> QED
        BY <4>1, <4>2
    <3> QED
      BY <3>1, <3>2
  <2>3. observers' \subseteq Surface \X Nat
    BY <2>2 DEF TypeOK
  <2>4. {registered', attached', shown', dirty', dispatched', drawPending'}
          \subseteq SUBSET Surface
    BY <1>11, <2>2 DEF HandleFrame, TypeOK, surfaceVars
  <2>5. WaitsOnce'
    BY <1>11 DEF HandleFrame, WaitsOnce
  <2> QED
    BY <1>11, <2>1, <2>2, <2>3, <2>4, <2>5 DEF HandleFrame, TypeOK, surfaceVars
<1>12. ASSUME NEW o \in observers, PreDraw(o), invalid' \subseteq Surface
      PROVE  Typing' /\ OneFramePosted'
  <2>1. o[1] \in Surface
    BY DEF TypeOK
  <2>2. WaitsOnce' /\ told' \in [Listener -> 0 .. 1]
                   /\ waiting' \in [Surface -> SUBSET Listener]
    <3>1. CASE Report(o[1])
      <4>1. \A l \in Listener :
              told'[l] = IF l \in waiting[o[1]] THEN 1 ELSE told[l]
        BY <2>1, <3>1 DEF Report, TypeOK, WaitsOnce
      <4>2. told' \in [Listener -> 0 .. 1]
        BY <3>1, <4>1 DEF Report, TypeOK
      <4>3. waiting' \in [Surface -> SUBSET Listener]
            /\ \A s \in Surface : waiting'[s] = IF s = o[1] THEN {} ELSE waiting[s]
        BY <2>1, <3>1 DEF Report, TypeOK
      <4> QED
        BY <2>1, <4>1, <4>2, <4>3 DEF WaitsOnce
    <3>2. CASE UNCHANGED <<told, waiting>>
      BY <3>2 DEF TypeOK, WaitsOnce
    <3> QED
      BY <1>12, <3>1, <3>2 DEF PreDraw
  <2>3. dispatched' \subseteq Surface
    BY <1>12, <2>1 DEF PreDraw, Report, TypeOK
  <2> QED
    BY <1>12, <2>2, <2>3 DEF PreDraw, TypeOK, OneFramePosted, surfaceVars, frameVars
<1>13. ASSUME NEW s \in Surface, Draw(s) PROVE Typing' /\ OneFramePosted'
  <2>1. invalid' \subseteq Surface
    BY <1>13 DEF Draw, TypeOK
  <2> QED
    BY <1>12, <1>13, <2>1
       DEF Draw, TypeOK, WaitsOnce, OneFramePosted, surfaceVars, frameVars, firstVars
<1>14. ASSUME NEW o \in observers, DrawAnyway(o) PROVE Typing' /\ OneFramePosted'
  BY <1>12, <1>14 DEF DrawAnyway, TypeOK
<1>15. CASE UNCHANGED vars
  BY <1>15 DEF vars, surfaceVars, frameVars, firstVars, TypeOK, WaitsOnce, OneFramePosted
<1> QED
  BY <1>1, <1>2, <1>3, <1>4, <1>5, <1>6, <1>7, <1>8, <1>9, <1>10, <1>11, <1>13,
     <1>14, <1>15 DEF Next

LEMMA FrameInit == Init => OneFramePosted
  BY DEF Init, OneFramePosted

\* TypeOK holds in every reachable state.
THEOREM TypesHold == Spec => []TypeOK
<1>1. Typing => TypeOK
  BY DEF Typing
<1> QED
  BY <1>1, TypingInit, FrameInit, TypingStep, PTL DEF Spec

\* One frame callback is posted when the flag says so, and none otherwise.
THEOREM OneFramePostedHolds == Spec => []OneFramePosted
  BY TypingInit, FrameInit, TypingStep, PTL DEF Spec

-----------------------------------------------------------------------------
(* What is dirty. *)

\* The root view stays: it is where the active surface falls back to.
RootStays == Main \in registered /\ DirtyIsRegistered

LEMMA RootStaysInit == Init => RootStays
  BY DEF Init, RootStays, DirtyIsRegistered

LEMMA RootStaysStep == Typing /\ RootStays /\ [Next]_vars => RootStays'
<1> SUFFICES ASSUME Typing, RootStays, [Next]_vars PROVE RootStays'
  OBVIOUS
<1> USE DEF RootStays, DirtyIsRegistered
<1>1. ASSUME NEW s \in Surface, MarkSurfaceDirty(s) PROVE RootStays'
  BY <1>1 DEF MarkSurfaceDirty, Mark, surfaceVars
<1>2. ASSUME NEW s \in Surface, Attach(s) \/ Resize(s) PROVE RootStays'
  BY <1>2 DEF Attach, Resize, surfaceVars
<1>3. ASSUME NEW s \in Surface, Unregister(s) PROVE RootStays'
  BY <1>3 DEF Unregister
<1>4. ASSUME NEW s \in Surface, NEW sized \in BOOLEAN, Register(s, sized) PROVE RootStays'
  BY <1>4 DEF Register, NewRoot
<1>5. ASSUME NEW s \in Surface, NEW t \in Surface, NEW after \in {"hide", "show"},
             NEW atomic \in BOOLEAN, Commit(s, t, after, atomic)
      PROVE  RootStays'
  BY <1>5 DEF Commit, surfaceVars
<1>6. ASSUME NEW s \in Surface, NEW l \in Listener, AddListener(s, l) \/ RemoveListener(s, l)
      PROVE  RootStays'
  BY <1>6 DEF AddListener, RemoveListener, surfaceVars
<1>7. ASSUME RequestLayout \/ ResizeMain PROVE RootStays'
  BY <1>7 DEF RequestLayout, ResizeMain, surfaceVars
<1>8. CASE RunBlock
  <2>1. ASSUME NEW s \in Surface, Mount(s) PROVE RootStays'
    BY <2>1 DEF Mount, NewRoot, Mark, surfaceVars
  <2>2. ASSUME NEW s \in Surface, NEW x \in SUBSET Surface, Frames(s, x) PROVE RootStays'
    BY <2>2 DEF Frames
  <2>3. ASSUME EndAtomic \/ Flush PROVE RootStays'
    BY <2>3 DEF EndAtomic, Flush, surfaceVars
  <2> QED
    BY <1>8, <2>1, <2>2, <2>3, BlockKinds
<1>9. CASE HandleFrame
  BY <1>9 DEF HandleFrame, surfaceVars
<1>10. ASSUME NEW s \in Surface, Draw(s) PROVE RootStays'
  BY <1>10 DEF Draw, PreDraw, surfaceVars
<1>11. ASSUME NEW o \in observers, DrawAnyway(o) PROVE RootStays'
  BY <1>11 DEF DrawAnyway, PreDraw, surfaceVars
<1>12. CASE UNCHANGED vars
  BY <1>12 DEF vars, surfaceVars
<1> QED
  BY <1>1, <1>2, <1>3, <1>4, <1>5, <1>6, <1>7, <1>8, <1>9, <1>10, <1>11, <1>12 DEF Next

\* The surface a commit works on, and all that is dirty, has a root, although
\* surfaces are disposed of between the blocks of a commit.
THEOREM DirtyIsRegisteredHolds == Spec => []DirtyIsRegistered
<1>1. RootStays => DirtyIsRegistered
  BY DEF RootStays
<1> QED
  BY <1>1, TypingInit, FrameInit, TypingStep, RootStaysInit, RootStaysStep, PTL DEF Spec

-----------------------------------------------------------------------------
(* First frames. *)

LEMMA NoneLeftInit == Init => NoneLeftWaiting
  BY DEF Init, NoneLeftWaiting

LEMMA NoneLeftStep == Typing /\ NoneLeftWaiting /\ [Next]_vars => NoneLeftWaiting'
<1> SUFFICES ASSUME Typing, NoneLeftWaiting, [Next]_vars PROVE NoneLeftWaiting'
  OBVIOUS
<1> USE DEF NoneLeftWaiting
<1>t. /\ waiting \in [Surface -> SUBSET Listener] /\ gen \in [Surface -> Nat]
      /\ dispatched \subseteq Surface /\ drawPending \subseteq Surface
      /\ dirty \subseteq Surface /\ observers \subseteq Surface \X Nat
  BY DEF Typing, TypeOK
<1>0. ASSUME UNCHANGED gen, UNCHANGED firstVars PROVE NoneLeftWaiting'
  BY <1>0 DEF firstVars
<1>n. ASSUME NEW s \in Surface, NewRoot(s) PROVE NoneLeftWaiting'
  <2>1. \A t \in Surface : t # s => waiting'[t] = waiting[t] /\ gen'[t] = gen[t]
    BY <1>n, <1>t DEF NewRoot
  <2> QED
    BY <1>n, <1>t, <2>1 DEF NewRoot
<1>1. ASSUME NEW s \in Surface, MarkSurfaceDirty(s) \/ Attach(s) \/ Resize(s)
      PROVE  NoneLeftWaiting'
  BY <1>1, <1>0 DEF MarkSurfaceDirty, Attach, Resize, surfaceVars
<1>3. ASSUME NEW s \in Surface, Unregister(s) PROVE NoneLeftWaiting'
  BY <1>3, <1>t DEF Unregister
<1>4. ASSUME NEW s \in Surface, NEW sized \in BOOLEAN, Register(s, sized)
      PROVE  NoneLeftWaiting'
  BY <1>4, <1>n DEF Register
<1>5. ASSUME NEW s \in Surface, NEW t \in Surface, NEW after \in {"hide", "show"},
             NEW atomic \in BOOLEAN, Commit(s, t, after, atomic)
      PROVE  NoneLeftWaiting'
  BY <1>5, <1>0 DEF Commit, surfaceVars
<1>6. ASSUME NEW s \in Surface, NEW l \in Listener, AddListener(s, l) \/ RemoveListener(s, l)
      PROVE  NoneLeftWaiting'
  BY <1>6, <1>t DEF AddListener, RemoveListener, surfaceVars
<1>7. ASSUME RequestLayout \/ ResizeMain PROVE NoneLeftWaiting'
  BY <1>7, <1>0 DEF RequestLayout, ResizeMain, surfaceVars
<1>8. CASE RunBlock
  <2>1. ASSUME NEW s \in Surface, Mount(s) PROVE NoneLeftWaiting'
    BY <2>1, <1>0, <1>n DEF Mount, surfaceVars
  <2>2. ASSUME NEW s \in Surface, NEW x \in SUBSET Surface, Frames(s, x)
        PROVE  NoneLeftWaiting'
    BY <2>2, <1>0 DEF Frames
  <2>3. ASSUME EndAtomic \/ Flush PROVE NoneLeftWaiting'
    BY <2>3, <1>0 DEF EndAtomic, Flush, surfaceVars
  <2> QED
    BY <1>8, <2>1, <2>2, <2>3, BlockKinds
<1>9. CASE HandleFrame
  <2> DEFINE new == {s \in dirty \ (dispatched \cup drawPending) : Visible(s)}
  <2>1. /\ UNCHANGED <<gen, waiting, dispatched>>
        /\ \/ UNCHANGED <<drawPending, observers>>
           \/ /\ drawPending' = drawPending \cup new
              /\ observers' = observers \cup {<<s, gen[s]>> : s \in new}
    BY <1>9, Zenon DEF HandleFrame, surfaceVars
  <2> HIDE DEF new
  <2> QED
    BY <2>1
<1>10. ASSUME NEW o \in observers, PreDraw(o) PROVE NoneLeftWaiting'
  <2>1. /\ gen' = gen /\ observers' = observers \ {o} /\ drawPending' = drawPending \ {o[1]}
        /\ o[1] \in Surface
    BY <1>10, <1>t DEF PreDraw, surfaceVars
  <2>2. \A s \in drawPending' : <<s, gen'[s]>> \in observers'
    BY <2>1
  <2>3. \A s \in dispatched' : waiting'[s] = {}
    BY <1>10, <1>t, <2>1 DEF PreDraw, Report
  <2> QED
    BY <2>2, <2>3
<1>11. ASSUME NEW s \in Surface, Draw(s) PROVE NoneLeftWaiting'
  BY <1>0, <1>10, <1>11 DEF Draw, surfaceVars
<1>12. CASE UNCHANGED vars
  BY <1>12, <1>0 DEF vars, surfaceVars
<1> QED
  BY <1>1, <1>3, <1>4, <1>5, <1>6, <1>7, <1>8, <1>9, <1>10, <1>11, <1>12
     DEF Next, DrawAnyway

\* Nobody waits for a first frame that was reported, and a report that is
\* pending has an observer on the surface's present root.
THEOREM NoneLeftWaitingHolds == Spec => []NoneLeftWaiting
  BY TypingInit, FrameInit, TypingStep, NoneLeftInit, NoneLeftStep, PTL DEF Spec

\* Only a draw that finds its surface visible calls those who wait.
LEMMA ReportIsReal ==
  ASSUME Typing, [Next]_vars, NEW s \in Surface, NEW l \in waiting[s], told'[l] > told[l]
  PROVE  Visible(s)
<1>t. l \in Listener /\ told \in [Listener -> 0 .. 1] /\ observers \subseteq Surface \X Nat
  BY DEF Typing, TypeOK
<1>0. told' # told
  BY <1>t
<1>1. ASSUME NEW o \in observers, PreDraw(o) PROVE Visible(s)
  <2>1. o[1] \in Surface /\ Report(o[1]) /\ Visible(o[1])
    BY <1>0, <1>1, <1>t DEF PreDraw
  <2>2. l \in waiting[o[1]]
    BY <1>t, <2>1 DEF Report
  <2> QED
    BY <1>t, <2>1, <2>2 DEF Typing, WaitsOnce
<1>2. ASSUME NEW r \in Surface, NEW k \in Listener, AddListener(r, k) PROVE FALSE
  <2>1. l # k
    BY <1>2 DEF AddListener
  <2> QED
    BY <1>2, <1>t, <2>1 DEF AddListener
<1>3. ~\E r \in Surface, k \in Listener : RemoveListener(r, k)
  BY <1>0 DEF RemoveListener
<1>4. ~\E r \in Surface : \/ MarkSurfaceDirty(r) \/ Attach(r) \/ Unregister(r) \/ Resize(r)
                          \/ \E sized \in BOOLEAN : Register(r, sized)
  BY <1>0 DEF MarkSurfaceDirty, Attach, Unregister, Resize, Register, NewRoot, firstVars
<1>5. ~\E r \in Surface, u \in Surface, after \in {"hide", "show"}, atomic \in BOOLEAN :
         Commit(r, u, after, atomic)
  BY <1>0 DEF Commit, firstVars
<1>6. ~(RequestLayout \/ ResizeMain \/ HandleFrame)
  BY <1>0 DEF RequestLayout, ResizeMain, HandleFrame, firstVars
<1>7. ~RunBlock
  <2>1. ~\E r \in Surface : \/ Mount(r) \/ EndAtomic \/ Flush
                            \/ \E x \in SUBSET Surface : Frames(r, x)
    BY <1>0 DEF Mount, NewRoot, EndAtomic, Flush, Frames, firstVars
  <2> QED
    BY <2>1, BlockKinds
<1>8. ASSUME NEW r \in Surface, Draw(r) PROVE Visible(s)
  BY <1>0, <1>1, <1>8 DEF Draw, firstVars
<1>9. ~(UNCHANGED vars)
  BY <1>0 DEF vars, firstVars
<1> QED
  BY <1>1, <1>2, <1>3, <1>4, <1>5, <1>6, <1>7, <1>8, <1>9 DEF Next, DrawAnyway

\* A first frame is reported while its surface shows something in a window.
THEOREM FirstFrameIsRealHolds == Spec => FirstFrameIsReal
<1>1. Typing /\ [Next]_vars =>
        [\A s \in Surface : \A l \in waiting[s] : told'[l] > told[l] => Visible(s)]_vars
  BY ReportIsReal
<1> QED
  BY <1>1, TypingInit, FrameInit, TypingStep, PTL DEF Spec, FirstFrameIsReal
===============================================================================
