----------------------------- MODULE LayoutFrames -----------------------------
(***************************************************************************)
(* The frame scheduler of ZynthUIManager and the surfaces it draws: which  *)
(* surfaces are dirty, when a frame callback is posted to the              *)
(* choreographer, and when a surface reports its first frame to whoever    *)
(* waits for it (the splash screen, the startup metrics).  Everything here *)
(* runs on the main thread; a commit of JavaScript arrives as a series of  *)
(* blocks, between which frames, draws and size changes come.              *)
(***************************************************************************)
EXTENDS Naturals, Sequences

CONSTANTS
  Surface, Main,  \* Main is the root view the manager was made with
  Listener,       \* callers of addSurfaceFirstFrameListener
  MaxRoots,       \* bound on the roots the host registers for one surface
  MaxCommits      \* bound on the commits

ASSUME FramesAssumption ==
  Main \in Surface /\ MaxRoots \in Nat \ {0} /\ MaxCommits \in Nat

VARIABLES
  gen,          \* which root a surface has, counted
  registered,   \* keys of surfaceRoots
  attached,     \* surfaces whose root is in a window
  shown,        \* surfaces whose root has a child that is visible and sized
  active,       \* activeSurfaceId
  dirty,        \* dirtySurfaces
  needsLayout,
  posted,       \* frameCallbackPosted
  vsync,        \* callbacks posted to the choreographer
  todo,         \* blocks of commits on the main queue
  commits,
  waiting,      \* surfaceFirstFrameListeners
  dispatched,   \* surfaceFirstFrameDispatched
  drawPending,  \* surfaceFirstFramePending
  observers,    \* pre-draw listeners, with the root they were added to
  invalid,      \* external: surfaces whose window has a change of them to draw
  told          \* history: how often each listener was called

frameVars   == <<needsLayout, posted, vsync>>
surfaceVars == <<gen, registered, attached, shown>>
firstVars   == <<waiting, dispatched, drawPending, observers, told>>
vars == <<surfaceVars, active, dirty, frameVars, todo, commits, firstVars, invalid>>

Block == {"mount", "hide", "show", "endAtomic", "flush"} \X Surface

TypeOK ==
  /\ gen \in [Surface -> Nat] /\ active \in Surface
  /\ {registered, attached, shown, dirty, dispatched, drawPending} \subseteq SUBSET Surface
  /\ needsLayout \in BOOLEAN /\ posted \in BOOLEAN /\ vsync \in 0 .. 1
  /\ todo \in Seq(Block) /\ commits \in 0 .. MaxCommits
  /\ waiting \in [Surface -> SUBSET Listener] /\ told \in [Listener -> 0 .. 1]
  /\ observers \subseteq Surface \X Nat /\ invalid \subseteq Surface

Init ==
  /\ gen = [s \in Surface |-> IF s = Main THEN 1 ELSE 0]
  /\ registered = {Main} /\ attached = {} /\ shown = {} /\ active = Main
  /\ dirty = {} /\ needsLayout = FALSE /\ posted = FALSE /\ vsync = 0
  /\ todo = <<>> /\ commits = 0
  /\ waiting = [s \in Surface |-> {}] /\ dispatched = {} /\ drawPending = {}
  /\ observers = {} /\ told = [l \in Listener |-> 0] /\ invalid = {}

Visible(s) == s \in registered \cap attached \cap shown

-----------------------------------------------------------------------------
(* Asking for a frame. *)

\* Mutant: the flag that a callback is posted is not looked at.
AskAgain == needsLayout' = TRUE /\ posted' = TRUE /\ vsync' = vsync + 1

Ask ==
  /\ needsLayout' = TRUE /\ posted' = TRUE
  /\ vsync' = (IF posted THEN vsync ELSE vsync + 1)

\* markSurfaceDirty, in a batch or not: endBatch asks for the frame that a
\* batch put off.  A surface that is dirty already asks for nothing.
Mark(s) ==
  /\ dirty' = dirty \cup {s}
  /\ IF s \in dirty THEN UNCHANGED frameVars ELSE Ask

\* A style, text or child operation on a node of the surface.
MarkSurfaceDirty(s) ==
  /\ s \in registered /\ Mark(s)
  /\ UNCHANGED <<surfaceVars, active, todo, commits, firstVars, invalid>>

RequestLayout ==
  /\ Ask
  /\ UNCHANGED <<surfaceVars, active, dirty, todo, commits, firstVars, invalid>>

-----------------------------------------------------------------------------
(* Surfaces. *)

\* registerSurfaceInternal for a root that is new.
NewRoot(s) ==
  /\ gen' = [gen EXCEPT ![s] = @ + 1]
  /\ registered' = registered \cup {s}
  /\ waiting' = [waiting EXCEPT ![s] = {}]
  /\ dispatched' = dispatched \ {s} /\ drawPending' = drawPending \ {s}
  /\ UNCHANGED <<shown, observers, told>>

\* syncSurfaceRootSize makes the surface dirty when its root already has a
\* size, and asks for no frame.  The portal's markSurfaceDirty after it finds
\* the surface dirty.
Register(s, sized) ==
  /\ s \notin registered /\ gen[s] < MaxRoots /\ NewRoot(s)
  /\ dirty' = (IF sized THEN dirty \cup {s} ELSE dirty)
  /\ UNCHANGED <<attached, active, frameVars, todo, commits, invalid>>

\* A root that enters a window is drawn with it.
Attach(s) ==
  /\ s \in registered \ attached /\ attached' = attached \cup {s}
  /\ invalid' = invalid \cup {s}
  /\ UNCHANGED <<gen, registered, shown, active, dirty, frameVars, todo, commits,
                 firstVars>>

\* The manager owns the root: it leaves the window.
Unregister(s) ==
  /\ s \in registered \ {Main}
  /\ registered' = registered \ {s} /\ attached' = attached \ {s}
  /\ shown' = shown \ {s} /\ dirty' = dirty \ {s} /\ invalid' = invalid \ {s}
  /\ active' = (IF active = s THEN Main ELSE active)
  /\ waiting' = [waiting EXCEPT ![s] = {}]
  /\ dispatched' = dispatched \ {s} /\ drawPending' = drawPending \ {s}
  /\ UNCHANGED <<gen, frameVars, todo, commits, observers, told>>

\* The layout listener of a root other than Main: the surface becomes dirty
\* and no frame is asked for.
Resize(s) ==
  /\ s \in registered \ {Main} /\ dirty' = dirty \cup {s}
  /\ UNCHANGED <<surfaceVars, active, frameVars, todo, commits, firstVars, invalid>>

\* The layout listeners of Main: its own first makes Main dirty, then
\* markAllSurfacesDirty asks for a frame when it adds another surface.
ResizeMain ==
  /\ dirty' = dirty \cup registered
  /\ IF registered \subseteq dirty \cup {Main} THEN UNCHANGED frameVars ELSE Ask
  /\ UNCHANGED <<surfaceVars, active, todo, commits, firstVars, invalid>>

-----------------------------------------------------------------------------
(* Commits: a flush of JavaScript sends, for each surface, a transaction     *)
(* that makes the surface the active one, and after the layout pass one that *)
(* sizes its views; an atomic commit is closed after that.  One flush of     *)
(* the manager ends it.                                                      *)

Blocks(s, after, atomic) ==
  <<<<"mount", s>>, <<after, s>>>> \o (IF atomic THEN <<<<"endAtomic", s>>>> ELSE <<>>)

Commit(s, t, after, atomic) ==
  /\ todo = <<>> /\ commits < MaxCommits /\ commits' = commits + 1
  /\ todo' = Blocks(s, after, atomic)
               \o (IF s = t THEN <<>> ELSE Blocks(t, after, atomic)) \o <<<<"flush", t>>>>
  /\ UNCHANGED <<surfaceVars, active, dirty, frameVars, firstVars, invalid>>

\* setSurface: a surface nobody registered, or that is gone by now, gets a
\* root of its own in the window of Main (ensureSurface).
Mount(s) ==
  /\ active' = s
  /\ IF s \in registered
       THEN UNCHANGED <<surfaceVars, firstVars, invalid>>
       ELSE /\ NewRoot(s)
            /\ attached' = (IF Main \in attached THEN attached \cup {s} ELSE attached)
            /\ invalid' = (IF Main \in attached THEN invalid \cup {s} ELSE invalid)
  /\ Mark(s)

\* Frames for nodes with an onLayout handler set needsLayout and no more.
\* Only what changes in a window makes the window draw.
Frames(s, shown2) ==
  /\ shown' = shown2 \cap registered
  /\ invalid' = (IF shown' # shown /\ s \in attached THEN invalid \cup {s} ELSE invalid)
  /\ needsLayout' \in {needsLayout, TRUE}
  /\ UNCHANGED <<gen, registered, attached, active, dirty, posted, vsync, firstVars>>

EndAtomic ==
  /\ IF dirty = {} THEN UNCHANGED frameVars ELSE Ask
  /\ UNCHANGED <<surfaceVars, active, dirty, firstVars, invalid>>

\* Mutant: flush only marks the active surface.
FlushMark ==
  /\ Mark(active) /\ UNCHANGED <<surfaceVars, active, firstVars, invalid>>

\* markSurfaceDirty(activeSurfaceId), then requestLayout.
Flush ==
  /\ dirty' = dirty \cup {active} /\ Ask
  /\ UNCHANGED <<surfaceVars, active, firstVars, invalid>>

RunBlock ==
  /\ todo # <<>> /\ todo' = Tail(todo) /\ UNCHANGED commits
  /\ LET s == Head(todo)[2]
     IN  CASE Head(todo)[1] = "mount"     -> Mount(s)
           [] Head(todo)[1] = "hide"      -> Frames(s, shown \ {s})
           [] Head(todo)[1] = "show"      -> Frames(s, shown \cup {s})
           [] Head(todo)[1] = "endAtomic" -> EndAtomic
           [] OTHER                       -> Flush

-----------------------------------------------------------------------------
(* The first frame. *)

AddListener(s, l) ==
  /\ s \in registered /\ told[l] = 0 /\ \A t \in Surface : l \notin waiting[t]
  /\ IF s \in dispatched
       THEN told' = [told EXCEPT ![l] = @ + 1] /\ UNCHANGED waiting
       ELSE waiting' = [waiting EXCEPT ![s] = @ \cup {l}] /\ UNCHANGED told
  /\ UNCHANGED <<surfaceVars, active, dirty, frameVars, todo, commits, dispatched,
                 drawPending, observers, invalid>>

RemoveListener(s, l) ==
  /\ l \in waiting[s] /\ waiting' = [waiting EXCEPT ![s] = @ \ {l}]
  /\ UNCHANGED <<surfaceVars, active, dirty, frameVars, todo, commits, dispatched,
                 drawPending, observers, told, invalid>>

\* handleFrame: a frame with nothing dirty, or that nobody needs, is skipped;
\* needsLayout stays as it is.  Others observe the next draw of the roots
\* that are to report.
HandleFrame ==
  /\ vsync > 0 /\ vsync' = vsync - 1 /\ posted' = FALSE
  /\ IF ~needsLayout \/ dirty = {}
       THEN UNCHANGED <<dirty, needsLayout, drawPending, observers>>
       ELSE LET new == {s \in dirty \ (dispatched \cup drawPending) : Visible(s)}
            IN  /\ dirty' = {} /\ needsLayout' = FALSE
                /\ drawPending' = drawPending \cup new
                /\ observers' = observers \cup {<<s, gen[s]>> : s \in new}
  /\ UNCHANGED <<surfaceVars, active, todo, commits, waiting, dispatched, told, invalid>>

Report(s) ==
  /\ dispatched' = dispatched \cup {s}
  /\ told' = [l \in Listener |-> IF l \in waiting[s] THEN told[l] + 1 ELSE told[l]]
  /\ waiting' = [waiting EXCEPT ![s] = {}]

\* Mutant: the draw reports without looking at the root again.
PreDrawBlindly(o) ==
  /\ o \in observers /\ observers' = observers \ {o}
  /\ drawPending' = drawPending \ {o[1]}
  /\ IF o[1] \notin dispatched THEN Report(o[1]) ELSE UNCHANGED <<dispatched, told, waiting>>
  /\ UNCHANGED <<surfaceVars, active, dirty, frameVars, todo, commits>>

\* Mutant: a draw that reports nothing leaves its surface pending.
PreDrawStaysPending(o) ==
  /\ o \in observers /\ observers' = observers \ {o}
  /\ IF o[1] \notin dispatched /\ gen[o[1]] = o[2] /\ Visible(o[1])
       THEN drawPending' = drawPending \ {o[1]} /\ Report(o[1])
       ELSE UNCHANGED <<drawPending, dispatched, told, waiting>>
  /\ UNCHANGED <<surfaceVars, active, dirty, frameVars, todo, commits>>

\* onPreDraw looks again at the root it was added to; a root that is gone has
\* no content.  Its surface stops being pending even when it has another root.
PreDraw(o) ==
  /\ o \in observers /\ observers' = observers \ {o}
  /\ drawPending' = drawPending \ {o[1]}
  /\ IF o[1] \notin dispatched /\ gen[o[1]] = o[2] /\ Visible(o[1])
       THEN Report(o[1])
       ELSE UNCHANGED <<dispatched, told, waiting>>
  /\ UNCHANGED <<surfaceVars, active, dirty, frameVars, todo, commits>>

\* A window draws the change of a surface, and its observer hears of it.
Draw(s) ==
  /\ s \in invalid /\ invalid' = invalid \ {s}
  /\ IF <<s, gen[s]>> \in observers
       THEN PreDraw(<<s, gen[s]>>)
       ELSE UNCHANGED <<surfaceVars, active, dirty, frameVars, todo, commits, firstVars>>

\* A window draws for a reason of its own, an animation or other content: it
\* may at any time, and never need to.
DrawAnyway(o) ==
  /\ PreDraw(o)
  /\ invalid' = (IF gen[o[1]] = o[2] THEN invalid \ {o[1]} ELSE invalid)

-----------------------------------------------------------------------------
Next ==
  \/ \E s \in Surface :
       \/ MarkSurfaceDirty(s) \/ Attach(s) \/ Unregister(s) \/ Resize(s)
       \/ \E sized \in BOOLEAN : Register(s, sized)
       \/ \E t \in Surface, after \in {"hide", "show"}, atomic \in BOOLEAN :
            Commit(s, t, after, atomic)
       \/ \E l \in Listener : AddListener(s, l) \/ RemoveListener(s, l)
  \/ RequestLayout \/ ResizeMain \/ RunBlock \/ HandleFrame
  \/ \E s \in Surface : Draw(s)
  \/ \E o \in observers : DrawAnyway(o)

Spec == Init /\ [][Next]_vars

\* The main queue runs, the choreographer calls back, and a window draws what
\* changed in it.  Nothing asks it to draw for an observer's sake.
FairSpec ==
  /\ Spec /\ WF_vars(RunBlock) /\ WF_vars(HandleFrame)
  /\ \A s \in Surface : WF_vars(Draw(s))

-----------------------------------------------------------------------------
\* One callback is posted at a time, and the flag says when: a frame that
\* was skipped, repeated or asked for meanwhile never leaves the flag set
\* with nobody to clear it.
OneFramePosted == vsync = (IF posted THEN 1 ELSE 0)

\* Nothing is dirty that is gone, whatever commits were under way when a
\* surface was disposed of.
DirtyIsRegistered == dirty \cup {active} \subseteq registered

\* Nobody waits for a first frame that has been reported, and a report that
\* is pending has its observer on the way.
NoneLeftWaiting ==
  /\ \A s \in dispatched : waiting[s] = {}
  /\ \A s \in drawPending : <<s, gen[s]>> \in observers

\* A listener is told of the first frame only while its surface shows
\* something in a window, however its roots came and went since the frame.
FirstFrameIsReal ==
  [][\A s \in Surface : \A l \in waiting[s] : told'[l] > told[l] => Visible(s)]_vars

\* A surface that is dirty when a commit is flushed is laid out, also one that
\* was made dirty without a frame being asked for.
FlushCleans ==
  \A s \in Surface :
    (s \in dirty /\ todo # <<>> /\ Head(todo)[1] = "flush") ~> s \notin dirty

\* When a commit to a surface that shows something is flushed, those who wait
\* for its first frame hear of it, unless the surface goes or hides first.
\* The report waits for a draw, which nobody asks for: it may stay away only
\* while the observer is in place and the window has drawn every change.
FirstFrameComes ==
  \A s \in Surface :
    (Visible(s) /\ active = s /\ todo # <<>> /\ Head(todo)[1] = "flush")
      ~> \/ waiting[s] = {} \/ ~Visible(s)
         \/ s \in drawPending /\ s \notin invalid
=============================================================================
