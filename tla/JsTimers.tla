------------------------------- MODULE JsTimers -------------------------------
(***************************************************************************)
(* setTimeout, setInterval and requestAnimationFrame on Android.  Native   *)
(* code (zynthkit.cpp) keeps the callbacks in one table and gives out the  *)
(* ids; Kotlin (ZynthUIManager) keeps the things that fire.  A timer is a  *)
(* runnable on the handler of the JavaScript thread; an animation frame is *)
(* asked for on the main thread, by calls that MainQueue hands over in     *)
(* order, and its callback is posted back to the JavaScript thread.        *)
(***************************************************************************)
EXTENDS Naturals, Sequences, SequencesExt

CONSTANT MaxTimerId  \* bound on the ids that are given out

ASSUME TimersAssumption == MaxTimerId \in Nat \ {0}

VARIABLES
  nextTimerId,
  kind,        \* what each id was given to
  timers,      \* the table of callbacks, by id
  entries,     \* timerEntries
  posted,      \* the timers whose runnable waits on the handler
  running,     \* the id whose callback runs, 0 when none does
  toMain,      \* calls handed to the main thread: <<"schedule" | "cancel", id>>
  frames,      \* animationFrameCallbacks
  vsync,       \* callbacks posted to the choreographer
  due,         \* frames posted back to the JavaScript thread
  cleared,     \* history: the ids that were cleared
  selfCleared  \* history: the intervals cleared while their callback ran

timerVars == <<entries, posted>>
frameVars == <<toMain, frames, vsync, due>>
vars == <<nextTimerId, kind, timers, timerVars, running, frameVars,
          cleared, selfCleared>>

Id   == 1 .. MaxTimerId
Kind == {"timeout", "interval", "frame"}

TypeOK ==
  /\ nextTimerId \in 1 .. MaxTimerId + 1
  /\ kind \in [Id -> Kind \cup {"none"}]
  /\ running \in Id \cup {0}
  /\ toMain \in Seq({"schedule", "cancel"} \X Id)
  /\ {vsync, due} \subseteq Seq(Id)
  /\ {timers, entries, posted, frames, cleared, selfCleared} \subseteq SUBSET Id

Init ==
  /\ nextTimerId = 1 /\ kind = [i \in Id |-> "none"] /\ running = 0
  /\ timers = {} /\ entries = {} /\ posted = {} /\ frames = {}
  /\ toMain = <<>> /\ vsync = <<>> /\ due = <<>>
  /\ cleared = {} /\ selfCleared = {}

-----------------------------------------------------------------------------
(* What JavaScript calls, from a callback or from any other task. *)

NewId(k) ==
  /\ nextTimerId <= MaxTimerId /\ nextTimerId' = nextTimerId + 1
  /\ kind' = [kind EXCEPT ![nextTimerId] = k]
  /\ timers' = timers \cup {nextTimerId}
  /\ UNCHANGED <<running, cleared, selfCleared>>

SetTimer(k) ==
  /\ k # "frame" /\ NewId(k)
  /\ entries' = entries \cup {nextTimerId}
  /\ posted' = posted \cup {nextTimerId}
  /\ UNCHANGED frameVars

RequestFrame ==
  /\ NewId("frame")
  /\ toMain' = Append(toMain, <<"schedule", nextTimerId>>)
  /\ UNCHANGED <<timerVars, frames, vsync, due>>

\* A second clear of an id finds nothing: one is enough.
Given(id) == kind[id] # "none" /\ id \notin cleared

\* Mutant: the callback stays in the table.
KeepCallback(id) ==
  /\ Given(id)
  /\ timers' = (IF kind[id] = "frame" THEN timers ELSE timers \ {id})
  /\ cleared' = cleared \cup {id}
  /\ UNCHANGED <<nextTimerId, kind, running>>

Erase(id) ==
  /\ Given(id)
  /\ timers' = timers \ {id} /\ cleared' = cleared \cup {id}
  /\ UNCHANGED <<nextTimerId, kind, running>>

\* Mutant: cancelTimer forgets the entry and leaves the runnable.
ClearEntry(id) ==
  /\ Erase(id)
  /\ entries' = entries \ {id}
  /\ selfCleared' = selfCleared
       \cup (IF running = id /\ kind[id] = "interval" THEN {id} ELSE {})
  /\ UNCHANGED <<posted, frameVars>>

\* clearTimeout and clearInterval are the same function; cancelTimer removes
\* the runnable that timerEntries knows.  On the id of a frame it only erases
\* the callback.
ClearTimer(id) ==
  /\ Erase(id)
  /\ entries' = entries \ {id}
  /\ posted' = posted \ (entries \cap {id})
  /\ selfCleared' = selfCleared
       \cup (IF running = id /\ kind[id] = "interval" THEN {id} ELSE {})
  /\ UNCHANGED frameVars

CancelFrame(id) ==
  /\ kind[id] = "frame" /\ Erase(id)
  /\ toMain' = Append(toMain, <<"cancel", id>>)
  /\ UNCHANGED <<timerVars, frames, vsync, due, selfCleared>>

-----------------------------------------------------------------------------
(* The JavaScript thread takes the next message of its handler. *)

\* The callback that is still in the table is called; one-shot callbacks leave
\* the table first, so that a callback may not run twice.
Call(id) ==
  /\ running' = id
  /\ timers' = (IF kind[id] = "interval" THEN timers ELSE timers \ {id})
  /\ UNCHANGED <<nextTimerId, kind, cleared, selfCleared>>

\* A runnable whose callback is gone runs to its end at once: an interval
\* posts itself again.
Run(id) ==
  /\ running = 0 /\ id \in posted
  /\ \/ /\ id \in timers /\ Call(id)
        /\ posted' = posted \ {id}
        /\ UNCHANGED <<entries, frameVars>>
     \/ /\ id \notin timers /\ kind[id] = "timeout"
        /\ posted' = posted \ {id} /\ entries' = entries \ {id}
        /\ UNCHANGED <<nextTimerId, kind, timers, running, frameVars, 
                       cleared, selfCleared>>

\* Mutant: an interval is not posted again.
ReturnOnce ==
  /\ running # 0 /\ running' = 0
  /\ entries' = entries \ {running}
  /\ UNCHANGED <<nextTimerId, kind, timers, posted, frameVars, cleared,
                 selfCleared>>

\* The callback returns; the runnable of an interval posts itself again, even
\* when the callback has cleared it.
Return ==
  /\ running # 0 /\ running' = 0
  /\ IF kind[running] = "interval"
       THEN posted' = posted \cup {running} /\ UNCHANGED entries
       ELSE entries' = entries \ {running} /\ UNCHANGED posted
  /\ UNCHANGED <<nextTimerId, kind, timers, frameVars, cleared,
                 selfCleared>>

InvokeFrame ==
  /\ running = 0 /\ due # <<>> /\ due' = Tail(due)
  /\ IF Head(due) \in timers
       THEN Call(Head(due))
       ELSE UNCHANGED <<nextTimerId, kind, timers, running, cleared,
                        selfCleared>>
  /\ UNCHANGED <<timerVars, toMain, frames, vsync>>

-----------------------------------------------------------------------------
(* The main thread. *)

jsSide == <<nextTimerId, kind, timers, timerVars, running, cleared,
            selfCleared>>

ScheduleAnimationFrame ==
  /\ toMain # <<>> /\ Head(toMain)[1] = "schedule" /\ toMain' = Tail(toMain)
  /\ frames' = frames \cup {Head(toMain)[2]}
  /\ vsync' = Append(vsync, Head(toMain)[2])
  /\ UNCHANGED <<jsSide, due>>

\* Where the choreographer has the callback of a frame.
Posting(id) == CHOOSE i \in 1 .. Len(vsync) : vsync[i] = id

CancelAnimationFrame ==
  /\ toMain # <<>> /\ Head(toMain)[1] = "cancel" /\ toMain' = Tail(toMain)
  /\ LET id == Head(toMain)[2] IN
       /\ frames' = frames \ {id}
       /\ vsync' = (IF id \in frames THEN RemoveAt(vsync, Posting(id)) ELSE vsync)
  /\ UNCHANGED <<jsSide, due>>

\* Mutant: the frame is not handed to the JavaScript thread.
DropFrame ==
  /\ vsync # <<>> /\ vsync' = Tail(vsync)
  /\ frames' = frames \ {Head(vsync)}
  /\ UNCHANGED <<jsSide, toMain, due>>

DoFrame ==
  /\ vsync # <<>> /\ vsync' = Tail(vsync)
  /\ frames' = frames \ {Head(vsync)}
  /\ due' = Append(due, Head(vsync))
  /\ UNCHANGED <<jsSide, toMain>>

Next ==
  \/ \E k \in Kind : SetTimer(k)
  \/ RequestFrame
  \/ \E id \in Id : ClearTimer(id) \/ CancelFrame(id) \/ Run(id)
  \/ Return \/ InvokeFrame
  \/ ScheduleAnimationFrame \/ CancelAnimationFrame \/ DoFrame

Spec == Init /\ [][Next]_vars

\* Callbacks return, the main thread and the choreographer go on.  A handler
\* runs its messages by the time they are due: none is passed over for ever.
Fairness ==
  /\ \A id \in Id : SF_vars(Run(id))
  /\ SF_vars(InvokeFrame) /\ WF_vars(Return)
  /\ WF_vars(ScheduleAnimationFrame) /\ WF_vars(CancelAnimationFrame)
  /\ WF_vars(DoFrame)

FairSpec == Spec /\ Fairness

-----------------------------------------------------------------------------
(* Properties. *)

\* A cleared callback is never called, however far its firing had come: the
\* runnable, the choreographer's callback or the call posted to the JavaScript
\* thread may already be on the way.
ClearedIsSilent ==
  [][\A id \in cleared : running' = id => running = id]_vars

\* The places from which the callback of id is still going to be called.
Armed(id) ==
  \/ id \in posted \/ id = running \/ <<"schedule", id>> \in ToSet(toMain)
  \/ id \in ToSet(vsync) \/ id \in ToSet(due)

\* A callback that is kept will be called: no clear, in whatever order it meets
\* the three hand-overs, takes away what was to call another one.
KeptIsArmed == \A id \in timers : Armed(id)

\* The converse: nothing fires for a timer that was cleared, other than an
\* interval that was cleared by its own callback; its runnable goes on
\* forever (ZynthUIManager.kt posts it again without looking at timerEntries).
OnlySelfClearedLinger ==
  posted \subseteq timers \cup selfCleared

\* timerEntries and animationFrameCallbacks keep nothing that has fired: each
\* entry is of a runnable that waits or runs, each callback still at the
\* choreographer.
NothingKept ==
  /\ entries \subseteq posted \cup {running}
  /\ frames \subseteq ToSet(vsync)

\* Timeouts and frames are called in the end, or cleared.
OneShotsFire ==
  \A id \in Id : kind[id] \in {"timeout", "frame"} ~> id \notin timers

\* An interval is called again and again until it is cleared.
IntervalsRepeat ==
  \A id \in Id : []<>(kind[id] = "interval" /\ id \in timers => running = id)
==============================================================================
