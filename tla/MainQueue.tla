------------------------------ MODULE MainQueue ------------------------------
(***************************************************************************)
(* How background threads hand work to the Android main thread             *)
(* (ZynthUIManager.kt): runOnMain appends a block to mainQueue under a     *)
(* lock and posts drainMainQueue to the main looper unless a drain is on   *)
(* its way; a drain runs blocks until the queue is empty or its budget is  *)
(* spent, and then posts the next one.  A synchronous mount transaction    *)
(* waits on a latch that its block counts down.  In the other direction,   *)
(* ZynthRuntime.destroy lets the main thread wait for the JavaScript       *)
(* thread.  Each action is one critical section or one call to a handler;  *)
(* the threads interleave between them.                                    *)
(***************************************************************************)
EXTENDS Naturals, Sequences, SequencesExt

CONSTANTS
  Thread,     \* the background threads that hand over blocks
  JS,         \* the JavaScript thread, one of them
  None,
  MaxBlocks   \* bound on the blocks of a thread

ASSUME QueueAssumption ==
  /\ JS \in Thread
  /\ MaxBlocks \in Nat
  /\ None \notin [from : Thread, no : 1 .. MaxBlocks]

VARIABLES
  mainQueue,
  mainQueueScheduled,
  drains,     \* drainMainQueue messages in the main looper
  main,       \* where the main thread is
  running,    \* the block it has taken off the queue, or None
  done,       \* the blocks that have run, in order
  at,         \* thread |-> where it is in runOnMain
  handed,     \* thread |-> how many blocks it has handed over
  awaited     \* thread |-> the block whose latch it waits for, or None

queueVars == <<mainQueue, mainQueueScheduled>>
vars == <<queueVars, drains, main, running, done, at, handed, awaited>>

Block == [from : Thread, no : 1 .. MaxBlocks]

TypeOK ==
  /\ mainQueue \in Seq(Block) /\ mainQueueScheduled \in BOOLEAN
  /\ drains \in Nat
  /\ main \in {"idle", "take", "block", "recheck", "repost", "join"}
  /\ running \in Block \cup {None}
  /\ done \in Seq(Block)
  /\ at \in [Thread -> {"run", "post", "await", "gone"}]
  /\ handed \in [Thread -> Nat]
  /\ awaited \in [Thread -> Block \cup {None}]

Init ==
  /\ mainQueue = <<>> /\ mainQueueScheduled = FALSE
  /\ drains = 0 /\ main = "idle" /\ running = None /\ done = <<>>
  /\ at = [t \in Thread |-> "run"]
  /\ handed = [t \in Thread |-> 0]
  /\ awaited = [t \in Thread |-> None]

-----------------------------------------------------------------------------
(* The background threads. *)

\* Where a thread goes when its block is on the queue and a drain is on its way.
Onward(waits) == IF waits = None THEN "run" ELSE "await"

\* Mutant: a thread that is going to wait jumps the queue.
RunOnMainFirst(t, sync) ==
  LET b == [from |-> t, no |-> handed[t] + 1] IN
  /\ at[t] = "run" /\ handed[t] < MaxBlocks
  /\ handed' = [handed EXCEPT ![t] = @ + 1]
  /\ mainQueue' = IF sync THEN <<b>> \o mainQueue ELSE Append(mainQueue, b)
  /\ mainQueueScheduled' = TRUE
  /\ awaited' = IF sync THEN [awaited EXCEPT ![t] = b] ELSE awaited
  /\ at' = [at EXCEPT ![t] = IF mainQueueScheduled
                               THEN Onward(awaited'[t]) ELSE "post"]
  /\ UNCHANGED <<drains, main, running, done>>

\* runOnMain off the main thread, from a synchronous transaction or not: the
\* block is queued, and the first to find no drain scheduled must post one.
RunOnMain(t, sync) ==
  LET b == [from |-> t, no |-> handed[t] + 1] IN
  /\ at[t] = "run" /\ handed[t] < MaxBlocks
  /\ handed' = [handed EXCEPT ![t] = @ + 1]
  /\ mainQueue' = Append(mainQueue, b)
  /\ mainQueueScheduled' = TRUE
  /\ awaited' = IF sync THEN [awaited EXCEPT ![t] = b] ELSE awaited
  /\ at' = [at EXCEPT ![t] = IF mainQueueScheduled
                               THEN Onward(awaited'[t]) ELSE "post"]
  /\ UNCHANGED <<drains, main, running, done>>

\* mainHandler.post, outside the lock.
PostDrain(t) ==
  /\ at[t] = "post"
  /\ drains' = drains + 1
  /\ at' = [at EXCEPT ![t] = Onward(awaited[t])]
  /\ UNCHANGED <<queueVars, main, running, done, handed, awaited>>

\* latch.await returns.
Return(t) ==
  /\ at[t] = "await" /\ awaited[t] \in ToSet(done)
  /\ at' = [at EXCEPT ![t] = "run"]
  /\ awaited' = [awaited EXCEPT ![t] = None]
  /\ UNCHANGED <<queueVars, drains, main, running, done, handed>>

-----------------------------------------------------------------------------
(* The main thread. *)

\* The looper delivers a drain.
Drain ==
  /\ main = "idle" /\ drains > 0
  /\ drains' = drains - 1 /\ main' = "take"
  /\ UNCHANGED <<queueVars, running, done, at, handed, awaited>>

\* The loop takes a block, or finds none and ends the drain.
Take ==
  /\ main = "take"
  /\ IF mainQueue = <<>>
       THEN /\ main' = "idle" /\ mainQueueScheduled' = FALSE
            /\ UNCHANGED <<mainQueue, running>>
       ELSE /\ main' = "block"
            /\ running' = Head(mainQueue) /\ mainQueue' = Tail(mainQueue)
            /\ UNCHANGED mainQueueScheduled
  /\ UNCHANGED <<drains, done, at, handed, awaited>>

\* Mutant: the budget is looked at between taking a block and running it.
RunBlockOrStop ==
  /\ main = "block" /\ running' = None
  /\ \/ done' = Append(done, running) /\ main' = "take"
     \/ done' = done /\ main' = "recheck"
  /\ UNCHANGED <<queueVars, drains, at, handed, awaited>>

\* The block runs, which counts its latch down; then the loop goes on, or ends
\* because the time or the number of blocks of one drain is used up.
RunBlock ==
  /\ main = "block"
  /\ done' = Append(done, running) /\ running' = None
  /\ main' \in {"take", "recheck"}
  /\ UNCHANGED <<queueVars, drains, at, handed, awaited>>

\* Mutant: a drain that spent its budget ends, whatever is queued.
RecheckBlind ==
  /\ main = "recheck"
  /\ main' = "idle" /\ mainQueueScheduled' = FALSE
  /\ UNCHANGED <<mainQueue, drains, running, done, at, handed, awaited>>

\* After a spent budget: shouldContinue.
Recheck ==
  /\ main = "recheck"
  /\ IF mainQueue = <<>>
       THEN main' = "idle" /\ mainQueueScheduled' = FALSE
       ELSE main' = "repost" /\ UNCHANGED mainQueueScheduled
  /\ UNCHANGED <<mainQueue, drains, running, done, at, handed, awaited>>

Repost ==
  /\ main = "repost"
  /\ drains' = drains + 1 /\ main' = "idle"
  /\ UNCHANGED <<queueVars, running, done, at, handed, awaited>>

\* ZynthRuntime.destroy on the main thread posts the end of the runtime to the
\* JavaScript thread and waits for it (runOnJSSync).
Destroy ==
  /\ main = "idle" /\ at[JS] # "gone"
  /\ main' = "join"
  /\ UNCHANGED <<queueVars, drains, running, done, at, handed, awaited>>

\* The JavaScript thread gets to that message between two of its tasks.
Destroyed ==
  /\ main = "join" /\ at[JS] = "run"
  /\ main' = "idle" /\ at' = [at EXCEPT ![JS] = "gone"]
  /\ UNCHANGED <<queueVars, drains, running, done, handed, awaited>>

Next ==
  \/ \E t \in Thread : \/ \E sync \in BOOLEAN : RunOnMain(t, sync)
                       \/ PostDrain(t) \/ Return(t)
  \/ Drain \/ Take \/ RunBlock \/ Recheck \/ Repost \/ Destroy \/ Destroyed

Spec == Init /\ [][Next]_vars

(***************************************************************************)
(* Both threads run on and their loopers deliver what was posted; nobody   *)
(* has to hand over a block or to destroy the runtime.                     *)
(***************************************************************************)
Fairness ==
  /\ \A t \in Thread : WF_vars(PostDrain(t)) /\ WF_vars(Return(t))
  /\ WF_vars(Drain \/ Take \/ RunBlock \/ Recheck \/ Repost)
  /\ WF_vars(Destroyed)

FairSpec == Spec /\ Fairness

-----------------------------------------------------------------------------
(* Properties. *)

\* A drain that is on its way, under way, or about to be posted.
Wakers ==
  [posted |-> drains, active |-> main \in {"take", "block", "recheck", "repost"},
   posting |-> {t \in Thread : at[t] = "post"}]

\* No lost wake-up, and one drain at a time: mainQueueScheduled says exactly
\* that one drain is posted, under way, or about to be posted by one thread,
\* and blocks are queued only then (the flag and the queue are read and written
\* under mainQueueLock, the posts happen outside it).
OneDrain ==
  /\ mainQueue # <<>> => mainQueueScheduled
  /\ mainQueueScheduled =>
       \/ Wakers = [posted |-> 1, active |-> FALSE, posting |-> {}]
       \/ Wakers = [posted |-> 0, active |-> TRUE, posting |-> {}]
       \/ \E t \in Thread :
            Wakers = [posted |-> 0, active |-> FALSE, posting |-> {t}]
  /\ ~mainQueueScheduled =>
       Wakers = [posted |-> 0, active |-> FALSE, posting |-> {}]

\* The blocks that have run, the one being run and the ones waiting are those
\* that were handed over, each once: nothing is dropped or run twice by a drain
\* that stops in the middle of the queue.
Current == IF running = None THEN <<>> ELSE <<running>>
Blocks  == done \o Current \o mainQueue
EachOnce ==
  /\ \A i, j \in 1 .. Len(Blocks) : i # j => Blocks[i] # Blocks[j]
  /\ ToSet(Blocks) = {b \in Block : b.no \in 1 .. handed[b.from]}

\* A thread that comes back from a synchronous transaction finds everything it
\* handed over applied, the asynchronous transactions before it included: the
\* JavaScript thread computes the next layout from it.
SyncSeesAll ==
  [][\A t \in Thread : at[t] = "await" /\ at'[t] = "run" =>
       \A n \in 1 .. handed[t] : [from |-> t, no |-> n] \in ToSet(done)]_vars

\* The queue keeps the promise of runOnMain.
Promise == INSTANCE Handoff WITH
  pending <- Current \o mainQueue, held <- main = "join"
KeepsPromise == Promise!Spec
==============================================================================
