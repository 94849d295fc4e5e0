------------------------------- MODULE Handoff -------------------------------
(***************************************************************************)
(* What ZynthUIManager.runOnMain promises to the background threads: the   *)
(* main thread runs every block that is handed to it, once and in the      *)
(* order of the handovers, and a thread that asked to wait for its block   *)
(* goes on when the block has run.  How the main thread is woken, and how  *)
(* many blocks it runs at a time, is not said here; MainQueue says it.     *)
(***************************************************************************)
EXTENDS Naturals, Sequences, SequencesExt

CONSTANTS
  Thread,  \* the background threads
  Block,   \* the blocks they hand over
  None

VARIABLES
  pending,  \* handed over, not yet run
  done,     \* run, in the order in which they ran
  awaited,  \* thread |-> the block it waits for, or None
  held      \* the main thread waits for a background thread

vars == <<pending, done, awaited, held>>

Init ==
  /\ pending = <<>> /\ done = <<>>
  /\ awaited = [t \in Thread |-> None]
  /\ held = FALSE

\* A thread hands over a new block, and waits for it or does not.
Hand(t, b, sync) ==
  /\ awaited[t] = None
  /\ b \notin ToSet(pending) \cup ToSet(done)
  /\ pending' = Append(pending, b)
  /\ awaited' = IF sync THEN [awaited EXCEPT ![t] = b] ELSE awaited
  /\ UNCHANGED <<done, held>>

Return(t) ==
  /\ awaited[t] \in ToSet(done)
  /\ awaited' = [awaited EXCEPT ![t] = None]
  /\ UNCHANGED <<pending, done, held>>

Run ==
  /\ ~held /\ pending # <<>>
  /\ done' = Append(done, Head(pending))
  /\ pending' = Tail(pending)
  /\ UNCHANGED <<awaited, held>>

\* The main thread waits for a background thread, and is let go.
Hold ==
  /\ held' = ~held
  /\ UNCHANGED <<pending, done, awaited>>

Next ==
  \/ \E t \in Thread, b \in Block, sync \in BOOLEAN : Hand(t, b, sync)
  \/ \E t \in Thread : Return(t)
  \/ Run \/ Hold

Spec ==
  /\ Init /\ [][Next]_vars
  /\ WF_vars(Run) /\ \A t \in Thread : WF_vars(Return(t))
==============================================================================
