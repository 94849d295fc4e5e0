----------------------------- MODULE NativeTree -----------------------------
(***************************************************************************)
(* The native renderer host of Android (ZynthRendererHost.h): the owner of *)
(* the view topology.  A node has a record, which remembers its parent and *)
(* its children and decides what a drop takes with it, and a Yoga node,    *)
(* whose position among its siblings decides what is laid out and where.   *)
(* The two are separate state and an operation may move one without the    *)
(* other; both are kept here.                                              *)
(*                                                                         *)
(* The host of the JavaScript side drives these operators; see             *)
(* AndroidHost.tla.  One surface is modelled, its root is Root.            *)
(***************************************************************************)
EXTENDS Lists

CONSTANTS
  Node,       \* ids that ui.createNode can hand out
  Root,       \* the root of the surface
  None        \* "no parent", -1 in the record and null in JavaScript

ASSUME NodeAssumption == Root \notin Node /\ None \notin Node /\ Root # None

VARIABLES
  issued,     \* ids handed out so far; the counter never goes back
  alive,      \* nodes_: the ids that have a record
  recParent,  \* ZynthNodeRecord::parentId
  recKids,    \* ZynthNodeRecord::children; its order is never read
  yogaKids    \* children of each Yoga node, in layout order

nativeVars == <<issued, alive, recParent, recKids, yogaKids>>

Parent == Node \cup {Root}

RecordTypeOK ==
  /\ alive \subseteq issued /\ issued \subseteq Node
  /\ recParent \in [Node -> Parent \cup {None}]
  /\ recKids \in [Node -> SUBSET Node]

NativeTypeOK == RecordTypeOK /\ yogaKids \in [Parent -> Seq(Node)]

NativeInit ==
  /\ issued = {} /\ alive = {}
  /\ recParent = [n \in Node |-> None]
  /\ recKids = [n \in Node |-> {}]
  /\ yogaKids = [p \in Parent |-> <<>>]

-----------------------------------------------------------------------------
(* Reachability. *)

\* The nodes that follow[_] leads to from the members of S, S included.
Closure(S, follow) ==
  {n \in Node : \A T \in SUBSET Node :
     (S \subseteq T /\ \A x \in T : follow[x] \subseteq T) => n \in T}

\* A parent that an operation can address: a record, or the surface root.
Addressable(p) == p \in alive \cup {Root}

-----------------------------------------------------------------------------
(* The operations of the renderer host. *)

\* createNode: a record and a Yoga node, neither attached to anything.
NativeCreate(n) ==
  /\ n \notin issued
  /\ issued' = issued \cup {n}
  /\ alive' = alive \cup {n}
  /\ UNCHANGED <<recParent, recKids, yogaKids>>

(***************************************************************************)
(* removeChild for every (parent, child) pair of removes, a set with at    *)
(* most one pair for each child, so that the pairs commute.  The child's   *)
(* record forgets its parent whichever parent that was, the Yoga node      *)
(* leaves only the parent that the operation names.                        *)
(***************************************************************************)
NativeRemove(removes) ==
  LET valid   == {r \in removes : Addressable(r[1])}
      gone(p) == {r[2] : r \in {v \in valid : v[1] = p}}
      child   == {r[2] : r \in valid}
  IN /\ recParent' = [n \in Node |-> IF n \in child \cap alive
                                       THEN None ELSE recParent[n]]
     /\ recKids' = [n \in Node |-> recKids[n] \ gone(n)]
     /\ yogaKids' = [p \in Parent |-> Without(yogaKids[p], gone(p))]
     /\ UNCHANGED <<issued, alive>>

\* Mutant of YogaDetached: a child that moves stays with its old parent too.
YogaStays(n) == yogaKids

\* The Yoga children of every parent once n has left the one that owns it.
YogaDetached(n) == [q \in Parent |-> Without(yogaKids[q], {n})]

(***************************************************************************)
(* insertChild: leaves the parent its record names, joins parent p and     *)
(* takes the position at (from 0) among the Yoga children of p, the last   *)
(* one if there are fewer.  A missing parent or child makes it a no-op.    *)
(***************************************************************************)
NativeInsert(p, n, at) ==
  IF ~(n \in alive /\ Addressable(p))
    THEN UNCHANGED nativeVars
    ELSE /\ recParent' = [recParent EXCEPT ![n] = p]
         /\ recKids' = [m \in Node |->
              IF m = p THEN recKids[m] \cup {n}
              ELSE IF m = recParent[n] THEN recKids[m] \ {n}
              ELSE recKids[m]]
         /\ LET rest == YogaDetached(n)
                pos  == IF at > Len(rest[p]) THEN Len(rest[p]) ELSE at
            IN  yogaKids' = [rest EXCEPT ![p] = InsertAt(rest[p], pos + 1, n)]
         /\ UNCHANGED <<issued, alive>>

(***************************************************************************)
(* dropNode for every member of drops: the record goes, its recorded       *)
(* children go with it, and a Yoga node that is freed lets go of its       *)
(* parent and of its own children.                                         *)
(***************************************************************************)
NativeDrop(drops) ==
  LET dead == Closure(drops \cap alive, recKids)
  IN  /\ alive' = alive \ dead
      /\ recParent' = [n \in Node |-> IF n \in dead THEN None ELSE recParent[n]]
      /\ recKids' = [n \in Node |->
           IF n \in dead THEN {}
           ELSE recKids[n] \ {c \in dead : recParent[c] = n}]
      /\ yogaKids' = [p \in Parent |->
           IF p \in dead THEN <<>> ELSE Without(yogaKids[p], dead)]
      /\ UNCHANGED issued
=============================================================================
