---------------------------- MODULE JsTimersProofs ----------------------------
(***************************************************************************)
(* Proofs about JsTimers, for any number of ids: no cleared callback is    *)
(* called, no kept one loses what will call it, only an interval that      *)
(* cleared itself leaves a runnable behind, and the tables of Kotlin keep  *)
(* nothing that has fired.                                                 *)
(***************************************************************************)
EXTENDS JsTimers, ListLemmas

-----------------------------------------------------------------------------
(* Types. *)

\* Every id in use has been given out, and those that follow are free.
Issued ==
  /\ \A i \in Id : kind[i] = "none" <=> i >= nextTimerId
  /\ \A i \in timers \cup entries \cup posted \cup cleared : kind[i] # "none"
  /\ running # 0 => kind[running] # "none"

Typing == TypeOK /\ Issued

Tables == /\ timers \subseteq Id /\ entries \subseteq Id /\ posted \subseteq Id
          /\ frames \subseteq Id /\ cleared \subseteq Id /\ selfCleared \subseteq Id

LEMMA TypeParts ==
  TypeOK <=> /\ nextTimerId \in 1 .. MaxTimerId + 1
             /\ kind \in [Id -> Kind \cup {"none"}]
             /\ running \in Id \cup {0}
             /\ toMain \in Seq({"schedule", "cancel"} \X Id)
             /\ vsync \in Seq(Id) /\ due \in Seq(Id)
             /\ Tables
  BY DEF TypeOK, Tables

LEMMA TypePartsNext ==
  TypeOK' <=> /\ nextTimerId' \in 1 .. MaxTimerId + 1
              /\ kind' \in [Id -> Kind \cup {"none"}]
              /\ running' \in Id \cup {0}
              /\ toMain' \in Seq({"schedule", "cancel"} \X Id)
              /\ vsync' \in Seq(Id) /\ due' \in Seq(Id)
              /\ Tables'
  BY DEF TypeOK, Tables

LEMMA TypingInit == Init => Typing
<1> SUFFICES ASSUME Init PROVE Typing
  OBVIOUS
<1>1. toMain \in Seq({"schedule", "cancel"} \X Id) /\ vsync \in Seq(Id) /\ due \in Seq(Id)
  BY EmptySeq DEF Init
<1>2. /\ nextTimerId \in 1 .. MaxTimerId + 1 /\ running \in Id \cup {0}
      /\ kind \in [Id -> Kind \cup {"none"}] /\ Tables
  BY TimersAssumption DEF Init, Tables
<1>3. Issued
  BY TimersAssumption DEF Init, Issued, Id
<1> QED
  BY <1>1, <1>2, <1>3, TypeParts DEF Typing

\* A new id is the next one, and nothing is known of it.
LEMMA NewIdTyped ==
  ASSUME Typing, NEW k \in Kind, NewId(k)
  PROVE  /\ nextTimerId \in Id /\ nextTimerId' \in 1 .. MaxTimerId + 1
         /\ kind[nextTimerId] = "none" /\ kind' = [kind EXCEPT ![nextTimerId] = k]
         /\ kind' \in [Id -> Kind \cup {"none"}]
         /\ \A i \in Id : kind'[i] = "none" <=> i >= nextTimerId'
         /\ timers' = timers \cup {nextTimerId}
         /\ running' = running /\ cleared' = cleared /\ selfCleared' = selfCleared
<1>1. nextTimerId \in Id /\ nextTimerId' = nextTimerId + 1 /\ nextTimerId \in Nat
  BY TimersAssumption DEF Typing, TypeOK, NewId, Id
<1>2. nextTimerId' \in 1 .. MaxTimerId + 1
  BY <1>1, TimersAssumption DEF Id
<1>3. kind' = [kind EXCEPT ![nextTimerId] = k] /\ kind \in [Id -> Kind \cup {"none"}]
  BY DEF Typing, TypeOK, NewId
<1>4. k # "none"
  BY DEF Kind
<1>5. \A i \in Id : kind'[i] = "none" <=> i >= nextTimerId'
  BY <1>1, <1>3, <1>4, TimersAssumption DEF Typing, Issued, Id
<1> QED
  BY <1>1, <1>2, <1>3, <1>5 DEF Typing, Issued, NewId

\* The three actions of the main thread, on the sequences between the threads.
LEMMA MainTyped ==
  ASSUME Typing, NothingKept,
         ScheduleAnimationFrame \/ CancelAnimationFrame \/ DoFrame
  PROVE  /\ UNCHANGED jsSide /\ frames' \subseteq Id
         /\ toMain' \in Seq({"schedule", "cancel"} \X Id)
         /\ vsync' \in Seq(Id) /\ due' \in Seq(Id) /\ frames' \subseteq ToSet(vsync')
         /\ ToSet(toMain') \subseteq ToSet(toMain)
         /\ ToSet(vsync') \cup ToSet(due') \subseteq
              ToSet(vsync) \cup ToSet(due)
                \cup {i \in Id : <<"schedule", i>> \in ToSet(toMain)}
         /\ \A i \in Id :
              \/ <<"schedule", i>> \in ToSet(toMain)
              \/ i \in ToSet(vsync) \/ i \in ToSet(due)
              => \/ <<"schedule", i>> \in ToSet(toMain')
                 \/ i \in ToSet(vsync') \/ i \in ToSet(due')
                 \/ <<"cancel", i>> \in ToSet(toMain)
<1> DEFINE Call2 == {"schedule", "cancel"} \X Id
<1>0. /\ toMain \in Seq(Call2) /\ vsync \in Seq(Id) /\ due \in Seq(Id)
      /\ frames \subseteq Id /\ frames \subseteq ToSet(vsync)
  BY TypeParts DEF Typing, NothingKept, Tables
<1>1. ASSUME toMain # <<>>
      PROVE  /\ Head(toMain) \in Call2 /\ Tail(toMain) \in Seq(Call2)
             /\ ToSet(toMain) = {Head(toMain)} \cup ToSet(Tail(toMain))
             /\ Head(toMain)[2] \in Id /\ Head(toMain) = <<Head(toMain)[1], Head(toMain)[2]>>
  <2>1. /\ Head(toMain) \in Call2 /\ Tail(toMain) \in Seq(Call2)
        /\ ToSet(toMain) = {Head(toMain)} \cup ToSet(Tail(toMain))
    BY <1>0, <1>1, TailElements
  <2> QED
    BY <2>1
<1>2. CASE ScheduleAnimationFrame
  <2> DEFINE id == Head(toMain)[2]
  <2>1. /\ toMain' = Tail(toMain) /\ frames' = frames \cup {id}
        /\ vsync' = Append(vsync, id) /\ due' = due /\ UNCHANGED jsSide
        /\ toMain # <<>> /\ Head(toMain)[1] = "schedule"
    BY <1>2 DEF ScheduleAnimationFrame
  <2>2. id \in Id /\ Head(toMain) = <<"schedule", id>>
    BY <1>1, <2>1
  <2>3. vsync' \in Seq(Id) /\ ToSet(vsync') = ToSet(vsync) \cup {id}
    BY <1>0, <2>1, <2>2, AppendElements
  <2> HIDE DEF id
  <2>4. /\ toMain' \in Seq(Call2) /\ ToSet(toMain) = {<<"schedule", id>>} \cup ToSet(toMain')
    BY <1>1, <2>1, <2>2
  <2> QED
    BY <1>0, <2>1, <2>2, <2>3, <2>4
<1>3. CASE CancelAnimationFrame
  <2> DEFINE id == Head(toMain)[2]
  <2>1. /\ toMain' = Tail(toMain) /\ frames' = frames \ {id}
        /\ vsync' = (IF id \in frames THEN RemoveAt(vsync, Posting(id)) ELSE vsync)
        /\ due' = due /\ UNCHANGED jsSide
        /\ toMain # <<>> /\ Head(toMain)[1] = "cancel"
    BY <1>3 DEF CancelAnimationFrame
  <2>2. id \in Id /\ Head(toMain) = <<"cancel", id>>
    BY <1>1, <2>1
  <2>3. /\ vsync' \in Seq(Id) /\ ToSet(vsync') \subseteq ToSet(vsync)
        /\ ToSet(vsync) \subseteq ToSet(vsync') \cup {id}
    <3> HIDE DEF id
    <3>1. CASE id \in frames
      <4>1. DOMAIN vsync = 1 .. Len(vsync)
        BY <1>0, LenProperties
      <4>2. \E i \in 1 .. Len(vsync) : vsync[i] = id
        BY <1>0, <3>1, <4>1 DEF ToSet
      <4>3. Posting(id) \in 1 .. Len(vsync) /\ vsync[Posting(id)] = id
        BY <4>2 DEF Posting
      <4> QED
        BY <1>0, <2>1, <3>1, <4>3, RemoveAtElements
    <3>2. CASE id \notin frames
      BY <1>0, <2>1, <3>2
    <3> QED
      BY <3>1, <3>2
  <2> HIDE DEF id
  <2>4. /\ toMain' \in Seq(Call2) /\ ToSet(toMain) = {<<"cancel", id>>} \cup ToSet(toMain')
    BY <1>1, <2>1, <2>2
  <2> QED
    BY <1>0, <2>1, <2>2, <2>3, <2>4
<1>4. CASE DoFrame
  <2>1. /\ vsync # <<>> /\ vsync' = Tail(vsync) /\ frames' = frames \ {Head(vsync)}
        /\ due' = Append(due, Head(vsync)) /\ UNCHANGED <<jsSide, toMain>>
    BY <1>4 DEF DoFrame
  <2>2. /\ Head(vsync) \in Id /\ vsync' \in Seq(Id)
        /\ ToSet(vsync) = {Head(vsync)} \cup ToSet(vsync')
    BY <1>0, <2>1, TailElements
  <2>3. due' \in Seq(Id) /\ ToSet(due') = ToSet(due) \cup {Head(vsync)}
    BY <1>0, <2>1, <2>2, AppendElements
  <2> QED
    BY <1>0, <2>1, <2>2, <2>3
<1> QED
  BY <1>2, <1>3, <1>4

\* The runnables and the entries of Kotlin, and which callback is running: an
\* interval that is called is either kept or was cleared during the call.
Handlers ==
  /\ \A i \in entries \cup posted : kind[i] # "frame"
  /\ NothingKept
  /\ posted \subseteq entries \cup selfCleared
  /\ posted \subseteq timers \cup selfCleared
  /\ running # 0 =>
       /\ running \notin posted
       /\ running \in timers => kind[running] = "interval"
       /\ kind[running] = "interval" => running \in (timers \cap entries) \cup selfCleared

\* Nothing that was cleared is in the table; what the main thread holds are
\* frames, and those it is told to cancel were cleared.
Cleared ==
  /\ timers \cap cleared = {} /\ selfCleared \subseteq cleared
  /\ \A i \in Id : /\ <<"schedule", i>> \in ToSet(toMain) => kind[i] = "frame"
                   /\ <<"cancel", i>> \in ToSet(toMain) => i \in cleared
                   /\ i \in ToSet(vsync) \cup ToSet(due) => kind[i] = "frame"

Inv == Typing /\ Handlers /\ Cleared /\ KeptIsArmed

LEMMA InvInit == Init => Inv
<1>1. Init => Handlers /\ Cleared /\ KeptIsArmed
  BY DEF Init, Handlers, Cleared, KeptIsArmed, NothingKept, ToSet
<1> QED
  BY <1>1, TypingInit DEF Inv

LEMMA InvStep == Inv /\ [Next]_vars => Inv'
<1> SUFFICES ASSUME Inv, [Next]_vars PROVE Inv'
  OBVIOUS
<1>0. /\ nextTimerId \in 1 .. MaxTimerId + 1 /\ running \in Id \cup {0}
      /\ kind \in [Id -> Kind \cup {"none"}]
      /\ toMain \in Seq({"schedule", "cancel"} \X Id)
      /\ vsync \in Seq(Id) /\ due \in Seq(Id) /\ Tables
      /\ Typing /\ Issued /\ Handlers /\ Cleared /\ KeptIsArmed /\ NothingKept /\ 0 \notin Id
  BY TypeParts DEF Inv, Typing, Handlers, Id
<1>1. ASSUME NEW k \in Kind, SetTimer(k) PROVE Inv'
  <2> DEFINE n == nextTimerId
  <2>1. /\ k # "frame" /\ NewId(k) /\ entries' = entries \cup {n} /\ posted' = posted \cup {n}
        /\ toMain' = toMain /\ frames' = frames /\ vsync' = vsync /\ due' = due
    BY <1>1 DEF SetTimer, frameVars
  <2>2. /\ n \in Id /\ n' \in 1 .. MaxTimerId + 1
        /\ kind[n] = "none" /\ kind' = [kind EXCEPT ![n] = k]
        /\ kind' \in [Id -> Kind \cup {"none"}]
        /\ \A i \in Id : kind'[i] = "none" <=> i >= nextTimerId'
        /\ timers' = timers \cup {n}
        /\ running' = running /\ cleared' = cleared /\ selfCleared' = selfCleared
    BY <1>0, <2>1, NewIdTyped
  <2> HIDE DEF n
  <2>3. k # "none"
    BY DEF Kind
  <2>4. \A i \in Id : kind'[i] = IF i = n THEN k ELSE kind[i]
    BY <1>0, <2>2
  <2>5. Tables'
    BY <1>0, <2>1, <2>2 DEF Tables
  <2>6. Issued'
    BY <1>0, <2>1, <2>2, <2>3, <2>4 DEF Issued, Tables
  <2>7. Handlers'
    BY <1>0, <2>1, <2>2, <2>4 DEF Handlers, NothingKept, Issued, Tables
  <2>8. Cleared'
    BY <1>0, <2>1, <2>2, <2>4 DEF Cleared, Issued, Tables
  <2>9. KeptIsArmed'
    BY <1>0, <2>1, <2>2 DEF KeptIsArmed, Armed
  <2> QED
    BY <1>0, <2>1, <2>2, <2>5, <2>6, <2>7, <2>8, <2>9, TypePartsNext DEF Inv, Typing, n
<1>2. CASE RequestFrame
  <2> DEFINE n == nextTimerId
  <2>1. /\ NewId("frame") /\ toMain' = Append(toMain, <<"schedule", n>>)
        /\ entries' = entries /\ posted' = posted
        /\ frames' = frames /\ vsync' = vsync /\ due' = due
    BY <1>2 DEF RequestFrame, timerVars
  <2>2. /\ n \in Id /\ n' \in 1 .. MaxTimerId + 1
        /\ kind[n] = "none" /\ kind' = [kind EXCEPT ![n] = "frame"]
        /\ kind' \in [Id -> Kind \cup {"none"}]
        /\ \A i \in Id : kind'[i] = "none" <=> i >= nextTimerId'
        /\ timers' = timers \cup {n}
        /\ running' = running /\ cleared' = cleared /\ selfCleared' = selfCleared
    BY <1>0, <2>1, NewIdTyped DEF Kind
  <2> HIDE DEF n
  <2>3. /\ toMain' \in Seq({"schedule", "cancel"} \X Id)
        /\ ToSet(toMain') = ToSet(toMain) \cup {<<"schedule", n>>}
    <3>1. <<"schedule", n>> \in {"schedule", "cancel"} \X Id
      BY <2>2
    <3> QED
      BY <1>0, <2>1, <3>1, AppendElements
  <2>4. \A i \in Id : kind'[i] = IF i = n THEN "frame" ELSE kind[i]
    BY <1>0, <2>2
  <2>5. Tables'
    BY <1>0, <2>1, <2>2 DEF Tables
  <2>6. Issued'
    BY <1>0, <2>1, <2>2, <2>4 DEF Issued, Tables
  <2>7. Handlers'
    BY <1>0, <2>1, <2>2, <2>4 DEF Handlers, NothingKept, Issued, Tables
  <2>8. Cleared'
    <3>1. timers' \cap cleared' = {} /\ selfCleared' \subseteq cleared'
      BY <1>0, <2>2 DEF Cleared, Issued
    <3>2. ASSUME NEW i \in Id
          PROVE  /\ <<"schedule", i>> \in ToSet(toMain') => kind'[i] = "frame"
                 /\ <<"cancel", i>> \in ToSet(toMain') => i \in cleared'
                 /\ i \in ToSet(vsync') \cup ToSet(due') => kind'[i] = "frame"
      <4>1. i # n => kind'[i] = kind[i]
        BY <2>4
      <4>2. i = n => kind'[i] = "frame"
        BY <2>4
      <4>3. /\ <<"schedule", i>> \in ToSet(toMain') => <<"schedule", i>> \in ToSet(toMain) \/ i = n
            /\ <<"cancel", i>> \in ToSet(toMain') => <<"cancel", i>> \in ToSet(toMain)
        BY <2>3
      <4> QED
        BY <1>0, <2>1, <2>2, <4>1, <4>2, <4>3 DEF Cleared
    <3> QED
      BY <3>1, <3>2 DEF Cleared
  <2>9. KeptIsArmed'
    BY <1>0, <2>1, <2>2, <2>3 DEF KeptIsArmed, Armed
  <2> QED
    BY <1>0, <2>1, <2>2, <2>3, <2>5, <2>6, <2>7, <2>8, <2>9, TypePartsNext DEF Inv, Typing, n
<1>3. ASSUME NEW id \in Id, ClearTimer(id) PROVE Inv'
  <2>1. /\ id \notin cleared /\ timers' = timers \ {id} /\ cleared' = cleared \cup {id}
        /\ nextTimerId' = nextTimerId /\ kind' = kind /\ running' = running
        /\ toMain' = toMain /\ frames' = frames /\ vsync' = vsync /\ due' = due
        /\ entries' = entries \ {id} /\ posted' = posted \ (entries \cap {id})
        /\ selfCleared' = selfCleared
             \cup (IF running = id /\ kind[id] = "interval" THEN {id} ELSE {})
        /\ kind[id] # "none"
    BY <1>3 DEF ClearTimer, Erase, Given, frameVars
  <2>2. id \notin selfCleared /\ posted' = posted \ {id}
    BY <1>0, <2>1 DEF Handlers, Cleared
  <2>3. Tables'
    BY <1>0, <2>1 DEF Tables
  <2>4. Issued'
    BY <1>0, <2>1 DEF Issued
  <2>5. Handlers'
    BY <1>0, <2>1, <2>2 DEF Handlers, NothingKept
  <2>6. Cleared'
    BY <1>0, <2>1 DEF Cleared
  <2>7. KeptIsArmed'
    BY <1>0, <2>1 DEF KeptIsArmed, Armed
  <2> QED
    BY <1>0, <2>1, <2>3, <2>4, <2>5, <2>6, <2>7, TypePartsNext DEF Inv, Typing
<1>4. ASSUME NEW id \in Id, CancelFrame(id) PROVE Inv'
  <2>1. /\ id \notin cleared /\ timers' = timers \ {id} /\ cleared' = cleared \cup {id}
        /\ nextTimerId' = nextTimerId /\ kind' = kind /\ running' = running
        /\ toMain' = Append(toMain, <<"cancel", id>>)
        /\ frames' = frames /\ vsync' = vsync /\ due' = due
        /\ entries' = entries /\ posted' = posted /\ selfCleared' = selfCleared
        /\ kind[id] = "frame"
    BY <1>4 DEF CancelFrame, Erase, Given, timerVars
  <2>2. /\ toMain' \in Seq({"schedule", "cancel"} \X Id)
        /\ ToSet(toMain') = ToSet(toMain) \cup {<<"cancel", id>>}
    <3>1. <<"cancel", id>> \in {"schedule", "cancel"} \X Id
      BY <1>4
    <3>2. toMain \in Seq({"schedule", "cancel"} \X Id) /\ toMain' = Append(toMain, <<"cancel", id>>)
      BY <1>0, <2>1
    <3> DEFINE S == {"schedule", "cancel"} \X Id
               e == <<"cancel", id>>
    <3> HIDE DEF S, e
    <3>3. toMain \in Seq(S) /\ e \in S /\ toMain' = Append(toMain, e)
      BY <3>1, <3>2 DEF S, e
    <3>4. toMain' \in Seq(S) /\ ToSet(toMain') = ToSet(toMain) \cup {e}
      BY <3>3, AppendElements
    <3> QED
      BY <3>4 DEF S, e
  <2>3. Tables'
    BY <1>0, <2>1 DEF Tables
  <2>4. Issued'
    BY <1>0, <2>1 DEF Issued
  <2>5. Handlers'
    BY <1>0, <2>1 DEF Handlers, NothingKept, Cleared
  <2>6. Cleared'
    BY <1>0, <2>1, <2>2 DEF Cleared
  <2>7. KeptIsArmed'
    BY <1>0, <2>1, <2>2 DEF KeptIsArmed, Armed
  <2> QED
    BY <1>0, <2>1, <2>2, <2>3, <2>4, <2>5, <2>6, <2>7, TypePartsNext DEF Inv, Typing
<1>5. ASSUME NEW id \in Id, Run(id) PROVE Inv'
  <2>1. /\ running = 0 /\ id \in posted /\ posted' = posted \ {id}
        /\ nextTimerId' = nextTimerId /\ kind' = kind /\ cleared' = cleared
        /\ toMain' = toMain /\ frames' = frames /\ vsync' = vsync /\ due' = due
        /\ selfCleared' = selfCleared
        /\ \/ /\ id \in timers /\ running' = id /\ entries' = entries
              /\ timers' = (IF kind[id] = "interval" THEN timers ELSE timers \ {id})
           \/ /\ id \notin timers /\ kind[id] = "timeout" /\ running' = 0
              /\ timers' = timers /\ entries' = entries \ {id}
    BY <1>5 DEF Run, Call, frameVars
  <2>2. id \notin selfCleared \/ id \notin timers
    BY <1>0 DEF Cleared
  <2>3. Tables' /\ running' \in Id \cup {0}
    BY <1>0, <2>1 DEF Tables
  <2>4. Issued'
    BY <1>0, <2>1 DEF Issued
  <2>a. ASSUME id \in timers PROVE Handlers' /\ KeptIsArmed'
    <3>1. /\ running' = id /\ entries' = entries /\ posted' = posted \ {id} /\ kind' = kind
          /\ timers' \subseteq timers /\ timers \subseteq timers' \cup {id}
          /\ kind[id] = "interval" => timers' = timers
          /\ kind[id] # "interval" => id \notin timers'
      BY <2>1, <2>a
    <3>2. Handlers'
      <4>1. /\ \A i \in entries' \cup posted' : kind'[i] # "frame"
            /\ NothingKept'
        BY <1>0, <2>1, <2>2, <2>a, <3>1 DEF Handlers, NothingKept, Tables
      <4>2. /\ posted' \subseteq entries' \cup selfCleared'
            /\ posted' \subseteq timers' \cup selfCleared'
        BY <1>0, <2>1, <2>2, <2>a, <3>1 DEF Handlers
      <4>3. running' # 0 =>
              /\ running' \notin posted'
              /\ running' \in timers' => kind'[running'] = "interval"
              /\ kind'[running'] = "interval" =>
                   running' \in (timers' \cap entries') \cup selfCleared'
        BY <1>0, <2>1, <2>2, <2>a, <3>1 DEF Handlers
      <4> QED
        BY <4>1, <4>2, <4>3 DEF Handlers
    <3>3. KeptIsArmed'
      BY <1>0, <2>1, <3>1 DEF KeptIsArmed, Armed, Tables
    <3> QED
      BY <3>2, <3>3
  <2>b. ASSUME id \notin timers PROVE Handlers' /\ KeptIsArmed'
    <3>1. /\ running' = 0 /\ entries' = entries \ {id} /\ posted' = posted \ {id}
          /\ kind' = kind /\ timers' = timers
      BY <2>1, <2>b
    <3>2. Handlers'
      BY <1>0, <2>1, <3>1 DEF Handlers, NothingKept
    <3>3. KeptIsArmed'
      BY <1>0, <2>1, <2>b, <3>1 DEF KeptIsArmed, Armed, Tables
    <3> QED
      BY <3>2, <3>3
  <2>5. Handlers' /\ KeptIsArmed'
    BY <2>a, <2>b
  <2>6. Cleared'
    BY <1>0, <2>1 DEF Cleared
  <2> QED
    BY <1>0, <2>1, <2>3, <2>4, <2>5, <2>6, TypePartsNext DEF Inv, Typing
<1>6. CASE Return
  <2>1. /\ running # 0 /\ running' = 0 /\ running \in Id
        /\ nextTimerId' = nextTimerId /\ kind' = kind /\ cleared' = cleared /\ timers' = timers
        /\ toMain' = toMain /\ frames' = frames /\ vsync' = vsync /\ due' = due
        /\ selfCleared' = selfCleared
        /\ \/ /\ kind[running] = "interval" /\ posted' = posted \cup {running}
              /\ entries' = entries
           \/ /\ kind[running] # "interval" /\ entries' = entries \ {running}
              /\ posted' = posted
    BY <1>0, <1>6 DEF Return, frameVars
  <2>3. Tables'
    BY <1>0, <2>1 DEF Tables
  <2>4. Issued'
    BY <1>0, <2>1 DEF Issued
  <2>a. ASSUME kind[running] = "interval" PROVE Handlers' /\ KeptIsArmed'
    <3>1. posted' = posted \cup {running} /\ entries' = entries
      BY <2>1, <2>a
    <3>2. Handlers'
      BY <1>0, <2>1, <2>a, <3>1 DEF Handlers, NothingKept
    <3>3. KeptIsArmed'
      BY <1>0, <2>1, <3>1 DEF KeptIsArmed, Armed
    <3> QED
      BY <3>2, <3>3
  <2>b. ASSUME kind[running] # "interval" PROVE Handlers' /\ KeptIsArmed'
    <3>1. posted' = posted /\ entries' = entries \ {running}
      BY <2>1, <2>b
    <3>0. running \notin timers /\ running \notin posted
      BY <1>0, <2>1, <2>b DEF Handlers
    <3>2. Handlers'
      BY <1>0, <2>1, <3>0, <3>1 DEF Handlers, NothingKept
    <3>3. KeptIsArmed'
      BY <1>0, <2>1, <3>0, <3>1 DEF KeptIsArmed, Armed
    <3> QED
      BY <3>2, <3>3
  <2>5. Handlers' /\ KeptIsArmed'
    BY <2>a, <2>b
  <2>6. Cleared'
    BY <1>0, <2>1 DEF Cleared
  <2> QED
    BY <1>0, <2>1, <2>3, <2>4, <2>5, <2>6, TypePartsNext DEF Inv, Typing
<1>7. CASE InvokeFrame
  <2> DEFINE id == Head(due)
  <2>1. /\ running = 0 /\ due # <<>> /\ due' = Tail(due)
        /\ nextTimerId' = nextTimerId /\ kind' = kind /\ cleared' = cleared
        /\ toMain' = toMain /\ frames' = frames /\ vsync' = vsync
        /\ entries' = entries /\ posted' = posted /\ selfCleared' = selfCleared
        /\ \/ /\ id \in timers /\ running' = id
              /\ timers' = (IF kind[id] = "interval" THEN timers ELSE timers \ {id})
           \/ id \notin timers /\ running' = 0 /\ timers' = timers
    BY <1>7 DEF InvokeFrame, Call, timerVars
  <2>2. /\ id \in Id /\ due' \in Seq(Id) /\ ToSet(due) = {id} \cup ToSet(due')
    BY <1>0, <2>1, TailElements
  <2> HIDE DEF id
  <2>3. Tables' /\ running' \in Id \cup {0}
    BY <1>0, <2>1, <2>2 DEF Tables
  <2>4. Issued'
    BY <1>0, <2>1 DEF Issued
  <2>a. kind[id] = "frame" /\ id \notin posted
    BY <1>0, <2>2 DEF Cleared, Handlers
  <2>b. /\ running' \in {0, id} /\ timers' \subseteq timers /\ timers \subseteq timers' \cup {id}
        /\ running' = id => id \notin timers'
        /\ id \in timers => running' = id
    BY <2>1, <2>a
  <2>5. Handlers'
    <3>1. /\ \A i \in entries' \cup posted' : kind'[i] # "frame"
          /\ NothingKept'
      BY <1>0, <2>1 DEF Handlers, NothingKept, Tables
    <3>2. /\ posted' \subseteq entries' \cup selfCleared'
          /\ posted' \subseteq timers' \cup selfCleared'
      BY <1>0, <2>1, <2>a, <2>b DEF Handlers
    <3>3. running' # 0 =>
            /\ running' \notin posted'
            /\ running' \in timers' => kind'[running'] = "interval"
            /\ kind'[running'] = "interval" =>
                 running' \in (timers' \cap entries') \cup selfCleared'
      BY <1>0, <2>1, <2>a, <2>b
    <3> QED
      BY <3>1, <3>2, <3>3 DEF Handlers
  <2>6. Cleared'
    BY <1>0, <2>1, <2>2 DEF Cleared
  <2>7. KeptIsArmed'
    <3>1. ASSUME NEW i \in timers' PROVE Armed(i)'
      <4>1. i \in timers /\ i \in Id /\ Armed(i)
        BY <1>0, <2>b DEF Tables, KeptIsArmed
      <4>2. i # id => (i \in ToSet(due) => i \in ToSet(due'))
        BY <2>2
      <4>3. i = id => running' = id
        BY <2>b, <4>1
      <4> QED
        BY <1>0, <2>1, <4>1, <4>2, <4>3 DEF Armed
    <3> QED
      BY <3>1 DEF KeptIsArmed
  <2> QED
    BY <1>0, <2>1, <2>2, <2>3, <2>4, <2>5, <2>6, <2>7, TypePartsNext DEF Inv, Typing
<1>8. CASE ScheduleAnimationFrame \/ CancelAnimationFrame \/ DoFrame
  <2>1. /\ nextTimerId' = nextTimerId /\ kind' = kind /\ timers' = timers
        /\ entries' = entries /\ posted' = posted /\ running' = running
        /\ cleared' = cleared /\ selfCleared' = selfCleared
    BY <1>0, <1>8, MainTyped DEF jsSide, timerVars
  <2>2. /\ frames' \subseteq Id /\ frames' \subseteq ToSet(vsync')
        /\ toMain' \in Seq({"schedule", "cancel"} \X Id)
        /\ vsync' \in Seq(Id) /\ due' \in Seq(Id)
    BY <1>0, <1>8, MainTyped
  <2>3. /\ ToSet(toMain') \subseteq ToSet(toMain)
        /\ ToSet(vsync') \cup ToSet(due') \subseteq
             ToSet(vsync) \cup ToSet(due)
               \cup {i \in Id : <<"schedule", i>> \in ToSet(toMain)}
    BY <1>0, <1>8, MainTyped
  <2>4. \A i \in Id :
          \/ <<"schedule", i>> \in ToSet(toMain) \/ i \in ToSet(vsync) \/ i \in ToSet(due)
          => \/ <<"schedule", i>> \in ToSet(toMain') \/ i \in ToSet(vsync')
             \/ i \in ToSet(due') \/ <<"cancel", i>> \in ToSet(toMain)
    BY <1>0, <1>8, MainTyped
  <2>5. Tables' /\ Issued'
    BY <1>0, <2>1, <2>2 DEF Tables, Issued
  <2>6. Handlers'
    BY <1>0, <2>1, <2>2 DEF Handlers, NothingKept
  <2>7. Cleared'
    BY <1>0, <2>1, <2>3 DEF Cleared
  <2>8. KeptIsArmed'
    BY <1>0, <2>1, <2>4 DEF KeptIsArmed, Armed, Cleared, Tables
  <2> QED
    BY <1>0, <2>1, <2>2, <2>5, <2>6, <2>7, <2>8, TypePartsNext DEF Inv, Typing
<1>9. CASE UNCHANGED vars
  BY <1>9 DEF vars, timerVars, frameVars, Inv, Typing, TypeOK, Issued, Handlers,
     NothingKept, Cleared, KeptIsArmed, Armed
<1> QED
  BY <1>1, <1>2, <1>3, <1>4, <1>5, <1>6, <1>7, <1>8, <1>9 DEF Next

\* TypeOK holds in every reachable state.
THEOREM TypesHold == Spec => []TypeOK
<1>1. Inv => TypeOK
  BY DEF Inv, Typing
<1> QED
  BY <1>1, InvInit, InvStep, PTL DEF Spec

\* A callback that is kept has a runnable, a call to the main thread, a frame
\* or a posted message that is going to call it.
THEOREM KeptIsArmedHolds == Spec => []KeptIsArmed
<1>1. Inv => KeptIsArmed
  BY DEF Inv
<1> QED
  BY <1>1, InvInit, InvStep, PTL DEF Spec

\* A runnable is left behind by an interval that cleared itself, and by
\* nothing else.
THEOREM OnlySelfClearedLingerHolds == Spec => []OnlySelfClearedLinger
<1>1. Inv => OnlySelfClearedLinger
  BY DEF Inv, Handlers, OnlySelfClearedLinger
<1> QED
  BY <1>1, InvInit, InvStep, PTL DEF Spec

\* timerEntries and animationFrameCallbacks keep nothing that has fired.
THEOREM NothingKeptHolds == Spec => []NothingKept
<1>1. Inv => NothingKept
  BY DEF Inv, Handlers
<1> QED
  BY <1>1, InvInit, InvStep, PTL DEF Spec

\* What is called is still in the table.
LEMMA CalledIsKept ==
  ASSUME Inv, [Next]_vars, running' # running
  PROVE  running' = 0 \/ running' \in timers
<1>1. ~\E k \in Kind : SetTimer(k)
  BY DEF SetTimer, NewId
<1>2. ~RequestFrame
  BY DEF RequestFrame, NewId
<1>3. ~\E id \in Id : ClearTimer(id) \/ CancelFrame(id)
  BY DEF ClearTimer, CancelFrame, Erase
<1>4. ASSUME NEW id \in Id, Run(id) PROVE running' \in timers
  BY <1>4 DEF Run, Call
<1>5. CASE Return
  BY <1>5 DEF Return
<1>6. CASE InvokeFrame
  BY <1>6 DEF InvokeFrame, Call
<1>7. ~(ScheduleAnimationFrame \/ CancelAnimationFrame \/ DoFrame)
  BY DEF ScheduleAnimationFrame, CancelAnimationFrame, DoFrame, jsSide
<1>8. ~(UNCHANGED vars)
  BY DEF vars
<1> QED
  BY <1>1, <1>2, <1>3, <1>4, <1>5, <1>6, <1>7, <1>8 DEF Next

LEMMA SilentStep ==
  ASSUME Inv, [Next]_vars
  PROVE  [\A id \in cleared : running' = id => running = id]_vars
<1>1. cleared \cap timers = {} /\ 0 \notin cleared
  BY TypeParts DEF Inv, Typing, Cleared, Tables, Id
<1> QED
  BY <1>1, CalledIsKept

\* A callback that was cleared is not called any more.
THEOREM ClearedIsSilentHolds == Spec => ClearedIsSilent
<1>1. Inv /\ [Next]_vars => [\A id \in cleared : (running' = id => running = id)]_vars
  BY SilentStep
<1> QED
  BY <1>1, InvInit, InvStep, PTL DEF Spec, ClearedIsSilent
===============================================================================
