-------------------------- MODULE ScreenStackProofs ---------------------------
(***************************************************************************)
(* Proofs about ScreenStack, for any screens and bounds: what can take the *)
(* focused route away, keys are unique, only routes that were brought back *)
(* carry a mark on the stack, a swipe pops once, and the two sides agree   *)
(* when nothing is on its way.                                             *)
(***************************************************************************)
EXTENDS ScreenStack, ListLemmas

\* Keys and mounts are numbers that were given out, and no more routes are
\* listed than screens were mounted.
Numbered ==
  /\ Len(routes) <= mounts /\ suppressed \subseteq 1 .. mounts
  /\ \A i \in 1 .. Len(routes) : {routes[i].key, routes[i].mount} \subseteq 1 .. mounts

Typing == TypeOK /\ Numbered

\* Every route has a key and a screen of its own.
Unique ==
  \A i, j \in 1 .. Len(routes) :
    routes[i].key = routes[j].key \/ routes[i].mount = routes[j].mount => i = j

\* A route up to the focused one carries no mark, unless it was brought back.
Unmarked ==
  \A i \in 1 .. Len(routes) :
    i <= index /\ routes[i].key \in suppressed => routes[i].key \in brought

\* A route above it was marked or jumped over, or its event was handled.
Accounted ==
  \A i \in 1 .. Len(routes) :
    i > index => routes[i].key \in suppressed \cup jumped \/ routes[i].mount \in heard

Stacked == Unique /\ Unmarked /\ Accounted

-----------------------------------------------------------------------------
(* The lists of routes that the actions build. *)

\* A list of routes and its active part.
LEMMA ActivePart ==
  ASSUME NEW r \in Seq(Route), r # <<>>, NEW x \in Nat \ {0}, NEW t,
         t = SubSeq(r, 1, IF x < Len(r) THEN x ELSE Len(r))
  PROVE  /\ DOMAIN r = 1 .. Len(r) /\ Len(r) \in Nat \ {0}
         /\ \A i \in 1 .. Len(r) : r[i] \in Route
         /\ t \in Seq(Route) /\ t # <<>>
         /\ Len(t) = (IF x < Len(r) THEN x ELSE Len(r))
         /\ DOMAIN t = 1 .. Len(t)
         /\ \A i \in 1 .. Len(t) : t[i] = r[i]
<1> DEFINE n == IF x < Len(r) THEN x ELSE Len(r)
<1>1. DOMAIN r = 1 .. Len(r) /\ Len(r) \in Nat \ {0}
  BY LenProperties, EmptySeq
<1>2. \A i \in 1 .. Len(r) : r[i] \in Route
  BY ElementOfSeq
<1>3. n \in 1 .. Len(r) /\ n \in Int /\ 1 \in Int
  BY <1>1
<1>4. \A i \in 1 .. n : r[i] \in Route
  BY <1>1, <1>2, <1>3
<1>5. t = SubSeq(r, 1, n)
  OBVIOUS
<1> HIDE DEF n
<1>6. /\ t \in Seq(Route) /\ Len(t) = (IF 1 <= n THEN n - 1 + 1 ELSE 0)
      /\ \A i \in 1 .. n - 1 + 1 : t[i] = r[1 + i - 1]
  BY <1>3, <1>4, <1>5, SubSeqProperties
<1>7. Len(t) = n /\ \A i \in 1 .. n : t[i] = r[i]
  <2>1. n \in Nat \ {0}
    BY <1>1, <1>3
  <2>2. Len(t) = n /\ n - 1 + 1 = n
    BY <2>1, <1>6
  <2>3. \A i \in 1 .. n : 1 + i - 1 = i
    BY <2>1
  <2> QED
    BY <1>6, <2>2, <2>3
<1>8. t # <<>> /\ DOMAIN t = 1 .. Len(t)
  BY <1>3, <1>6, <1>7, EmptySeq, LenProperties
<1> QED
  BY <1>1, <1>2, <1>6, <1>7, <1>8 DEF n

\* The state's own list.
LEMMA Shown ==
  ASSUME Typing
  PROVE  /\ DOMAIN routes = 1 .. Len(routes) /\ Len(routes) \in Nat \ {0}
         /\ \A i \in 1 .. Len(routes) : routes[i] \in Route
         /\ Active \in Seq(Route) /\ Active # <<>>
         /\ Len(Active) = (IF index < Len(routes) THEN index ELSE Len(routes))
         /\ DOMAIN Active = 1 .. Len(Active)
         /\ \A i \in 1 .. Len(Active) : Active[i] = routes[i]
<1>1. routes \in Seq(Route) /\ routes # <<>> /\ index \in Nat \ {0}
  BY StackAssumption DEF Typing, TypeOK
<1>2. Active = SubSeq(routes, 1, IF index < Len(routes) THEN index ELSE Len(routes))
  BY DEF Active
<1> QED
  BY <1>1, <1>2, ActivePart

\* With a focused route.
LEMMA ShownFocused ==
  ASSUME Typing, FocusExists
  PROVE  /\ index \in 1 .. Len(routes) /\ index <= Len(routes)
         /\ Active \in Seq(Route) /\ Active # <<>> /\ Len(Active) = index
         /\ DOMAIN Active = 1 .. index
         /\ \A i \in 1 .. index : Active[i] = routes[i]
<1>1. /\ Active \in Seq(Route) /\ Active # <<>> /\ DOMAIN Active = 1 .. Len(Active)
      /\ Len(Active) = (IF index < Len(routes) THEN index ELSE Len(routes))
      /\ \A i \in 1 .. Len(Active) : Active[i] = routes[i]
  BY Shown
<1>2. Len(routes) \in Nat /\ index \in Nat \ {0} /\ index <= Len(routes)
  BY Shown, StackAssumption DEF Typing, TypeOK, FocusExists
<1>3. Len(Active) = index /\ index \in 1 .. Len(routes)
  BY <1>1, <1>2
<1> QED
  BY <1>1, <1>2, <1>3

\* A fresh route.
LEMMA NewType ==
  ASSUME Typing, NEW name \in Name, NEW n \in Nat \ {0}, mounts + n <= MaxMounts,
         NEW o \in 1 .. n
  PROVE  /\ New(name, o) \in Route /\ New(name, o).key = mounts + o
         /\ New(name, o).mount = mounts + o
<1>1. mounts \in 1 .. MaxMounts /\ MaxMounts \in Nat
  BY StackAssumption DEF Typing, TypeOK
<1>2. mounts + o \in 1 .. MaxMounts
  BY <1>1
<1> QED
  BY <1>2 DEF New, Route

\* Putting one element in the place of another.
LEMMA Replaced ==
  ASSUME NEW s \in Seq(Route), s # <<>>, NEW i \in 1 .. Len(s), NEW e \in Route,
         NEW t, t = [s EXCEPT ![i] = e]
  PROVE  /\ t \in Seq(Route) /\ t # <<>> /\ Len(t) = Len(s)
         /\ DOMAIN s = 1 .. Len(s) /\ DOMAIN t = 1 .. Len(s)
         /\ t[i] = e /\ \A j \in 1 .. Len(s) : j # i => t[j] = s[j]
<1>1. /\ t \in Seq(Route) /\ Len(t) = Len(s)
      /\ \A j \in 1 .. Len(s) : t[j] = IF j = i THEN e ELSE s[j]
  BY ExceptSeq
<1>2. DOMAIN s = 1 .. Len(s) /\ DOMAIN t = 1 .. Len(t)
  BY <1>1, LenProperties
<1>3. Len(s) \in Nat \ {0}
  BY EmptySeq
<1>4. t # <<>>
  BY <1>1, <1>3, EmptySeq
<1> QED
  BY <1>1, <1>2, <1>4

\* Adding one at the end.
LEMMA Added ==
  ASSUME NEW s \in Seq(Route), NEW e \in Route, NEW t, t = Append(s, e)
  PROVE  /\ t \in Seq(Route) /\ t # <<>> /\ Len(t) = Len(s) + 1
         /\ DOMAIN t = 1 .. Len(s) + 1
         /\ t[Len(s) + 1] = e /\ \A j \in 1 .. Len(s) : t[j] = s[j]
<1>1. /\ t \in Seq(Route) /\ Len(t) = Len(s) + 1 /\ t[Len(s) + 1] = e
      /\ \A j \in 1 .. Len(s) : t[j] = s[j]
  BY AppendProperties
<1>2. Len(s) \in Nat /\ DOMAIN t = 1 .. Len(t)
  BY <1>1, LenProperties
<1>3. t # <<>>
  BY <1>1, <1>2, EmptySeq
<1> QED
  BY <1>1, <1>2, <1>3

\* Timers come and go.
LEMMA TimersType ==
  ASSUME timers \in Seq({"trim", "top"})
  PROVE  /\ \A kind \in {"trim", "top"} : StartTimer(kind) => timers' \in Seq({"trim", "top"})
         /\ timers # <<>> => Tail(timers) \in Seq({"trim", "top"})
  BY AppendElements, TailElements DEF StartTimer

\* The list after an action of the navigator: a position keeps its key, and its
\* screen, or gets fresh ones.
Edited ==
  /\ routes' \in Seq(Route) /\ routes' # <<>>
  /\ mounts' \in mounts .. MaxMounts /\ Len(routes') <= mounts'
  /\ \A i \in 1 .. Len(routes') :
       /\ \/ i \in 1 .. Len(routes) /\ routes'[i].key = routes[i].key
          \/ routes'[i].key \in mounts + 1 .. mounts'
       /\ \/ i \in 1 .. Len(routes) /\ routes'[i].mount = routes[i].mount
          \/ routes'[i].mount \in mounts + 1 .. mounts'
  /\ \A i, j \in 1 .. Len(routes') :
       /\ routes'[i].key = routes'[j].key => i = j \/ routes'[i].key <= mounts
       /\ routes'[i].mount = routes'[j].mount => i = j \/ routes'[i].mount <= mounts

\* The numbers of the state.
LEMMA Numbers ==
  ASSUME Typing
  PROVE  /\ MaxMounts \in Nat /\ mounts \in 1 .. MaxMounts /\ mounts \in Nat
         /\ index \in 1 .. MaxMounts /\ index \in Nat \ {0}
         /\ Len(routes) \in Nat \ {0} /\ Len(routes) <= mounts
         /\ DOMAIN routes = 1 .. Len(routes)
         /\ routes \in Seq(Route) /\ routes # <<>>
         /\ suppressed \subseteq 1 .. mounts
         /\ \A i \in 1 .. Len(routes) :
              /\ routes[i] \in Route
              /\ routes[i].key \in 1 .. mounts /\ routes[i].mount \in 1 .. mounts
<1>1. MaxMounts \in Nat /\ mounts \in 1 .. MaxMounts /\ index \in 1 .. MaxMounts
      /\ routes \in Seq(Route) /\ routes # <<>>
  BY StackAssumption DEF Typing, TypeOK
<1>2. /\ Len(routes) \in Nat \ {0} /\ DOMAIN routes = 1 .. Len(routes)
      /\ \A i \in 1 .. Len(routes) : routes[i] \in Route
  BY Shown
<1>3. /\ Len(routes) <= mounts /\ suppressed \subseteq 1 .. mounts
      /\ \A i \in 1 .. Len(routes) : {routes[i].key, routes[i].mount} \subseteq 1 .. mounts
  BY DEF Typing, Numbered
<1> QED
  BY <1>1, <1>2, <1>3

\* An edited list has keys and screens of its own again.
LEMMA EditedUnique ==
  ASSUME Typing, Unique, Edited
  PROVE  /\ Unique'
         /\ \A i \in 1 .. Len(routes') : {routes'[i].key, routes'[i].mount} \subseteq 1 .. mounts'
<1>1. /\ mounts \in Nat /\ mounts' \in Nat /\ mounts <= mounts'
      /\ \A i \in 1 .. Len(routes) :
           routes[i].key \in 1 .. mounts /\ routes[i].mount \in 1 .. mounts
  BY Numbers DEF Edited
<1>2. ASSUME NEW i \in 1 .. Len(routes')
      PROVE  /\ routes'[i].key \in 1 .. mounts' /\ routes'[i].mount \in 1 .. mounts'
             /\ routes'[i].key <= mounts =>
                  i \in 1 .. Len(routes) /\ routes'[i].key = routes[i].key
             /\ routes'[i].mount <= mounts =>
                  i \in 1 .. Len(routes) /\ routes'[i].mount = routes[i].mount
  BY <1>1, <1>2 DEF Edited
<1>3. ASSUME NEW i \in 1 .. Len(routes'), NEW j \in 1 .. Len(routes'),
             routes'[i].key = routes'[j].key \/ routes'[i].mount = routes'[j].mount
      PROVE  i = j
  <2>1. CASE routes'[i].key = routes'[j].key
    <3>1. i = j \/ routes'[i].key <= mounts
      BY <2>1 DEF Edited
    <3> QED
      BY <1>2, <2>1, <3>1 DEF Unique
  <2>2. CASE routes'[i].mount = routes'[j].mount
    <3>1. i = j \/ routes'[i].mount <= mounts
      BY <2>2 DEF Edited
    <3> QED
      BY <1>2, <2>2, <3>1 DEF Unique
  <2> QED
    BY <1>3, <2>1, <2>2
<1> QED
  BY <1>2, <1>3 DEF Unique

\* Nothing is edited.
LEMMA SameEdited ==
  ASSUME Typing, Unique, UNCHANGED <<routes, mounts>>
  PROVE  Edited
<1>1. routes' = routes /\ mounts' = mounts /\ mounts \in mounts .. MaxMounts
  BY Numbers
<1> QED
  BY <1>1, Numbers DEF Edited, Unique

\* The list is cut.
LEMMA CutEdited ==
  ASSUME Typing, Unique, NEW n \in 1 .. Len(routes), UNCHANGED mounts,
         routes' \in Seq(Route), routes' # <<>>, Len(routes') = n,
         \A i \in 1 .. n : routes'[i] = routes[i]
  PROVE  Edited
<1>1. /\ mounts' = mounts /\ mounts \in mounts .. MaxMounts /\ n <= mounts
      /\ \A i \in 1 .. n : i \in 1 .. Len(routes)
  BY Numbers
<1> QED
  BY <1>1, Numbers DEF Edited, Unique

-----------------------------------------------------------------------------
(* Types, keys and marks. *)

\* What an action of the navigator must show.
JsTyped ==
  /\ index' \in 1 .. MaxMounts /\ suppressed' \subseteq 1 .. mounts'
  /\ jumped' \subseteq 1 .. MaxMounts /\ brought' \subseteq 1 .. MaxMounts
  /\ heard' \subseteq 1 .. MaxMounts
  /\ timers' \in Seq({"trim", "top"})

NativeTyped ==
  /\ dirty' \in BOOLEAN /\ navPending' \in BOOLEAN
  /\ controllers' \subseteq 1 .. MaxMounts /\ muted' \subseteq 1 .. MaxMounts
  /\ lost' \subseteq 1 .. MaxMounts
  /\ {committed', nav', previous', backs'} \subseteq Seq(1 .. MaxMounts)

LEMMA TypedBoth ==
  ASSUME Typing, Unique, Edited, JsTyped, NativeTyped
  PROVE  Typing'
<1>1. mounts' \in 1 .. MaxMounts /\ suppressed' \subseteq 1 .. MaxMounts
  BY Numbers DEF Edited, JsTyped
<1>2. Numbered'
  BY EditedUnique DEF Numbered, Edited, JsTyped
<1>3. {suppressed', jumped', brought', heard', controllers', muted', lost'}
        \subseteq SUBSET (1 .. MaxMounts)
  BY <1>1 DEF JsTyped, NativeTyped
<1>4. {dirty', navPending'} \subseteq BOOLEAN
  BY Zenon DEF NativeTyped
<1>5. TypeOK'
  BY <1>1, <1>3, <1>4 DEF TypeOK, Edited, JsTyped, NativeTyped
<1> QED
  BY <1>2, <1>5 DEF Typing

\* What was typed before.
LEMMA TypedBefore ==
  ASSUME Typing
  PROVE  /\ jumped \subseteq 1 .. MaxMounts /\ brought \subseteq 1 .. MaxMounts
         /\ heard \subseteq 1 .. MaxMounts /\ timers \in Seq({"trim", "top"})
         /\ dirty \in BOOLEAN /\ navPending \in BOOLEAN
         /\ controllers \subseteq 1 .. MaxMounts /\ muted \subseteq 1 .. MaxMounts
         /\ lost \subseteq 1 .. MaxMounts
         /\ {committed, nav, previous, backs} \subseteq Seq(1 .. MaxMounts)
<1>1. dirty \in BOOLEAN /\ navPending \in BOOLEAN
  BY Zenon DEF Typing, TypeOK
<1> QED
  BY <1>1 DEF Typing, TypeOK

\* The navigator's own steps tell the native side nothing yet.
Aside == Changed /\ UNCHANGED <<nativeVars, backs, lost>>

LEMMA AsideTyped ==
  ASSUME Typing, Aside
  PROVE  NativeTyped
<1>1. dirty' \in BOOLEAN
  BY Zenon DEF Aside, Changed
<1> QED
  BY <1>1, TypedBefore DEF NativeTyped, Aside, nativeVars

\* A route that stays where it is keeps its mark.
LEMMA NotForgotten ==
  ASSUME Typing, Unique, NEW s \in Seq(Route), NEW j \in 1 .. Len(routes),
         j \in 1 .. Len(s), s[j] = routes[j]
  PROVE  routes[j].key \notin Forgotten(s)
<1>1. routes[j] \in ToSet(s)
  BY LenProperties DEF ToSet
<1>2. ASSUME NEW h \in 1 .. Len(routes), routes[h].key = routes[j].key
      PROVE  routes[h] \in ToSet(s)
  BY <1>1, <1>2 DEF Unique
<1> QED
  BY <1>2, Numbers DEF Forgotten, ToSet

\* A list is rendered: the positions up to the focused one were in the stack
\* before or are fresh, those above it were above it before.
LEMMA RenderStacked ==
  ASSUME Typing, Stacked, NEW s, Render(s), Edited, index' \in 1 .. MaxMounts,
         timers' \in Seq({"trim", "top"}),
         \A i \in 1 .. Len(s) : i <= index' => i <= index \/ s[i].key > mounts,
         \A i \in 1 .. Len(s) : i > index' =>
           i \in 1 .. Len(routes) /\ i > index /\ s[i] = routes[i]
  PROVE  Typing' /\ Stacked' /\ Aside
<1>1. /\ routes' = s /\ suppressed' = suppressed \ Forgotten(s)
      /\ jumped' = jumped \cap Keys(s) /\ brought' = brought \cap Keys(s)
      /\ heard' = heard
  BY DEF Render
<1>2. Aside
  BY DEF Render, Aside
<1>3. mounts \in Nat /\ mounts' \in Nat /\ mounts <= mounts' /\ suppressed \subseteq 1 .. mounts
  BY Numbers DEF Edited
<1>4. JsTyped
  <2>1. suppressed' \subseteq 1 .. mounts'
    <3>1. suppressed' \subseteq suppressed
      BY <1>1
    <3>2. 1 .. mounts \subseteq 1 .. mounts'
      BY <1>3
    <3> QED
      BY <1>3, <3>1, <3>2
  <2>2. jumped' \subseteq jumped /\ brought' \subseteq brought
    BY <1>1
  <2> QED
    BY <1>1, <2>1, <2>2, TypedBefore DEF JsTyped
<1>5. Typing' /\ Unique'
  BY <1>2, <1>4, AsideTyped, TypedBoth, EditedUnique DEF Stacked
<1>6. s \in Seq(Route) /\ DOMAIN s = 1 .. Len(s)
  BY <1>1, LenProperties DEF Edited
<1>7. \A i \in 1 .. Len(s) : s[i] \in ToSet(s) /\ s[i].key \in Keys(s)
  BY <1>6 DEF ToSet, Keys
<1>8. ASSUME NEW i \in 1 .. Len(s), i <= index', s[i].key \in suppressed'
      PROVE  s[i].key \in brought'
  <2>1. s[i].key \in suppressed /\ s[i].key <= mounts
    BY <1>1, <1>3, <1>8
  <2>2. i \in 1 .. Len(routes) /\ s[i].key = routes[i].key
    <3>1. \/ i \in 1 .. Len(routes) /\ s[i].key = routes[i].key
          \/ s[i].key \in mounts + 1 .. mounts'
      BY <1>1, <1>8 DEF Edited
    <3> QED
      BY <1>3, <2>1, <3>1
  <2>3. i <= index
    BY <1>3, <1>8, <2>1, <2>2, Numbers
  <2> QED
    BY <1>1, <1>7, <2>1, <2>2, <2>3 DEF Stacked, Unmarked
<1>9. ASSUME NEW i \in 1 .. Len(s), i > index'
      PROVE  s[i].key \in suppressed' \cup jumped' \/ s[i].mount \in heard'
  <2>1. i \in 1 .. Len(routes) /\ i > index /\ s[i] = routes[i]
    BY <1>9
  <2>2. s[i].key \notin Forgotten(s)
    <3>1. Unique /\ i \in 1 .. Len(s) /\ s \in Seq(Route)
      BY <1>6 DEF Stacked
    <3> QED
      BY <2>1, <3>1, NotForgotten
  <2>3. s[i].key \in suppressed \cup jumped \/ s[i].mount \in heard
    BY <2>1 DEF Stacked, Accounted
  <2> QED
    BY <1>1, <1>7, <2>2, <2>3
<1> QED
  BY <1>1, <1>2, <1>5, <1>8, <1>9 DEF Stacked, Unmarked, Accounted

LEMMA PushStacked ==
  ASSUME Typing, Stacked, FocusExists, NEW name \in Name, Push(name)
  PROVE  Typing' /\ Stacked' /\ Aside
<1> DEFINE s == Append(Active, New(name, 1))
<1>1. mounts + 1 <= MaxMounts /\ mounts' = mounts + 1 /\ timers' = timers
      /\ index' = Len(s) /\ Render(s) /\ routes' = s
  BY DEF Push, Fits, Render
<1>2. /\ New(name, 1) \in Route /\ New(name, 1).key = mounts + 1
      /\ New(name, 1).mount = mounts + 1
  BY <1>1, NewType
<1>3. /\ Active \in Seq(Route) /\ Len(Active) = index /\ index <= Len(routes)
      /\ \A i \in 1 .. index : Active[i] = routes[i]
  BY ShownFocused
<1>4. /\ s \in Seq(Route) /\ s # <<>> /\ Len(s) = Len(Active) + 1
      /\ s[Len(Active) + 1] = New(name, 1)
      /\ \A j \in 1 .. Len(Active) : s[j] = Active[j]
  <2>1. Active \in Seq(Route) /\ New(name, 1) \in Route
    BY <1>2, <1>3
  <2> QED
    BY <2>1, Added
<1> HIDE DEF s
<1>5. \A i \in 1 .. Len(s) :
        \/ i \in 1 .. Len(routes) /\ i \in 1 .. index /\ s[i] = routes[i]
        \/ i = index + 1 /\ s[i].key = mounts + 1 /\ s[i].mount = mounts + 1
  BY <1>2, <1>3, <1>4, Numbers
<1>6. Edited
  <2>1. Len(s) <= mounts' /\ mounts' \in mounts .. MaxMounts
    BY <1>1, <1>3, <1>4, Numbers
  <2>2. mounts + 1 \in mounts + 1 .. mounts' /\ ~(mounts + 1 <= mounts)
    BY <1>1, Numbers
  <2>3. ASSUME NEW i \in 1 .. Len(s), NEW j \in 1 .. Len(s)
        PROVE  /\ s[i].key = s[j].key => i = j \/ s[i].key <= mounts
               /\ s[i].mount = s[j].mount => i = j \/ s[i].mount <= mounts
    <3>1. \/ s[i].key <= mounts /\ s[i].mount <= mounts
          \/ i = index + 1 /\ s[i].key = mounts + 1 /\ s[i].mount = mounts + 1
      BY <1>5, Numbers
    <3>2. \/ s[j].key <= mounts /\ s[j].mount <= mounts
          \/ j = index + 1 /\ s[j].key = mounts + 1 /\ s[j].mount = mounts + 1
      BY <1>5, Numbers
    <3> QED
      BY <3>1, <3>2, Numbers
  <2> QED
    BY <1>1, <1>4, <1>5, <2>1, <2>2, <2>3 DEF Edited
<1>7. index' \in 1 .. MaxMounts
  BY <1>1, <1>3, <1>4, Numbers
<1>8. /\ \A i \in 1 .. Len(s) : i <= index' => i <= index \/ s[i].key > mounts
      /\ \A i \in 1 .. Len(s) : ~(i > index')
  <2>1. mounts \in Nat /\ index \in Nat
    BY Numbers
  <2>2. index' = index + 1 /\ Len(s) = index + 1
    BY <1>1, <1>3, <1>4
  <2>3. s[index + 1].key = mounts + 1
    BY <1>2, <1>3, <1>4
  <2>4. \A i \in 1 .. index + 1 : i <= index \/ i = index + 1
    BY <2>1
  <2> QED
    BY <2>1, <2>2, <2>3, <2>4
<1> QED
  BY <1>1, <1>6, <1>7, <1>8, TypedBefore, RenderStacked

\* The record of a route, with another mount.
LEMMA RemountType ==
  ASSUME Typing, NEW i \in DOMAIN routes, Fits(1), NEW e,
         e = [routes[i] EXCEPT !.mount = mounts + 1]
  PROVE  /\ e \in Route /\ e.key = routes[i].key /\ e.mount = mounts + 1
         /\ [routes EXCEPT ![i].mount = mounts + 1] = [routes EXCEPT ![i] = e]
<1>1. routes[i] \in Route
  BY Shown
<1>2. mounts + 1 \in 1 .. MaxMounts
  BY StackAssumption DEF Fits, Typing, TypeOK
<1>3. e \in Route /\ e.key = routes[i].key /\ e.mount = mounts + 1
  BY <1>1, <1>2 DEF Route
<1>4. [routes EXCEPT ![i].mount = mounts + 1] = [routes EXCEPT ![i] = e]
  OBVIOUS
<1> QED
  BY <1>3, <1>4

\* A record is replaced by one with a fresh mount, and the same key or a fresh one.
LEMMA InPlaceEdited ==
  ASSUME Typing, Unique, NEW i \in 1 .. Len(routes), NEW e \in Route, Fits(1),
         e.mount = mounts + 1, e.key \in {routes[i].key, mounts + 1},
         routes' = [routes EXCEPT ![i] = e]
  PROVE  /\ Edited /\ Len(routes') = Len(routes) /\ routes'[i] = e
         /\ \A j \in 1 .. Len(routes) : j # i => routes'[j] = routes[j]
<1>1. mounts' = mounts + 1 /\ mounts' \in mounts .. MaxMounts
  BY Numbers DEF Fits
<1>2. /\ routes' \in Seq(Route) /\ routes' # <<>> /\ Len(routes') = Len(routes)
      /\ routes'[i] = e /\ \A j \in 1 .. Len(routes) : j # i => routes'[j] = routes[j]
  <2>1. routes \in Seq(Route) /\ routes # <<>>
    BY Numbers
  <2> QED
    BY <2>1, Replaced
<1>3. \A j \in 1 .. Len(routes) :
        /\ j # i => /\ routes'[j] = routes[j]
                    /\ routes[j].key <= mounts /\ routes[j].mount <= mounts
                    /\ routes[i].key # routes[j].key
        /\ routes[j].key # mounts + 1 /\ routes[j].mount # mounts + 1
  BY <1>2, Numbers DEF Unique
<1>4. mounts + 1 \in mounts + 1 .. mounts' /\ Len(routes) <= mounts'
  BY <1>1, Numbers
<1>5. ASSUME NEW h \in 1 .. Len(routes), NEW j \in 1 .. Len(routes)
      PROVE  /\ routes'[h].key = routes'[j].key => h = j
             /\ routes'[h].mount = routes'[j].mount => h = j
  <2>1. CASE h = i /\ j # i
    BY <1>2, <1>3, <2>1
  <2>2. CASE j = i /\ h # i
    BY <1>2, <1>3, <2>2
  <2>3. CASE j # i /\ h # i
    BY <1>2, <1>3, <2>3 DEF Unique
  <2> QED
    BY <2>1, <2>2, <2>3
<1> QED
  BY <1>1, <1>2, <1>3, <1>4, <1>5 DEF Edited

\* replace, setParams and setOptions.
LEMMA FocusedStacked ==
  ASSUME Typing, Stacked, FocusExists, NEW e \in Route, Fits(1),
         e.mount = mounts + 1, e.key \in {routes[index].key, mounts + 1},
         Render([routes EXCEPT ![index] = e]), UNCHANGED <<index, timers>>
  PROVE  Typing' /\ Stacked' /\ Aside
<1> DEFINE s == [routes EXCEPT ![index] = e]
<1>1. routes' = s /\ Render(s) /\ index' = index /\ timers' = timers
  BY DEF Render
<1> HIDE DEF s
<1>2. index \in 1 .. Len(routes)
  BY ShownFocused
<1>3. /\ Edited /\ Len(s) = Len(routes)
      /\ \A j \in 1 .. Len(routes) : j # index => s[j] = routes[j]
  BY <1>1, <1>2, InPlaceEdited DEF s, Stacked
<1>4. /\ \A j \in 1 .. Len(s) : j <= index' => j <= index
      /\ \A j \in 1 .. Len(s) :
           j > index' => j \in 1 .. Len(routes) /\ j > index /\ s[j] = routes[j]
  BY <1>1, <1>3, Numbers
<1>5. index' \in 1 .. MaxMounts /\ timers' \in Seq({"trim", "top"})
  BY <1>1, Numbers, TypedBefore
<1> QED
  BY <1>1, <1>3, <1>4, <1>5, RenderStacked

LEMMA ReplaceStacked ==
  ASSUME Typing, Stacked, FocusExists, NEW name \in Name, Replace(name)
  PROVE  Typing' /\ Stacked' /\ Aside
<1>1. mounts + 1 <= MaxMounts
  BY DEF Replace, Fits
<1>2. /\ New(name, 1) \in Route /\ New(name, 1).key = mounts + 1
      /\ New(name, 1).mount = mounts + 1
  BY <1>1, NewType
<1> QED
  BY <1>2, FocusedStacked DEF Replace

LEMMA SetParamsStacked ==
  ASSUME Typing, Stacked, FocusExists, SetParams
  PROVE  Typing' /\ Stacked' /\ Aside
<1> DEFINE e == [routes[index] EXCEPT !.mount = mounts + 1]
<1>1. /\ index \in DOMAIN routes /\ Fits(1) /\ UNCHANGED <<index, timers>>
      /\ Render([routes EXCEPT ![index].mount = mounts + 1])
  BY ShownFocused, Numbers DEF SetParams
<1>2. /\ e \in Route /\ e.key = routes[index].key /\ e.mount = mounts + 1
      /\ [routes EXCEPT ![index].mount = mounts + 1] = [routes EXCEPT ![index] = e]
  BY <1>1, RemountType
<1>3. Render([routes EXCEPT ![index] = e])
  BY <1>1, <1>2
<1> HIDE DEF e
<1> QED
  BY <1>1, <1>2, <1>3, FocusedStacked

LEMMA ResetStacked ==
  ASSUME Typing, Stacked, NEW first \in Name, NEW second \in Name, Reset(first, second)
  PROVE  Typing' /\ Stacked' /\ Aside
<1> DEFINE s == <<New(first, 1), New(second, 2)>>
<1>1. /\ mounts + 2 <= MaxMounts /\ mounts' = mounts + 2 /\ timers' = timers
      /\ index' = 2 /\ Render(s) /\ routes' = s
  BY DEF Reset, Fits, Render
<1>2. /\ New(first, 1) \in Route /\ New(first, 1).key = mounts + 1
      /\ New(second, 2) \in Route /\ New(second, 2).key = mounts + 2
      /\ New(first, 1).mount = mounts + 1 /\ New(second, 2).mount = mounts + 2
  BY <1>1, NewType
<1>3. /\ s \in Seq(Route) /\ s # <<>> /\ Len(s) = 2
      /\ s[1] = New(first, 1) /\ s[2] = New(second, 2)
  BY <1>2
<1> HIDE DEF s
<1>4. \A i \in 1 .. Len(s) : /\ i = 1 \/ i = 2
                             /\ s[i].key = mounts + i /\ s[i].mount = mounts + i
  BY <1>2, <1>3
<1>5. Edited
  <2>1. Len(s) <= mounts' /\ mounts' \in mounts .. MaxMounts
    BY <1>1, <1>3, Numbers
  <2>2. \A i \in 1 .. Len(s) : /\ s[i].key \in mounts + 1 .. mounts'
                               /\ s[i].mount \in mounts + 1 .. mounts'
    BY <1>1, <1>4, Numbers
  <2>3. \A i, j \in 1 .. Len(s) : mounts + i = mounts + j => i = j
    BY Numbers
  <2> QED
    BY <1>1, <1>3, <1>4, <2>1, <2>2, <2>3 DEF Edited
<1>6. /\ index' \in 1 .. MaxMounts /\ timers' \in Seq({"trim", "top"})
      /\ \A i \in 1 .. Len(s) : s[i].key > mounts
      /\ \A i \in 1 .. Len(s) : ~(i > index')
  BY <1>1, <1>3, <1>4, Numbers, TypedBefore
<1> QED
  BY <1>1, <1>5, <1>6, RenderStacked

LEMMA RemovePoppedStacked ==
  ASSUME Typing, Stacked, FocusExists, RemovePopped
  PROVE  Typing' /\ Stacked' /\ Aside
<1> DEFINE s == IF Head(timers) = "top" THEN <<routes[1]>> ELSE Active
           n == IF Head(timers) = "top" THEN 1 ELSE index
<1>1. /\ timers # <<>> /\ timers' = Tail(timers) /\ index' = index /\ mounts' = mounts
      /\ Render(s) /\ routes' = s
  BY DEF RemovePopped, Render
<1>2. n \in 1 .. Len(routes) /\ n <= index
  BY ShownFocused, Numbers
<1>3. s \in Seq(Route) /\ s # <<>> /\ Len(s) = n /\ \A i \in 1 .. n : s[i] = routes[i]
  <2>1. CASE Head(timers) = "top"
    <3>1. s = <<routes[1]>> /\ n = 1 /\ routes[1] \in Route
      BY <2>1, Numbers
    <3>2. \A i \in 1 .. 1 : i = 1
      OBVIOUS
    <3> HIDE DEF s, n
    <3> QED
      BY <3>1, <3>2
  <2>2. CASE Head(timers) # "top"
    BY <2>2, ShownFocused
  <2> QED
    BY <2>1, <2>2
<1> HIDE DEF s, n
<1>4. Edited
  BY <1>1, <1>2, <1>3, CutEdited DEF Stacked
<1>5. timers' \in Seq({"trim", "top"}) /\ index' \in 1 .. MaxMounts
  BY <1>1, TimersType, TypedBefore, Numbers
<1>6. /\ \A i \in 1 .. Len(s) : i <= index' => i <= index
      /\ \A i \in 1 .. Len(s) : ~(i > index')
  BY <1>1, <1>2, <1>3, Numbers
<1> QED
  BY <1>1, <1>4, <1>5, <1>6, RenderStacked

LEMMA KeysAtType ==
  ASSUME Typing, NEW I
  PROVE  KeysAt(I) \subseteq 1 .. mounts
  BY Numbers DEF KeysAt

LEMMA NavigateStacked ==
  ASSUME Typing, Stacked, FocusExists, NEW name \in Name, Navigate(name)
  PROVE  Typing' /\ Stacked' /\ Aside
<1>1. PICK target \in DOMAIN routes :
        /\ Fits(1) /\ timers' = timers /\ index' = target /\ heard' = heard
        /\ routes' = [routes EXCEPT ![target].mount = mounts + 1]
        /\ suppressed' = suppressed \ Forgotten([routes EXCEPT ![target].mount = mounts + 1])
        /\ jumped' = jumped \cup KeysAt(target + 1 .. index)
        /\ brought' = brought \cup KeysAt(index + 1 .. target - 1)
  BY DEF Navigate
<1> DEFINE s == [routes EXCEPT ![target].mount = mounts + 1]
           e == [routes[target] EXCEPT !.mount = mounts + 1]
<1>2. Aside
  BY DEF Navigate, Aside
<1>3. target \in 1 .. Len(routes)
  BY <1>1, Numbers
<1>4. /\ routes' = s /\ s = [routes EXCEPT ![target] = e] /\ e \in Route
      /\ e.key = routes[target].key /\ e.mount = mounts + 1
      /\ suppressed' = suppressed \ Forgotten(s)
  BY <1>1, RemountType
<1> HIDE DEF s, e
<1>5. /\ Edited /\ Len(s) = Len(routes) /\ s[target] = e
      /\ \A j \in 1 .. Len(routes) : j # target => s[j] = routes[j]
  BY <1>1, <1>3, <1>4, InPlaceEdited DEF Stacked
<1>6. s \in Seq(Route) /\ DOMAIN s = 1 .. Len(s)
  BY <1>4, <1>5, LenProperties DEF Edited
<1>7. routes[target].key \in Forgotten(s)
  <2>1. \A j \in 1 .. Len(s) : s[j] # routes[target]
    <3>1. ASSUME NEW j \in 1 .. Len(routes) PROVE s[j] # routes[target]
      <4>1. CASE j = target
        BY <1>3, <1>4, <1>5, <4>1, Numbers
      <4>2. CASE j # target
        BY <1>3, <1>5, <4>2 DEF Stacked, Unique
      <4> QED
        BY <4>1, <4>2
    <3> QED
      BY <1>5, <3>1
  <2>2. routes[target] \notin ToSet(s) /\ routes[target] \in ToSet(routes)
    BY <1>3, <1>6, <2>1, Numbers DEF ToSet
  <2> QED
    BY <2>2 DEF Forgotten
<1>8. JsTyped
  <2>1. suppressed' \subseteq 1 .. mounts'
    <3>1. suppressed' \subseteq suppressed /\ suppressed \subseteq 1 .. mounts
      BY <1>4, Numbers
    <3>2. 1 .. mounts \subseteq 1 .. mounts'
      BY <1>1, Numbers DEF Fits
    <3> QED
      BY <3>1, <3>2
  <2>2. jumped' \subseteq 1 .. MaxMounts /\ brought' \subseteq 1 .. MaxMounts
    <3>1. \A I : KeysAt(I) \subseteq 1 .. mounts
      BY KeysAtType
    <3>2. 1 .. mounts \subseteq 1 .. MaxMounts
      BY Numbers
    <3> QED
      BY <1>1, <3>1, <3>2, TypedBefore
  <2>3. index' \in 1 .. MaxMounts
    BY <1>1, <1>3, Numbers
  <2> QED
    BY <1>1, <2>1, <2>2, <2>3, TypedBefore DEF JsTyped
<1>9. Typing' /\ Unique'
  BY <1>2, <1>5, <1>8, AsideTyped, TypedBoth, EditedUnique DEF Stacked
<1>10. \A I, j : j \in I /\ j \in 1 .. Len(routes) => routes[j].key \in KeysAt(I)
  BY Numbers DEF KeysAt
<1>11. ASSUME NEW j \in 1 .. Len(s), j <= target, s[j].key \in suppressed'
       PROVE  s[j].key \in brought'
  <2>1. s[j].key \in suppressed /\ j # target /\ s[j] = routes[j]
    BY <1>4, <1>5, <1>7, <1>11
  <2>2. CASE j <= index
    BY <1>1, <1>5, <2>1, <2>2 DEF Stacked, Unmarked
  <2>3. CASE ~(j <= index)
    <3>1. j \in index + 1 .. target - 1
      BY <1>3, <1>11, <2>1, <2>3, Numbers
    <3> QED
      BY <1>1, <1>5, <1>10, <2>1, <3>1
  <2> QED
    BY <2>2, <2>3
<1>12. ASSUME NEW j \in 1 .. Len(s), j > target
       PROVE  s[j].key \in suppressed' \cup jumped' \/ s[j].mount \in heard'
  <2>1. j \in 1 .. Len(routes) /\ s[j] = routes[j]
    BY <1>3, <1>5, <1>12
  <2>2. CASE j <= index
    <3>1. j \in target + 1 .. index
      BY <1>3, <1>12, <2>2, Numbers
    <3> QED
      BY <1>1, <1>10, <2>1, <3>1
  <2>3. CASE j > index
    <3>1. s[j].key \in suppressed \cup jumped \/ s[j].mount \in heard
      BY <2>1, <2>3 DEF Stacked, Accounted
    <3>2. s[j].key \notin Forgotten(s)
      <4>1. /\ Unique /\ j \in 1 .. Len(s) /\ s \in Seq(Route)
            /\ j \in 1 .. Len(routes) /\ s[j] = routes[j]
        BY <1>6, <1>12, <2>1 DEF Stacked
      <4>2. routes[j].key \notin Forgotten(s)
        BY <4>1, NotForgotten
      <4> QED
        BY <4>1, <4>2
    <3>3. suppressed' = suppressed \ Forgotten(s) /\ jumped \subseteq jumped' /\ heard' = heard
      BY <1>1, <1>4
    <3> QED
      BY <3>1, <3>2, <3>3
  <2> QED
    BY <2>1, <2>2, <2>3, Numbers
<1> QED
  BY <1>1, <1>2, <1>4, <1>9, <1>11, <1>12 DEF Stacked, Unmarked, Accounted

\* The index is lowered to n, and the routes above it are marked.
LEMMA LoweredStacked ==
  ASSUME Typing, Stacked, FocusExists, NEW n \in 1 .. index, index' = n,
         suppressed' = suppressed \cup KeysAt(n + 1 .. index),
         UNCHANGED <<routes, mounts, jumped, brought>>,
         heard \subseteq heard', heard' \subseteq 1 .. MaxMounts,
         timers' \in Seq({"trim", "top"}), NativeTyped
  PROVE  Typing' /\ Stacked'
<1>1. Edited
  BY SameEdited DEF Stacked
<1>2. JsTyped
  <2>1. KeysAt(n + 1 .. index) \subseteq 1 .. mounts
    BY KeysAtType
  <2>2. suppressed' \subseteq 1 .. mounts' /\ index' \in 1 .. MaxMounts
    BY <2>1, Numbers
  <2> QED
    BY <2>2, TypedBefore DEF JsTyped
<1>3. Typing' /\ Unique'
  BY <1>1, <1>2, TypedBoth, EditedUnique DEF Stacked
<1>4. ASSUME NEW j \in 1 .. Len(routes), j <= n, routes[j].key \in suppressed'
      PROVE  routes[j].key \in brought
  <2>1. routes[j].key \notin KeysAt(n + 1 .. index)
    <3>1. \A h \in (n + 1 .. index) \cap 1 .. Len(routes) : routes[h].key # routes[j].key
      BY <1>4, Numbers DEF Stacked, Unique
    <3> QED
      BY <3>1, Numbers DEF KeysAt
  <2> QED
    BY <1>4, <2>1, Numbers DEF Stacked, Unmarked
<1>5. ASSUME NEW j \in 1 .. Len(routes), j > n
      PROVE  routes[j].key \in suppressed' \cup jumped \/ routes[j].mount \in heard'
  <2>1. CASE j <= index
    <3>1. j \in n + 1 .. index /\ j \in DOMAIN routes
      BY <1>5, <2>1, Numbers
    <3> QED
      BY <3>1 DEF KeysAt
  <2>2. CASE j > index
    BY <2>2 DEF Stacked, Accounted
  <2> QED
    BY <2>1, <2>2, Numbers
<1> QED
  BY <1>3, <1>4, <1>5 DEF Stacked, Unmarked, Accounted

LEMMA PopByStacked ==
  ASSUME Typing, Stacked, FocusExists, NEW c \in Nat \ {0}, PopBy(c),
         heard \subseteq heard', heard' \subseteq 1 .. MaxMounts, NativeTyped
  PROVE  Typing' /\ Stacked'
<1> DEFINE n == Lower(c)
<1>1. n \in 1 .. index
  BY Numbers DEF Lower
<1>2. timers' \in Seq({"trim", "top"})
  BY TimersType, TypedBefore DEF PopBy
<1>3. /\ index' = n /\ suppressed' = suppressed \cup KeysAt(n + 1 .. index)
      /\ UNCHANGED <<routes, mounts, jumped, brought>>
  BY DEF PopBy
<1> HIDE DEF n
<1> QED
  BY <1>1, <1>2, <1>3, LoweredStacked

LEMMA PopToTopStacked ==
  ASSUME Typing, Stacked, FocusExists, PopToTop
  PROVE  Typing' /\ Stacked' /\ Aside
<1>1. 1 \in 1 .. index /\ 1 + 1 = 2
  BY Numbers
<1>2. timers' \in Seq({"trim", "top"})
  BY TimersType, TypedBefore DEF PopToTop
<1>3. Aside
  BY DEF PopToTop, Aside
<1>4. /\ index' = 1 /\ suppressed' = suppressed \cup KeysAt(1 + 1 .. index)
      /\ UNCHANGED <<routes, mounts, jumped, brought>>
      /\ heard \subseteq heard' /\ heard' \subseteq 1 .. MaxMounts
  BY <1>1, TypedBefore DEF PopToTop
<1> QED
  BY <1>1, <1>2, <1>3, <1>4, LoweredStacked, AsideTyped

-----------------------------------------------------------------------------
(* The controller and the routes. *)

\* When nothing has changed since, native code knows the active screens.
ToldLast == ~dirty => committed = Screens(Active)

\* What the controller shows is where it was before the user popped.
NavPrefix ==
  Len(nav) <= Len(previous) /\ \A i \in 1 .. Len(nav) : nav[i] = previous[i]

\* When it was told of all, the controller shows the first of the screens, and of
\* every other the event is on its way, or will be, or it is known to be lost.
SwipesKnown ==
  ~dirty /\ ~navPending =>
    /\ Len(nav) \in 1 .. Len(committed)
    /\ \A i \in 1 .. Len(nav) : nav[i] = committed[i]
    /\ \A i \in 1 .. Len(committed) :
         i > Len(nav) => committed[i] \in lost \cup ToSet(previous) \cup ToSet(backs)

Sided == ToldLast /\ NavPrefix /\ SwipesKnown

LEMMA AsideSided ==
  ASSUME Sided, Aside
  PROVE  Sided'
<1>1. UNCHANGED <<committed, navPending, nav, previous, backs, lost>>
  BY DEF Aside, nativeVars
<1>2. ~dirty' => ~dirty /\ Active' = Active
  BY DEF Aside, Changed
<1>3. ~dirty' => Screens(Active') = Screens(Active)
  BY <1>2
<1> QED
  BY <1>1, <1>2, <1>3 DEF Sided, ToldLast, NavPrefix, SwipesKnown

\* The lists native code keeps, as functions.
LEMMA NativeLists ==
  ASSUME Typing, NEW s \in {committed, nav, previous, backs}
  PROVE  /\ s \in Seq(1 .. MaxMounts) /\ DOMAIN s = 1 .. Len(s) /\ Len(s) \in Nat
         /\ s # <<>> => Len(s) \in Nat \ {0}
         /\ \A i \in 1 .. Len(s) : s[i] \in 1 .. MaxMounts
         /\ \A i \in 1 .. Len(s) : s[i] \in ToSet(s)
<1>1. s \in Seq(1 .. MaxMounts)
  BY TypedBefore
<1>2. DOMAIN s = 1 .. Len(s) /\ Len(s) \in Nat
      /\ \A i \in 1 .. Len(s) : s[i] \in 1 .. MaxMounts
  BY <1>1, LenProperties, ElementOfSeq
<1>3. s # <<>> => Len(s) \in Nat \ {0}
  BY <1>1, EmptySeq
<1> QED
  BY <1>1, <1>2, <1>3 DEF ToSet

\* The screens of the routes up to the focused one.
LEMMA ActiveScreens ==
  ASSUME Typing
  PROVE  /\ Screens(Active) \in Seq(1 .. MaxMounts)
         /\ Len(Screens(Active)) = Len(Active) /\ Len(Active) \in 1 .. Len(routes)
         /\ DOMAIN Screens(Active) = 1 .. Len(Active)
         /\ \A i \in 1 .. Len(Active) : Screens(Active)[i] = routes[i].mount
<1>1. /\ Len(Active) \in Nat \ {0} /\ DOMAIN Active = 1 .. Len(Active)
      /\ Len(Active) <= Len(routes) /\ Len(Active) \in 1 .. Len(routes)
      /\ \A i \in 1 .. Len(Active) : Active[i] = routes[i]
  <2>1. /\ Len(Active) = (IF index < Len(routes) THEN index ELSE Len(routes))
        /\ DOMAIN Active = 1 .. Len(Active)
        /\ \A i \in 1 .. Len(Active) : Active[i] = routes[i]
    BY Shown
  <2>2. index \in Nat \ {0} /\ Len(routes) \in Nat \ {0}
    BY Numbers
  <2>3. Len(Active) \in Nat \ {0} /\ Len(Active) <= Len(routes)
    BY <2>1, <2>2
  <2> QED
    BY <2>1, <2>2, <2>3
<1>2. \A i \in 1 .. Len(Active) : routes[i].mount \in 1 .. MaxMounts
  BY <1>1, Numbers
<1> DEFINE n == Len(Active)
           s == [i \in 1 .. n |-> Active[i].mount]
<1>3. Screens(Active) = s
  BY <1>1 DEF Screens
<1>4. \A i \in 1 .. n : s[i] = routes[i].mount
  BY <1>1
<1>5. s \in Seq(1 .. MaxMounts)
  <2>1. \A i \in 1 .. n : Active[i].mount \in 1 .. MaxMounts
    BY <1>1, <1>2
  <2>2. n \in Nat
    BY <1>1
  <2> HIDE DEF n
  <2> QED
    BY <2>1, <2>2, IsASeq
<1>6. DOMAIN s = 1 .. n
  OBVIOUS
<1> HIDE DEF s
<1>7. Len(s) = n
  BY <1>1, <1>5, <1>6, LenProperties
<1> QED
  BY <1>1, <1>3, <1>4, <1>5, <1>6, <1>7

\* When native code was told of all, it knows the active screens one by one.
LEMMA Told ==
  ASSUME Typing, Sided, ~dirty
  PROVE  /\ Len(committed) = Len(Active) /\ Len(Active) \in 1 .. Len(routes)
         /\ committed = Screens(Active)
         /\ \A i \in 1 .. Len(committed) :
              i \in 1 .. Len(routes) /\ committed[i] = routes[i].mount
<1>1. committed = Screens(Active)
  BY DEF Sided, ToldLast
<1>2. /\ Len(committed) = Len(Active) /\ Len(Active) \in 1 .. Len(routes)
      /\ \A i \in 1 .. Len(Active) : committed[i] = routes[i].mount
  BY <1>1, ActiveScreens
<1>3. \A i \in 1 .. Len(committed) : i \in 1 .. Len(routes)
  BY <1>2, Numbers
<1> QED
  BY <1>1, <1>2, <1>3

\* The native side's own steps leave JavaScript alone.
LEMMA NativeStacked ==
  ASSUME Typing, Stacked, UNCHANGED jsVars, NativeTyped
  PROVE  Typing' /\ Stacked'
<1>1. Edited
  BY SameEdited DEF Stacked, jsVars
<1>2. JsTyped
  BY Numbers, TypedBefore DEF JsTyped, jsVars
<1>3. Typing'
  BY <1>1, <1>2, TypedBoth DEF Stacked
<1>4. Stacked'
  BY DEF Stacked, Unique, Unmarked, Accounted, jsVars
<1> QED
  BY <1>3, <1>4

LEMMA CommitStep ==
  ASSUME Typing, Stacked, Sided, Commit
  PROVE  Typing' /\ Stacked' /\ Sided'
<1>1. /\ dirty' = FALSE /\ committed' = Screens(Active) /\ navPending' = TRUE
      /\ controllers' \subseteq controllers
      /\ UNCHANGED <<jsVars, nav, previous, muted, backs, lost>>
  BY DEF Commit
<1>2. NativeTyped
  <2>1. dirty' \in BOOLEAN /\ navPending' \in BOOLEAN
    BY <1>1
  <2> QED
    BY <1>1, <2>1, TypedBefore, ActiveScreens DEF NativeTyped
<1>3. Typing' /\ Stacked'
  BY <1>1, <1>2, NativeStacked
<1>4. Active' = Active
  BY <1>1 DEF Active, jsVars
<1> QED
  BY <1>1, <1>3, <1>4 DEF Sided, ToldLast, NavPrefix, SwipesKnown

LEMMA ApplyNavigationStep ==
  ASSUME Typing, Stacked, Sided, ApplyNavigation
  PROVE  Typing' /\ Stacked' /\ Sided'
<1>1. /\ navPending' = FALSE /\ UNCHANGED <<jsVars, dirty, committed, backs>>
      /\ nav' = committed
      /\ \/ UNCHANGED <<nav, previous, controllers, muted, lost>>
         \/ previous' = committed /\ lost' = {}
  BY DEF ApplyNavigation
<1>2. \A S \in {committed, nav} : ToSet(S) \subseteq 1 .. MaxMounts
  BY NativeLists DEF ToSet
<1>3. controllers' \subseteq 1 .. MaxMounts /\ muted' \subseteq 1 .. MaxMounts
  BY <1>2, TypedBefore DEF ApplyNavigation
<1>4. NativeTyped
  <2>1. dirty' \in BOOLEAN /\ navPending' \in BOOLEAN
    BY <1>1, TypedBefore
  <2> QED
    BY <1>1, <1>3, <2>1, TypedBefore DEF NativeTyped
<1>5. Typing' /\ Stacked'
  BY <1>1, <1>4, NativeStacked
<1>6. Active' = Active
  BY <1>1 DEF Active, jsVars
<1>7. NavPrefix'
  <2>1. Len(committed) \in Nat
    BY NativeLists
  <2> QED
    BY <1>1, <2>1 DEF Sided, NavPrefix
<1>8. SwipesKnown'
  <2>1. ~dirty => Len(committed) \in Nat /\ Len(committed) \in 1 .. Len(committed)
    BY Told, NativeLists
  <2> QED
    BY <1>1, <2>1 DEF SwipesKnown
<1> QED
  BY <1>1, <1>5, <1>6, <1>7, <1>8 DEF Sided, ToldLast

\* The beginning of a list.
LEMMA Beginning ==
  ASSUME NEW X, NEW s \in Seq(X), NEW n \in 1 .. Len(s)
  PROVE  /\ SubSeq(s, 1, n) \in Seq(X) /\ Len(SubSeq(s, 1, n)) = n
         /\ \A i \in 1 .. n : SubSeq(s, 1, n)[i] = s[i]
<1> DEFINE t == SubSeq(s, 1, n)
<1>1. n \in Nat \ {0} /\ n \in Int /\ 1 \in Int /\ Len(s) \in Nat
  BY LenProperties
<1>2. \A i \in 1 .. n : s[i] \in X
  BY <1>1, ElementOfSeq
<1>3. /\ t \in Seq(X) /\ Len(t) = (IF 1 <= n THEN n - 1 + 1 ELSE 0)
      /\ \A i \in 1 .. n - 1 + 1 : t[i] = s[1 + i - 1]
  BY <1>1, <1>2, SubSeqProperties
<1>4. n - 1 + 1 = n /\ \A i \in 1 .. n : 1 + i - 1 = i
  BY <1>1
<1> QED
  BY <1>1, <1>3, <1>4

\* The rest of it.
LEMMA Rest ==
  ASSUME NEW X, NEW s \in Seq(X), NEW m \in 0 .. Len(s)
  PROVE  /\ SubSeq(s, m + 1, Len(s)) \in Seq(X)
         /\ DOMAIN SubSeq(s, m + 1, Len(s)) = 1 .. Len(SubSeq(s, m + 1, Len(s)))
         /\ ToSet(SubSeq(s, m + 1, Len(s))) \subseteq X
         /\ \A k \in 1 .. Len(s) : k > m => s[k] \in ToSet(SubSeq(s, m + 1, Len(s)))
<1> DEFINE t == SubSeq(s, m + 1, Len(s))
<1>1. m \in Nat /\ m + 1 \in Int /\ Len(s) \in Int /\ Len(s) \in Nat
  BY LenProperties
<1>2. \A i \in m + 1 .. Len(s) : s[i] \in X
  BY <1>1, ElementOfSeq
<1>3. /\ t \in Seq(X)
      /\ Len(t) = (IF m + 1 <= Len(s) THEN Len(s) - (m + 1) + 1 ELSE 0)
      /\ \A i \in 1 .. Len(s) - (m + 1) + 1 : t[i] = s[(m + 1) + i - 1]
  BY <1>1, <1>2, SubSeqProperties
<1> HIDE DEF t
<1>4. DOMAIN t = 1 .. Len(t) /\ Len(t) \in Nat /\ \A i \in 1 .. Len(t) : t[i] \in X
  BY <1>3, LenProperties, ElementOfSeq
<1>5. ASSUME NEW k \in 1 .. Len(s), k > m
      PROVE  s[k] \in ToSet(t)
  <2>1. /\ k - m \in 1 .. Len(s) - (m + 1) + 1 /\ k - m \in 1 .. Len(t)
        /\ (m + 1) + (k - m) - 1 = k
    BY <1>1, <1>3, <1>5
  <2>2. t[k - m] = s[k]
    BY <1>3, <2>1
  <2> QED
    BY <1>4, <2>1, <2>2 DEF ToSet
<1>6. ToSet(t) \subseteq X
  BY <1>4 DEF ToSet
<1> QED
  BY <1>3, <1>4, <1>5, <1>6 DEF t

LEMMA UserPopStep ==
  ASSUME Typing, Stacked, Sided, NEW n \in 1 .. MaxMounts, UserPop(n)
  PROVE  Typing' /\ Stacked' /\ Sided'
<1>1. /\ nav = previous /\ nav' = SubSeq(nav, 1, n)
      /\ UNCHANGED <<jsVars, dirty, committed, navPending, controllers, previous, muted,
                     backs, lost>>
  BY DEF UserPop
<1>2. nav \in Seq(1 .. MaxMounts) /\ Len(nav) \in Nat
      /\ \A i \in 1 .. Len(nav) : nav[i] \in ToSet(nav)
  BY NativeLists
<1>3. n \in 1 .. Len(nav) /\ n <= Len(nav)
  BY <1>2 DEF UserPop
<1>4. /\ nav' \in Seq(1 .. MaxMounts) /\ Len(nav') = n
      /\ \A i \in 1 .. n : nav'[i] = nav[i]
  <2> DEFINE t == SubSeq(nav, 1, n)
  <2>1. t \in Seq(1 .. MaxMounts) /\ Len(t) = n /\ \A i \in 1 .. n : t[i] = nav[i]
    BY <1>2, <1>3, Beginning
  <2> QED
    BY <1>1, <2>1
<1>5. NativeTyped
  BY <1>1, <1>4, TypedBefore DEF NativeTyped
<1>6. Typing' /\ Stacked'
  BY <1>1, <1>5, NativeStacked
<1>7. Active' = Active
  BY <1>1 DEF Active, jsVars
<1>8. NavPrefix'
  BY <1>1, <1>3, <1>4 DEF NavPrefix
<1>9. ASSUME ~dirty, ~navPending
      PROVE  /\ n \in 1 .. Len(committed)
             /\ \A i \in 1 .. n : nav'[i] = committed[i]
             /\ \A i \in 1 .. Len(committed) :
                  i > n => committed[i] \in lost \cup ToSet(previous) \cup ToSet(backs)
  <2>1. /\ Len(nav) \in 1 .. Len(committed)
        /\ \A i \in 1 .. Len(nav) : nav[i] = committed[i]
        /\ \A i \in 1 .. Len(committed) :
             i > Len(nav) => committed[i] \in lost \cup ToSet(previous) \cup ToSet(backs)
    BY <1>9 DEF Sided, SwipesKnown
  <2>2. Len(committed) \in Nat
    BY NativeLists
  <2>3. n \in 1 .. Len(committed) /\ \A i \in 1 .. n : nav'[i] = committed[i]
    BY <1>2, <1>3, <1>4, <2>1, <2>2
  <2>4. ASSUME NEW i \in 1 .. Len(committed), i > n
        PROVE  committed[i] \in lost \cup ToSet(previous) \cup ToSet(backs)
    <3>1. CASE i <= Len(nav)
      BY <1>1, <1>2, <2>1, <3>1
    <3>2. CASE ~(i <= Len(nav))
      BY <1>2, <2>1, <2>2, <3>2
    <3> QED
      BY <3>1, <3>2
  <2> QED
    BY <2>3, <2>4
<1> QED
  BY <1>1, <1>4, <1>6, <1>7, <1>8, <1>9 DEF Sided, ToldLast, SwipesKnown

\* An event is taken.
LEMMA Shorter ==
  ASSUME NEW S, NEW s \in Seq(S), s # <<>>
  PROVE  Tail(s) # s
<1>1. Len(Tail(s)) = Len(s) - 1
  BY HeadTailProperties
<1>2. Len(s) \in Nat /\ Len(s) # Len(s) - 1
  BY LenProperties
<1> QED
  BY <1>1, <1>2, Zenon

\* An event is sent.
LEMMA Reported ==
  ASSUME Typing, NEW m \in 1 .. MaxMounts
  PROVE  /\ Append(backs, m) \in Seq(1 .. MaxMounts)
         /\ ToSet(Append(backs, m)) = ToSet(backs) \cup {m}
<1> DEFINE X == 1 .. MaxMounts
<1>1. backs \in Seq(X) /\ m \in X
  BY NativeLists
<1> HIDE DEF X
<1>2. Append(backs, m) \in Seq(X) /\ ToSet(Append(backs, m)) = ToSet(backs) \cup {m}
  BY <1>1, AppendElements
<1> QED
  BY <1>2 DEF X

\* The end of the transition: every screen that was popped is known to be lost
\* now, or its event is on its way.
LEMMA DidShowStep ==
  ASSUME Typing, Stacked, Sided, DidShow
  PROVE  Typing' /\ Stacked' /\ Sided'
<1> DEFINE popped == SubSeq(previous, Len(nav) + 1, Len(previous))
<1>1. /\ previous' = nav /\ muted' \subseteq muted
      /\ UNCHANGED <<jsVars, dirty, committed, navPending, controllers, nav>>
  BY DEF DidShow
<1>2. \/ UNCHANGED backs /\ lost' = lost \cup ToSet(popped)
      \/ \E i \in DOMAIN popped :
           /\ backs' = Append(backs, popped[i])
           /\ lost' = lost \cup (ToSet(popped) \ {popped[i]})
  BY DEF DidShow
<1>3. /\ nav \in Seq(1 .. MaxMounts) /\ Len(nav) \in Nat
      /\ previous \in Seq(1 .. MaxMounts) /\ Len(previous) \in Nat
      /\ backs \in Seq(1 .. MaxMounts)
      /\ DOMAIN previous = 1 .. Len(previous) /\ \A i \in 1 .. Len(nav) : nav[i] \in ToSet(nav)
  BY NativeLists
<1>4. Len(nav) \in 0 .. Len(previous) /\ \A i \in 1 .. Len(nav) : nav[i] = previous[i]
  BY <1>3 DEF Sided, NavPrefix
<1>5. /\ popped \in Seq(1 .. MaxMounts) /\ ToSet(popped) \subseteq 1 .. MaxMounts
      /\ \A k \in 1 .. Len(previous) : k > Len(nav) => previous[k] \in ToSet(popped)
  BY <1>3, <1>4, Rest
<1> HIDE DEF popped
<1>6. ToSet(previous) \subseteq ToSet(nav) \cup ToSet(popped)
  <2>1. ASSUME NEW k \in 1 .. Len(previous)
        PROVE  previous[k] \in ToSet(nav) \cup ToSet(popped)
    <3>1. CASE k > Len(nav)
      BY <1>5, <3>1
    <3>2. CASE k \in 1 .. Len(nav)
      BY <1>3, <1>4, <3>2
    <3>3. k > Len(nav) \/ k \in 1 .. Len(nav)
      BY <1>3
    <3> QED
      BY <3>1, <3>2, <3>3
  <2> QED
    BY <1>3, <2>1 DEF ToSet
<1>7. /\ lost' \subseteq 1 .. MaxMounts /\ backs' \in Seq(1 .. MaxMounts)
      /\ lost \cup ToSet(popped) \cup ToSet(backs) \subseteq lost' \cup ToSet(backs')
  <2>1. CASE UNCHANGED backs /\ lost' = lost \cup ToSet(popped)
    BY <1>3, <1>5, <2>1, TypedBefore
  <2>2. CASE \E i \in DOMAIN popped :
               /\ backs' = Append(backs, popped[i])
               /\ lost' = lost \cup (ToSet(popped) \ {popped[i]})
    <3>1. PICK i \in DOMAIN popped :
            /\ backs' = Append(backs, popped[i])
            /\ lost' = lost \cup (ToSet(popped) \ {popped[i]})
      BY <2>2
    <3>2. popped[i] \in 1 .. MaxMounts
      BY <1>5 DEF ToSet
    <3>3. backs' \in Seq(1 .. MaxMounts) /\ ToSet(backs') = ToSet(backs) \cup {popped[i]}
      <4>1. ToSet(Append(backs, popped[i])) = ToSet(backs) \cup {popped[i]}
            /\ Append(backs, popped[i]) \in Seq(1 .. MaxMounts)
        BY <3>2, Reported
      <4> QED
        BY <3>1, <4>1
    <3> QED
      BY <1>5, <3>1, <3>3, TypedBefore
  <2> QED
    BY <1>2, <2>1, <2>2
<1>8. NativeTyped
  BY <1>1, <1>7, TypedBefore DEF NativeTyped
<1>9. Typing' /\ Stacked'
  BY <1>1, <1>8, NativeStacked
<1>10. Active' = Active
  BY <1>1 DEF Active, jsVars
<1>11. NavPrefix'
  BY <1>1, <1>3 DEF NavPrefix
<1>12. ASSUME ~dirty, ~navPending, NEW i \in 1 .. Len(committed), i > Len(nav)
       PROVE  committed[i] \in lost' \cup ToSet(previous') \cup ToSet(backs')
  <2>1. committed[i] \in lost \cup ToSet(previous) \cup ToSet(backs)
    BY <1>12 DEF Sided, SwipesKnown
  <2> QED
    BY <1>1, <1>6, <1>7, <2>1
<1> QED
  BY <1>1, <1>9, <1>10, <1>11, <1>12 DEF Sided, ToldLast, SwipesKnown

\* An event is handled: when its route is marked its screen counts as lost, and
\* when it is not, popping it makes the navigator tell native code again.
LEMMA HandleBackStep ==
  ASSUME Typing, Stacked, Sided, FocusExists, HandleBack
  PROVE  Typing' /\ Stacked' /\ Sided'
<1> DEFINE m == Head(backs)
           from == {r \in ToSet(routes) : r.mount = m}
<1>1. backs # <<>> /\ backs' = Tail(backs) /\ UNCHANGED nativeVars
  BY DEF HandleBack
<1>2. /\ m \in 1 .. MaxMounts /\ backs' \in Seq(1 .. MaxMounts)
      /\ ToSet(backs) \subseteq ToSet(backs') \cup {m}
  <2>1. backs \in Seq(1 .. MaxMounts)
    BY NativeLists
  <2> QED
    BY <1>1, <2>1, TailElements
<1>3. \A i \in 1 .. Len(routes) : routes[i] \in from <=> routes[i].mount = m
  BY Numbers DEF ToSet
<1>4. \A r \in from : \E i \in 1 .. Len(routes) : r = routes[i] /\ r.mount = m
  BY Numbers DEF ToSet
<1>5. \/ from = {} /\ UNCHANGED <<jsVars, dirty, lost>>
      \/ \E r \in from :
           /\ r.key \in suppressed /\ suppressed' = suppressed \ {r.key}
           /\ heard' = heard \cup {r.mount}
           /\ lost' = lost \cup ({r.mount} \cap ToSet(Screens(Active)))
           /\ UNCHANGED <<routes, index, timers, mounts, jumped, brought, dirty>>
      \/ \E r \in from :
           /\ r.key \notin suppressed /\ PopBy(1)
           /\ heard' = heard \cup {r.mount} /\ UNCHANGED lost
  BY DEF HandleBack
<1> HIDE DEF from, m
<1>6. NavPrefix'
  BY <1>1 DEF Sided, NavPrefix, nativeVars
<1>7. ASSUME ~dirty, ~navPending, NEW i \in 1 .. Len(committed), i > Len(nav)
      PROVE  /\ committed[i] \in lost \cup ToSet(previous) \cup ToSet(backs') \cup {m}
             /\ i \in 1 .. Len(routes) /\ committed[i] = routes[i].mount /\ i > 1
             /\ committed[i] \in ToSet(Screens(Active)) /\ i <= Len(Active)
  <2>1. /\ committed[i] \in lost \cup ToSet(previous) \cup ToSet(backs)
        /\ Len(nav) \in 1 .. Len(committed)
    BY <1>7 DEF Sided, SwipesKnown
  <2>2. /\ i \in 1 .. Len(routes) /\ committed[i] = routes[i].mount
        /\ Len(committed) = Len(Active) /\ committed = Screens(Active)
    BY <1>7, Told
  <2>3. committed[i] \in ToSet(Screens(Active)) /\ Len(committed) \in Nat
    BY <2>2, NativeLists
  <2>4. i > 1 /\ i <= Len(Active)
    BY <1>7, <2>1, <2>2, <2>3
  <2> QED
    BY <1>2, <2>1, <2>2, <2>3, <2>4
<1>8. CASE from = {} /\ UNCHANGED <<jsVars, dirty, lost>>
  <2>1. NativeTyped
    BY <1>1, <1>2, <1>8, TypedBefore DEF NativeTyped, nativeVars
  <2>2. Typing' /\ Stacked'
    BY <1>8, <2>1, NativeStacked
  <2>3. Active' = Active
    BY <1>8 DEF Active, jsVars
  <2>4. ASSUME ~dirty, ~navPending, NEW i \in 1 .. Len(committed), i > Len(nav)
        PROVE  committed[i] \in lost \cup ToSet(previous) \cup ToSet(backs')
    <3>1. committed[i] # m
      BY <1>3, <1>7, <1>8, <2>4
    <3> QED
      BY <1>7, <2>4, <3>1
  <2>5. SwipesKnown'
    BY <1>1, <1>8, <2>4 DEF Sided, SwipesKnown, nativeVars
  <2> QED
    BY <1>1, <1>6, <1>8, <2>2, <2>3, <2>5 DEF Sided, ToldLast, nativeVars
<1>9. CASE \E r \in from :
             /\ r.key \in suppressed /\ suppressed' = suppressed \ {r.key}
             /\ heard' = heard \cup {r.mount}
             /\ lost' = lost \cup ({r.mount} \cap ToSet(Screens(Active)))
             /\ UNCHANGED <<routes, index, timers, mounts, jumped, brought, dirty>>
  <2>1. PICK j \in 1 .. Len(routes) :
          /\ routes[j].mount = m /\ suppressed' = suppressed \ {routes[j].key}
          /\ heard' = heard \cup {m}
          /\ lost' = lost \cup ({m} \cap ToSet(Screens(Active)))
          /\ UNCHANGED <<routes, index, timers, mounts, jumped, brought, dirty>>
    BY <1>4, <1>9
  <2>2. NativeTyped
    BY <1>1, <1>2, <2>1, TypedBefore DEF NativeTyped, nativeVars
  <2>3. JsTyped
    <3>1. suppressed' \subseteq 1 .. mounts /\ heard' \subseteq 1 .. MaxMounts
      BY <1>2, <2>1, Numbers, TypedBefore
    <3> QED
      BY <2>1, <3>1, Numbers, TypedBefore DEF JsTyped
  <2>4. Typing' /\ Unique'
    BY <2>1, <2>2, <2>3, SameEdited, TypedBoth DEF Stacked, Unique
  <2>5. Unmarked'
    BY <2>1 DEF Stacked, Unmarked
  <2>6. Accounted'
    <3>1. ASSUME NEW i \in 1 .. Len(routes), i > index
          PROVE  routes[i].key \in suppressed' \cup jumped \/ routes[i].mount \in heard'
      <4>1. CASE routes[i].key = routes[j].key
        BY <2>1, <4>1 DEF Stacked, Unique
      <4>2. CASE routes[i].key # routes[j].key
        BY <2>1, <3>1, <4>2 DEF Stacked, Accounted
      <4> QED
        BY <4>1, <4>2
    <3> QED
      BY <2>1, <3>1 DEF Accounted
  <2>7. Active' = Active
    BY <2>1 DEF Active
  <2>8. ASSUME ~dirty, ~navPending, NEW i \in 1 .. Len(committed), i > Len(nav)
        PROVE  committed[i] \in lost' \cup ToSet(previous) \cup ToSet(backs')
    BY <1>7, <2>1, <2>8
  <2>9. SwipesKnown'
    BY <1>1, <2>1, <2>8 DEF Sided, SwipesKnown, nativeVars
  <2> QED
    BY <1>1, <1>6, <2>1, <2>4, <2>5, <2>6, <2>7, <2>9
       DEF Sided, Stacked, ToldLast, nativeVars
<1>10. CASE \E r \in from : /\ r.key \notin suppressed /\ PopBy(1)
                            /\ heard' = heard \cup {r.mount} /\ UNCHANGED lost
  <2>1. PICK j \in 1 .. Len(routes) : /\ routes[j].mount = m /\ PopBy(1)
                                      /\ heard' = heard \cup {m} /\ UNCHANGED lost
    BY <1>4, <1>10
  <2>2. Changed /\ index' = Lower(1) /\ routes' = routes
    BY <2>1 DEF PopBy
  <2>3. NativeTyped
    <3>1. dirty' \in BOOLEAN
      BY <2>2, Zenon DEF Changed
    <3> QED
      BY <1>1, <1>2, <2>1, <3>1, TypedBefore DEF NativeTyped, nativeVars
  <2>4. Typing' /\ Stacked'
    <3>1. heard \subseteq heard' /\ heard' \subseteq 1 .. MaxMounts /\ 1 \in Nat \ {0}
      BY <1>2, <2>1, TypedBefore
    <3> QED
      BY <2>1, <2>3, <3>1, PopByStacked
  <2>5. ~dirty' => ~dirty /\ Active' = Active
    BY <2>2 DEF Changed
  <2>6. index > 1 => Active' # Active
    <3>1. ASSUME index > 1 PROVE Active' # Active
      <4>1. index' \in 1 .. Len(routes) /\ index' < index
        BY <2>2, <3>1, ShownFocused, Numbers DEF Lower
      <4>2. Active' = SubSeq(routes, 1, IF index' < Len(routes) THEN index' ELSE Len(routes))
        BY <2>2 DEF Active
      <4>3. Len(Active') = (IF index' < Len(routes) THEN index' ELSE Len(routes))
        <5>1. routes \in Seq(Route) /\ routes # <<>> /\ index' \in Nat \ {0}
          BY <4>1, Numbers
        <5> QED
          BY <4>2, <5>1, ActivePart
      <4>4. Len(Active) = index
        BY ShownFocused
      <4> QED
        BY <4>1, <4>3, <4>4, Numbers
    <3> QED
      BY <3>1
  <2>7. ASSUME ~dirty', ~navPending, NEW i \in 1 .. Len(committed), i > Len(nav)
        PROVE  committed[i] \in lost \cup ToSet(previous) \cup ToSet(backs')
    <3>1. ~dirty /\ ~(index > 1)
      BY <2>5, <2>6, <2>7
    <3>2. i > 1 /\ i <= Len(Active) /\ Len(Active) = index
      BY <1>7, <2>7, <3>1, ShownFocused
    <3> QED
      BY <3>1, <3>2, Numbers
  <2>8. SwipesKnown'
    BY <1>1, <2>1, <2>5, <2>7 DEF Sided, SwipesKnown, nativeVars
  <2>9. ToldLast'
    <3>1. ~dirty' => Screens(Active)' = Screens(Active)
      BY <2>5
    <3> QED
      BY <1>1, <2>5, <3>1 DEF Sided, ToldLast, nativeVars
  <2> QED
    BY <1>6, <2>4, <2>8, <2>9 DEF Sided
<1> QED
  BY <1>5, <1>8, <1>9, <1>10

-----------------------------------------------------------------------------
(* The theorems. *)

Inv == Typing /\ Stacked /\ Sided

LEMMA InvInit == Init => Inv
<1> SUFFICES ASSUME Init PROVE Inv
  OBVIOUS
<1> DEFINE r == [key |-> 1, name |-> Home, mount |-> 1]
<1>1. routes = <<r>> /\ r \in Route /\ r.key = 1 /\ r.mount = 1 /\ mounts = 1 /\ index = 1
  BY StackAssumption DEF Init, Route
<1>2. 1 \in 1 .. MaxMounts
  BY StackAssumption
<1> HIDE DEF r
<1>3. routes \in Seq(Route) /\ routes # <<>> /\ Len(routes) = 1 /\ routes[1] = r
  BY <1>1
<1>4. Numbered /\ Unique /\ Unmarked /\ Accounted
  BY <1>1, <1>3 DEF Init, Numbered, Unique, Unmarked, Accounted
<1>5. {dirty, navPending} \subseteq BOOLEAN
  BY Zenon DEF Init
<1>6. /\ index \in 1 .. MaxMounts /\ mounts \in 1 .. MaxMounts
      /\ {suppressed, jumped, brought, heard, controllers, muted, lost}
           \subseteq SUBSET (1 .. MaxMounts)
      /\ timers \in Seq({"trim", "top"})
      /\ {committed, nav, previous, backs} \subseteq Seq(1 .. MaxMounts)
  BY <1>2, EmptySeq DEF Init
<1>7. Typing
  BY <1>3, <1>4, <1>5, <1>6 DEF Typing, TypeOK
<1>8. Sided
  BY EmptySeq DEF Init, Sided, ToldLast, NavPrefix, SwipesKnown
<1> QED
  BY <1>4, <1>7, <1>8 DEF Inv, Stacked

LEMMA InvStep == Inv /\ [Next]_vars => Inv'
<1> SUFFICES ASSUME Typing, Stacked, Sided, [Next]_vars
             PROVE  Typing' /\ Stacked' /\ Sided'
  BY DEF Inv
<1>1. CASE UNCHANGED vars
  BY <1>1 DEF Typing, TypeOK, Numbered, Stacked, Unique, Unmarked, Accounted, Sided,
              ToldLast, NavPrefix, SwipesKnown, Active, vars, jsVars, nativeVars
<1>2. CASE Next
  <2>1. FocusExists
    BY <1>2 DEF Next
  <2>2. CASE \E n \in Name : Push(n)
    BY <2>1, <2>2, PushStacked, AsideSided
  <2>3. CASE \E n \in Name : Navigate(n)
    BY <2>1, <2>3, NavigateStacked, AsideSided
  <2>4. CASE \E n \in Name : Replace(n)
    BY <2>1, <2>4, ReplaceStacked, AsideSided
  <2>5. CASE \E n, m \in Name : Reset(n, m)
    BY <2>1, <2>5, ResetStacked, AsideSided
  <2>6. CASE \E c \in 1 .. 2 : Pop(c)
    <3>1. PICK c \in 1 .. 2 : Pop(c)
      BY <2>6
    <3>2. /\ PopBy(c) /\ Aside /\ c \in Nat \ {0}
          /\ heard \subseteq heard' /\ heard' \subseteq 1 .. MaxMounts
      BY <3>1, TypedBefore DEF Pop, PopBy, Aside
    <3> QED
      BY <2>1, <3>2, AsideTyped, PopByStacked, AsideSided
  <2>7. CASE PopToTop
    BY <2>1, <2>7, PopToTopStacked, AsideSided
  <2>8. CASE RemovePopped
    BY <2>1, <2>8, RemovePoppedStacked, AsideSided
  <2>9. CASE SetParams
    BY <2>1, <2>9, SetParamsStacked, AsideSided
  <2>10. CASE HandleBack
    BY <2>1, <2>10, HandleBackStep
  <2>11. CASE Commit
    BY <2>11, CommitStep
  <2>12. CASE ApplyNavigation
    BY <2>12, ApplyNavigationStep
  <2>13. CASE DidShow
    BY <2>13, DidShowStep
  <2>14. CASE \E n \in 1 .. MaxMounts : UserPop(n)
    BY <2>14, UserPopStep
  <2> QED
    BY <1>2, <2>2, <2>3, <2>4, <2>5, <2>6, <2>7, <2>8, <2>9, <2>10, <2>11, <2>12, <2>13,
       <2>14 DEF Next
<1> QED
  BY <1>1, <1>2

LEMMA InvHolds == Spec => []Inv
  BY InvInit, InvStep, PTL DEF Spec

\* Where the active routes are.
LEMMA Elements ==
  ASSUME NEW s, NEW n, NEW t, DOMAIN s = 1 .. n, \A i \in 1 .. n : s[i] = t[i]
  PROVE  \A r \in ToSet(s) : \E i \in 1 .. n : r = t[i]
  BY DEF ToSet

LEMMA ActiveRoutes ==
  ASSUME Typing
  PROVE  \A r \in ToSet(Active) : \E i \in 1 .. Len(routes) : i <= index /\ r = routes[i]
<1> DEFINE n == Len(Active)
<1>1. DOMAIN Active = 1 .. n /\ \A i \in 1 .. n : Active[i] = routes[i]
  BY Shown
<1>2. \A r \in ToSet(Active) : \E i \in 1 .. n : r = routes[i]
  BY <1>1, Elements
<1>3. n = (IF index < Len(routes) THEN index ELSE Len(routes))
  BY Shown
<1>4. index \in Nat /\ Len(routes) \in Nat
  BY Numbers
<1> HIDE DEF n
<1>5. \A i \in 1 .. n : i \in 1 .. Len(routes) /\ i <= index
  BY <1>3, <1>4
<1> QED
  BY <1>2, <1>5

\* Every variable keeps its type: the stack never runs empty (Stack.tsx,
\* helpers), and index is a position in a list of that length.
THEOREM TypesHold == Spec => []TypeOK
<1>1. Inv => TypeOK
  BY DEF Inv, Typing
<1> QED
  BY <1>1, InvHolds, PTL

\* Nothing but the timer of popToTop takes the focused route away, and it does so
\* only when the app went forward while it ran (Stack.tsx, pop and popToTop).
THEOREM FocusKeptHolds == Spec => FocusKept
<1>1. ASSUME Inv, Inv', [Next]_vars
      PROVE  [FocusExists' \/ (timers # <<>> /\ Head(timers) = "top"
                               /\ timers' = Tail(timers) /\ index > 1)]_vars
  <2> SUFFICES ASSUME Next
               PROVE  \/ index' <= Len(routes')
                      \/ /\ timers # <<>> /\ Head(timers) = "top"
                         /\ timers' = Tail(timers) /\ index > 1
    BY <1>1 DEF FocusExists
  <2>1. /\ Typing /\ FocusExists /\ Len(routes) \in Nat \ {0}
        /\ index \in 1 .. Len(routes) /\ index \in Nat \ {0}
    BY <1>1, ShownFocused, Numbers DEF Inv, Next
  <2>2. CASE UNCHANGED <<index, routes>>
    BY <2>1, <2>2 DEF FocusExists
  <2>3. CASE \E n \in Name : Push(n)
    <3>1. PICK n \in Name : index' = Len(Append(Active, New(n, 1)))
                            /\ routes' = Append(Active, New(n, 1))
      BY <2>3 DEF Push, Render
    <3>2. Len(routes') \in Nat
      BY <1>1 DEF Inv, Typing, TypeOK
    <3> QED
      BY <3>1, <3>2
  <2>4. CASE \E n \in Name : Navigate(n)
    <3>1. PICK i \in DOMAIN routes :
            index' = i /\ routes' = [routes EXCEPT ![i].mount = mounts + 1]
      BY <2>4 DEF Navigate
    <3>2. DOMAIN routes' = DOMAIN routes /\ routes' \in Seq(Route)
      BY <1>1, <3>1 DEF Inv, Typing, TypeOK
    <3>3. DOMAIN routes' = 1 .. Len(routes') /\ i \in DOMAIN routes'
      BY <3>1, <3>2, LenProperties
    <3> QED
      BY <3>1, <3>3
  <2>5. CASE \E n \in Name : Replace(n)
    <3>1. PICK n \in Name : index' = index /\ routes' = [routes EXCEPT ![index] = New(n, 1)]
      BY <2>5 DEF Replace, Render
    <3>2. DOMAIN routes' = DOMAIN routes /\ routes' \in Seq(Route)
      BY <1>1, <3>1 DEF Inv, Typing, TypeOK
    <3>3. DOMAIN routes' = 1 .. Len(routes') /\ index \in DOMAIN routes'
      BY <2>1, <3>2, LenProperties, Numbers
    <3> QED
      BY <3>1, <3>3
  <2>6. CASE SetParams
    <3>1. index' = index /\ routes' = [routes EXCEPT ![index].mount = mounts + 1]
      BY <2>6 DEF SetParams, Render
    <3>2. DOMAIN routes' = DOMAIN routes /\ routes' \in Seq(Route)
      BY <1>1, <3>1 DEF Inv, Typing, TypeOK
    <3>3. DOMAIN routes' = 1 .. Len(routes') /\ index \in DOMAIN routes'
      BY <2>1, <3>2, LenProperties, Numbers
    <3> QED
      BY <3>1, <3>3
  <2>7. CASE \E n, m \in Name : Reset(n, m)
    BY <2>7 DEF Reset, Render
  <2>8. CASE RemovePopped
    <3>1. /\ timers # <<>> /\ timers' = Tail(timers) /\ index' = index
          /\ routes' = IF Head(timers) = "top" THEN <<routes[1]>> ELSE Active
      BY <2>8 DEF RemovePopped, Render
    <3>2. CASE Head(timers) = "top"
      BY <2>1, <3>1, <3>2
    <3>3. CASE Head(timers) # "top"
      BY <2>1, <3>1, <3>3, ShownFocused
    <3> QED
      BY <3>2, <3>3
  <2>9. CASE routes' = routes /\ index' \in {1, Lower(1), Lower(2)}
    BY <2>1, <2>9 DEF Lower
  <2>10. CASE \E c \in 1 .. 2 : Pop(c)
    BY <2>9, <2>10 DEF Pop, PopBy
  <2>11. CASE PopToTop
    BY <2>9, <2>11 DEF PopToTop
  <2>12. CASE HandleBack
    BY <2>2, <2>9, <2>12 DEF HandleBack, PopBy, jsVars
  <2>13. CASE Commit \/ ApplyNavigation \/ DidShow \/ \E n \in 1 .. MaxMounts : UserPop(n)
    BY <2>2, <2>13 DEF Commit, ApplyNavigation, DidShow, UserPop, jsVars
  <2> QED
    BY <2>3, <2>4, <2>5, <2>6, <2>7, <2>8, <2>10, <2>11, <2>12, <2>13 DEF Next
<1> QED
  BY <1>1, InvHolds, PTL DEF Spec, FocusKept

\* Keys are unique, and a route on the stack carries a mark only if navigate
\* brought it back while it waited for its removal: no other swipe of the user is
\* taken for a pop of JavaScript's own (Stack.tsx, suppressedNativeBackRouteKeys).
THEOREM MarkedAreGoneHolds == Spec => []MarkedAreGone
<1>1. ASSUME Inv PROVE MarkedAreGone
  <2>1. \A i, j \in DOMAIN routes : routes[i].key = routes[j].key => i = j
    BY <1>1, Numbers DEF Inv, Stacked, Unique
  <2>2. ASSUME NEW r \in ToSet(Active), r.key \in suppressed PROVE r.key \in brought
    <3>1. PICK i \in 1 .. Len(routes) : i <= index /\ r = routes[i]
      BY <1>1, <2>2, ActiveRoutes DEF Inv
    <3> QED
      BY <1>1, <2>2, <3>1 DEF Inv, Stacked, Unmarked
  <2> QED
    BY <2>1, <2>2 DEF MarkedAreGone, Keys
<1> QED
  BY <1>1, InvHolds, PTL

-----------------------------------------------------------------------------
(* The end of marks. *)

LEMMA RenderMarks ==
  ASSUME MarksEnd, NEW s, routes' = s, suppressed' = suppressed \ Forgotten(s)
  PROVE  suppressed' \subseteq suppressed \cap Keys(s)
<1>1. ASSUME NEW k \in suppressed, k \notin Forgotten(s) PROVE k \in Keys(s)
  <2>1. PICK r \in ToSet(routes) : k = r.key
    BY DEF MarksEnd, Keys
  <2>2. r \in ToSet(s)
    BY <1>1, <2>1 DEF Forgotten
  <2> QED
    BY <2>1, <2>2 DEF Keys
<1> QED
  BY <1>1

LEMMA RenderMarksEnd ==
  ASSUME MarksEnd, NEW s, Render(s), timers' = timers
  PROVE  MarksEnd'
<1>1. /\ routes' = s /\ suppressed' = suppressed \ Forgotten(s)
      /\ brought' = brought \cap Keys(s)
  BY DEF Render
<1>2. suppressed' \subseteq suppressed \cap Keys(s)
  BY <1>1, RenderMarks
<1>3. Keys(routes)' = Keys(s)
  BY <1>1 DEF Keys
<1> QED
  BY <1>1, <1>2, <1>3 DEF MarksEnd

\* A timer is started with every mark.
LEMMA PopMarksEnd ==
  ASSUME Typing, MarksEnd, NEW kind \in {"trim", "top"}, StartTimer(kind),
         UNCHANGED routes, NEW I, suppressed' = suppressed \cup KeysAt(I)
  PROVE  MarksEnd'
<1>1. timers' # <<>>
  BY TypedBefore, AppendProperties DEF StartTimer
<1>2. KeysAt(I) \subseteq Keys(routes)
  BY DEF KeysAt, Keys, ToSet
<1>3. Keys(routes)' = Keys(routes)
  BY DEF Keys
<1> QED
  BY <1>1, <1>2, <1>3 DEF MarksEnd

\* The timer leaves no route above the focused one.
LEMMA RemovedMarksEnd ==
  ASSUME Typing, Stacked, FocusExists, MarksEnd, RemovePopped
  PROVE  MarksEnd'
<1> DEFINE s == IF Head(timers) = "top" THEN <<routes[1]>> ELSE Active
<1>1. /\ Render(s) /\ routes' = s /\ suppressed' = suppressed \ Forgotten(s)
      /\ brought' = brought \cap Keys(s)
  BY DEF RemovePopped, Render
<1>2. ASSUME NEW r \in ToSet(s)
      PROVE  \E i \in 1 .. Len(routes) : i <= index /\ r = routes[i]
  <2>1. CASE Head(timers) = "top"
    <3>1. r = routes[1]
      BY <1>2, <2>1 DEF ToSet
    <3> QED
      BY <3>1, Numbers
  <2>2. CASE Head(timers) # "top"
    BY <1>2, <2>2, ActiveRoutes
  <2> QED
    BY <2>1, <2>2
<1> HIDE DEF s
<1>3. suppressed' \subseteq suppressed \cap Keys(s)
  BY <1>1, RenderMarks
<1>4. Keys(s) \cap suppressed \subseteq brought
  BY <1>2 DEF Keys, Stacked, Unmarked
<1>5. Keys(routes)' = Keys(s)
  BY <1>1 DEF Keys
<1> QED
  BY <1>1, <1>3, <1>4, <1>5 DEF MarksEnd

LEMMA MarksStep == Inv /\ MarksEnd /\ [Next]_vars => MarksEnd'
<1> SUFFICES ASSUME Typing, Stacked, MarksEnd, [Next]_vars PROVE MarksEnd'
  BY DEF Inv
<1>1. ASSUME UNCHANGED <<routes, brought, timers>>, suppressed' \subseteq suppressed
      PROVE  MarksEnd'
  BY <1>1 DEF MarksEnd, Keys
<1>2. ASSUME NEW c, PopBy(c) PROVE MarksEnd'
  BY <1>2, PopMarksEnd DEF PopBy
<1>3. CASE \E n \in Name : Push(n) \/ Replace(n)
  BY <1>3, RenderMarksEnd DEF Push, Replace
<1>4. CASE \E n \in Name : Navigate(n)
  <2>1. PICK s : /\ routes' = s /\ suppressed' = suppressed \ Forgotten(s)
                 /\ brought \subseteq brought' /\ timers' = timers
    BY <1>4 DEF Navigate
  <2>2. Keys(routes)' = Keys(s)
    BY <2>1 DEF Keys
  <2> QED
    BY <2>1, <2>2, RenderMarks DEF MarksEnd
<1>5. CASE \E n, m \in Name : Reset(n, m)
  BY <1>5, RenderMarksEnd DEF Reset
<1>6. CASE \E c \in 1 .. 2 : Pop(c)
  BY <1>2, <1>6 DEF Pop
<1>7. CASE PopToTop
  BY <1>7, PopMarksEnd DEF PopToTop
<1>8. CASE FocusExists /\ RemovePopped
  BY <1>8, RemovedMarksEnd
<1>9. CASE SetParams
  BY <1>9, RenderMarksEnd DEF SetParams
<1>10. CASE HandleBack
  BY <1>1, <1>2, <1>10 DEF HandleBack, jsVars
<1>11. CASE UNCHANGED jsVars
  BY <1>1, <1>11 DEF jsVars
<1>12. CASE Commit \/ ApplyNavigation \/ DidShow \/ \E n \in 1 .. MaxMounts : UserPop(n)
  BY <1>11, <1>12 DEF Commit, ApplyNavigation, DidShow, UserPop
<1>13. CASE UNCHANGED vars
  BY <1>11, <1>13 DEF vars
<1> QED
  BY <1>3, <1>4, <1>5, <1>6, <1>7, <1>8, <1>9, <1>10, <1>12, <1>13 DEF Next

\* Every mark has an end: its route is in the list and a timer that will remove
\* it runs, unless navigate brought the route back (Stack.tsx, the timers of pop
\* and popToTop, and the cleanup of a screen).
THEOREM MarksEndHolds == Spec => []MarksEnd
<1>1. Init => MarksEnd
  BY DEF Init, MarksEnd
<1> QED
  BY <1>1, InvHolds, MarksStep, PTL DEF Spec

\* When nothing is on its way, the controller shows the routes up to the focused
\* one but for the swipes that were never reported or left alone: no order of
\* swipes, commits, timers and updates leaves the two sides apart otherwise
\* (Stack.tsx; ZynthScreenContainerView and its controller).
THEOREM SidesAgreeHolds == Spec => []SidesAgree
<1>1. ASSUME Inv, Settled PROVE /\ Len(nav) \in 1 .. Len(Screens(Active))
                                /\ \A i \in DOMAIN Screens(Active) :
                                     IF i <= Len(nav) THEN nav[i] = Screens(Active)[i]
                                     ELSE Screens(Active)[i] \in lost
  <2>1. /\ ~dirty /\ ~navPending /\ nav = previous /\ backs = <<>>
        /\ Typing /\ Unique /\ Sided
    BY <1>1 DEF Settled, Inv, Stacked
  <2>2. /\ committed = Screens(Active) /\ DOMAIN Screens(Active) = 1 .. Len(committed)
        /\ \A i \in 1 .. Len(committed) :
             i \in 1 .. Len(routes) /\ committed[i] = routes[i].mount
    BY <2>1, Told, ActiveScreens
  <2>3. /\ Len(nav) \in 1 .. Len(committed)
        /\ \A i \in 1 .. Len(nav) : nav[i] = committed[i]
        /\ \A i \in 1 .. Len(committed) :
             i > Len(nav) => committed[i] \in lost \cup ToSet(previous) \cup ToSet(backs)
    BY <2>1 DEF Sided, SwipesKnown
  <2>4. /\ Len(nav) \in Nat /\ Len(committed) \in Nat /\ DOMAIN nav = 1 .. Len(nav)
        /\ ToSet(backs) = {}
    BY <2>1, NativeLists DEF ToSet
  <2>5. ASSUME NEW i \in 1 .. Len(committed), i > Len(nav)
        PROVE  committed[i] \in lost
    <3>1. ASSUME NEW j \in 1 .. Len(nav) PROVE committed[i] # nav[j]
      <4>1. j \in 1 .. Len(committed) /\ j # i
        BY <2>3, <2>4, <2>5
      <4> QED
        BY <2>1, <2>2, <2>3, <4>1 DEF Unique
    <3>2. committed[i] \notin ToSet(previous)
      BY <2>1, <2>4, <3>1 DEF ToSet
    <3> QED
      BY <2>3, <2>4, <2>5, <3>2
  <2>6. ASSUME NEW i \in 1 .. Len(committed), i <= Len(nav) PROVE nav[i] = committed[i]
    BY <2>3, <2>4, <2>6
  <2> QED
    BY <2>2, <2>3, <2>4, <2>5, <2>6
<1>2. Inv => SidesAgree
  BY <1>1 DEF SidesAgree
<1> QED
  BY <1>2, InvHolds, PTL

\* A swipe pops once: its event pops nothing when JavaScript has popped its route
\* already, unless navigate left that route behind or a late update showed its
\* screen a second time (Stack.tsx, handleNativeBack).
THEOREM NoDoublePopHolds == Spec => NoDoublePop
<1>1. ASSUME Inv, Next, NEW r \in ToSet(routes), backs # <<>>, backs' = Tail(backs),
             r.mount = Head(backs), index' < index
      PROVE  r \in ToSet(Active) \/ r.key \in jumped \/ r.mount \in heard
  <2>1. /\ Typing /\ Unique /\ Accounted /\ FocusExists
    BY <1>1 DEF Inv, Stacked, Next
  <2>2. HandleBack
    <3>1. backs \in Seq(1 .. MaxMounts)
      BY <2>1, NativeLists
    <3>3. backs' # backs
      BY <1>1, <3>1, Shorter
    <3>4. index \in Nat
      BY <2>1, Numbers
    <3>5. ~DidShow /\ ~(index' = index)
      BY <1>1, <3>4 DEF DidShow, jsVars
    <3> QED
      BY <1>1, <3>3, <3>5 DEF Next, Push, Navigate, Replace, Reset, Pop, PopToTop,
         RemovePopped, SetParams, Commit, ApplyNavigation, UserPop, Render
  <2>3. PICK q \in ToSet(routes) : q.mount = Head(backs) /\ q.key \notin suppressed
    <3>1. index \in Nat
      BY <2>1, Numbers
    <3> QED
      BY <1>1, <2>2, <3>1 DEF HandleBack, jsVars
  <2>4. PICK i \in 1 .. Len(routes) : r = routes[i]
    BY <2>1, Numbers DEF ToSet
  <2>5. PICK j \in 1 .. Len(routes) : q = routes[j]
    BY <2>1, Numbers DEF ToSet
  <2>6. i = j
    BY <1>1, <2>1, <2>3, <2>4, <2>5 DEF Unique
  <2>7. CASE i <= index
    <3>1. i \in DOMAIN Active /\ Active[i] = r
      BY <2>1, <2>4, <2>7, ShownFocused, Numbers
    <3> QED
      BY <3>1 DEF ToSet
  <2>8. CASE i > index
    BY <2>1, <2>3, <2>4, <2>5, <2>6, <2>8 DEF Accounted
  <2> QED
    BY <2>1, <2>7, <2>8, Numbers
<1>2. Inv /\ [Next]_vars =>
        [\A r \in ToSet(routes) :
           /\ backs # <<>> /\ backs' = Tail(backs) /\ r.mount = Head(backs)
           /\ index' < index
           => r \in ToSet(Active) \/ r.key \in jumped \/ r.mount \in heard]_vars
  BY <1>1
<1> QED
  BY <1>2, InvHolds, PTL DEF Spec, NoDoublePop
=============================================================================
