----------------------------- MODULE ScreenStack -----------------------------
(***************************************************************************)
(* A stack navigator (zynth-router, navigators/Stack.tsx) over the native  *)
(* navigation controller of iOS (zynth-screens, ios/src).  JavaScript owns *)
(* the list of routes and the index of the focused one.  A pop only lowers *)
(* the index, so that the exit animation has something to show, and leaves *)
(* the removal of the routes to a timer.  The screens are told natively in *)
(* a later commit, which the container applies to the controller in a      *)
(* later turn of the main loop.  The user may pop screens natively at any  *)
(* moment: the controller is changed at once, and when the transition has  *)
(* ended JavaScript is told by an event, unless the controller is one that *)
(* a program popped before.  Sequences count from 1, so does index.        *)
(***************************************************************************)
EXTENDS Naturals, Sequences, SequencesExt, FiniteSets

CONSTANTS
  Name,       \* the registered screens
  Home,       \* the one that is shown first
  MaxMounts,  \* bound on the screens that are ever mounted
  MaxTimers,  \* bound on the removal timers that run at a time
  MaxSwipes   \* bound on the events JavaScript has not yet handled

ASSUME StackAssumption ==
  /\ Home \in Name
  /\ {MaxMounts, MaxTimers, MaxSwipes} \subseteq Nat /\ MaxMounts > 0

VARIABLES
  routes,      \* [key, name, mount]: mount tells apart the screens that a
               \* route is rendered into when its record is replaced
  index,
  suppressed,  \* suppressedNativeBackRouteKeys
  timers,      \* pending removals, oldest first: "trim" of pop, "top" of popToTop
  mounts,      \* how many screens were mounted
  dirty,       \* native code has not been told of the last change
  committed,   \* the active screens as native code knows them
  navPending,  \* pendingNavigationUpdate
  controllers, \* keys of controllerMap: the screens that have a controller
  nav,         \* viewControllers
  previous,    \* previousViewControllers
  muted,       \* suppressedProgrammaticPopControllerIDs, by the screen whose
               \* controller had the id last
  backs,       \* onNativeBack events on their way, by screen
  jumped,      \* history: keys of routes left behind by navigate
  brought,     \* history: keys of routes that navigate brought back in passing
  heard,       \* history: screens whose event JavaScript has handled
  lost         \* history: screens the user popped since the last update of the
               \* controller, which JavaScript was not told of or left alone

jsVars     == <<routes, index, suppressed, timers, mounts, jumped, brought, heard>>
nativeVars == <<committed, navPending, controllers, nav, previous, muted>>
vars       == <<jsVars, dirty, nativeVars, backs, lost>>

Route   == [key : 1 .. MaxMounts, name : Name, mount : 1 .. MaxMounts]
Keys(s) == {r.key : r \in ToSet(s)}
KeysAt(I) == {routes[i].key : i \in I \cap DOMAIN routes}
Active  == SubSeq(routes, 1, IF index < Len(routes) THEN index ELSE Len(routes))
Screens(s) == [i \in DOMAIN s |-> s[i].mount]

TypeOK ==
  /\ routes \in Seq(Route) /\ routes # <<>>
  /\ index \in 1 .. MaxMounts
  /\ {suppressed, jumped, brought, heard, controllers, muted, lost}
       \subseteq SUBSET (1 .. MaxMounts)
  /\ timers \in Seq({"trim", "top"})
  /\ mounts \in 1 .. MaxMounts
  /\ {dirty, navPending} \subseteq BOOLEAN
  /\ {committed, nav, previous, backs} \subseteq Seq(1 .. MaxMounts)

Init ==
  /\ routes = <<[key |-> 1, name |-> Home, mount |-> 1]>> /\ index = 1
  /\ suppressed = {} /\ timers = <<>> /\ mounts = 1
  /\ jumped = {} /\ brought = {} /\ heard = {} /\ lost = {}
  /\ dirty = TRUE /\ committed = <<>> /\ navPending = FALSE
  /\ controllers = {} /\ nav = <<>> /\ previous = <<>> /\ muted = {}
  /\ backs = <<>>

-----------------------------------------------------------------------------
(* The navigator. *)

\* The host is told when the list of screens or their active flags change.
Changed == dirty' = (dirty \/ routes' # routes \/ Active' # Active)

\* The routes are rendered by reference: a record that is no longer in the
\* list has its screen unmounted, whose cleanup forgets the key.
ForgetNothing(s) == {}  \* mutant: no cleanup
Forgotten(s) == {r.key : r \in ToSet(routes) \ ToSet(s)}
Render(s) ==
  /\ routes' = s
  /\ suppressed' = suppressed \ Forgotten(s)
  /\ jumped' = jumped \cap Keys(s) /\ brought' = brought \cap Keys(s)
  /\ Changed /\ UNCHANGED <<heard, nativeVars, backs, lost>>

New(name, offset) ==
  [key |-> mounts + offset, name |-> name, mount |-> mounts + offset]

Fits(n) == mounts + n <= MaxMounts /\ mounts' = mounts + n

Push(name) ==
  /\ Fits(1) /\ UNCHANGED timers
  /\ LET s == Append(Active, New(name, 1)) IN index' = Len(s) /\ Render(s)

\* navigate to a route that is in the list: its record is replaced because of
\* the parameters, the routes above it stay, and those that wait below it for
\* their removal are on the stack again.  Otherwise navigate is push.
Navigate(name) ==
  /\ Fits(1) /\ UNCHANGED timers
  /\ \E i \in DOMAIN routes :
       LET s == [routes EXCEPT ![i].mount = mounts + 1] IN
         /\ routes[i].name = name
         /\ \A h \in 1 .. i - 1 : routes[h].name # name
         /\ routes' = s /\ index' = i
         /\ suppressed' = suppressed \ Forgotten(s)
         /\ jumped' = jumped \cup KeysAt(i + 1 .. index)
         /\ brought' = brought \cup KeysAt(index + 1 .. i - 1)
  /\ Changed /\ UNCHANGED <<heard, nativeVars, backs, lost>>

StartTimer(kind) ==
  Len(timers) < MaxTimers /\ timers' = Append(timers, kind)

Lower(count) == IF index > count THEN index - count ELSE 1

\* Mutant: nothing is marked.
PopUnmarked(count) ==
  /\ StartTimer("trim") /\ index' = Lower(count)
  /\ UNCHANGED <<routes, suppressed, mounts, jumped, brought>> /\ Changed

\* Mutant: the route that becomes the focused one is marked too.
PopMarksFocus(count) ==
  /\ StartTimer("trim") /\ index' = Lower(count)
  /\ suppressed' = suppressed \cup KeysAt(Lower(count) .. index)
  /\ UNCHANGED <<routes, mounts, jumped, brought>> /\ Changed

\* pop(count): the routes that leave are marked, then the index is lowered.
PopBy(count) ==
  /\ StartTimer("trim") /\ index' = Lower(count)
  /\ suppressed' = suppressed \cup KeysAt(Lower(count) + 1 .. index)
  /\ UNCHANGED <<routes, mounts, jumped, brought>> /\ Changed

Pop(count) == PopBy(count) /\ UNCHANGED <<heard, nativeVars, backs, lost>>

PopToTop ==
  /\ StartTimer("top") /\ index' = 1
  /\ suppressed' = suppressed \cup KeysAt(2 .. index)
  /\ UNCHANGED <<routes, mounts, jumped, brought, heard, nativeVars, backs, lost>>
  /\ Changed

\* Mutant: the timer of pop leaves the first route only, as that of popToTop.
RemoveTooMuch ==
  /\ timers # <<>> /\ timers' = Tail(timers)
  /\ UNCHANGED <<index, mounts>> /\ Render(<<routes[1]>>)

\* The removal timer: pop leaves the routes up to the one that is focused now,
\* popToTop leaves the first route whatever is focused now.
RemovePopped ==
  /\ timers # <<>> /\ timers' = Tail(timers) /\ UNCHANGED <<index, mounts>>
  /\ Render(IF Head(timers) = "top" THEN <<routes[1]>> ELSE Active)

Replace(name) ==
  /\ Fits(1) /\ UNCHANGED <<index, timers>>
  /\ Render([routes EXCEPT ![index] = New(name, 1)])

Reset(first, second) ==
  /\ Fits(2) /\ index' = 2 /\ UNCHANGED timers
  /\ Render(<<New(first, 1), New(second, 2)>>)

\* setParams and setOptions replace the record of the focused route.
SetParams ==
  /\ Fits(1) /\ UNCHANGED <<index, timers>>
  /\ Render([routes EXCEPT ![index].mount = mounts + 1])

\* handleNativeBack of the screen m, if it is still mounted: a mark says that
\* JavaScript has popped the route itself.
HandleBack ==
  /\ backs # <<>> /\ backs' = Tail(backs) /\ UNCHANGED nativeVars
  /\ LET from == {r \in ToSet(routes) : r.mount = Head(backs)} IN
       \/ /\ from = {}
          /\ UNCHANGED <<jsVars, dirty, lost>>
       \/ \E r \in from :
            /\ r.key \in suppressed /\ suppressed' = suppressed \ {r.key}
            /\ heard' = heard \cup {r.mount}
            /\ lost' = lost \cup ({r.mount} \cap ToSet(Screens(Active)))
            /\ UNCHANGED <<routes, index, timers, mounts, jumped, brought, dirty>>
       \/ \E r \in from :
            /\ r.key \notin suppressed /\ PopBy(1)
            /\ heard' = heard \cup {r.mount} /\ UNCHANGED lost

-----------------------------------------------------------------------------
(* The native side. *)

\* Mutant: screens that are no longer active are kept.
CommitAll ==
  /\ dirty /\ dirty' = FALSE
  /\ committed' = Screens(routes) /\ navPending' = TRUE
  /\ controllers' = controllers \cap ToSet(Screens(routes))
  /\ UNCHANGED <<jsVars, nav, previous, muted, backs, lost>>

\* The host sends the list of screens and their active flags; the container
\* forgets the controllers of screens that are gone, and schedules an update.
Commit ==
  /\ dirty /\ dirty' = FALSE
  /\ committed' = Screens(Active) /\ navPending' = TRUE
  /\ controllers' = controllers \cap ToSet(Screens(routes))
  /\ UNCHANGED <<jsVars, nav, previous, muted, backs, lost>>

\* An id is the address of a controller, and stays in the set when that is
\* deallocated: a new controller may be found at the address.
Gone == muted \ (controllers \cup ToSet(nav) \cup ToSet(previous))

\* applyNavigationChanges: what the update pops is noted in muted.
ApplyNavigation ==
  /\ navPending /\ navPending' = FALSE
  /\ IF nav = committed
       THEN UNCHANGED <<controllers, nav, previous, muted, lost>>
       ELSE \E reused \in SUBSET Gone, taken \in SUBSET (ToSet(committed) \ controllers) :
              /\ Cardinality(reused) = Cardinality(taken)
              /\ muted' = ((muted \ reused) \cup taken) \cup (ToSet(nav) \ ToSet(committed))
              /\ controllers' = controllers \cup ToSet(committed)
              /\ nav' = committed /\ previous' = committed /\ lost' = {}
  /\ UNCHANGED <<jsVars, dirty, committed, backs>>

\* The user pops the top controller (swipe, back button, close button), or
\* several with the menu of the back button, when no other pop is under way.
UserPop(n) ==
  /\ n \in 1 .. Len(nav) - 1 /\ nav = previous /\ Len(backs) < MaxSwipes
  /\ nav' = SubSeq(nav, 1, n)
  /\ UNCHANGED <<jsVars, dirty, committed, navPending, controllers, previous, muted,
                 backs, lost>>

\* didShow at the end of the transition: of the controllers that are gone and
\* not muted the first is reported, and no longer muted are the others.
DidShow ==
  /\ nav # previous /\ previous' = nav
  /\ LET popped == SubSeq(previous, Len(nav) + 1, Len(previous)) IN
       /\ muted' = muted \ ToSet(popped)
       /\ \/ /\ ToSet(popped) \subseteq muted /\ UNCHANGED backs
             /\ lost' = lost \cup ToSet(popped)
          \/ \E i \in DOMAIN popped :
               /\ popped[i] \notin muted /\ \A h \in 1 .. i - 1 : popped[h] \in muted
               /\ backs' = Append(backs, popped[i])
               /\ lost' = lost \cup (ToSet(popped) \ {popped[i]})
  /\ UNCHANGED <<jsVars, dirty, committed, navPending, controllers, nav>>

Settled == ~dirty /\ ~navPending /\ nav = previous /\ backs = <<>>

-----------------------------------------------------------------------------
\* There is a focused route (types.ts: "Index of the focused route").  A
\* renderer that finds none throws, for isCovered looks up its name; what is
\* left of the screens then is not modelled.
FocusExists == index <= Len(routes)

Next ==
  /\ FocusExists
  /\ \/ \E n \in Name : Push(n) \/ Navigate(n) \/ Replace(n)
     \/ \E n, m \in Name : Reset(n, m)
     \/ \E c \in 1 .. 2 : Pop(c)
     \/ PopToTop \/ RemovePopped \/ SetParams \/ HandleBack
     \/ Commit \/ ApplyNavigation \/ DidShow
     \/ \E n \in 1 .. MaxMounts : UserPop(n)

Spec == Init /\ [][Next]_vars

-----------------------------------------------------------------------------
(* Properties. *)

\* Nothing but the timer of popToTop takes the focused route away, and it does
\* so only when the app went forward meanwhile: the timers of pop, however late
\* and however many, never do, nor does any other operation.
FocusKept ==
  [][FocusExists'
       \/ (timers # <<>> /\ Head(timers) = "top" /\ timers' = Tail(timers) /\ index > 1)]_vars

\* Keys are unique, and a route on the stack is marked as popped only if
\* navigate brought it back while it waited for its removal.  A mark on any
\* other would swallow the user's next swipe.
MarkedAreGone ==
  /\ \A i, j \in DOMAIN routes : routes[i].key = routes[j].key => i = j
  /\ Keys(Active) \cap suppressed \subseteq brought

\* When nothing is on its way, the controller shows the routes up to the
\* focused one, but for those the user popped and JavaScript never heard of (the
\* controller was muted) or left alone (the route was marked): no other swipe,
\* commit, timer or update leaves the two sides apart.
SidesAgree ==
  Settled => LET shown == Screens(Active) IN
               /\ Len(nav) \in 1 .. Len(shown)
               /\ \A i \in DOMAIN shown :
                    IF i <= Len(nav) THEN nav[i] = shown[i] ELSE shown[i] \in lost

\* A swipe pops once: the event of a screen whose route JavaScript itself has
\* popped meanwhile does not pop another one.  (A route left behind by navigate
\* is not marked, and its event does; so may the second event of a screen that
\* a late update showed again after its first.)
NoDoublePop ==
  [][\A r \in ToSet(routes) :
       /\ backs # <<>> /\ backs' = Tail(backs) /\ r.mount = Head(backs)
       /\ index' < index
       => r \in ToSet(Active) \/ r.key \in jumped \/ r.mount \in heard]_vars

\* Every mark has an end: the route is still in the list, and a timer that will
\* remove it runs, however many timers and navigations there were since, unless
\* navigate brought the route back.
MarksEnd ==
  /\ suppressed \subseteq Keys(routes)
  /\ suppressed \subseteq brought \/ timers # <<>>
==============================================================================
