------------------------------ MODULE RouterProofs ------------------------------
(***************************************************************************)
(* Proofs about Router, for any set of URLs and any number of navigations. *)
(***************************************************************************)
EXTENDS Router, SequenceTheorems, FiniteSetTheorems, TLAPS

(***************************************************************************)
(* The invariant                                                           *)
(***************************************************************************)
\* What RouterView remembers is what current says, and an import that it would
\* accept is one of that page, which is still blank.
ScreenOK ==
  /\ shown = IF current = None THEN None ELSE current.path
  /\ \A i \in importing :
       i.gen <= renderGen /\ (i.gen = renderGen => i.path = shown /\ i.path \in Lazy /\ page = None)
  /\ OnScreen

\* Transitions and loaders are no newer than the newest navigation; transitions
\* wait in the order of their navigations, and at most the first has begun.
GensOK ==
  /\ \A l \in loading : l.gen <= navigationGen
  /\ \A i \in 1..Len(transitions) :
       /\ transitions[i].gen <= navigationGen
       /\ transitions[i].ran => i = 1
       /\ \A j \in 1..Len(transitions) : i < j => transitions[i].gen < transitions[j].gen

\* The newest navigation is the last transition, if there is one, and no loader runs for it yet.
NewestWaits ==
  ~hasty /\ transitions # <<>> =>
    /\ transitions[Len(transitions)].gen = navigationGen
    /\ transitions[Len(transitions)].url = Location
    /\ transitions[Len(transitions)].ran => current = Matched(Location)
    /\ \A l \in loading : l.gen # navigationGen

Settled ==
  IF current = None THEN data = None /\ error = None
  ELSE error = current.path \/ (error = None /\ data = current.path)

\* Otherwise it is shown, and its loaders are under way or have answered.
NewestShown ==
  ~hasty /\ transitions = <<>> =>
    /\ current = Matched(Location)
    /\ \A l \in loading :
         l.gen = navigationGen => current # None /\ l.path = current.path /\ error = None
    /\ Settled \/ \E l \in loading : l.gen = navigationGen

\* The URL that wins is the location, or that of the navigate() that still waits.
AskedOK ==
  /\ lastPath = Location.path
  /\ \A w \in waiting : w.gen <= navigateGen /\ (w.gen = navigateGen => w.url = Winner)
  /\ Location = Winner \/ \E w \in waiting : w.gen = navigateGen

Inv == TypeOK /\ ScreenOK /\ GensOK /\ NewestWaits /\ NewestShown /\ AskedOK

\* The parts of the invariant about the application and not the browser.
Shape ==
  /\ visited \subseteq Url /\ transitions \in Seq([gen : Nat, url : Url, ran : BOOLEAN])
  /\ current \in {u \in Url : u.path \notin NoRoute} \cup {None}
  /\ navigationGen \in Nat /\ loading \subseteq [gen : Nat, path : Paths]
  /\ data \in Paths \cup {None} /\ error \in Paths \cup {None}
  /\ renderGen \in Nat /\ importing \subseteq [gen : Nat, path : Paths]
  /\ shown \in Paths \cup {None} /\ page \in Paths \cup {None, NotFound, Failed}
  /\ hasty \in BOOLEAN

LEMMA UrlFacts ==
  ASSUME NEW url \in Url
  PROVE  /\ url.path \in Paths /\ url.search \in Searches /\ url # None
         /\ url.path # None /\ url.path # NotFound /\ url.path # Failed
         /\ Matched(url) \in {u \in Url : u.path \notin NoRoute} \cup {None}
         /\ Matched(url) = None <=> url.path \in NoRoute
         /\ Matched(url) # None => Matched(url) = url
BY UrlAssumption DEF Url, Matched

LEMMA Initially == Init => Inv
<1> SUFFICES ASSUME Init PROVE Inv
  OBVIOUS
<1>1. Home \in Url /\ Home.path \in Paths /\ Home # None /\ Home.path # None
  BY UrlAssumption, UrlFacts
<1>2. Matched(Home) = Home
  BY UrlAssumption DEF Matched
<1>3. TypeOK
  <2>1. entries \in Seq(Url) /\ pos \in DOMAIN entries
    BY <1>1 DEF Init
  <2>2. transitions \in Seq([gen : Nat, url : Url, ran : BOOLEAN])
    BY DEF Init
  <2>3. [gen |-> 1, path |-> Home.path] \in [gen : Nat, path : Paths]
    BY <1>1
  <2>4. importing \subseteq [gen : Nat, path : Paths] /\ page \in Paths \cup {None, NotFound, Failed}
    BY <1>1, <2>3 DEF Init
  <2>5. current \in {u \in Url : u.path \notin NoRoute} \cup {None}
    BY <1>1, UrlAssumption DEF Init
  <2>6. /\ visited \subseteq Url /\ asked \in Url /\ overruling \in Url \cup {None}
        /\ pending \in Url \cup {None} /\ lastPath \in Paths
        /\ navigateGen \in Nat /\ waiting \subseteq [gen : Nat, url : Url, replace : BOOLEAN]
        /\ prefetchUrl \in Url \cup {None} /\ prefetchGen \in Nat /\ streams \subseteq Nat
    BY <1>1 DEF Init
  <2>7. /\ navigationGen \in Nat /\ loading \subseteq [gen : Nat, path : Paths]
        /\ data \in Paths \cup {None} /\ error \in Paths \cup {None}
        /\ renderGen \in Nat /\ shown \in Paths \cup {None}
        /\ deferring \in BOOLEAN /\ hasty \in BOOLEAN
    BY <1>1, <2>3 DEF Init
  <2>8. moves \in 0..MaxMoves
    BY UrlAssumption DEF Init
  <2> QED
    BY <2>1, <2>2, <2>4, <2>5, <2>6, <2>7, <2>8 DEF TypeOK
<1>4. ScreenOK
  <2>1. shown = Home.path /\ current = Home /\ current # None /\ renderGen = 1
    BY <1>1 DEF Init
  <2>2. CASE Home.path \in Lazy
    <3>1. page = None /\ importing = {[gen |-> 1, path |-> Home.path]}
      BY <2>2 DEF Init
    <3> QED
      BY <2>1, <2>2, <3>1 DEF ScreenOK, OnScreen
  <2>3. CASE Home.path \notin Lazy
    BY <2>1, <2>3 DEF Init, ScreenOK, OnScreen
  <2> QED
    BY <2>2, <2>3
<1>5. GensOK /\ NewestWaits /\ NewestShown /\ AskedOK
  BY <1>1, <1>2 DEF Init, GensOK, NewestWaits, NewestShown, AskedOK, Location, Winner
<1> QED
  BY <1>3, <1>4, <1>5 DEF Inv

(***************************************************************************)
(* Rendering and loading                                                   *)
(***************************************************************************)
LEMMA ShowStep ==
  ASSUME TypeOK, ScreenOK, NEW url \in Url, Show(url),
         hasty' \in BOOLEAN, hasty \/ CutsImport(url) => hasty'
  PROVE  /\ current' = Matched(url)
         /\ current' \in {u \in Url : u.path \notin NoRoute} \cup {None}
         /\ renderGen' \in Nat /\ importing' \subseteq [gen : Nat, path : Paths]
         /\ shown' \in Paths \cup {None} /\ page' \in Paths \cup {None, NotFound, Failed}
         /\ ScreenOK'
<1> USE UrlFacts
<1>0. current' = Matched(url) /\ current' \in {u \in Url : u.path \notin NoRoute} \cup {None}
  BY DEF Show
<1>1. CASE Matched(url) = None /\ current = None /\ UNCHANGED view
  BY <1>0, <1>1 DEF view, TypeOK, ScreenOK, OnScreen
<1>2. CASE /\ Matched(url) = None /\ current # None
           /\ page' = NotFound /\ shown' = None /\ renderGen' = renderGen + 1
           /\ UNCHANGED importing
  <2>1. \A i \in importing' : i.gen <= renderGen' /\ i.gen # renderGen'
    BY <1>2 DEF TypeOK, ScreenOK
  <2> QED
    BY <1>0, <1>2, <2>1 DEF TypeOK, ScreenOK, OnScreen
<1>3. CASE /\ Matched(url) # None /\ shown = url.path
           /\ renderGen' = renderGen + 1 /\ UNCHANGED <<page, shown, importing>>
  <2>1. \A i \in importing' : i.gen <= renderGen' /\ i.gen # renderGen'
    BY <1>3 DEF TypeOK, ScreenOK
  <2>2. current # None /\ current.path = url.path /\ current' = url
    BY <1>0, <1>3 DEF ScreenOK
  <2>3. page = None => hasty'
    <3> SUFFICES ASSUME page = None, ~hasty PROVE CutsImport(url)
      BY <1>3
    <3>1. OnScreen
      BY DEF ScreenOK
    <3>2. PICK i \in importing : i = [gen |-> renderGen, path |-> current.path]
      BY <1>3, <2>2, <3>1, UrlAssumption DEF OnScreen
    <3>3. i.gen = renderGen
      BY <3>2
    <3> QED
      BY <1>3, <3>3 DEF CutsImport, ImportLive
  <2>4. OnScreen'
    BY <1>3, <2>2, <2>3 DEF OnScreen, ScreenOK
  <2> QED
    BY <1>0, <1>3, <2>1, <2>2, <2>4 DEF TypeOK, ScreenOK
<1>4. CASE /\ Matched(url) # None /\ shown # url.path /\ url.path \in Lazy
           /\ page' = None /\ shown' = url.path /\ renderGen' = renderGen + 1
           /\ importing' = importing \cup {[gen |-> renderGen', path |-> url.path]}
  <2>1. renderGen' \in Nat /\ [gen |-> renderGen', path |-> url.path] \in [gen : Nat, path : Paths]
    BY <1>4 DEF TypeOK
  <2>2. \A i \in importing : i.gen <= renderGen' /\ i.gen # renderGen'
    BY <1>4 DEF TypeOK, ScreenOK
  <2>3. current' = url
    BY <1>0, <1>4
  <2>4. OnScreen'
    BY <1>4, <2>3 DEF OnScreen
  <2>5. ScreenOK'
    BY <1>4, <2>1, <2>2, <2>3, <2>4 DEF ScreenOK
  <2> QED
    BY <1>0, <1>4, <2>1, <2>5 DEF TypeOK
<1>5. CASE /\ Matched(url) # None /\ shown # url.path /\ url.path \notin Lazy
           /\ page' = url.path /\ shown' = url.path /\ renderGen' = renderGen + 1
           /\ UNCHANGED importing
  <2>1. \A i \in importing' : i.gen <= renderGen' /\ i.gen # renderGen'
    BY <1>5 DEF TypeOK, ScreenOK
  <2>2. current' = url
    BY <1>0, <1>5
  <2> QED
    BY <1>0, <1>5, <2>1, <2>2 DEF TypeOK, ScreenOK, OnScreen
<1> QED
  BY <1>1, <1>2, <1>3, <1>4, <1>5 DEF Show

\* What was on the screen stays true when only the history variable changes.
LEMMA SameScreen ==
  ASSUME ScreenOK, UNCHANGED <<view, current>>, hasty => hasty'
  PROVE  ScreenOK'
BY DEF ScreenOK, OnScreen, view

LEMMA LoadRouteStep ==
  ASSUME TypeOK, NEW url \in Url, NEW gen \in Nat, NEW skip \in BOOLEAN,
         navigationGen' \in Nat, gen <= navigationGen', navigationGen <= navigationGen',
         LoadRoute(gen, url, skip), \A l \in loading : l.gen <= navigationGen
  PROVE  /\ loading' \subseteq [gen : Nat, path : Paths]
         /\ data' \in Paths \cup {None} /\ error' \in Paths \cup {None}
         /\ \A l \in loading' : l.gen <= navigationGen'
         /\ \A l \in loading' : l \in loading \/ l = [gen |-> gen, path |-> url.path]
<1>1. url.path \in Paths /\ [gen |-> gen, path |-> url.path] \in [gen : Nat, path : Paths]
  BY UrlFacts
<1>2. \A l \in loading : l.gen \in Nat /\ l.gen <= navigationGen'
  BY DEF TypeOK
<1> QED
  BY <1>1, <1>2 DEF TypeOK, LoadRoute, Load

(***************************************************************************)
(* Applying a navigation                                                   *)
(***************************************************************************)
LEMMA QueuedTypes ==
  ASSUME TypeOK
  PROVE  \A i \in 1..Len(transitions) :
           /\ transitions[i] \in [gen : Nat, url : Url, ran : BOOLEAN]
           /\ transitions[i].gen \in Nat /\ transitions[i].url \in Url /\ transitions[i].ran \in BOOLEAN
<1>1. \A i \in 1..Len(transitions) : transitions[i] \in [gen : Nat, url : Url, ran : BOOLEAN]
  BY ElementOfSeq DEF TypeOK
<1> QED
  BY <1>1

LEMMA QueueStep ==
  ASSUME TypeOK, GensOK, NEW url \in Url, navigationGen' = navigationGen + 1,
         transitions' = Append(transitions, [gen |-> navigationGen', url |-> url, ran |-> FALSE]),
         loading' = loading
  PROVE  /\ transitions' \in Seq([gen : Nat, url : Url, ran : BOOLEAN]) /\ transitions' # <<>>
         /\ transitions'[Len(transitions')] = [gen |-> navigationGen', url |-> url, ran |-> FALSE]
         /\ GensOK'
<1> DEFINE t == [gen |-> navigationGen', url |-> url, ran |-> FALSE]
<1>1. t \in [gen : Nat, url : Url, ran : BOOLEAN] /\ navigationGen' \in Nat
  BY DEF TypeOK
<1>2. /\ Len(transitions) \in Nat /\ Len(transitions') = Len(transitions) + 1
      /\ transitions' \in Seq([gen : Nat, url : Url, ran : BOOLEAN]) /\ transitions' # <<>>
      /\ transitions'[Len(transitions) + 1] = t
      /\ \A i \in 1..Len(transitions) : transitions'[i] = transitions[i]
  <2> DEFINE S == [gen : Nat, url : Url, ran : BOOLEAN]
  <2>1. transitions \in Seq(S) /\ t \in S /\ transitions' = Append(transitions, t)
    BY <1>1 DEF TypeOK
  <2> HIDE DEF S, t
  <2>2. /\ transitions' \in Seq(S) /\ Len(transitions') = Len(transitions) + 1
        /\ transitions'[Len(transitions) + 1] = t
        /\ \A i \in 1..Len(transitions) : transitions'[i] = transitions[i]
    BY <2>1, AppendProperties
  <2>3. Len(transitions) \in Nat /\ transitions' # <<>>
    BY <2>1, <2>2, LenProperties, EmptySeq
  <2> QED
    BY <2>2, <2>3 DEF S
<1>3. \A i \in 1..Len(transitions) : transitions[i].gen \in Nat /\ transitions[i].gen < navigationGen'
  BY QueuedTypes DEF TypeOK, GensOK
<1>4. \A l \in loading' : l.gen <= navigationGen'
  BY DEF TypeOK, GensOK
<1>5. ASSUME NEW i \in 1..Len(transitions')
      PROVE  /\ transitions'[i].gen <= navigationGen'
             /\ transitions'[i].ran => i = 1
             /\ \A j \in 1..Len(transitions') : i < j => transitions'[i].gen < transitions'[j].gen
  <2>1. CASE i \in 1..Len(transitions)
    <3>1. transitions'[i].gen < navigationGen' /\ (transitions'[i].ran => i = 1)
      BY <2>1, <1>2, <1>3 DEF GensOK
    <3>2. ASSUME NEW j \in 1..Len(transitions'), i < j
          PROVE  transitions'[i].gen < transitions'[j].gen
      <4>1. CASE j = Len(transitions) + 1
        BY <4>1, <1>2, <3>1
      <4>2. CASE j \in 1..Len(transitions)
        BY <2>1, <4>2, <1>2, <3>2 DEF GensOK
      <4> QED
        BY <4>1, <4>2, <1>2
    <3>3. transitions'[i].gen \in Nat
      BY <2>1, <1>2, <1>3
    <3> QED
      BY <3>1, <3>2, <3>3, <1>1
  <2>2. CASE i = Len(transitions) + 1
    BY <2>2, <1>1, <1>2
  <2> QED
    BY <2>1, <2>2, <1>2
<1> QED
  BY <1>2, <1>4, <1>5 DEF GensOK

LEMMA ApplyStep ==
  ASSUME Inv, NEW url \in Url, NEW animate \in BOOLEAN, NEW skip \in BOOLEAN,
         applyNavigation(url, animate, skip),
         skip => ~animate /\ lastPath = url.path, Location' = url
  PROVE  Shape' /\ ScreenOK' /\ GensOK' /\ NewestWaits' /\ NewestShown'
<1> USE UrlFacts DEF Inv
<1>1. /\ navigationGen' = navigationGen + 1 /\ navigationGen' \in Nat
      /\ visited' \subseteq Url /\ hasty' \in BOOLEAN /\ (hasty => hasty')
      /\ hasty' = (hasty \/ Cuts(url, animate, skip))
  BY DEF applyNavigation, TypeOK
<1>2. \A l \in loading : l.gen \in Nat /\ l.gen <= navigationGen /\ l.gen # navigationGen'
  BY <1>1 DEF GensOK, TypeOK
<1>3. CASE animate
  <2>1. /\ transitions' = Append(transitions, [gen |-> navigationGen', url |-> url, ran |-> FALSE])
        /\ UNCHANGED <<current, view, loading, data, error>>
    BY <1>3 DEF applyNavigation
  <2>2. /\ transitions' \in Seq([gen : Nat, url : Url, ran : BOOLEAN]) /\ transitions' # <<>>
        /\ transitions'[Len(transitions')] = [gen |-> navigationGen', url |-> url, ran |-> FALSE]
        /\ GensOK'
    BY <1>1, <2>1, QueueStep
  <2>3. Shape'
    BY <1>1, <2>1, <2>2 DEF Shape, TypeOK, view
  <2>4. ScreenOK'
    BY <1>1, <2>1, SameScreen
  <2>5. NewestWaits' /\ NewestShown'
    BY <1>2, <2>1, <2>2 DEF NewestWaits, NewestShown
  <2> QED
    BY <2>2, <2>3, <2>4, <2>5
<1>4. CASE ~animate
  <2>1. Show(url) /\ LoadRoute(navigationGen', url, skip) /\ UNCHANGED transitions
    BY <1>4 DEF applyNavigation
  <2>2. CutsImport(url) => hasty'
    BY <1>1, <1>4 DEF Cuts
  <2>3. /\ current' = Matched(url)
        /\ current' \in {u \in Url : u.path \notin NoRoute} \cup {None}
        /\ renderGen' \in Nat /\ importing' \subseteq [gen : Nat, path : Paths]
        /\ shown' \in Paths \cup {None} /\ page' \in Paths \cup {None, NotFound, Failed}
        /\ ScreenOK'
    BY <1>1, <2>1, <2>2, ShowStep
  <2>4. /\ loading' \subseteq [gen : Nat, path : Paths]
        /\ data' \in Paths \cup {None} /\ error' \in Paths \cup {None}
        /\ \A l \in loading' : l.gen <= navigationGen'
        /\ \A l \in loading' : l \in loading \/ l = [gen |-> navigationGen', path |-> url.path]
    <3>1. navigationGen' <= navigationGen' /\ navigationGen <= navigationGen'
      BY <1>1 DEF TypeOK
    <3> QED
      BY <1>1, <1>2, <2>1, <3>1, LoadRouteStep
  <2>5. Shape'
    BY <1>1, <2>1, <2>3, <2>4 DEF Shape, TypeOK
  <2>6. GensOK'
    <3>1. \A i \in 1..Len(transitions) : transitions[i].gen <= navigationGen'
      BY <1>1, QueuedTypes DEF GensOK, TypeOK
    <3> QED
      BY <2>1, <2>4, <3>1 DEF GensOK
  <2>7. NewestWaits'
    BY <1>1, <1>4, <2>1 DEF NewestWaits, Cuts
  <2>8. ASSUME ~hasty', transitions' = <<>> PROVE NewestShown'
    <3>1. ~hasty /\ transitions = <<>> /\ ~Cuts(url, animate, skip)
      BY <1>1, <2>1, <2>8
    <3>2. CASE Matched(url) # None /\ ~skip /\ Load(navigationGen', url.path)
      <4>1. current' = url /\ current' # None /\ error' = None
        BY <2>3, <3>2 DEF Load
      <4>2. \A l \in loading' : l.gen = navigationGen' => l.path = url.path
        BY <1>2, <2>4
      <4>3. [gen |-> navigationGen', path |-> url.path] \in loading'
        BY <3>2 DEF Load
      <4>4. \E l \in loading' : l.gen = navigationGen'
        BY <4>3
      <4> QED
        BY <2>3, <4>1, <4>2, <4>4 DEF NewestShown
    <3>3. CASE Matched(url) # None /\ skip /\ UNCHANGED <<loading, data, error>>
      <4>1. \A l \in loading : l.gen # navigationGen
        BY <3>1, <3>3 DEF Cuts
      <4>2. Settled /\ current = Matched(Location)
        BY <3>1, <4>1 DEF NewestShown
      <4>3. Location \in Url /\ Location.path = url.path
        BY <3>3 DEF AskedOK, TypeOK, Location
      <4>4. current = Location /\ current' = url /\ current # None /\ current' # None
        BY <2>3, <3>3, <4>2, <4>3
      <4>5. Settled'
        BY <3>3, <4>2, <4>3, <4>4 DEF Settled
      <4> QED
        BY <1>2, <2>3, <3>3, <4>5 DEF NewestShown
    <3>4. CASE Matched(url) = None /\ data' = None /\ error' = None /\ UNCHANGED loading
      BY <1>2, <2>3, <3>4 DEF NewestShown, Settled
    <3> QED
      BY <2>1, <3>2, <3>3, <3>4 DEF LoadRoute
  <2>9. NewestShown'
    BY <2>8 DEF NewestShown
  <2> QED
    BY <2>3, <2>5, <2>6, <2>7, <2>9
<1> QED
  BY <1>3, <1>4

(***************************************************************************)
(* Navigations                                                             *)
(***************************************************************************)
\* The types of the rest: the history, navigate() and the prefetches.
BrowserTypes ==
  /\ entries \in Seq(Url) /\ pos \in DOMAIN entries /\ lastPath \in Paths
  /\ asked \in Url /\ overruling \in Url \cup {None} /\ navigateGen \in Nat
  /\ waiting \subseteq [gen : Nat, url : Url, replace : BOOLEAN]
  /\ prefetchUrl \in Url \cup {None} /\ prefetchGen \in Nat /\ streams \subseteq Nat
  /\ deferring \in BOOLEAN

Application == Shape /\ ScreenOK /\ GensOK /\ NewestWaits /\ NewestShown

LEMMA TypeParts == TypeOK <=> Shape /\ BrowserTypes /\ pending \in Url \cup {None} /\ moves \in 0..MaxMoves
BY DEF TypeOK, Shape, BrowserTypes

LEMMA SameApplication ==
  ASSUME Inv, UNCHANGED <<visited, transitions, current, loaders, view, hasty>>, Location' = Location
  PROVE  Application'
<1>1. UNCHANGED <<visited, transitions, current, navigationGen, loading, data, error,
                  page, shown, renderGen, importing, hasty>>
  BY DEF loaders, view
<1>2. Shape'
  BY <1>1, TypeParts DEF Inv, Shape
<1>3. ScreenOK'
  BY SameScreen DEF Inv
<1>4. GensOK' /\ NewestWaits' /\ NewestShown'
  BY <1>1 DEF Inv, GensOK, NewestWaits, NewestShown, Settled
<1> QED
  BY <1>2, <1>3, <1>4 DEF Application

LEMMA GoStep ==
  ASSUME Inv, NEW url \in Url, NEW replace \in BOOLEAN, NEW searchOnly \in BOOLEAN,
         Go(url, replace, searchOnly), searchOnly => lastPath = url.path
  PROVE  /\ entries' \in Seq(Url) /\ pos' \in DOMAIN entries'
         /\ Location' = url /\ lastPath' = url.path
         /\ Application'
<1>1. entries \in Seq(Url) /\ pos \in 1..Len(entries) /\ Len(entries) \in Nat
  BY DEF Inv, TypeOK
<1>2. entries' \in Seq(Url) /\ pos' \in DOMAIN entries' /\ entries'[pos'] = url
  <2>1. CASE replace
    <3>1. entries' = [entries EXCEPT ![pos] = url] /\ pos' = pos
      BY <2>1 DEF Go
    <3> QED
      BY <1>1, <3>1
  <2>2. CASE ~replace
    <3>1. entries' = Append(SubSeq(entries, 1, pos), url) /\ pos' = pos + 1
      BY <2>2 DEF Go
    <3>2. SubSeq(entries, 1, pos) \in Seq(Url) /\ Len(SubSeq(entries, 1, pos)) = pos
      BY <1>1
    <3> QED
      BY <1>1, <3>1, <3>2
  <2> QED
    BY <2>1, <2>2
<1>3. Location' = url
  BY <1>2 DEF Location
<1>4. Application'
  <2>1. applyNavigation(url, ~searchOnly /\ url.path \in Animated, searchOnly)
    BY DEF Go
  <2> DEFINE animate == ~searchOnly /\ url.path \in Animated
  <2>2. animate \in BOOLEAN /\ (searchOnly => ~animate /\ lastPath = url.path)
    OBVIOUS
  <2> HIDE DEF animate
  <2>3. applyNavigation(url, animate, searchOnly)
    BY <2>1 DEF animate
  <2> QED
    BY <1>3, <2>2, <2>3, ApplyStep DEF Application
<1> QED
  BY <1>2, <1>3, <1>4 DEF Go

LEMMA PrefetchStep ==
  ASSUME TypeOK, NEW url \in Url, startPrefetch(url) \/ UNCHANGED prefetch
  PROVE  /\ prefetchUrl' \in Url \cup {None} /\ prefetchGen' \in Nat /\ streams' \subseteq Nat
         /\ deferring' \in BOOLEAN
         /\ PrefetchTold => PrefetchTold'
<1>1. prefetchGen \in Nat /\ streams \subseteq Nat /\ deferring \in BOOLEAN
  BY DEF TypeOK
<1>2. CASE UNCHANGED prefetch
  BY <1>2 DEF TypeOK, prefetch, PrefetchTold
<1>3. CASE startPrefetch(url) /\ ~UNCHANGED prefetch
  <2>1. /\ prefetchUrl' = url /\ prefetchGen' = prefetchGen + 1
        /\ streams' = streams \cup {prefetchGen'} /\ deferring' = TRUE
    BY <1>3 DEF startPrefetch
  <2> QED
    BY <1>1, <2>1 DEF PrefetchTold
<1> QED
  BY <1>2, <1>3

LEMMA navigateStep ==
  ASSUME Inv, NEW url \in Url, NEW replace \in BOOLEAN, navigate(url, replace)
  PROVE  /\ BrowserTypes' /\ Application' /\ AskedOK'
         /\ PrefetchTold => PrefetchTold'
<1> DEFINE searchOnly == lastPath = url.path
           w == [gen |-> navigateGen', url |-> url, replace |-> replace]
<1>1. /\ navigateGen' = navigateGen + 1 /\ navigateGen' \in Nat /\ navigateGen \in Nat
      /\ asked' = url /\ overruling' = None /\ Winner' = url
  BY DEF navigate, Inv, TypeOK, Winner
<1>2. startPrefetch(url) \/ UNCHANGED prefetch
  BY DEF navigate
<1>3. /\ prefetchUrl' \in Url \cup {None} /\ prefetchGen' \in Nat /\ streams' \subseteq Nat
      /\ deferring' \in BOOLEAN
      /\ PrefetchTold => PrefetchTold'
  BY <1>2, PrefetchStep DEF Inv
<1>4. \A x \in waiting : x.gen \in Nat /\ x.gen <= navigateGen /\ x.gen # navigateGen'
  BY <1>1 DEF Inv, AskedOK, TypeOK
<1>5. CASE searchOnly \/ url \in visited
  <2>1. Go(url, replace, searchOnly) /\ UNCHANGED waiting
    BY <1>5 DEF navigate
  <2>2. /\ entries' \in Seq(Url) /\ pos' \in DOMAIN entries'
        /\ Location' = url /\ lastPath' = url.path /\ Application'
    <3>1. searchOnly \in BOOLEAN /\ (searchOnly => lastPath = url.path)
      OBVIOUS
    <3> HIDE DEF searchOnly
    <3> QED
      BY <2>1, <3>1, GoStep
  <2>3. \A x \in waiting : x.gen <= navigateGen'
    BY <1>1, <1>4
  <2>4. AskedOK'
    BY <1>1, <1>4, <2>1, <2>2, <2>3 DEF AskedOK
  <2>5. BrowserTypes'
    BY <1>1, <1>3, <2>1, <2>2, UrlFacts DEF BrowserTypes, Inv, TypeOK
  <2> QED
    BY <1>3, <2>2, <2>4, <2>5
<1>6. CASE ~(searchOnly \/ url \in visited)
  <2>1. /\ waiting' = waiting \cup {w}
        /\ UNCHANGED <<browser, visited, transitions, current, loaders, view, hasty>>
    BY <1>6 DEF navigate
  <2>2. Location' = Location /\ UNCHANGED <<entries, pos, lastPath>>
    BY <2>1 DEF browser, Location
  <2>3. Application'
    BY <2>1, <2>2, SameApplication
  <2>4. w \in [gen : Nat, url : Url, replace : BOOLEAN] /\ w.gen = navigateGen' /\ w.url = Winner'
    BY <1>1
  <2>5. \A x \in waiting : x.gen <= navigateGen'
    BY <1>1, <1>4
  <2>6. AskedOK'
    <3>1. w \in waiting' /\ lastPath' = Location'.path
      BY <2>1, <2>2 DEF AskedOK, Inv
    <3>2. \A x \in waiting' : x = w \/ x \in waiting
      BY <2>1
    <3>3. \A x \in waiting' : x.gen <= navigateGen' /\ (x.gen = navigateGen' => x.url = Winner')
      BY <1>1, <1>4, <2>4, <2>5, <3>2
    <3> QED
      BY <2>4, <3>1, <3>3 DEF AskedOK
  <2>7. BrowserTypes'
    BY <1>1, <1>3, <2>1, <2>2, <2>4 DEF BrowserTypes, Inv, TypeOK
  <2> QED
    BY <1>3, <2>3, <2>6, <2>7
<1> QED
  BY <1>5, <1>6

LEMMA ResumeStep ==
  ASSUME Inv, NEW w \in waiting, Resume(w)
  PROVE  BrowserTypes' /\ Application' /\ AskedOK'
<1>1. w.url \in Url /\ w.replace \in BOOLEAN /\ w.gen \in Nat
  BY DEF Inv, TypeOK
<1>2. /\ waiting' = waiting \ {w} /\ UNCHANGED <<navigateGen, asked, overruling, prefetch>>
      /\ Winner' = Winner
  BY DEF Resume, Winner
<1>3. CASE w.gen = navigateGen
  <2>1. /\ entries' \in Seq(Url) /\ pos' \in DOMAIN entries'
        /\ Location' = w.url /\ lastPath' = w.url.path /\ Application'
    BY <1>1, <1>3, GoStep DEF Resume
  <2>2. AskedOK'
    <3>1. w.url = Winner /\ Winner' = Winner /\ navigateGen' = navigateGen /\ waiting' \subseteq waiting
      BY <1>2, <1>3 DEF AskedOK, Inv
    <3>2. \A x \in waiting' : x.gen <= navigateGen' /\ (x.gen = navigateGen' => x.url = Winner')
      BY <3>1 DEF AskedOK, Inv
    <3> QED
      BY <2>1, <3>1, <3>2 DEF AskedOK
  <2>3. BrowserTypes'
    BY <1>1, <1>2, <2>1, UrlFacts DEF BrowserTypes, Inv, TypeOK, prefetch
  <2> QED
    BY <2>1, <2>2, <2>3
<1>4. CASE w.gen # navigateGen
  <2>1. UNCHANGED <<browser, visited, transitions, current, loaders, view, hasty>>
    BY <1>4 DEF Resume
  <2>2. Location' = Location /\ UNCHANGED <<entries, pos, lastPath>>
    BY <2>1 DEF browser, Location
  <2>3. Application'
    BY <2>1, <2>2, SameApplication
  <2>4. AskedOK'
    BY <1>2, <1>4, <2>2 DEF AskedOK, Inv
  <2>5. BrowserTypes'
    BY <1>2, <2>2 DEF BrowserTypes, Inv, TypeOK, prefetch
  <2> QED
    BY <2>3, <2>4, <2>5
<1> QED
  BY <1>3, <1>4

LEMMA PopStateStep ==
  ASSUME Inv, NEW to \in DOMAIN entries, PopState(to)
  PROVE  /\ BrowserTypes' /\ Application' /\ AskedOK'
         /\ PrefetchTold => PrefetchTold'
<1> DEFINE url == entries[to]
           searchOnly == lastPath = url.path
           animate == ~searchOnly /\ url.path \in Animated
<1>1. url \in Url /\ pos' = to /\ UNCHANGED <<entries, navigateGen, waiting>> /\ lastPath' = url.path
  BY DEF Inv, TypeOK, PopState
<1>2. Location' = url
  BY <1>1 DEF Location
<1>3. applyNavigation(url, animate, searchOnly)
  BY DEF PopState
<1>4. searchOnly \in BOOLEAN /\ animate \in BOOLEAN /\ (searchOnly => ~animate /\ lastPath = url.path)
  OBVIOUS
<1>5. startPrefetch(url) \/ UNCHANGED prefetch
  BY DEF PopState
<1>6. /\ asked' = url
      /\ \/ \E w \in waiting : w.gen = navigateGen /\ overruling' = w.url
         \/ (\A w \in waiting : w.gen # navigateGen) /\ overruling' = None
  BY DEF PopState
<1> HIDE DEF url, searchOnly, animate
<1>7. Application'
  BY <1>1, <1>2, <1>3, <1>4, ApplyStep DEF Application
<1>8. AskedOK'
  <2>1. CASE \E w \in waiting : w.gen = navigateGen /\ overruling' = w.url
    <3>1. PICK w \in waiting : w.gen = navigateGen /\ overruling' = w.url
      BY <2>1
    <3>2. w.url \in Url /\ w.url # None
      BY UrlFacts DEF Inv, TypeOK
    <3>3. Winner' = w.url
      BY <3>1, <3>2 DEF Winner
    <3>4. \A x \in waiting : x.gen = navigateGen => x.url = w.url
      BY <3>1 DEF AskedOK, Inv
    <3> QED
      BY <1>1, <1>2, <3>1, <3>3, <3>4 DEF AskedOK, Inv
  <2>2. CASE (\A w \in waiting : w.gen # navigateGen) /\ overruling' = None
    <3>1. Winner' = url
      BY <1>6, <2>2 DEF Winner
    <3> QED
      BY <1>1, <1>2, <2>2, <3>1 DEF AskedOK, Inv
  <2> QED
    BY <1>6, <2>1, <2>2
<1>9. /\ prefetchUrl' \in Url \cup {None} /\ prefetchGen' \in Nat /\ streams' \subseteq Nat
      /\ deferring' \in BOOLEAN
      /\ PrefetchTold => PrefetchTold'
  BY <1>1, <1>5, PrefetchStep DEF Inv
<1>10. BrowserTypes'
  BY <1>1, <1>6, <1>9, UrlFacts DEF BrowserTypes, Inv, TypeOK
<1> QED
  BY <1>7, <1>8, <1>9, <1>10

(***************************************************************************)
(* View transitions                                                        *)
(***************************************************************************)
LEMMA RunTransitionStep ==
  ASSUME Inv, RunTransition
  PROVE  Application'
<1> DEFINE t == transitions[1]
<1> USE DEF Inv
<1>1. /\ Len(transitions) \in Nat \ {0} /\ Head(transitions) = t /\ ~t.ran
      /\ transitions \in Seq([gen : Nat, url : Url, ran : BOOLEAN])
  BY DEF RunTransition, TypeOK
<1>2. t \in [gen : Nat, url : Url, ran : BOOLEAN] /\ t.url \in Url
  BY <1>1, QueuedTypes
<1>3. /\ transitions' = [transitions EXCEPT ![1].ran = TRUE] /\ Show(t.url)
      /\ hasty' = (hasty \/ CutsImport(t.url))
      /\ UNCHANGED <<browser, visited, navigationGen, loading, data, error>>
  BY <1>1 DEF RunTransition, loaders
<1>4. /\ transitions' \in Seq([gen : Nat, url : Url, ran : BOOLEAN]) /\ transitions' # <<>>
      /\ Len(transitions') = Len(transitions)
      /\ transitions'[1] = [t EXCEPT !.ran = TRUE]
      /\ \A i \in 1..Len(transitions) : i # 1 => transitions'[i] = transitions[i]
  <2> DEFINE S == [gen : Nat, url : Url, ran : BOOLEAN]
             u == [t EXCEPT !.ran = TRUE]
  <2>1. u \in S /\ transitions' = [transitions EXCEPT ![1] = u]
    BY <1>1, <1>2, <1>3
  <2>2. 1 \in 1..Len(transitions) /\ transitions \in Seq(S)
    BY <1>1
  <2> HIDE DEF S, u
  <2>3. /\ transitions' \in Seq(S) /\ Len(transitions') = Len(transitions)
        /\ transitions'[1] = u
        /\ \A i \in 1..Len(transitions) : i # 1 => transitions'[i] = transitions[i]
    BY <2>1, <2>2
  <2>4. transitions' # <<>>
    BY <1>1, <2>3
  <2> QED
    BY <2>3, <2>4 DEF S, u
<1>5. \A i \in 1..Len(transitions) : /\ transitions'[i].gen = transitions[i].gen
                                     /\ transitions'[i].url = transitions[i].url
  BY <1>1, <1>2, <1>4
<1>6. hasty' \in BOOLEAN /\ (hasty => hasty')
  BY <1>3 DEF TypeOK, CutsImport, ImportLive
<1>7. /\ current' = Matched(t.url)
      /\ current' \in {u \in Url : u.path \notin NoRoute} \cup {None}
      /\ renderGen' \in Nat /\ importing' \subseteq [gen : Nat, path : Paths]
      /\ shown' \in Paths \cup {None} /\ page' \in Paths \cup {None, NotFound, Failed}
      /\ ScreenOK'
  <2>1. hasty \/ CutsImport(t.url) => hasty'
    BY <1>3
  <2> HIDE DEF t
  <2> QED
    BY <1>2, <1>3, <1>6, <2>1, ShowStep
<1>8. Shape'
  BY <1>3, <1>4, <1>6, <1>7 DEF Shape, TypeOK
<1>9. GensOK'
  <2>1. \A i \in 1..Len(transitions') : transitions'[i].ran => i = 1
    BY <1>4 DEF GensOK
  <2> QED
    BY <1>3, <1>4, <1>5, <2>1 DEF GensOK
<1>10. NewestWaits'
  <2> SUFFICES ASSUME ~hasty' PROVE
        /\ transitions'[Len(transitions')].gen = navigationGen'
        /\ transitions'[Len(transitions')].url = Location'
        /\ transitions'[Len(transitions')].ran => current' = Matched(Location')
        /\ \A l \in loading' : l.gen # navigationGen'
    BY <1>3 DEF NewestWaits
  <2>1. ~hasty /\ transitions # <<>> /\ Location' = Location
    BY <1>1, <1>3, <1>6 DEF browser, Location
  <2>2. /\ transitions[Len(transitions)].gen = navigationGen
        /\ transitions[Len(transitions)].url = Location
        /\ \A l \in loading : l.gen # navigationGen
    BY <2>1 DEF NewestWaits
  <2>3. Len(transitions) \in 1..Len(transitions)
    BY <1>1
  <2>4. transitions'[Len(transitions')].ran => current' = Matched(Location')
    <3>1. CASE Len(transitions) = 1
      BY <1>7, <2>1, <2>2, <3>1
    <3>2. CASE Len(transitions) # 1
      <4>1. ~transitions'[Len(transitions')].ran
        BY <1>4, <2>3, <3>2 DEF GensOK
      <4> QED
        BY <4>1
    <3> QED
      BY <3>1, <3>2
  <2> QED
    BY <1>3, <1>4, <1>5, <2>1, <2>2, <2>3, <2>4
<1>11. NewestShown'
  BY <1>4 DEF NewestShown
<1> QED
  BY <1>7, <1>8, <1>9, <1>10, <1>11 DEF Application

LEMMA FinishTransitionStep ==
  ASSUME Inv, FinishTransition
  PROVE  Application'
<1> DEFINE t == transitions[1]
           n == Len(transitions)
<1> USE DEF Inv
<1>1. /\ n \in Nat \ {0} /\ Head(transitions) = t /\ t.ran
      /\ transitions \in Seq([gen : Nat, url : Url, ran : BOOLEAN])
  BY DEF FinishTransition, TypeOK
<1>2. t.gen \in Nat /\ t.url \in Url /\ t.gen <= navigationGen
  BY <1>1, QueuedTypes DEF GensOK
<1>3. /\ transitions' = Tail(transitions) /\ navigationGen' = navigationGen
      /\ LoadRoute(t.gen, t.url, FALSE)
      /\ UNCHANGED <<browser, visited, current, view, hasty>>
  BY <1>1 DEF FinishTransition
<1>4. /\ transitions' \in Seq([gen : Nat, url : Url, ran : BOOLEAN])
      /\ Len(transitions') = n - 1
      /\ \A i \in 1..(n - 1) : transitions'[i] = transitions[i + 1]
  BY <1>1, <1>3
<1>5. /\ loading' \subseteq [gen : Nat, path : Paths]
      /\ data' \in Paths \cup {None} /\ error' \in Paths \cup {None}
      /\ \A l \in loading' : l.gen <= navigationGen'
      /\ \A l \in loading' : l \in loading \/ l = [gen |-> t.gen, path |-> t.url.path]
  <2>1. navigationGen' \in Nat /\ t.gen <= navigationGen' /\ navigationGen <= navigationGen'
    BY <1>2, <1>3 DEF TypeOK
  <2>2. \A l \in loading : l.gen <= navigationGen
    BY DEF GensOK
  <2> HIDE DEF t
  <2> QED
    BY <1>2, <1>3, <2>1, <2>2, LoadRouteStep
<1>6. Shape'
  BY <1>3, <1>4, <1>5 DEF Shape, TypeOK, view
<1>7. ScreenOK'
  BY <1>3, SameScreen
<1>8. GensOK'
  BY <1>1, <1>3, <1>4, <1>5 DEF GensOK
<1>9. Location' = Location
  BY <1>3 DEF browser, Location
<1>10. NewestWaits'
  <2> SUFFICES ASSUME ~hasty', transitions' # <<>> PROVE
        /\ transitions'[Len(transitions')].gen = navigationGen'
        /\ transitions'[Len(transitions')].url = Location'
        /\ transitions'[Len(transitions')].ran => current' = Matched(Location')
        /\ \A l \in loading' : l.gen # navigationGen'
    BY DEF NewestWaits
  <2>1. n - 1 \in 1..(n - 1) /\ n \in 1..n /\ n # 1 /\ 1 \in 1..n /\ 1 < n
    BY <1>1, <1>4
  <2>2. transitions'[Len(transitions')] = transitions[n]
    BY <1>1, <1>4, <2>1
  <2>3. /\ transitions[n].gen = navigationGen /\ transitions[n].url = Location
        /\ \A l \in loading : l.gen # navigationGen
    BY <1>1, <1>3 DEF NewestWaits
  <2>4. ~transitions[n].ran
    BY <2>1 DEF GensOK
  <2>5. t.gen < transitions[n].gen
    BY <2>1 DEF GensOK
  <2>6. \A l \in loading' : l.gen # navigationGen'
    BY <1>2, <1>3, <1>5, <2>3, <2>5
  <2> QED
    BY <1>3, <1>9, <2>2, <2>3, <2>4, <2>6
<1>11. NewestShown'
  <2> SUFFICES ASSUME ~hasty', transitions' = <<>> PROVE
        /\ current' = Matched(Location')
        /\ \A l \in loading' :
             l.gen = navigationGen' => current' # None /\ l.path = current'.path /\ error' = None
        /\ Settled' \/ \E l \in loading' : l.gen = navigationGen'
    BY DEF NewestShown
  <2>1. n = 1
    BY <1>1, <1>4
  <2>2. /\ t.gen = navigationGen /\ t.url = Location /\ current = Matched(t.url)
        /\ \A l \in loading : l.gen # navigationGen
    BY <1>1, <1>3, <2>1 DEF NewestWaits
  <2>3. CASE Matched(t.url) # None /\ Load(t.gen, t.url.path)
    <3>1. [gen |-> t.gen, path |-> t.url.path] \in loading' /\ error' = None
      BY <2>3 DEF Load
    <3>2. current' = t.url /\ current' # None
      BY <1>2, <1>3, <2>2, <2>3, UrlFacts
    <3>3. \A l \in loading' : l.gen = navigationGen' => l.path = t.url.path
      BY <1>3, <1>5, <2>2
    <3>4. \E l \in loading' : l.gen = navigationGen'
      BY <1>3, <2>2, <3>1
    <3> QED
      BY <1>3, <1>9, <2>2, <3>1, <3>2, <3>3, <3>4
  <2>4. CASE Matched(t.url) = None /\ data' = None /\ error' = None /\ UNCHANGED loading
    BY <1>3, <1>9, <2>2, <2>4 DEF Settled
  <2> QED
    BY <1>3, <2>2, <2>3, <2>4 DEF LoadRoute
<1> QED
  BY <1>6, <1>7, <1>8, <1>10, <1>11 DEF Application

(***************************************************************************)
(* Answers and the rest                                                    *)
(***************************************************************************)
LEMMA LoadEnds ==
  ASSUME Inv, NEW l \in loading, Loaded(l) \/ LoadFails(l)
  PROVE  Application'
<1> USE DEF Inv
<1>1. /\ loading' = loading \ {l}
      /\ UNCHANGED <<browser, visited, transitions, current, navigationGen, view, hasty>>
  BY DEF Loaded, LoadFails, EndLoad
<1>2. /\ l.path \in Paths /\ Location' = Location /\ UNCHANGED <<page, shown, renderGen, importing>>
      /\ \A x \in loading : x = [gen |-> x.gen, path |-> x.path]
  BY <1>1 DEF TypeOK, browser, view, Location
<1>3. data' \in Paths \cup {None} /\ error' \in Paths \cup {None}
  BY <1>2 DEF TypeOK, Loaded, LoadFails
<1>4. Shape'
  BY <1>1, <1>2, <1>3 DEF Shape, TypeOK
<1>5. ScreenOK' /\ GensOK' /\ NewestWaits'
  BY <1>1, <1>2, SameScreen DEF GensOK, NewestWaits
<1>6. NewestShown'
  <2> SUFFICES ASSUME ~hasty, transitions = <<>> PROVE
        /\ \A x \in loading' :
             x.gen = navigationGen => current # None /\ x.path = current.path /\ error' = None
        /\ Settled' \/ \E x \in loading' : x.gen = navigationGen
    BY <1>1, <1>2 DEF NewestShown
  <2>1. CASE l.gen = navigationGen
    <3>1. current # None /\ l.path = current.path /\ error = None
      BY <2>1 DEF NewestShown
    <3>2. \A x \in loading : x.gen = navigationGen => x = l
      BY <1>2, <2>1, <3>1 DEF NewestShown
    <3>3. Settled'
      BY <1>1, <2>1, <3>1 DEF Settled, Loaded, LoadFails
    <3> QED
      BY <1>1, <3>2, <3>3
  <2>2. CASE l.gen # navigationGen
    <3>1. UNCHANGED <<data, error>>
      BY <2>2 DEF Loaded, LoadFails
    <3> QED
      BY <1>1, <2>2, <3>1 DEF NewestShown, Settled
  <2> QED
    BY <2>1, <2>2
<1> QED
  BY <1>4, <1>5, <1>6 DEF Application

LEMMA ImportEnds ==
  ASSUME Inv, NEW i \in importing, Imported(i) \/ ImportFails(i)
  PROVE  Application'
<1> USE DEF Inv
<1>1. PICK result \in {i.path, Failed} : EndImport(i, result)
  BY DEF Imported, ImportFails
<1>2. /\ importing' = importing \ {i} /\ page' = IF i.gen = renderGen THEN result ELSE page
      /\ UNCHANGED <<browser, visited, transitions, current, navigationGen, loading, data, error,
                     shown, renderGen, hasty>>
  BY <1>1 DEF EndImport, loaders
<1>3. i.path \in Paths /\ Location' = Location /\ \A x \in importing : x = [gen |-> x.gen, path |-> x.path]
  BY <1>2 DEF TypeOK, browser, Location
<1>4. Shape'
  BY <1>2, <1>3 DEF Shape, TypeOK
<1>5. GensOK' /\ NewestWaits' /\ NewestShown'
  BY <1>2, <1>3 DEF GensOK, NewestWaits, NewestShown, Settled
<1>6. ScreenOK'
  <2>1. CASE i.gen = renderGen
    <3>1. i.path = shown /\ i.path \in Lazy /\ current # None /\ current.path = i.path
      BY <1>3, <2>1, UrlAssumption DEF ScreenOK
    <3>2. \A x \in importing' : x.gen # renderGen'
      BY <1>2, <1>3, <2>1 DEF ScreenOK
    <3>3. OnScreen'
      BY <1>2, <2>1, <3>1 DEF OnScreen
    <3> QED
      BY <1>2, <3>2, <3>3 DEF ScreenOK
  <2>2. CASE i.gen # renderGen
    <3>1. page' = page
      BY <1>2, <2>2
    <3>2. OnScreen'
      <4>1. i # [gen |-> renderGen, path |-> current.path]
        BY <2>2
      <4> QED
        BY <1>2, <3>1, <4>1 DEF ScreenOK, OnScreen
    <3> QED
      BY <1>2, <3>1, <3>2 DEF ScreenOK
  <2> QED
    BY <2>1, <2>2
<1> QED
  BY <1>4, <1>5, <1>6 DEF Application

LEMMA RevalidateStep ==
  ASSUME Inv, Revalidate
  PROVE  Application'
<1> USE DEF Inv
<1>1. /\ current # None /\ navigationGen' = navigationGen + 1 /\ navigationGen \in Nat
      /\ navigationGen' \in Nat /\ Load(navigationGen', current.path)
      /\ hasty' = (hasty \/ transitions # <<>>)
      /\ UNCHANGED <<browser, visited, transitions, current, view>>
  BY DEF Revalidate, TypeOK
<1>2. /\ current.path \in Paths /\ Location' = Location
      /\ UNCHANGED <<page, shown, renderGen, importing>>
  BY <1>1, UrlFacts DEF TypeOK, browser, view, Location
<1>3. /\ error' = None /\ data' = data
      /\ loading' = loading \cup {[gen |-> navigationGen', path |-> current.path]}
  BY <1>1 DEF Load
<1>4. Shape'
  BY <1>1, <1>2, <1>3 DEF Shape, TypeOK
<1>5. ScreenOK'
  BY <1>1, SameScreen
<1>6. \A x \in loading : x.gen \in Nat /\ x.gen <= navigationGen'
  BY <1>1 DEF GensOK, TypeOK
<1>7. \A i \in 1..Len(transitions) : transitions[i].gen <= navigationGen'
  BY <1>1, QueuedTypes DEF GensOK
<1>8. GensOK'
  BY <1>1, <1>3, <1>6, <1>7 DEF GensOK
<1>9. NewestWaits'
  BY <1>1 DEF NewestWaits
<1>10. NewestShown'
  <2> SUFFICES ASSUME ~hasty', transitions' = <<>> PROVE
        /\ current' = Matched(Location')
        /\ \A x \in loading' :
             x.gen = navigationGen' => current' # None /\ x.path = current'.path /\ error' = None
        /\ \E x \in loading' : x.gen = navigationGen'
    BY DEF NewestShown
  <2>1. ~hasty /\ transitions = <<>>
    BY <1>1
  <2>2. current = Matched(Location)
    BY <2>1 DEF NewestShown
  <2>3. \A x \in loading : x.gen # navigationGen'
    BY <1>1 DEF GensOK, TypeOK
  <2>4. [gen |-> navigationGen', path |-> current.path] \in loading'
    BY <1>3
  <2>5. \A x \in loading' : x.gen = navigationGen' => x.path = current.path
    BY <1>3, <2>3
  <2>6. \E x \in loading' : x.gen = navigationGen'
    BY <2>4
  <2> QED
    BY <1>1, <1>2, <1>3, <2>2, <2>5, <2>6
<1> QED
  BY <1>4, <1>5, <1>8, <1>9, <1>10 DEF Application

(***************************************************************************)
(* Every step                                                              *)
(***************************************************************************)
LEMMA Together ==
  ASSUME BrowserTypes', Application', AskedOK', pending' \in Url \cup {None}, moves' \in 0..MaxMoves
  PROVE  Inv'
BY TypeParts DEF Application, Inv, TypeOK, Shape, BrowserTypes

\* A move that leaves the history, navigate() and the prefetches alone.
LEMMA SameBrowser ==
  ASSUME Inv, UNCHANGED <<browser, navigating, prefetch>>
  PROVE  BrowserTypes' /\ AskedOK' /\ Location' = Location
BY DEF Inv, TypeOK, BrowserTypes, AskedOK, Location, Winner, browser, navigating, prefetch

LEMMA MoveType == ASSUME TypeOK, Move \/ UNCHANGED moves PROVE moves' \in 0..MaxMoves
BY UrlAssumption DEF TypeOK, Move

LEMMA UserUrls ==
  ASSUME TypeOK, NEW value \in Searches
  PROVE  Location \in Url /\ [path |-> Location.path, search |-> value] \in Url
<1>1. Location \in Url
  BY DEF TypeOK, Location
<1>2. Location.path \in Paths
  BY <1>1, UrlFacts
<1> QED
  BY <1>1, <1>2 DEF Url

LEMMA Step == Inv /\ [Next]_vars => Inv'
<1> SUFFICES ASSUME Inv, [Next]_vars PROVE Inv'
  OBVIOUS
<1>0. TypeOK
  BY DEF Inv
<1>1. ASSUME NEW w \in waiting, Resume(w) PROVE Inv'
  BY <1>0, <1>1, ResumeStep, MoveType, Together DEF Resume, TypeOK
<1>2. CASE RunTransition
  <2>1. UNCHANGED <<browser, navigating, prefetch, pending, moves>>
    BY <1>2 DEF RunTransition
  <2> QED
    BY <1>0, <1>2, <2>1, RunTransitionStep, SameBrowser, MoveType, Together DEF TypeOK
<1>3. CASE FinishTransition
  <2>1. UNCHANGED <<browser, navigating, prefetch, pending, moves>>
    BY <1>3 DEF FinishTransition
  <2> QED
    BY <1>0, <1>3, <2>1, FinishTransitionStep, SameBrowser, MoveType, Together DEF TypeOK
<1>4. CASE Flush
  <2>1. pending \in Url /\ pending' = None /\ UNCHANGED moves
    BY <1>0, <1>4 DEF Flush, TypeOK
  <2>2. CASE pending.search = Search
    <3>1. UNCHANGED <<browser, visited, navigating, prefetch, transitions, current, loaders, view, hasty>>
      BY <1>4, <2>2 DEF Flush
    <3> QED
      BY <1>0, <2>1, <3>1, SameBrowser, SameApplication, MoveType, Together
  <2>3. CASE pending.search # Search
    <3>1. navigate(pending, TRUE)
      BY <1>4, <2>3 DEF Flush
    <3> QED
      BY <1>0, <2>1, <3>1, navigateStep, MoveType, Together
  <2> QED
    BY <2>2, <2>3
<1>5. ASSUME NEW g \in streams, StreamEnds(g) PROVE Inv'
  <2>1. /\ streams' = streams \ {g} /\ deferring' \in BOOLEAN
        /\ UNCHANGED <<browser, visited, navigating, prefetchUrl, prefetchGen, transitions, current,
                       loaders, view, pending, moves, hasty>>
    BY <1>0, <1>5 DEF StreamEnds, TypeOK
  <2>2. BrowserTypes' /\ AskedOK' /\ Location' = Location
    BY <2>1 DEF Inv, TypeOK, BrowserTypes, AskedOK, Location, Winner, browser, navigating
  <2> QED
    BY <1>0, <2>1, <2>2, SameApplication, MoveType, Together DEF TypeOK
<1>6. ASSUME NEW l \in loading, Loaded(l) \/ LoadFails(l) PROVE Inv'
  <2>1. UNCHANGED <<browser, navigating, prefetch, pending, moves>>
    BY <1>6 DEF Loaded, LoadFails, EndLoad
  <2> QED
    BY <1>0, <1>6, <2>1, LoadEnds, SameBrowser, MoveType, Together DEF TypeOK
<1>7. ASSUME NEW i \in importing, Imported(i) \/ ImportFails(i) PROVE Inv'
  <2>1. UNCHANGED <<browser, navigating, prefetch, pending, moves>>
    BY <1>7 DEF Imported, ImportFails, EndImport
  <2> QED
    BY <1>0, <1>7, <2>1, ImportEnds, SameBrowser, MoveType, Together DEF TypeOK
<1>8. ASSUME NEW url \in Urls, NEW replace \in BOOLEAN, Navigate(url, replace) PROVE Inv'
  <2>1. url \in Url
    BY UrlAssumption
  <2> QED
    BY <1>0, <1>8, <2>1, navigateStep, MoveType, Together DEF Navigate, TypeOK
<1>9. ASSUME NEW to \in DOMAIN entries, PopState(to) PROVE Inv'
  BY <1>0, <1>9, PopStateStep, MoveType, Together DEF PopState, TypeOK
<1>10. CASE Revalidate
  <2>1. UNCHANGED <<browser, navigating, prefetch, pending>> /\ Move
    BY <1>10 DEF Revalidate
  <2> QED
    BY <1>0, <1>10, <2>1, RevalidateStep, SameBrowser, MoveType, Together DEF TypeOK
<1>11. ASSUME NEW value \in Searches, WriteParam(value) PROVE Inv'
  <2>1. /\ Move
        /\ UNCHANGED <<browser, visited, navigating, prefetch, transitions, current, loaders, view, hasty>>
    BY <1>11 DEF WriteParam
  <2>2. pending' \in Url
    BY <1>0, <1>11, UserUrls DEF WriteParam, TypeOK, Url
  <2> QED
    BY <1>0, <2>1, <2>2, SameBrowser, SameApplication, MoveType, Together
<1>12. ASSUME NEW value \in Searches, NEW push \in BOOLEAN, NavigateParams(value, push) PROVE Inv'
  <2>1. [path |-> Location.path, search |-> value] \in Url
    BY <1>0, UserUrls
  <2>2. (~push) \in BOOLEAN
    OBVIOUS
  <2> QED
    BY <1>0, <1>12, <2>1, <2>2, navigateStep, MoveType, Together DEF NavigateParams
<1>13. CASE UNCHANGED vars
  BY <1>0, <1>13, SameBrowser, SameApplication, MoveType, Together DEF vars, TypeOK
<1> QED
  BY <1>1, <1>2, <1>3, <1>4, <1>5, <1>6, <1>7, <1>8, <1>9, <1>10, <1>11, <1>12, <1>13
     DEF Next, Internal, Answer, User

(***************************************************************************)
(* Theorems                                                                *)
(***************************************************************************)
LEMMA Invariance == Spec => []Inv
<1> QED
  BY Initially, Step, PTL DEF Spec

(* The container shows the page of the current route, whatever imports      *)
(* answer late.                                                             *)
THEOREM ScreenIsOfRoute == Spec => []OnScreen
<1>1. Inv => OnScreen
  BY DEF Inv, ScreenOK
<1> QED
  BY <1>1, Invariance, PTL

(* Loader data at rest is that of the current route.                        *)
THEOREM DataIsOfRoute == Spec => []DataOfRoute
<1>1. Inv => DataOfRoute
  BY DEF Inv, DataOfRoute, AtRest, NewestShown, Settled
<1> QED
  BY <1>1, Invariance, PTL

(* The safety part of LastWins: at rest the location is the URL asked for   *)
(* last, by navigate(), by a write of parameters or by a step through the   *)
(* history, and the current route is its match; but it is that of the       *)
(* navigate() which waited for its prefetch, if there was one at that step. *)
THEOREM LastAskedWins ==
  Spec => [](AtRest /\ ~hasty => Location = Winner /\ current = Matched(Winner))
<1>1. Inv => (AtRest /\ ~hasty => Location = Winner /\ current = Matched(Winner))
  BY DEF Inv, AtRest, NewestShown, AskedOK
<1> QED
  BY <1>1, Invariance, PTL

(* Deferring queries wait for the newest prefetch, which is under way.      *)
THEOREM DeferringIsTold == Spec => []PrefetchTold
<1>1. Init => PrefetchTold
  BY DEF Init, PrefetchTold
<1>2. Inv /\ PrefetchTold /\ [Next]_vars => PrefetchTold'
  <2> SUFFICES ASSUME Inv, PrefetchTold, [Next]_vars PROVE PrefetchTold'
    OBVIOUS
  <2>1. CASE UNCHANGED prefetch
    BY <2>1 DEF PrefetchTold, prefetch
  <2>2. ASSUME NEW g \in streams, StreamEnds(g) PROVE PrefetchTold'
    BY <2>2 DEF StreamEnds, PrefetchTold, Inv, TypeOK
  <2>3. ASSUME NEW url \in Urls, NEW replace \in BOOLEAN, Navigate(url, replace) PROVE PrefetchTold'
    BY <2>3, UrlAssumption, navigateStep DEF Navigate
  <2>4. ASSUME NEW to \in DOMAIN entries, PopState(to) PROVE PrefetchTold'
    BY <2>4, PopStateStep
  <2>5. ASSUME NEW value \in Searches, NEW push \in BOOLEAN, NavigateParams(value, push)
        PROVE  PrefetchTold'
    <3>1. [path |-> Location.path, search |-> value] \in Url /\ (~push) \in BOOLEAN
      BY UserUrls DEF Inv
    <3> QED
      BY <2>5, <3>1, navigateStep DEF NavigateParams
  <2>6. CASE Flush
    <3>1. pending \in Url
      BY <2>6 DEF Flush, Inv, TypeOK
    <3>2. UNCHANGED prefetch \/ navigate(pending, TRUE)
      BY <2>6 DEF Flush
    <3> QED
      BY <2>1, <3>1, <3>2, navigateStep
  <2> QED
    BY <2>1, <2>2, <2>3, <2>4, <2>5, <2>6
       DEF Next, Internal, Answer, User, Resume, RunTransition, FinishTransition, Loaded, LoadFails,
           EndLoad, Imported, ImportFails, EndImport, Revalidate, WriteParam, vars
<1> QED
  BY <1>1, <1>2, Invariance, PTL DEF Spec

(***************************************************************************)
(* Coming to rest                                                          *)
(***************************************************************************)
\* What is still to be done on the application's own account, in steps.  A
\* transition has its callback, its end and what they start before it; a
\* navigate() that waits may become one; a batch of writes may become either,
\* with a prefetch.
QueueLeft ==
  4 * Len(transitions) - (IF transitions # <<>> /\ transitions[1].ran THEN 2 ELSE 0)
Screen == QueueLeft + Cardinality(loading) + Cardinality(importing)
Work == (IF pending = None THEN 0 ELSE 7) + 5 * Cardinality(waiting) + Cardinality(streams) + Screen

\* The user's steps are those that the bound counts.
ByUser == moves' = moves + 1

Finite == /\ IsFiniteSet(waiting) /\ IsFiniteSet(streams)
          /\ IsFiniteSet(loading) /\ IsFiniteSet(importing)

LEMMA OneMore ==
  ASSUME NEW S, IsFiniteSet(S), NEW x
  PROVE  /\ IsFiniteSet(S \cup {x}) /\ Cardinality(S) \in Nat /\ Cardinality(S \cup {x}) \in Nat
         /\ Cardinality(S \cup {x}) <= Cardinality(S) + 1
<1>1. Cardinality(S) \in Nat
  BY FS_CardinalityType
<1>2. /\ IsFiniteSet(S \cup {x})
      /\ Cardinality(S \cup {x}) = IF x \in S THEN Cardinality(S) ELSE Cardinality(S) + 1
  BY FS_AddElement
<1> QED
  BY <1>1, <1>2

LEMMA OneLess ==
  ASSUME NEW S, IsFiniteSet(S), NEW x \in S
  PROVE  /\ IsFiniteSet(S \ {x}) /\ Cardinality(S) \in Nat /\ Cardinality(S \ {x}) \in Nat
         /\ Cardinality(S \ {x}) + 1 = Cardinality(S)
<1>1. Cardinality(S) \in Nat
  BY FS_CardinalityType
<1>2. IsFiniteSet(S \ {x}) /\ Cardinality(S \ {x}) = Cardinality(S) - 1
  BY FS_RemoveElement
<1>3. Cardinality(S \ {x}) \in Nat
  BY <1>2, FS_CardinalityType
<1> QED
  BY <1>1, <1>2, <1>3

LEMMA Sizes ==
  ASSUME Inv, Finite
  PROVE  /\ Cardinality(waiting) \in Nat /\ Cardinality(streams) \in Nat
         /\ Cardinality(loading) \in Nat /\ Cardinality(importing) \in Nat
         /\ Len(transitions) \in Nat /\ QueueLeft \in Nat /\ Screen \in Nat /\ Work \in Nat
<1>1. /\ Cardinality(waiting) \in Nat /\ Cardinality(streams) \in Nat
      /\ Cardinality(loading) \in Nat /\ Cardinality(importing) \in Nat
  BY FS_CardinalityType DEF Finite
<1>2. Len(transitions) \in Nat /\ (transitions # <<>> => Len(transitions) >= 1)
  BY DEF Inv, TypeOK
<1>3. QueueLeft \in Nat
  BY <1>2 DEF QueueLeft
<1>4. Screen \in Nat
  BY <1>1, <1>3 DEF Screen
<1> QED
  BY <1>1, <1>2, <1>3, <1>4 DEF Work

\* Rendering a route imports at most one page, and loads at most once.
LEMMA ShowWork ==
  ASSUME Finite, NEW url, Show(url)
  PROVE  /\ IsFiniteSet(importing') /\ Cardinality(importing') \in Nat
         /\ Cardinality(importing') <= Cardinality(importing) + 1
<1> DEFINE i == [gen |-> renderGen', path |-> url.path]
<1>1. importing' = importing \/ importing' = importing \cup {i}
  BY DEF Show, view
<1> HIDE DEF i
<1>2. IsFiniteSet(importing) /\ Cardinality(importing) \in Nat
  BY FS_CardinalityType DEF Finite
<1>3. CASE importing' = importing
  BY <1>2, <1>3
<1>4. CASE importing' = importing \cup {i}
  BY <1>2, <1>4, OneMore
<1> QED
  BY <1>1, <1>3, <1>4

LEMMA LoadWork ==
  ASSUME Finite, NEW url, NEW gen, NEW skip, LoadRoute(gen, url, skip)
  PROVE  /\ IsFiniteSet(loading') /\ Cardinality(loading') \in Nat
         /\ Cardinality(loading') <= Cardinality(loading) + 1
<1> DEFINE l == [gen |-> gen, path |-> url.path]
<1>1. loading' = loading \/ loading' = loading \cup {l}
  BY DEF LoadRoute, Load
<1> HIDE DEF l
<1>2. IsFiniteSet(loading) /\ Cardinality(loading) \in Nat
  BY FS_CardinalityType DEF Finite
<1>3. CASE loading' = loading
  BY <1>2, <1>3
<1>4. CASE loading' = loading \cup {l}
  BY <1>2, <1>4, OneMore
<1> QED
  BY <1>1, <1>3, <1>4

\* A navigation queues one transition, or renders and loads at once.
LEMMA ApplyWork ==
  ASSUME Inv, Finite, NEW url, NEW animate, NEW skip, applyNavigation(url, animate, skip)
  PROVE  /\ IsFiniteSet(loading') /\ IsFiniteSet(importing')
         /\ Screen \in Nat /\ Screen' \in Nat /\ Screen' <= Screen + 4
<1>1. /\ Cardinality(loading) \in Nat /\ Cardinality(importing) \in Nat /\ QueueLeft \in Nat
      /\ Len(transitions) \in Nat
  BY Sizes
<1>2. CASE animate
  <2> DEFINE t == [gen |-> navigationGen', url |-> url, ran |-> FALSE]
  <2>1. transitions' = Append(transitions, t) /\ UNCHANGED <<loading, importing>> /\ t.ran = FALSE
    BY <1>2 DEF applyNavigation, view
  <2> HIDE DEF t
  <2>2. /\ Len(transitions') = Len(transitions) + 1 /\ transitions' # <<>>
        /\ transitions # <<>> => transitions'[1] = transitions[1]
        /\ transitions = <<>> => transitions'[1] = t
    BY <2>1 DEF Inv, TypeOK
  <2>3. QueueLeft' = QueueLeft + 4
    BY <1>1, <2>1, <2>2 DEF QueueLeft
  <2> QED
    BY <1>1, <2>1, <2>3 DEF Finite, Screen
<1>3. CASE ~animate
  <2>1. Show(url) /\ LoadRoute(navigationGen', url, skip) /\ transitions' = transitions
    BY <1>3 DEF applyNavigation
  <2>2. QueueLeft' = QueueLeft
    BY <2>1 DEF QueueLeft
  <2>3. /\ IsFiniteSet(importing') /\ Cardinality(importing') \in Nat
        /\ Cardinality(importing') <= Cardinality(importing) + 1
    BY <2>1, ShowWork
  <2>4. /\ IsFiniteSet(loading') /\ Cardinality(loading') \in Nat
        /\ Cardinality(loading') <= Cardinality(loading) + 1
    BY <2>1, LoadWork
  <2> QED
    BY <1>1, <2>2, <2>3, <2>4 DEF Screen
<1> QED
  BY <1>2, <1>3

LEMMA PrefetchWork ==
  ASSUME Finite, NEW url, UNCHANGED prefetch \/ startPrefetch(url)
  PROVE  /\ IsFiniteSet(streams') /\ Cardinality(streams') \in Nat
         /\ Cardinality(streams') <= Cardinality(streams) + 1
<1>1. IsFiniteSet(streams) /\ Cardinality(streams) \in Nat
  BY FS_CardinalityType DEF Finite
<1>2. CASE streams' = streams
  BY <1>1, <1>2
<1>3. CASE streams' = streams \cup {prefetchGen'}
  BY <1>1, <1>3, OneMore
<1> QED
  BY <1>2, <1>3 DEF startPrefetch, prefetch

\* A call of navigate(): a prefetch, and a navigation now or later.
LEMMA navigateWork ==
  ASSUME Inv, Finite, NEW url, NEW replace, navigate(url, replace)
  PROVE  /\ Finite'
         /\ Cardinality(waiting') \in Nat /\ Cardinality(streams') \in Nat /\ Screen' \in Nat
         /\ Cardinality(streams') <= Cardinality(streams) + 1
         /\ 5 * Cardinality(waiting') + Screen' <= 5 * Cardinality(waiting) + Screen + 5
<1>1. /\ Cardinality(waiting) \in Nat /\ Cardinality(streams) \in Nat /\ Screen \in Nat
      /\ IsFiniteSet(waiting)
  BY Sizes DEF Screen, Finite
<1>2. /\ IsFiniteSet(streams') /\ Cardinality(streams') \in Nat
      /\ Cardinality(streams') <= Cardinality(streams) + 1
  BY PrefetchWork DEF navigate
<1>3. CASE /\ \E searchOnly : Go(url, replace, searchOnly)
           /\ waiting' = waiting
  <2>1. \E animate, skip : applyNavigation(url, animate, skip)
    BY <1>3 DEF Go
  <2>2. /\ IsFiniteSet(loading') /\ IsFiniteSet(importing') /\ Screen' \in Nat
        /\ Screen' <= Screen + 4
    BY <2>1, ApplyWork
  <2> QED
    BY <1>1, <1>2, <1>3, <2>2 DEF Finite
<1>4. CASE /\ \E w : waiting' = waiting \cup {w}
           /\ UNCHANGED <<transitions, loading, importing>>
  <2>1. /\ IsFiniteSet(waiting') /\ Cardinality(waiting') \in Nat
        /\ Cardinality(waiting') <= Cardinality(waiting) + 1
    BY <1>1, <1>4, OneMore
  <2>2. Screen' = Screen
    BY <1>4 DEF Screen, QueueLeft
  <2> QED
    BY <1>1, <1>2, <1>4, <2>1, <2>2 DEF Finite
<1> QED
  BY <1>3, <1>4 DEF navigate, loaders, view

LEMMA WorkStep ==
  Inv /\ Finite /\ [Next]_vars =>
    Finite' /\ (UNCHANGED vars \/ Work' < Work \/ (ByUser /\ Work' <= Work + 7))
<1> SUFFICES ASSUME Inv, Finite, Next
             PROVE  Finite' /\ (Work' < Work \/ (ByUser /\ Work' <= Work + 7))
  <2>1. CASE UNCHANGED vars
    BY <2>1 DEF Finite, vars, navigating, prefetch, loaders, view
  <2> QED
    BY <2>1
<1> DEFINE b == IF pending = None THEN 0 ELSE 7
           w == Cardinality(waiting)
           s == Cardinality(streams)
           c == Screen
           bn == IF pending' = None THEN 0 ELSE 7
           wn == Cardinality(waiting')
           sn == Cardinality(streams')
           cn == Screen'
           l == Cardinality(loading)
           i == Cardinality(importing)
<1>1. /\ b \in {0, 7} /\ bn \in {0, 7} /\ (pending' = pending => bn = b)
      /\ pending # None => b = 7
      /\ pending' = None => bn = 0
  OBVIOUS
<1>2. /\ w \in Nat /\ s \in Nat /\ c \in Nat /\ l \in Nat /\ i \in Nat /\ QueueLeft \in Nat
      /\ IsFiniteSet(waiting) /\ IsFiniteSet(streams) /\ IsFiniteSet(loading) /\ IsFiniteSet(importing)
      /\ c = QueueLeft + l + i
  BY Sizes DEF Screen, Finite
<1>3. Work = b + 5 * w + s + c /\ Work' = bn + 5 * wn + sn + cn
  BY DEF Work
<1>4. cn = QueueLeft' + Cardinality(loading') + Cardinality(importing')
  BY DEF Screen
<1>5. waiting' = waiting => wn = w
  OBVIOUS
<1>6. streams' = streams => sn = s
  OBVIOUS
<1>7. transitions' = transitions => QueueLeft' = QueueLeft
  BY DEF QueueLeft
<1>8. UNCHANGED <<transitions, loading, importing>> => cn = c /\ IsFiniteSet(loading') /\ IsFiniteSet(importing')
  BY <1>2, <1>4, <1>7
<1> DEFINE Falls == Finite' /\ Work' < Work
           Rises == Finite' /\ ByUser /\ Work' <= Work + 7
<1> SUFFICES Falls \/ Rises
  OBVIOUS
<1> HIDE DEF b, w, s, c, bn, wn, sn, cn, l, i
<1>9. ASSUME NEW v \in waiting, Resume(v) PROVE Falls
  <2>1. /\ waiting' = waiting \ {v} /\ pending' = pending /\ streams' = streams
    BY <1>9 DEF Resume, prefetch
  <2>2. IsFiniteSet(waiting') /\ wn \in Nat /\ wn + 1 = w
    BY <1>2, <2>1, OneLess DEF w, wn
  <2>3. CASE Go(v.url, v.replace, FALSE)
    <3>1. \E animate, skip : applyNavigation(v.url, animate, skip)
      BY <2>3 DEF Go
    <3>2. IsFiniteSet(loading') /\ IsFiniteSet(importing') /\ cn \in Nat /\ cn <= c + 4
      BY <3>1, ApplyWork DEF c, cn
    <3> QED
      BY <1>1, <1>2, <1>3, <1>6, <2>1, <2>2, <3>2 DEF Finite
  <2>4. CASE UNCHANGED <<transitions, loaders, view>>
    <3>1. cn = c /\ IsFiniteSet(loading') /\ IsFiniteSet(importing')
      BY <1>8, <2>4 DEF loaders, view
    <3> QED
      BY <1>1, <1>2, <1>3, <1>6, <2>1, <2>2, <3>1 DEF Finite
  <2> QED
    BY <1>9, <2>3, <2>4 DEF Resume
<1>10. ASSUME RunTransition PROVE Falls
  <2>1. /\ transitions # <<>> /\ ~transitions[1].ran
        /\ transitions' = [transitions EXCEPT ![1].ran = TRUE]
        /\ \E url : Show(url)
        /\ UNCHANGED <<waiting, streams, pending, loading>>
    BY <1>10 DEF RunTransition, navigating, prefetch, loaders, Inv, TypeOK
  <2>2. Len(transitions') = Len(transitions) /\ transitions' # <<>> /\ transitions'[1].ran
    <3> DEFINE S == [gen : Nat, url : Url, ran : BOOLEAN]
               u == [transitions[1] EXCEPT !.ran = TRUE]
    <3>1. transitions \in Seq(S) /\ 1 \in 1..Len(transitions)
      BY <2>1 DEF Inv, TypeOK
    <3>2. transitions[1] \in S
      BY <3>1, QueuedTypes DEF Inv
    <3>3. u \in S /\ u.ran /\ transitions' = [transitions EXCEPT ![1] = u]
      BY <2>1, <3>2
    <3> HIDE DEF S, u
    <3>4. transitions' \in Seq(S) /\ Len(transitions') = Len(transitions) /\ transitions'[1] = u
      BY <3>1, <3>3
    <3> QED
      BY <3>1, <3>3, <3>4
  <2>3. QueueLeft' = QueueLeft - 2
    <3>1. Len(transitions) \in Nat
      BY Sizes
    <3>2. QueueLeft = 4 * Len(transitions) /\ QueueLeft' = 4 * Len(transitions) - 2
      BY <2>1, <2>2, <3>1 DEF QueueLeft
    <3> QED
      BY <3>1, <3>2
  <2>4. /\ IsFiniteSet(importing') /\ Cardinality(importing') \in Nat
        /\ Cardinality(importing') <= i + 1
    BY <2>1, ShowWork DEF i
  <2>5. Cardinality(loading') = l
    BY <2>1 DEF l
  <2>6. cn = QueueLeft - 2 + l + Cardinality(importing')
    BY <1>2, <1>4, <2>3, <2>5
  <2>7. cn < c /\ cn \in Int
    BY <1>2, <2>4, <2>6
  <2> QED
    BY <1>1, <1>2, <1>3, <1>5, <1>6, <2>1, <2>4, <2>7 DEF Finite
<1>11. ASSUME FinishTransition PROVE Falls
  <2>1. /\ transitions # <<>> /\ transitions[1].ran /\ transitions' = Tail(transitions)
        /\ \E url, gen, skip : LoadRoute(gen, url, skip)
        /\ UNCHANGED <<waiting, streams, pending, importing>>
    <3>1. /\ transitions # <<>> /\ Head(transitions).ran /\ transitions' = Tail(transitions)
          /\ UNCHANGED <<waiting, streams, pending, importing>>
      BY <1>11 DEF FinishTransition, navigating, prefetch, view
    <3>2. LoadRoute(Head(transitions).gen, Head(transitions).url, FALSE)
      BY <1>11 DEF FinishTransition
    <3>3. Head(transitions) = transitions[1]
      BY <3>1 DEF Inv, TypeOK
    <3> QED
      BY <3>1, <3>2, <3>3
  <2>2. Len(transitions) \in Nat /\ Len(transitions) >= 1 /\ Len(transitions') = Len(transitions) - 1
    BY <2>1 DEF Inv, TypeOK
  <2>3. transitions' # <<>> => ~transitions'[1].ran
    <3> SUFFICES ASSUME transitions' # <<>> PROVE ~transitions'[1].ran
      OBVIOUS
    <3>1. 2 \in 1..Len(transitions) /\ transitions'[1] = transitions[2]
      BY <2>1, <2>2 DEF Inv, TypeOK
    <3> QED
      BY <3>1 DEF Inv, GensOK
  <2>4. QueueLeft' = QueueLeft - 2
    <3>1. QueueLeft = 4 * Len(transitions) - 2 /\ QueueLeft' = 4 * (Len(transitions) - 1)
      BY <2>1, <2>2, <2>3 DEF QueueLeft
    <3> QED
      BY <2>2, <3>1
  <2>5. /\ IsFiniteSet(loading') /\ Cardinality(loading') \in Nat
        /\ Cardinality(loading') <= l + 1
    BY <2>1, LoadWork DEF l
  <2>6. Cardinality(importing') = i
    BY <2>1 DEF i
  <2>7. cn = QueueLeft - 2 + Cardinality(loading') + i
    BY <1>2, <1>4, <2>4, <2>6
  <2>8. cn < c /\ cn \in Int
    BY <1>2, <2>5, <2>7
  <2> QED
    BY <1>1, <1>2, <1>3, <1>5, <1>6, <2>1, <2>5, <2>8 DEF Finite
<1>12. ASSUME Flush PROVE Falls
  <2>1. pending # None /\ pending' = None
    BY <1>12 DEF Flush
  <2>2. CASE UNCHANGED <<navigating, prefetch, transitions, loaders, view>>
    <3>1. UNCHANGED <<waiting, streams, transitions, loading, importing>>
      BY <2>2 DEF navigating, prefetch, loaders, view
    <3> QED
      BY <1>1, <1>2, <1>3, <1>5, <1>6, <1>8, <2>1, <3>1 DEF Finite
  <2>3. CASE \E url, replace : navigate(url, replace)
    <3>1. /\ Finite' /\ wn \in Nat /\ sn \in Nat /\ cn \in Nat
          /\ sn <= s + 1 /\ 5 * wn + cn <= 5 * w + c + 5
      BY <2>3, navigateWork DEF w, wn, s, sn, c, cn
    <3> QED
      BY <1>1, <1>2, <1>3, <2>1, <3>1
  <2> QED
    BY <1>12, <2>2, <2>3 DEF Flush
<1>13. ASSUME NEW g \in streams, StreamEnds(g) PROVE Falls
  <2>1. /\ streams' = streams \ {g} /\ UNCHANGED <<waiting, pending, transitions, loading, importing>>
    BY <1>13 DEF StreamEnds, navigating, loaders, view
  <2>2. IsFiniteSet(streams') /\ sn \in Nat /\ sn + 1 = s
    BY <1>2, <2>1, OneLess DEF s, sn
  <2> QED
    BY <1>1, <1>2, <1>3, <1>5, <1>8, <2>1, <2>2 DEF Finite
<1>14. ASSUME NEW x \in loading, Loaded(x) \/ LoadFails(x) PROVE Falls
  <2>1. loading' = loading \ {x} /\ UNCHANGED <<waiting, streams, pending, transitions, importing>>
    BY <1>14 DEF Loaded, LoadFails, EndLoad, navigating, prefetch, view
  <2>2. IsFiniteSet(loading') /\ Cardinality(loading') \in Nat /\ Cardinality(loading') + 1 = l
    BY <1>2, <2>1, OneLess DEF l
  <2>3. cn + 1 = c /\ cn \in Int /\ IsFiniteSet(importing')
    BY <1>2, <1>4, <1>7, <2>1, <2>2 DEF i
  <2> QED
    BY <1>1, <1>2, <1>3, <1>5, <1>6, <2>1, <2>2, <2>3 DEF Finite
<1>15. ASSUME NEW x \in importing, Imported(x) \/ ImportFails(x) PROVE Falls
  <2>1. importing' = importing \ {x} /\ UNCHANGED <<waiting, streams, pending, transitions, loading>>
    BY <1>15 DEF Imported, ImportFails, EndImport, navigating, prefetch, loaders
  <2>2. IsFiniteSet(importing') /\ Cardinality(importing') \in Nat /\ Cardinality(importing') + 1 = i
    BY <1>2, <2>1, OneLess DEF i
  <2>3. cn + 1 = c /\ cn \in Int /\ IsFiniteSet(loading')
    BY <1>2, <1>4, <1>7, <2>1, <2>2 DEF l
  <2> QED
    BY <1>1, <1>2, <1>3, <1>5, <1>6, <2>1, <2>2, <2>3 DEF Finite
<1>16. ASSUME ByUser, pending' = pending \/ pending' = None, \E url, replace : navigate(url, replace)
       PROVE  Rises
  <2>1. /\ Finite' /\ wn \in Nat /\ sn \in Nat /\ cn \in Nat
        /\ sn <= s + 1 /\ 5 * wn + cn <= 5 * w + c + 5
    BY <1>16, navigateWork DEF w, wn, s, sn, c, cn
  <2> QED
    BY <1>1, <1>2, <1>3, <1>16, <2>1
<1>17. ASSUME NEW to, PopState(to) PROVE Rises
  <2>1. /\ ByUser /\ UNCHANGED <<waiting, pending>>
        /\ \E url, animate, skip : applyNavigation(url, animate, skip)
        /\ \E url : UNCHANGED prefetch \/ startPrefetch(url)
    BY <1>17 DEF PopState, Move, ByUser
  <2>2. /\ IsFiniteSet(streams') /\ sn \in Nat /\ sn <= s + 1
    BY <2>1, PrefetchWork DEF s, sn
  <2>3. IsFiniteSet(loading') /\ IsFiniteSet(importing') /\ cn \in Nat /\ cn <= c + 4
    BY <2>1, ApplyWork DEF c, cn
  <2> QED
    BY <1>1, <1>2, <1>3, <1>5, <2>1, <2>2, <2>3 DEF Finite
<1>18. ASSUME Revalidate PROVE Rises
  <2>1. /\ ByUser /\ UNCHANGED <<waiting, streams, pending, transitions, importing>>
        /\ \E x : loading' = loading \cup {x}
    BY <1>18 DEF Revalidate, Move, ByUser, Load, navigating, prefetch, view
  <2>2. /\ IsFiniteSet(loading') /\ Cardinality(loading') \in Nat /\ Cardinality(loading') <= l + 1
    BY <1>2, <2>1, OneMore DEF l
  <2>3. cn <= c + 1 /\ cn \in Int /\ IsFiniteSet(importing')
    BY <1>2, <1>4, <1>7, <2>1, <2>2 DEF i
  <2> QED
    BY <1>1, <1>2, <1>3, <1>5, <1>6, <2>1, <2>2, <2>3 DEF Finite
<1>19. ASSUME NEW value, WriteParam(value) PROVE Rises
  <2>1. ByUser /\ UNCHANGED <<waiting, streams, transitions, loading, importing>>
    BY <1>19 DEF WriteParam, Move, ByUser, navigating, prefetch, loaders, view
  <2> QED
    BY <1>1, <1>2, <1>3, <1>5, <1>6, <1>8, <2>1 DEF Finite
<1> HIDE DEF Falls, Rises
<1>20. ASSUME Internal \/ Answer PROVE Falls
  BY <1>9, <1>10, <1>11, <1>12, <1>13, <1>14, <1>15, <1>20 DEF Internal, Answer
<1>21. ASSUME User PROVE Rises
  <2>1. ASSUME NEW url, NEW replace, Navigate(url, replace) PROVE Rises
    BY <1>16, <2>1 DEF Navigate, Move, ByUser
  <2>2. ASSUME NEW value, NEW push, NavigateParams(value, push) PROVE Rises
    BY <1>16, <2>2 DEF NavigateParams, Move, ByUser
  <2> QED
    BY <1>17, <1>18, <1>19, <1>21, <2>1, <2>2 DEF User
<1> QED
  BY <1>20, <1>21 DEF Next

LEMMA FiniteAlways == Spec => [](Inv /\ Finite)
<1>1. Init => Finite
  <2> SUFFICES ASSUME Init PROVE Finite
    OBVIOUS
  <2>1. IsFiniteSet({}) /\ \A x : IsFiniteSet({x})
    BY FS_EmptySet, FS_Singleton
  <2> QED
    BY <2>1 DEF Init, Finite
<1>2. Inv /\ Finite /\ [Next]_vars => Finite'
  BY WorkStep
<1> QED
  BY <1>1, <1>2, Invariance, PTL DEF Spec

(* Every step that is not the user's brings the application closer to      *)
(* rest, whatever navigations, transitions, prefetches, loaders and        *)
(* imports cross, and a step of the user adds a bounded amount of work: no *)
(* navigation goes round for ever, each waking another one.  With          *)
(* LastAskedWins this is LastWins, but for the steps being taken.          *)
THEOREM WorkRunsOut ==
  Spec => [](Work \in Nat) /\ [][Work' < Work \/ (ByUser /\ Work' <= Work + 7)]_vars
<1>1. Inv /\ Finite => Work \in Nat
  BY Sizes
<1>2. Inv /\ Finite /\ [Next]_vars => [Work' < Work \/ (ByUser /\ Work' <= Work + 7)]_vars
  BY WorkStep
<1> QED
  BY <1>1, <1>2, FiniteAlways, PTL DEF Spec
================================================================================
