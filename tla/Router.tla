--------------------------------- MODULE Router ---------------------------------
(***************************************************************************)
(* The client-side router of packages/ui/src/router, with server prefetch  *)
(* of navigations on: navigate() and popstate (navigate.ts), view          *)
(* transitions, the search-parameter proxy, the prefetch streams of        *)
(* server-nav.ts and the page that RouterView renders.  Routes are flat,   *)
(* a path stands for a route with its params, and search holds at most one *)
(* parameter.                                                              *)
(***************************************************************************)
EXTENDS Naturals, Sequences

CONSTANTS
  Urls,      \* records [path, search]
  Home,      \* the URL at which the application starts
  NoRoute,   \* paths that no route matches
  Lazy,      \* paths whose component is imported when it is first rendered
  Animated,  \* paths whose route asks for a view transition
  NoSearch,
  MaxMoves,  \* bound: navigations, steps in the history, writes, revalidations
  None, NotFound, Failed

Paths == {u.path : u \in Urls}
Searches == {u.search : u \in Urls} \cup {NoSearch}
Url == [path : Paths, search : Searches]

ASSUME UrlAssumption ==
  /\ Urls \subseteq Url /\ Home \in Urls /\ Home.path \notin NoRoute
  /\ MaxMoves \in Nat
  /\ {None, NotFound, Failed} \cap Paths = {} /\ None \notin Url
  /\ NotFound # None /\ Failed # None /\ NotFound # Failed

VARIABLES
  entries, pos,   \* window.history
  lastPath,       \* lastPathname
  visited,        \* visitedUrls
  navigateGen,    \* newest navigate()
  waiting,        \* navigate() calls at awaitPrefetch: [gen, url, replace]
  prefetchUrl,    \* activePrefetchUrl
  prefetchGen,
  streams,        \* generations of the prefetches that have not ended
  deferring,      \* __VERTZ_NAV_PREFETCH_ACTIVE__
  transitions,    \* view transitions in order: [gen, url, ran]
  current,        \* the signals current and searchParams: a URL, or None
  navigationGen,
  loading,        \* loaders that have not returned: [gen, path]
  data, error,    \* the paths whose loaders gave loaderData and loaderError
  page,           \* what the container shows: a path, NotFound, Failed, or None
  shown,          \* prevLevels and prevParamsKey
  renderGen,
  importing,      \* dynamic imports under way: [gen, path]
  pending,        \* the batch of search-parameter writes: [path, search]
  moves,
  asked,          \* history: the URL asked for last
  overruling,     \* history: the URL of the navigate() that waited at the last step
                  \* through the history, if that came last, or None
  hasty           \* history: a navigation cut another one short

browser == <<entries, pos, lastPath>>
prefetch == <<prefetchUrl, prefetchGen, streams, deferring>>
loaders == <<navigationGen, loading, data, error>>
view == <<page, shown, renderGen, importing>>
navigating == <<navigateGen, waiting, asked, overruling>>
vars == <<browser, visited, navigating, prefetch, transitions, current, loaders, view,
          pending, moves, hasty>>

Matched(url) == IF url.path \in NoRoute THEN None ELSE url
Location == entries[pos]

Init ==
  /\ entries = <<Home>> /\ pos = 1 /\ lastPath = Home.path
  /\ visited = {Home} /\ navigateGen = 0 /\ waiting = {}
  /\ asked = Home /\ overruling = None
  /\ prefetchUrl = None /\ prefetchGen = 0 /\ streams = {} /\ deferring = FALSE
  /\ transitions = <<>> /\ current = Home
  /\ navigationGen = 1 /\ loading = {[gen |-> 1, path |-> Home.path]}
  /\ data = None /\ error = None
  /\ shown = Home.path /\ renderGen = 1
  /\ IF Home.path \in Lazy
       THEN page = None /\ importing = {[gen |-> 1, path |-> Home.path]}
       ELSE page = Home.path /\ importing = {}
  /\ pending = None /\ moves = 0 /\ hasty = FALSE

Move == moves < MaxMoves /\ moves' = moves + 1

(***************************************************************************)
(* RouterView: the effect that renders current                             *)
(***************************************************************************)
ImportLive == \E i \in importing : i.gen = renderGen

\* A match of the page that is shown returns early, with a new renderGen.
Show(url) ==
  /\ current' = Matched(url)
  /\ \/ Matched(url) = None /\ current = None /\ UNCHANGED view
     \/ /\ Matched(url) = None /\ current # None
        /\ page' = NotFound /\ shown' = None /\ renderGen' = renderGen + 1
        /\ UNCHANGED importing
     \/ /\ Matched(url) # None /\ shown = url.path
        /\ renderGen' = renderGen + 1 /\ UNCHANGED <<page, shown, importing>>
     \/ /\ Matched(url) # None /\ shown # url.path /\ url.path \in Lazy
        /\ page' = None /\ shown' = url.path /\ renderGen' = renderGen + 1
        /\ importing' = importing \cup {[gen |-> renderGen', path |-> url.path]}
     \/ /\ Matched(url) # None /\ shown # url.path /\ url.path \notin Lazy
        /\ page' = url.path /\ shown' = url.path /\ renderGen' = renderGen + 1
        /\ UNCHANGED importing

CutsImport(url) == ImportLive /\ shown = url.path

EndAnyImport(i, result) ==
  /\ importing' = importing \ {i} /\ page' = result
  /\ UNCHANGED <<browser, visited, navigating, prefetch, transitions, current, loaders,
                 shown, renderGen, pending, moves, hasty>>

\* The import answers, or fails; one that is not the newest rendering's is dropped.
EndImport(i, result) ==
  /\ importing' = importing \ {i}
  /\ page' = IF i.gen = renderGen THEN result ELSE page
  /\ UNCHANGED <<browser, visited, navigating, prefetch, transitions, current, loaders,
                 shown, renderGen, pending, moves, hasty>>
Imported(i) == i \in importing /\ EndImport(i, i.path)
ImportFails(i) == i \in importing /\ EndImport(i, Failed)

(***************************************************************************)
(* Loaders                                                                 *)
(***************************************************************************)
\* runLoaders: the error goes before the generation is looked at.
Load(gen, path) ==
  error' = None /\ loading' = loading \cup {[gen |-> gen, path |-> path]} /\ UNCHANGED data

EndLoad(l) ==
  /\ l \in loading /\ loading' = loading \ {l}
  /\ UNCHANGED <<browser, visited, navigating, prefetch, transitions, current,
                 navigationGen, view, pending, moves, hasty>>
LoadedAny(l) == EndLoad(l) /\ UNCHANGED error /\ data' = l.path
Loaded(l) ==
  /\ EndLoad(l) /\ UNCHANGED error
  /\ data' = IF l.gen = navigationGen THEN l.path ELSE data
LoadFails(l) ==
  /\ EndLoad(l) /\ UNCHANGED data
  /\ error' = IF l.gen = navigationGen THEN l.path ELSE error

\* What applyNavigation does once current is written.
LoadRoute(gen, url, skipLoaders) ==
  \/ Matched(url) # None /\ ~skipLoaders /\ Load(gen, url.path)
  \/ Matched(url) # None /\ skipLoaders /\ UNCHANGED <<loading, data, error>>
  \/ /\ Matched(url) = None /\ gen = navigationGen'
     /\ data' = None /\ error' = None /\ UNCHANGED loading
  \/ Matched(url) = None /\ gen # navigationGen' /\ UNCHANGED <<loading, data, error>>

(***************************************************************************)
(* Navigations                                                             *)
(***************************************************************************)
\* A navigation that cuts another one short: it overtakes a view transition,
\* aborts loaders that it does not run again, or drops the import of the page.
Cuts(url, animate, skipLoaders) ==
  \/ ~animate /\ transitions # <<>>
  \/ skipLoaders /\ \E l \in loading : l.gen = navigationGen
  \/ ~animate /\ CutsImport(url)

applyNavigation(url, animate, skipLoaders) ==
  /\ navigationGen' = navigationGen + 1
  /\ visited' = IF Matched(url) = None THEN visited ELSE visited \cup {url}
  /\ hasty' = (hasty \/ Cuts(url, animate, skipLoaders))
  /\ IF animate
       THEN /\ transitions' = Append(transitions, [gen |-> navigationGen', url |-> url, ran |-> FALSE])
            /\ UNCHANGED <<current, view, loading, data, error>>
       ELSE /\ Show(url) /\ LoadRoute(navigationGen', url, skipLoaders)
            /\ UNCHANGED transitions

\* The update callback of document.startViewTransition, and its end.
RunTransition ==
  /\ transitions # <<>> /\ ~Head(transitions).ran /\ pending = None
  /\ transitions' = [transitions EXCEPT ![1].ran = TRUE]
  /\ Show(Head(transitions).url)
  /\ hasty' = (hasty \/ CutsImport(Head(transitions).url))
  /\ UNCHANGED <<browser, visited, navigating, prefetch, loaders, pending, moves>>

FinishTransition ==
  /\ transitions # <<>> /\ Head(transitions).ran /\ pending = None
  /\ transitions' = Tail(transitions)
  /\ navigationGen' = navigationGen
  /\ LoadRoute(Head(transitions).gen, Head(transitions).url, FALSE)
  /\ UNCHANGED <<browser, visited, navigating, prefetch, current, view, pending, moves, hasty>>

\* startPrefetch: a click on the same link keeps the prefetch, another aborts it.
startPrefetch(url) ==
  IF prefetchUrl = url THEN UNCHANGED prefetch
  ELSE /\ prefetchUrl' = url /\ prefetchGen' = prefetchGen + 1
       /\ streams' = streams \cup {prefetchGen'} /\ deferring' = TRUE

AnyStreamEnds(gen) ==
  /\ gen \in streams /\ pending = None
  /\ streams' = streams \ {gen} /\ deferring' = FALSE
  /\ UNCHANGED <<browser, visited, navigating, prefetchUrl, prefetchGen, transitions, current,
                 loaders, view, pending, moves, hasty>>

\* A stream is done, aborted, broken or timed out: finishIfCurrent.
StreamEnds(gen) ==
  /\ gen \in streams /\ pending = None
  /\ streams' = streams \ {gen}
  /\ deferring' = IF gen = prefetchGen THEN FALSE ELSE deferring
  /\ UNCHANGED <<browser, visited, navigating, prefetchUrl, prefetchGen, transitions, current,
                 loaders, view, pending, moves, hasty>>

\* navigate() from the test of the generation on.
Go(url, replace, searchOnly) ==
  /\ IF replace THEN entries' = [entries EXCEPT ![pos] = url] /\ UNCHANGED pos
     ELSE entries' = Append(SubSeq(entries, 1, pos), url) /\ pos' = pos + 1
  /\ lastPath' = url.path
  /\ applyNavigation(url, ~searchOnly /\ url.path \in Animated, searchOnly)

navigate(url, replace) ==
  LET searchOnly == lastPath = url.path
  IN  /\ navigateGen' = navigateGen + 1 /\ asked' = url /\ overruling' = None
      /\ IF searchOnly THEN UNCHANGED prefetch ELSE startPrefetch(url)
      /\ IF searchOnly \/ url \in visited
           THEN Go(url, replace, searchOnly) /\ UNCHANGED waiting
           ELSE /\ waiting' = waiting \cup {[gen |-> navigateGen', url |-> url, replace |-> replace]}
                /\ UNCHANGED <<browser, visited, transitions, current, loaders, view, hasty>>

Navigate(url, replace) == Move /\ navigate(url, replace) /\ UNCHANGED pending

ResumeAny(w) ==
  /\ w \in waiting /\ waiting' = waiting \ {w} /\ Go(w.url, w.replace, FALSE)
  /\ UNCHANGED <<navigateGen, asked, overruling, prefetch, pending, moves>>

\* The first event of the prefetch is there, or 500 ms are over.
Resume(w) ==
  /\ w \in waiting /\ waiting' = waiting \ {w}
  /\ IF w.gen = navigateGen THEN Go(w.url, w.replace, FALSE)
     ELSE UNCHANGED <<browser, visited, transitions, current, loaders, view, hasty>>
  /\ UNCHANGED <<navigateGen, asked, overruling, prefetch, pending, moves>>

\* popstate leaves navigateGen alone: a navigate() that waits goes on nevertheless.
PopState(to) ==
  LET url == entries[to]
      searchOnly == lastPath = url.path
  IN  /\ Move /\ pending = None
      /\ to # pos /\ pos' = to /\ UNCHANGED entries /\ lastPath' = url.path
      /\ IF searchOnly THEN UNCHANGED prefetch ELSE startPrefetch(url)
      /\ applyNavigation(url, ~searchOnly /\ url.path \in Animated, searchOnly)
      /\ asked' = url
      /\ \/ \E w \in waiting : w.gen = navigateGen /\ overruling' = w.url
         \/ (\A w \in waiting : w.gen # navigateGen) /\ overruling' = None
      /\ UNCHANGED <<navigateGen, waiting, pending>>

Revalidate ==
  /\ Move /\ current # None
  /\ navigationGen' = navigationGen + 1 /\ Load(navigationGen', current.path)
  /\ hasty' = (hasty \/ transitions # <<>>)
  /\ UNCHANGED <<browser, visited, navigating, prefetch, transitions, current, view, pending>>

(***************************************************************************)
(* useSearchParams                                                         *)
(***************************************************************************)
Search == IF current = None THEN NoSearch ELSE current.search

\* A write, or a delete (NoSearch); the pathname is that of the first of a batch.
WriteParam(value) ==
  /\ Move
  /\ pending' = [path |-> IF pending = None THEN Location.path ELSE pending.path, search |-> value]
  /\ UNCHANGED <<browser, visited, navigating, prefetch, transitions, current, loaders, view, hasty>>

\* The microtask, before any other task.
Flush ==
  /\ pending # None /\ pending' = None
  /\ IF pending.search = Search
       THEN UNCHANGED <<browser, visited, navigating, prefetch, transitions, current, loaders, view, hasty>>
       ELSE navigate(pending, TRUE)
  /\ UNCHANGED moves

NavigateParams(value, push) ==
  /\ Move /\ pending' = None
  /\ navigate([path |-> Location.path, search |-> value], ~push)

Internal == \/ \E w \in waiting : Resume(w)
            \/ RunTransition \/ FinishTransition \/ Flush
            \/ \E g \in streams : StreamEnds(g)
Answer == \/ \E l \in loading : Loaded(l) \/ LoadFails(l)
          \/ \E i \in importing : Imported(i) \/ ImportFails(i)
User == \/ \E url \in Urls, replace \in BOOLEAN : Navigate(url, replace)
        \/ \E to \in {pos - 1, pos + 1} \cap DOMAIN entries : PopState(to)
        \/ Revalidate
        \/ \E value \in Searches : \/ WriteParam(value)
                                   \/ \E push \in BOOLEAN : NavigateParams(value, push)
Next == Internal \/ Answer \/ User

\* Timers, microtasks, transition callbacks and the timeout of a prefetch come;
\* a loader or an import may never answer.
Spec == Init /\ [][Next]_vars /\ WF_vars(Internal)

(***************************************************************************)
(* Properties                                                              *)
(***************************************************************************)
TypeOK ==
  /\ entries \in Seq(Url) /\ pos \in DOMAIN entries /\ lastPath \in Paths
  /\ visited \subseteq Url /\ pending \in Url \cup {None}
  /\ asked \in Url /\ overruling \in Url \cup {None}
  /\ navigateGen \in Nat /\ waiting \subseteq [gen : Nat, url : Url, replace : BOOLEAN]
  /\ prefetchUrl \in Url \cup {None} /\ prefetchGen \in Nat /\ streams \subseteq Nat
  /\ transitions \in Seq([gen : Nat, url : Url, ran : BOOLEAN])
  /\ current \in {u \in Url : u.path \notin NoRoute} \cup {None}
  /\ navigationGen \in Nat /\ loading \subseteq [gen : Nat, path : Paths]
  /\ data \in Paths \cup {None} /\ error \in Paths \cup {None}
  /\ renderGen \in Nat /\ importing \subseteq [gen : Nat, path : Paths]
  /\ shown \in Paths \cup {None} /\ page \in Paths \cup {None, NotFound, Failed}
  /\ moves \in 0..MaxMoves /\ deferring \in BOOLEAN /\ hasty \in BOOLEAN

(* routing.mdx "if a slow route resolves after a newer navigation, it's     *)
(* discarded": whatever imports answer late, the container shows the page   *)
(* of the current route, its error, or nothing while it is imported (or     *)
(* after its import was cut short).                                         *)
OnScreen ==
  IF current = None THEN page = NotFound
  ELSE \/ page = current.path
       \/ page = Failed /\ current.path \in Lazy
       \/ page = None /\ (hasty \/ \E i \in importing : i = [gen |-> renderGen, path |-> current.path])

(* Loader data and error are those of the current route once nothing is     *)
(* under way, in whatever order loaders, transitions and steps through the  *)
(* history came, unless a navigation was cut short.                         *)
AtRest == waiting = {} /\ transitions = <<>> /\ pending = None
DataOfRoute ==
  AtRest /\ loading = {} /\ ~hasty =>
    IF current = None THEN data = None /\ error = None
    ELSE error = current.path \/ (error = None /\ data = current.path)

(* Queries that put off their fetch until the prefetch of the navigation    *)
(* is over are waiting for the newest prefetch, and it is under way: the    *)
(* end of an aborted one neither releases them early nor is lost.           *)
PrefetchTold == deferring <=> prefetchGen \in streams

(* The navigation asked for last wins, with the location, the current route *)
(* and its search parameters in agreement, unless a navigation was cut      *)
(* short; but a navigate() that waits for its prefetch while the user steps *)
(* through the history wins over that step.                                 *)
Winner == IF overruling = None THEN asked ELSE overruling
LastWins == <>[](hasty \/ (Location = Winner /\ current = Matched(Winner)))

(* navigate.ts on a navigate() that has waited: it is skipped "if a newer   *)
(* navigation started while we waited", so that the application rests where *)
(* the user last wanted to go, be it by a step through the history.         *)
BackWins == AtRest /\ ~hasty => Location = asked /\ current = Matched(asked)

(* What is said without the exception: that the loader data is that of the  *)
(* current route's loaders (navigate.ts:113), and that RouterView renders   *)
(* the matched route's component (router-view.ts:43).                       *)
LoaderDataArrives ==
  AtRest /\ loading = {} /\ current # None => error = current.path \/ data = current.path
PageArrives == AtRest /\ importing = {} /\ current # None => page # None
================================================================================
