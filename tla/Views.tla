------------------------------- MODULE Views -------------------------------
(***************************************************************************)
(* What the pages of the web console show: the queries of                  *)
(* src/web/src/api/hooks.ts, the lists of pages/users.tsx and pages/       *)
(* mountpoints.tsx with their filters and components/pagination.tsx, the   *)
(* polled tables of pages/connections.tsx and pages/dashboard.tsx, and the *)
(* markers of pages/map.tsx.                                               *)
(*                                                                         *)
(* TanStack Query keeps one entry per query key.  It is modelled from its  *)
(* use: a key that is observed is fetched when its page appears, one       *)
(* request per key is under way at a time, an invalidation cancels the     *)
(* request of a key that has data and asks again, but joins the first      *)
(* request of a key that has none, and a failed request is retried once    *)
(* while someone observes it (App.tsx, retry: 1).                          *)
(*                                                                         *)
(* The data is abstracted to the number of changes the server had made     *)
(* when it read it.  A request carries the number at which it was sent;    *)
(* its answer may show any later state, because the server may handle it   *)
(* at any moment until it arrives.                                         *)
(***************************************************************************)
EXTENDS Integers, Sequences, FiniteSets

CONSTANTS
    Resources,      \* the queries that the instance follows
    Pages,          \* the pages that it visits
    All,            \* no filter
    Filters,        \* the choices of search, role, format and state
    Start,          \* the tables at the beginning: for each list and filter,
                    \* how many rows match
    Limit,          \* rows on a page of a list (50 in the code)
    MaxRows,        \* bound on the rows of a table
    MaxChanges,     \* bound on the changes of the server
    MaxMoves,       \* bound on the administrator's moves to another page or filter
    MaxFails        \* bound on the requests that fail

Lists == {"users", "mountpoints"} \cap Resources
Polled == {"stats", "sources", "clients"}

ASSUME ViewsAssumption ==
    /\ Resources \subseteq {"users", "mountpoints", "bindings", "mounts",
                            "sources", "clients", "stats"}
    /\ Pages \subseteq {"dashboard", "users", "mountpoints", "connections", "map"}
    /\ "dashboard" \in Pages
    /\ All \in Filters
    /\ Limit \in Nat \ {0}
    /\ Start \in [Lists -> [Filters -> 0 .. MaxRows]]
    /\ \A r \in Lists : \A f \in Filters : Start[r][f] <= Start[r][All]
    /\ MaxRows \in Nat \ {0} /\ MaxMoves \in Nat /\ MaxChanges \in Nat /\ MaxFails \in Nat

Params == [pg : 1 .. MaxRows, flt : Filters]
FirstPage == [pg |-> 1, flt |-> All]

VARIABLES
    hist,       \* the tables after each change: how many rows match a filter
    page,       \* the page that is shown
    params,     \* page and filters of the list on it
    moves,      \* moves so far
    cache,      \* QueryClient: the entry of every key
    mut,        \* the mutation under way
    fails,      \* requests that failed so far
    drawn,      \* MarkerLayer: the state whose features are on the map
    mountsRef,  \* MarkerLayer: mountsRef.current, read by the click handler
    selected,   \* MapPage: the state of the mountpoint on the card
    highlight   \* MapPage: the URL names a mountpoint

vars == <<hist, page, params, moves, cache, mut, fails, drawn, mountsRef,
          selected, highlight>>
mapVars == <<drawn, mountsRef, selected, highlight>>

now == Len(hist) - 1
Never == -1
Versions == Never .. MaxChanges

(***************************************************************************)
(* Keys.                                                                   *)
(***************************************************************************)
Key == [res : Resources, pg : 1 .. MaxRows, flt : Filters]
Whole(r) == [res |-> r, pg |-> 1, flt |-> All]

\* Mutant: the page number is left out of the key.
ListKeyUnpaged(r, p) == [res |-> r, pg |-> 1, flt |-> p.flt]

\* queryKeys.users and queryKeys.mountpoints: the parameters are in the key.
ListKey(r, p) == [res |-> r, pg |-> p.pg, flt |-> p.flt]

Keys == {k \in Key : k.res \in Lists \/ k = Whole(k.res)}

\* The queries of each page.
DashboardPage == {"stats"}
UsersPage == {"users", "bindings"}
MountpointsPage == {"mountpoints"}
ConnectionsPage == {"sources", "clients", "mounts"}
MapPage == {"mounts"}

QueriesOf(pge) ==
    CASE pge = "dashboard" -> DashboardPage
      [] pge = "users" -> UsersPage
      [] pge = "mountpoints" -> MountpointsPage
      [] pge = "connections" -> ConnectionsPage
      [] pge = "map" -> MapPage

KeyOf(r, p) == IF r \in Lists THEN ListKey(r, p) ELSE Whole(r)
ParamsOf(r, p) == IF r \in Lists THEN p ELSE FirstPage

ObservedOn(pge, p) == {KeyOf(r, p) : r \in QueriesOf(pge) \cap Resources}
Observed(k) == k \in ObservedOn(page, params)

(***************************************************************************)
(* One entry of the cache.  data: the parameters it answers, the state in  *)
(* which the rows were counted and the one in which they were read.        *)
(***************************************************************************)
NoData == [for |-> FirstPage, counted |-> Never, at |-> Never]
Data == [for : Params, counted : Versions, at : Versions]
Request == [for : Params, since : Versions]
Entry == [data : Data, reqs : SUBSET Request, retried : BOOLEAN]
Unfetched == [data |-> NoData, reqs |-> {}, retried |-> FALSE]

HasData(e) == e.data.at # Never

\* Query.fetch: a request that is under way is joined.
Fetch(e, p) ==
    IF e.reqs # {} THEN e
    ELSE [e EXCEPT !.reqs = {[for |-> p, since |-> now]}, !.retried = FALSE]

\* Mutant: the invalidation joins a request that is under way.
RefetchJoins(e, p) == Fetch(e, p)

\* Mutant: the older request is not cancelled.
RefetchBeside(e, p) == [e EXCEPT !.reqs = @ \cup {[for |-> p, since |-> now]}, !.retried = FALSE]

\* invalidateQueries with cancelRefetch: the request of an entry with data is
\* dropped and replaced.
Refetch(e, p) ==
    IF HasData(e)
    THEN [e EXCEPT !.reqs = {[for |-> p, since |-> now]}, !.retried = FALSE]
    ELSE Fetch(e, p)

\* Observers of the given keys mount: staleTime is 0, so each of them is
\* fetched.
Mounted(pge, p) ==
    [k \in Keys |-> IF k \in ObservedOn(pge, p)
                    THEN Fetch(cache[k], ParamsOf(k.res, p)) ELSE cache[k]]

\* The console has just been loaded.
Loaded(pge) ==
    [k \in Keys |-> IF k \in ObservedOn(pge, FirstPage)
                    THEN Fetch(Unfetched, FirstPage) ELSE Unfetched]

(***************************************************************************)
(* Components/pagination.tsx.                                              *)
(***************************************************************************)
TotalPages(total) == (total + Limit - 1) \div Limit

\* The pages a button leads to; none when everything fits on one page.
Buttons(pg, total) ==
    LET last == TotalPages(total)
        startPage == IF pg - 2 > 1 THEN pg - 2 ELSE 1
        endPage == IF pg + 2 < last THEN pg + 2 ELSE last
    IN  IF last <= 1 THEN {}
        ELSE startPage .. endPage
             \cup {n \in {pg - 1} : pg > 1} \cup {n \in {pg + 1} : pg < last}
             \cup {n \in {1} : startPage > 1} \cup {n \in {last} : endPage < last}

\* ListUsersPaginated, ListMountPointRowsPaginated: a page of the rows.
RowsOn(pg, total) ==
    LET rest == total - (pg - 1) * Limit
    IN  IF rest < 0 THEN 0 ELSE IF rest > Limit THEN Limit ELSE rest

Content == [Lists -> [Filters -> 0 .. MaxRows]]
TableAt(v, r) == hist[v + 1][r]

\* total and the number of rows of an answer of list r
Total(r, d) == TableAt(d.counted, r)[d.for.flt]
Rows(r, d) == RowsOn(d.for.pg, TableAt(d.at, r)[d.for.flt])

\* The list that the page shows, if it is one and has loaded.
ListShown == page \in Lists /\ HasData(cache[ListKey(page, params)])
Shown == cache[ListKey(page, params)].data

(***************************************************************************)
(* The server: one row is inserted, deleted or altered, or something else  *)
(* changes, a connection for example.                                      *)
(***************************************************************************)
Altered(c) ==
    {d \in Content : \A r \in Lists : \A f \in Filters :
        /\ d[r][f] - c[r][f] \in -1 .. 1
        /\ d[r][f] <= d[r][All]}

Change ==
    /\ now < MaxChanges
    /\ \E c \in Altered(hist[Len(hist)]) : hist' = Append(hist, c)

\* Another administrator, a station or a rover.
OtherChange ==
    /\ Change
    /\ UNCHANGED <<page, params, moves, cache, mut, fails, mapVars>>

(***************************************************************************)
(* Mutations.  at: the change the server made; waits: refetches that       *)
(* onSuccess returned and mutateAsync awaits; keys: those that were asked  *)
(* after the change.                                                       *)
(***************************************************************************)
Mutation == [res : Resources \cup {"none"}, stage : {"idle", "sent", "applied", "awaiting"},
             at : Versions, waits : SUBSET Keys, keys : SUBSET Keys]
NoMutation == [res |-> "none", stage |-> "idle", at |-> Never, waits |-> {}, keys |-> {}]

(***************************************************************************)
(* The administrator looks at pages.                                       *)
(***************************************************************************)

Move ==
    /\ moves < MaxMoves
    /\ moves' = moves + 1

\* AppSidebar's links, and NavLink's replacement of the Outlet: the old page
\* unmounts and its state is lost, the new one mounts with its first page.
Navigate(pge) ==
    /\ pge # page
    /\ Move
    /\ page' = pge
    /\ params' = FirstPage
    /\ cache' = Mounted(pge, FirstPage)
    /\ drawn' = Never /\ mountsRef' = Never /\ selected' = Never /\ highlight' = FALSE
    /\ UNCHANGED <<hist, mut, fails>>

\* The button for the position of a mountpoint assigns window.location: the
\* browser loads the console anew and everything it held is gone.
ShowOnMap ==
    /\ ListShown /\ page = "mountpoints" /\ "map" \in Pages
    /\ Rows(page, Shown) > 0
    /\ Move
    /\ page' = "map" /\ params' = FirstPage
    /\ cache' = Loaded("map")
    /\ mut' = NoMutation
    /\ drawn' = Never /\ mountsRef' = Never /\ selected' = Never /\ highlight' = TRUE
    /\ UNCHANGED <<hist, fails>>

\* Mutant: the page number survives a new filter.
SetFilterKeepsPage(f) ==
    /\ page \in Lists /\ Move
    /\ params' = [params EXCEPT !.flt = f]
    /\ cache' = Mounted(page, params')
    /\ UNCHANGED <<hist, page, mut, fails, mapVars>>

\* handleSearch, handleRoleChange, handleFormatChange, handleEnabledChange
SetFilter(f) ==
    /\ page \in Lists /\ Move
    /\ params' = [pg |-> 1, flt |-> f]
    /\ cache' = Mounted(page, params')
    /\ UNCHANGED <<hist, page, mut, fails, mapVars>>

\* handlePageChange by a button of Pagination, which is rendered with data
PageChange(n) ==
    /\ ListShown /\ Move
    /\ n \in Buttons(params.pg, Total(page, Shown))
    /\ params' = [params EXCEPT !.pg = n]
    /\ cache' = Mounted(page, params')
    /\ UNCHANGED <<hist, page, mut, fails, mapVars>>

(***************************************************************************)
(* Requests end.                                                           *)
(***************************************************************************)
Put(k, e) == cache' = [cache EXCEPT ![k] = e]

\* Mutant: no refetchInterval.
PollOnce(k) ==
    /\ Observed(k) /\ k.res \in Polled
    /\ cache[k].reqs = {} /\ ~HasData(cache[k])
    /\ Put(k, Fetch(cache[k], FirstPage))
    /\ UNCHANGED <<hist, page, params, moves, mut, fails, mapVars>>

\* refetchInterval of useStats, useSources and useClients
Poll(k) ==
    /\ Observed(k) /\ k.res \in Polled
    /\ cache[k].reqs = {}
    /\ Put(k, Fetch(cache[k], FirstPage))
    /\ UNCHANGED <<hist, page, params, moves, mut, fails, mapVars>>

\* The mutation stops waiting for the refetch of k; one that failed has not
\* made the list fresh.
Awaited(k, fresh) ==
    mut' = [mut EXCEPT !.waits = @ \ {k}, !.keys = IF fresh THEN @ ELSE @ \ {k}]

\* An answer: the server counted the rows and read a page of them with two
\* statements, after the request was sent.
Settle(k) ==
    /\ \E r \in cache[k].reqs : \E c \in r.since .. now : \E v \in c .. now :
         /\ (k.res \notin Lists => c = v)
         /\ Put(k, [cache[k] EXCEPT !.data = [for |-> r.for, counted |-> c, at |-> v],
                                    !.reqs = @ \ {r}, !.retried = FALSE])
    /\ Awaited(k, TRUE)
    /\ UNCHANGED <<hist, page, params, moves, fails, mapVars>>

\* A request fails: once it is sent again, then the entry keeps what it has.
Fail(k) ==
    /\ fails < MaxFails
    /\ fails' = fails + 1
    /\ \E r \in cache[k].reqs :
         IF Observed(k) /\ ~cache[k].retried
         THEN /\ Put(k, [cache[k] EXCEPT !.reqs = (@ \ {r}) \cup {[r EXCEPT !.since = now]},
                                         !.retried = TRUE])
              /\ UNCHANGED mut
         ELSE /\ Put(k, [cache[k] EXCEPT !.reqs = @ \ {r}, !.retried = FALSE])
              /\ Awaited(k, FALSE)
    /\ UNCHANGED <<hist, page, params, moves, mapVars>>

(***************************************************************************)
(* What a mutation does.                                                   *)
(***************************************************************************)

\* What a mutation invalidates, and whether its hook returns the promise.
Invalidates(r) ==
    CASE r = "users" -> {"users"}
      [] r = "mountpoints" -> {"mountpoints", "mounts"}
      [] r = "bindings" -> {"bindings"}
      [] r = "sources" -> {"sources", "stats"}
      [] r = "clients" -> {"clients", "stats"}

Awaits(r) == r \in {"users", "mountpoints", "bindings"}

\* mutateAsync of a page's hook
Mutate(r) ==
    /\ mut.stage = "idle"
    /\ r \in (QueriesOf(page) \cap Resources) \ {"mounts", "stats"}
    /\ mut' = [NoMutation EXCEPT !.res = r, !.stage = "sent"]
    /\ UNCHANGED <<hist, page, params, moves, cache, fails, mapVars>>

\* The server carries it out.
Apply ==
    /\ mut.stage = "sent"
    /\ Change
    /\ mut' = [mut EXCEPT !.stage = "applied", !.at = now + 1]
    /\ UNCHANGED <<page, params, moves, cache, fails, mapVars>>

\* It is refused or lost: the page shows a toast.
Reject ==
    /\ mut.stage = "sent" /\ fails < MaxFails
    /\ fails' = fails + 1
    /\ mut' = NoMutation
    /\ UNCHANGED <<hist, page, params, moves, cache, mapVars>>

\* onSuccess: the observed keys under the prefix are fetched again.
OnSuccess ==
    LET stale == {k \in Keys : Observed(k) /\ k.res \in Invalidates(mut.res)}
    IN  /\ mut.stage = "applied"
        /\ cache' = [k \in Keys |-> IF k \in stale
                                    THEN Refetch(cache[k], ParamsOf(k.res, params)) ELSE cache[k]]
        /\ mut' = IF Awaits(mut.res)
                  THEN [mut EXCEPT !.stage = "awaiting", !.waits = stale,
                                   !.keys = {k \in stale : HasData(cache[k]) \/ cache[k].reqs = {}}]
                  ELSE NoMutation
        /\ UNCHANGED <<hist, page, params, moves, fails, mapVars>>

\* The awaited refetches are over: the page closes its dialog.
Resolve ==
    /\ mut.stage = "awaiting" /\ mut.waits = {}
    /\ mut' = NoMutation
    /\ UNCHANGED <<hist, page, params, moves, cache, fails, mapVars>>

(***************************************************************************)
(* The map.                                                                *)
(***************************************************************************)
MapData == cache[Whole("mounts")].data.at

\* Mutant: the click handler keeps the mounts of its first render.
DrawKeepsRef ==
    /\ page = "map" /\ "mounts" \in Resources
    /\ MapData # drawn
    /\ drawn' = MapData
    /\ mountsRef' = IF mountsRef = Never THEN MapData ELSE mountsRef
    /\ UNCHANGED <<hist, page, params, moves, cache, mut, fails, selected, highlight>>

\* MarkerLayer's effects after a render with other mounts: the features are
\* drawn again and the ref follows, the layer and its handler stay.
DrawMarkers ==
    /\ page = "map" /\ "mounts" \in Resources
    /\ MapData # drawn
    /\ drawn' = MapData /\ mountsRef' = MapData
    /\ UNCHANGED <<hist, page, params, moves, cache, mut, fails, selected, highlight>>

\* handleClick on a feature, handleSelect
SelectMarker ==
    /\ drawn # Never
    /\ selected' = mountsRef
    /\ UNCHANGED <<hist, page, params, moves, cache, mut, fails, drawn, mountsRef, highlight>>

\* displayMount: the mountpoint that was clicked, else the one of the URL.
Card ==
    IF selected # Never THEN selected
    ELSE IF highlight THEN MapData ELSE Never

Init ==
    /\ hist = <<Start>>
    /\ page = "dashboard" /\ params = FirstPage /\ moves = 0
    /\ cache = Loaded("dashboard")
    /\ mut = NoMutation /\ fails = 0
    /\ drawn = Never /\ mountsRef = Never /\ selected = Never /\ highlight = FALSE

Next ==
    \/ OtherChange
    \/ \E pge \in Pages : Navigate(pge)
    \/ ShowOnMap
    \/ \E f \in Filters : SetFilter(f)
    \/ \E n \in 1 .. MaxRows : PageChange(n)
    \/ \E k \in Keys : Poll(k) \/ Settle(k) \/ Fail(k)
    \/ \E r \in Resources : Mutate(r)
    \/ Apply \/ Reject \/ OnSuccess \/ Resolve
    \/ DrawMarkers \/ SelectMarker

Spec == Init /\ [][Next]_vars

\* Timers fire and requests end, each key's for itself.  Nothing is assumed
\* of the administrator.
FairSpec ==
    /\ Spec
    /\ \A k \in Keys : WF_vars(Poll(k)) /\ WF_vars(Settle(k))

(***************************************************************************)
(* Properties.                                                             *)
(***************************************************************************)
TypeOK ==
    /\ hist \in Seq(Content) /\ Len(hist) \in 1 .. MaxChanges + 1
    /\ page \in Pages /\ params \in Params /\ moves \in 0 .. MaxMoves
    /\ cache \in [Keys -> Entry]
    /\ mut \in Mutation
    /\ fails \in 0 .. MaxFails
    /\ drawn \in Versions /\ mountsRef \in Versions /\ selected \in Versions
    /\ highlight \in BOOLEAN

\* The rows on the screen answer the page and the filters on the screen,
\* however late answers for other choices arrive (hooks.ts: queryKeys).
ShownMatchesParams == ListShown => Shown.for = params

\* "No users" is said of a list that is not empty only on a page that existed
\* under the same filter before rows were deleted: a new filter starts at its
\* first page (users.tsx: setPage(1) in every filter handler), and no button
\* leads past the last page (pagination.tsx).
EmptyOnlyAfterShrink ==
    ListShown /\ Total(page, Shown) > 0 /\ Rows(page, Shown) = 0 =>
        \E v \in 0 .. now : TotalPages(TableAt(v, page)[params.flt]) >= params.pg

\* When a save or a deletion is reported and its dialog closes, the list that
\* was on the screen has been read after the change, unless it was still
\* loading for the first time or its refetch failed (hooks.ts: onSuccess
\* returns the promise of invalidateQueries).
FreshWhenClosed ==
    mut.stage = "awaiting" /\ mut.waits = {} =>
        \A k \in mut.keys : cache[k].data.counted >= mut.at

\* A click on a marker opens the card with the data the marker was drawn from
\* (map.tsx: the handler is registered once and reads mountsRef.current).
CardAsDrawn == [][SelectMarker => Card' = drawn]_vars

\* A polled table that stays on the screen catches up with the server,
\* also after changes that no mutation of this console announces.
PolledCatchUp ==
    \A k \in {Whole(r) : r \in Polled \cap Resources} :
        <>[]Observed(k) => <>[](cache[k].data.at = now)

(***************************************************************************)
(* The refinement: a key shows the state in which its rows were read.      *)
(***************************************************************************)
Seen == [k \in Keys |-> cache[k].data.at]
Lookout == INSTANCE Snapshot WITH Views <- Keys, seen <- Seen

\* Every key of the cache implements Snapshot: whatever is retried, cancelled
\* or answered late, what a page shows only moves forward.
ImplementsSnapshot == Lookout!Spec
=============================================================================
