---------------------------- MODULE ViewsProofs ----------------------------
(***************************************************************************)
(* Proofs about Views, for any tables, filters, page size and number of    *)
(* requests: the safety properties and the refinement of Snapshot.         *)
(*                                                                         *)
(* They rest on what every entry of the cache satisfies: its data and its  *)
(* requests carry the parameters of its key, at most one request is under  *)
(* way, and that request was sent no earlier than the data was read.       *)
(***************************************************************************)
EXTENDS Views, TLAPS

ForKey(k) == [pg |-> k.pg, flt |-> k.flt]

\* What an entry e of key k satisfies when the server is in state n.
EntryOK(k, e, n) ==
    /\ HasData(e) => e.data.for = ForKey(k) /\ e.data.counted \in 0 .. e.data.at
    /\ e.data.at <= n
    /\ \A r \in e.reqs : r.for = ForKey(k) /\ r.since \in 0 .. n /\ e.data.at <= r.since
    /\ \A r, s \in e.reqs : r = s

CacheOK == \A k \in Keys : EntryOK(k, cache[k], now)

\* What a mutation waits for was asked after its change.
MutOK ==
    /\ mut.stage \in {"applied", "awaiting"} => mut.at <= now
    /\ mut.stage # "awaiting" => mut.keys = {}
    /\ \A k \in mut.keys :
         /\ \A r \in cache[k].reqs : r.since >= mut.at
         /\ k \notin mut.waits => cache[k].data.counted >= mut.at

MapOK == mountsRef = drawn

\* A later page of a list existed at some time under its filter.
PagesOK ==
    page \in Lists /\ params.pg # 1 =>
        \E v \in 0 .. now : TotalPages(TableAt(v, page)[params.flt]) >= params.pg

IInv == TypeOK /\ CacheOK /\ MutOK /\ MapOK /\ PagesOK

-----------------------------------------------------------------------------
(* Keys, entries and the history.                                          *)

LEMMA ConstantFacts ==
    /\ MaxRows \in Nat \ {0} /\ MaxChanges \in Nat /\ Limit \in Nat \ {0}
    /\ FirstPage \in Params
    /\ Start \in Content
    /\ NoData \in Data /\ Unfetched \in Entry
    /\ Never = -1 /\ Never \in Versions /\ 0 .. MaxChanges \subseteq Versions
<1>1. MaxRows \in Nat \ {0} /\ MaxChanges \in Nat /\ Limit \in Nat \ {0} /\ All \in Filters
  BY ViewsAssumption
<1>2. FirstPage \in Params
  BY <1>1 DEF FirstPage, Params
<1>3. Never = -1 /\ Never \in Versions /\ 0 .. MaxChanges \subseteq Versions
  BY <1>1 DEF Never, Versions
<1>4. NoData \in Data
  BY <1>2, <1>3 DEF NoData, Data
<1>5. Unfetched \in Entry
  BY <1>4 DEF Unfetched, Entry
<1> QED BY <1>1, <1>2, <1>3, <1>4, <1>5, ViewsAssumption DEF Content

\* A key that is observed is a key, and is fetched with its own parameters.
LEMMA ObservedFacts ==
    ASSUME NEW pge \in Pages, NEW p \in Params, NEW k \in ObservedOn(pge, p)
    PROVE  k \in Keys /\ ParamsOf(k.res, p) = ForKey(k)
<1>1. PICK r \in Resources : k = KeyOf(r, p)
  BY DEF ObservedOn
<1>2. CASE r \in Lists
  <2>1. k = [res |-> r, pg |-> p.pg, flt |-> p.flt]
    BY <1>1, <1>2 DEF KeyOf, ListKey
  <2>2. k \in Keys
    BY <1>2, <2>1 DEF Keys, Key, Params
  <2>3. p = ForKey(k)
    BY <2>1 DEF ForKey, Params
  <2> QED BY <1>2, <2>1, <2>2, <2>3 DEF ParamsOf
<1>3. CASE r \notin Lists
  <2>1. k = Whole(r) /\ k.res = r /\ k.pg = 1 /\ k.flt = All
    BY <1>1, <1>3 DEF KeyOf, Whole
  <2>2. k \in Keys
    BY <2>1, ViewsAssumption DEF Keys, Key, Whole
  <2> QED BY <1>3, <2>1, <2>2 DEF ParamsOf, ForKey, FirstPage
<1> QED BY <1>2, <1>3

\* The key of the list on the screen.
LEMMA ListKeyFacts ==
    ASSUME NEW r \in Lists, NEW p \in Params
    PROVE  ListKey(r, p) \in Keys /\ ForKey(ListKey(r, p)) = p
<1>1. ListKey(r, p) \in Keys
  BY DEF ListKey, Keys, Key, Params, Lists
<1>2. ForKey(ListKey(r, p)) = p
  BY DEF ListKey, ForKey, Params
<1> QED BY <1>1, <1>2

LEMMA KeyParams ==
    ASSUME NEW k \in Keys
    PROVE  ForKey(k) \in Params
  BY DEF Keys, Key, ForKey, Params

LEMMA NowFacts ==
    ASSUME TypeOK
    PROVE  now \in 0 .. MaxChanges /\ now \in Versions /\ now \in Nat
  BY ConstantFacts DEF TypeOK, now

\* The server's change is added to the history, which keeps its past.
LEMMA ChangeFacts ==
    ASSUME TypeOK, Change
    PROVE  /\ hist' \in Seq(Content) /\ Len(hist') \in 1 .. MaxChanges + 1
           /\ now' = now + 1
           /\ \A v \in 0 .. now : hist'[v + 1] = hist[v + 1]
<1>1. PICK c \in Content : hist' = Append(hist, c)
  BY DEF Change, Altered
<1>2. hist \in Seq(Content) /\ Len(hist) \in Nat /\ now < MaxChanges /\ now = Len(hist) - 1
  BY DEF TypeOK, Change, now
<1>3. hist' \in Seq(Content) /\ Len(hist') = Len(hist) + 1
  BY <1>1, <1>2
<1>4. \A i \in 1 .. Len(hist) : hist'[i] = hist[i]
  BY <1>1, <1>2
<1>5. now' = Len(hist') - 1
  BY DEF now
<1> QED BY <1>2, <1>3, <1>4, <1>5, ConstantFacts

LEMMA FetchFacts ==
    ASSUME now \in Versions, NEW e \in Entry, NEW p \in Params
    PROVE  /\ Fetch(e, p) \in Entry
           /\ Fetch(e, p).data = e.data
           /\ e.reqs # {} => Fetch(e, p).reqs = e.reqs
           /\ e.reqs = {} => Fetch(e, p).reqs = {[for |-> p, since |-> now]}
<1> DEFINE q == {[for |-> p, since |-> now]}
           d == [e EXCEPT !.reqs = q]
<1>1. q \in SUBSET Request
  BY DEF Request
<1> HIDE DEF q
<1>2. d \in Entry /\ d.data = e.data /\ d.reqs = q
  BY <1>1 DEF Entry
<1>3. [e EXCEPT !.reqs = q, !.retried = FALSE] = [d EXCEPT !.retried = FALSE]
  OBVIOUS
<1> HIDE DEF d
<1>4. [d EXCEPT !.retried = FALSE] \in Entry /\ [d EXCEPT !.retried = FALSE].data = d.data
      /\ [d EXCEPT !.retried = FALSE].reqs = d.reqs
  BY <1>2 DEF Entry
<1>5. CASE e.reqs # {}
  BY <1>5 DEF Fetch
<1>6. CASE e.reqs = {}
  <2>1. Fetch(e, p) = [d EXCEPT !.retried = FALSE]
    BY <1>3, <1>6 DEF Fetch, q
  <2> QED BY <1>2, <1>4, <1>6, <2>1 DEF q
<1> QED BY <1>5, <1>6

LEMMA RefetchFacts ==
    ASSUME TypeOK, NEW e \in Entry, NEW p \in Params
    PROVE  /\ Refetch(e, p) \in Entry
           /\ Refetch(e, p).data = e.data
           /\ Refetch(e, p).reqs \in {e.reqs, {[for |-> p, since |-> now]}}
           /\ HasData(e) \/ e.reqs = {} => Refetch(e, p).reqs = {[for |-> p, since |-> now]}
<1> DEFINE q == {[for |-> p, since |-> now]}
           d == [e EXCEPT !.reqs = q]
<1>1. q \in SUBSET Request
  BY NowFacts DEF Request
<1> HIDE DEF q
<1>2. d \in Entry /\ d.data = e.data /\ d.reqs = q
  BY <1>1 DEF Entry
<1>3. [e EXCEPT !.reqs = q, !.retried = FALSE] = [d EXCEPT !.retried = FALSE]
  OBVIOUS
<1> HIDE DEF d
<1>4. [d EXCEPT !.retried = FALSE] \in Entry /\ [d EXCEPT !.retried = FALSE].data = d.data
      /\ [d EXCEPT !.retried = FALSE].reqs = d.reqs
  BY <1>2 DEF Entry
<1>5. CASE ~HasData(e)
  BY <1>5, NowFacts, FetchFacts DEF Refetch
<1>6. CASE HasData(e)
  <2>1. Refetch(e, p) = [d EXCEPT !.retried = FALSE]
    BY <1>3, <1>6 DEF Refetch, q
  <2> QED BY <1>2, <1>4, <1>6, <2>1 DEF q
<1> QED BY <1>5, <1>6
-----------------------------------------------------------------------------
(* What the steps do to the cache.                                         *)

\* Every entry keeps its data and has its old requests or one new one.
AskedOnly ==
    /\ cache' \in [Keys -> Entry]
    /\ \A k \in Keys :
         /\ cache'[k].data = cache[k].data
         /\ cache'[k].reqs \in {cache[k].reqs, {[for |-> ForKey(k), since |-> now]}}

LEMMA MountedAsks ==
    ASSUME TypeOK, NEW pge \in Pages, NEW p \in Params, cache' = Mounted(pge, p)
    PROVE  AskedOnly
<1> SUFFICES ASSUME NEW k \in Keys
             PROVE  /\ cache'[k] \in Entry
                    /\ cache'[k].data = cache[k].data
                    /\ cache'[k].reqs \in {cache[k].reqs, {[for |-> ForKey(k), since |-> now]}}
  BY DEF AskedOnly, Mounted
<1>1. cache[k] \in Entry
  BY DEF TypeOK
<1>2. CASE k \in ObservedOn(pge, p)
  <2>1. cache'[k] = Fetch(cache[k], ForKey(k))
    BY <1>2, ObservedFacts DEF Mounted
  <2> QED BY <1>1, <2>1, NowFacts, KeyParams, FetchFacts
<1>3. CASE k \notin ObservedOn(pge, p)
  BY <1>1, <1>3 DEF Mounted
<1> QED BY <1>2, <1>3

LEMMA AskedKeeps ==
    ASSUME TypeOK, CacheOK, AskedOnly, UNCHANGED hist
    PROVE  CacheOK' /\ Seen' = Seen
<1>1. now' = now /\ now \in Nat
  BY NowFacts DEF now
<1>2. ASSUME NEW k \in Keys PROVE EntryOK(k, cache'[k], now)
  <2>1. EntryOK(k, cache[k], now) /\ cache[k] \in Entry
    BY DEF CacheOK, TypeOK
  <2>2. cache[k].data.at \in Int
    BY <2>1, ConstantFacts DEF Entry, Data, Versions
  <2>3. CASE cache'[k].reqs = cache[k].reqs
    BY <2>1, <2>3 DEF AskedOnly, EntryOK, HasData
  <2>4. CASE cache'[k].reqs = {[for |-> ForKey(k), since |-> now]}
    BY <1>1, <2>1, <2>2, <2>4 DEF AskedOnly, EntryOK, HasData
  <2> QED BY <2>3, <2>4 DEF AskedOnly
<1>3. CacheOK'
  BY <1>1, <1>2 DEF CacheOK
<1>4. Seen' = Seen
  BY DEF Seen, AskedOnly
<1> QED BY <1>3, <1>4

LEMMA AskedKeepsMut ==
    ASSUME TypeOK, MutOK, AskedOnly, UNCHANGED <<hist, mut>>
    PROVE  MutOK'
<1>1. now' = now /\ now \in Nat
  BY NowFacts DEF now
<1>2. ASSUME NEW k \in mut.keys
      PROVE  /\ \A r \in cache'[k].reqs : r.since >= mut.at
             /\ k \notin mut.waits => cache'[k].data.counted >= mut.at
  <2>1. k \in Keys /\ mut.at \in Int
    BY ConstantFacts DEF TypeOK, Mutation, Versions
  <2>2. mut.at <= now
    BY DEF MutOK
  <2>3. /\ \A r \in cache[k].reqs : r.since >= mut.at
        /\ k \notin mut.waits => cache[k].data.counted >= mut.at
    BY DEF MutOK
  <2>4. now >= mut.at
    BY <1>1, <2>1, <2>2
  <2> QED BY <2>1, <2>3, <2>4 DEF AskedOnly
<1> QED BY <1>1, <1>2 DEF MutOK

\* The server changes: what the console holds is a little older.
LEMMA ChangeKeeps ==
    ASSUME IInv, Change, UNCHANGED <<page, params, cache>>
    PROVE  CacheOK' /\ Seen' = Seen /\ PagesOK'
<1>1. now \in Nat /\ now' = now + 1 /\ \A v \in 0 .. now : hist'[v + 1] = hist[v + 1]
  BY NowFacts, ChangeFacts DEF IInv
<1>2. ASSUME NEW k \in Keys PROVE EntryOK(k, cache[k], now')
  <2>1. EntryOK(k, cache[k], now) /\ cache[k] \in Entry
    BY DEF IInv, CacheOK, TypeOK
  <2>2. cache[k].data.at \in Int
    BY <2>1, ConstantFacts DEF Entry, Data, Versions
  <2> QED BY <1>1, <2>1, <2>2 DEF EntryOK
<1>3. CacheOK'
  BY <1>2 DEF CacheOK
<1>4. Seen' = Seen
  BY DEF Seen
<1>5. PagesOK'
  <2>1. \A v \in 0 .. now : v \in 0 .. now' /\ TableAt(v, page)' = TableAt(v, page)
    BY <1>1 DEF TableAt
  <2> SUFFICES ASSUME page \in Lists, params.pg # 1
               PROVE  \E v \in 0 .. now' : TotalPages(TableAt(v, page)'[params.flt]) >= params.pg
    BY DEF PagesOK
  <2>2. PICK v \in 0 .. now : TotalPages(TableAt(v, page)[params.flt]) >= params.pg
    BY DEF IInv, PagesOK
  <2> QED BY <2>1, <2>2
<1> QED BY <1>3, <1>4, <1>5

\* The history and the list on the screen stay.
LEMMA PagesKept ==
    ASSUME PagesOK, UNCHANGED <<hist, page, params>>
    PROVE  PagesOK'
  BY DEF PagesOK, TableAt, now

\* A mutation stops waiting for the refetch of a key.
LEMMA AwaitedFacts ==
    ASSUME TypeOK, NEW k \in Keys, NEW fresh \in BOOLEAN, Awaited(k, fresh)
    PROVE  /\ mut' \in Mutation /\ mut'.stage = mut.stage /\ mut'.at = mut.at
           /\ mut'.waits = mut.waits \ {k}
           /\ mut'.keys = IF fresh THEN mut.keys ELSE mut.keys \ {k}
<1> DEFINE w == mut.waits \ {k}
           q == IF fresh THEN mut.keys ELSE mut.keys \ {k}
           d == [mut EXCEPT !.waits = w]
<1>1. mut \in Mutation
  BY DEF TypeOK
<1>2. w \in SUBSET Keys /\ q \in SUBSET Keys
  BY <1>1 DEF Mutation
<1>3. mut' = [mut EXCEPT !.waits = w, !.keys = q]
  BY <1>1 DEF Awaited, Mutation
<1> HIDE DEF w, q
<1>4. d \in Mutation /\ d.stage = mut.stage /\ d.at = mut.at /\ d.waits = w
  BY <1>1, <1>2 DEF Mutation
<1>5. mut' = [d EXCEPT !.keys = q]
  BY <1>3
<1> HIDE DEF d
<1>6. /\ mut' \in Mutation /\ mut'.stage = mut.stage /\ mut'.at = mut.at
      /\ mut'.waits = w /\ mut'.keys = q
  BY <1>2, <1>4, <1>5 DEF Mutation
<1> QED BY <1>6 DEF w, q

\* One entry is replaced by a sound one that has not gone back.
LEMMA PutKeeps ==
    ASSUME IInv, NEW k \in Keys, NEW f \in Entry, Put(k, f), UNCHANGED hist,
           EntryOK(k, f, now), f.data.at >= cache[k].data.at
    PROVE  /\ cache' \in [Keys -> Entry] /\ CacheOK'
           /\ \E v \in Seen[k] .. now : Seen' = [Seen EXCEPT ![k] = v]
<1>1. now' = now /\ cache \in [Keys -> Entry]
  BY DEF now, IInv, TypeOK
<1>2. cache' = [cache EXCEPT ![k] = f]
  BY DEF Put
<1>3. cache' \in [Keys -> Entry] /\ cache'[k] = f /\ \A l \in Keys \ {k} : cache'[l] = cache[l]
  BY <1>1, <1>2
<1>4. CacheOK'
  BY <1>1, <1>3 DEF IInv, CacheOK
<1>5. Seen[k] = cache[k].data.at /\ f.data.at <= now
  BY DEF Seen, EntryOK
<1>6. f.data.at \in Int /\ cache[k].data.at \in Int /\ now \in Int
  BY <1>1, ConstantFacts, NowFacts DEF Entry, Data, Versions, IInv
<1>7. f.data.at \in Seen[k] .. now
  BY <1>5, <1>6
<1>8. Seen' = [Seen EXCEPT ![k] = f.data.at]
  BY <1>3 DEF Seen
<1> QED BY <1>3, <1>4, <1>7, <1>8

\* An answer arrives.
LEMMA SettleStep ==
    ASSUME IInv, NEW k \in Keys, Settle(k)
    PROVE  /\ IInv'
           /\ \E v \in Seen[k] .. now : Seen' = [Seen EXCEPT ![k] = v]
<1> DEFINE e == cache[k]
<1>1. PICK r \in e.reqs : \E c \in r.since .. now : \E v \in c .. now :
        Put(k, [e EXCEPT !.data = [for |-> r.for, counted |-> c, at |-> v],
                         !.reqs = @ \ {r}, !.retried = FALSE])
  BY DEF Settle
<1>2. PICK c \in r.since .. now : \E v \in c .. now :
        Put(k, [e EXCEPT !.data = [for |-> r.for, counted |-> c, at |-> v],
                         !.reqs = @ \ {r}, !.retried = FALSE])
  BY <1>1
<1>3. PICK v \in c .. now :
        Put(k, [e EXCEPT !.data = [for |-> r.for, counted |-> c, at |-> v],
                         !.reqs = @ \ {r}, !.retried = FALSE])
  BY <1>2
<1>4. e \in Entry /\ EntryOK(k, e, now) /\ now \in 0 .. MaxChanges /\ now' = now
      /\ UNCHANGED <<hist, page, params, moves, fails, mapVars>>
  BY NowFacts DEF IInv, TypeOK, CacheOK, Settle, now
<1>5. r.for = ForKey(k) /\ r.since \in 0 .. now /\ e.data.at <= r.since /\ e.reqs \ {r} = {}
  BY <1>4 DEF EntryOK
<1>6. c \in 0 .. now /\ v \in 0 .. now /\ c <= v /\ e.data.at \in Int /\ e.data.at <= v /\ r.since <= c
  BY <1>4, <1>5, ConstantFacts DEF Entry, Data, Versions
<1> DEFINE D == [for |-> r.for, counted |-> c, at |-> v]
           f == [e EXCEPT !.data = D, !.reqs = {}, !.retried = FALSE]
<1>7. D \in Data /\ D.for = ForKey(k) /\ D.counted = c /\ D.at = v
  BY <1>4, <1>5, <1>6, KeyParams, ConstantFacts DEF Data
<1>8. Put(k, f)
  BY <1>3, <1>4, <1>5 DEF Entry
<1> HIDE DEF D
<1>9. f \in Entry /\ f.data = D /\ f.reqs = {}
  <2> DEFINE d1 == [e EXCEPT !.data = D]
             d2 == [d1 EXCEPT !.reqs = {}]
  <2>1. d1 \in Entry /\ d1.data = D
    BY <1>4, <1>7 DEF Entry
  <2>2. f = [d2 EXCEPT !.retried = FALSE]
    OBVIOUS
  <2> HIDE DEF f, d1
  <2>3. d2 \in Entry /\ d2.data = D /\ d2.reqs = {}
    BY <2>1 DEF Entry
  <2> HIDE DEF d2
  <2> QED BY <2>2, <2>3 DEF Entry
<1> HIDE DEF f
<1>10. EntryOK(k, f, now) /\ f.data.at >= e.data.at
  BY <1>4, <1>6, <1>7, <1>9 DEF EntryOK, HasData
<1> HIDE DEF e
<1>11. /\ cache' \in [Keys -> Entry] /\ CacheOK'
       /\ \E w \in Seen[k] .. now : Seen' = [Seen EXCEPT ![k] = w]
  BY <1>4, <1>8, <1>9, <1>10, PutKeeps DEF e
<1>12. /\ mut' \in Mutation /\ mut'.stage = mut.stage /\ mut'.at = mut.at
       /\ mut'.waits = mut.waits \ {k} /\ mut'.keys = mut.keys
  BY AwaitedFacts DEF Settle, IInv
<1>13. TypeOK'
  BY <1>4, <1>11, <1>12 DEF IInv, TypeOK, mapVars
<1>14. MutOK'
  <2>1. cache'[k] = f /\ \A l \in Keys \ {k} : cache'[l] = cache[l]
    BY <1>8 DEF Put, IInv, TypeOK
  <2>2. mut.keys \subseteq Keys /\ mut.at \in Int
    BY ConstantFacts DEF IInv, TypeOK, Mutation, Versions
  <2>3. ASSUME k \in mut.keys PROVE f.data.counted >= mut.at
    <3>1. r.since >= mut.at
      BY <2>3 DEF IInv, MutOK, e
    <3> QED BY <1>4, <1>5, <1>6, <1>7, <1>9, <2>2, <3>1
  <2> QED BY <1>4, <1>9, <1>12, <2>1, <2>2, <2>3 DEF IInv, MutOK
<1>15. MapOK' /\ PagesOK'
  BY <1>4, PagesKept DEF IInv, MapOK, mapVars
<1> QED BY <1>11, <1>13, <1>14, <1>15 DEF IInv

\* A request fails and is sent again, or given up.
LEMMA FailStep ==
    ASSUME IInv, NEW k \in Keys, Fail(k)
    PROVE  /\ IInv'
           /\ \E v \in Seen[k] .. now : Seen' = [Seen EXCEPT ![k] = v]
<1> DEFINE e == cache[k]
<1>1. PICK r \in e.reqs :
         IF Observed(k) /\ ~e.retried
         THEN /\ Put(k, [e EXCEPT !.reqs = (@ \ {r}) \cup {[r EXCEPT !.since = now]},
                                  !.retried = TRUE])
              /\ UNCHANGED mut
         ELSE /\ Put(k, [e EXCEPT !.reqs = @ \ {r}, !.retried = FALSE])
              /\ Awaited(k, FALSE)
  BY DEF Fail
<1>2. e \in Entry /\ EntryOK(k, e, now) /\ now \in 0 .. MaxChanges /\ now' = now
      /\ UNCHANGED <<hist, page, params, moves, mapVars>> /\ fails' \in 0 .. MaxFails
  BY NowFacts, ViewsAssumption DEF IInv, TypeOK, CacheOK, Fail, now
<1>3. r \in Request /\ r.for = ForKey(k) /\ e.data.at <= r.since /\ r.since \in 0 .. now
      /\ e.reqs \ {r} = {} /\ e.data.at \in Int
  BY <1>2, ConstantFacts DEF EntryOK, Entry, Data, Versions
<1>4. MapOK' /\ PagesOK'
  BY <1>2, PagesKept DEF IInv, MapOK, mapVars
<1>5. mut.keys \subseteq Keys /\ mut.at \in Int
  BY ConstantFacts DEF IInv, TypeOK, Mutation, Versions
<1>6. CASE Observed(k) /\ ~e.retried
  <2> DEFINE s == [r EXCEPT !.since = now]
             f == [e EXCEPT !.reqs = {s}, !.retried = TRUE]
  <2>1. s \in Request /\ s.for = r.for /\ s.since = now
    BY <1>3, NowFacts DEF Request, IInv
  <2>2. Put(k, f) /\ UNCHANGED mut
    <3>1. (e.reqs \ {r}) \cup {s} = {s}
      BY <1>3
    <3> HIDE DEF s
    <3> QED BY <1>1, <1>2, <1>6, <3>1 DEF Entry, s
  <2> HIDE DEF s
  <2>3. f \in Entry /\ f.data = e.data /\ f.reqs = {s}
    <3> DEFINE d == [e EXCEPT !.reqs = {s}]
    <3>1. d \in Entry /\ d.data = e.data /\ d.reqs = {s}
      BY <1>2, <2>1 DEF Entry
    <3>2. f = [d EXCEPT !.retried = TRUE]
      OBVIOUS
    <3> HIDE DEF f, d
    <3> QED BY <3>1, <3>2 DEF Entry
  <2> HIDE DEF f
  <2>4. EntryOK(k, f, now) /\ f.data.at >= e.data.at
    BY <1>2, <1>3, <2>1, <2>3 DEF EntryOK, HasData
  <2> HIDE DEF e
  <2>5. /\ cache' \in [Keys -> Entry] /\ CacheOK'
        /\ \E w \in Seen[k] .. now : Seen' = [Seen EXCEPT ![k] = w]
    BY <1>2, <2>2, <2>3, <2>4, PutKeeps DEF e
  <2>6. TypeOK'
    BY <1>2, <2>2, <2>5 DEF IInv, TypeOK, mapVars
  <2>7. MutOK'
    <3>1. cache'[k] = f /\ \A l \in Keys \ {k} : cache'[l] = cache[l]
      BY <2>2 DEF Put, IInv, TypeOK
    <3>2. ASSUME k \in mut.keys
          PROVE  /\ s.since >= mut.at
                 /\ k \notin mut.waits => f.data.counted >= mut.at
      <4>1. mut.at <= now /\ (k \notin mut.waits => e.data.counted >= mut.at)
        BY <3>2 DEF IInv, MutOK, e
      <4> QED BY <1>2, <1>5, <2>1, <2>3, <4>1
    <3> QED BY <1>2, <1>5, <2>2, <2>3, <3>1, <3>2 DEF IInv, MutOK
  <2> QED BY <1>4, <2>5, <2>6, <2>7 DEF IInv
<1>7. CASE ~(Observed(k) /\ ~e.retried)
  <2> DEFINE f == [e EXCEPT !.reqs = {}, !.retried = FALSE]
  <2>1. Put(k, f) /\ Awaited(k, FALSE)
    BY <1>1, <1>2, <1>3, <1>7 DEF Entry
  <2>2. f \in Entry /\ f.data = e.data /\ f.reqs = {}
    <3> DEFINE d == [e EXCEPT !.reqs = {}]
    <3>1. d \in Entry /\ d.data = e.data /\ d.reqs = {}
      BY <1>2 DEF Entry
    <3>2. f = [d EXCEPT !.retried = FALSE]
      OBVIOUS
    <3> HIDE DEF f, d
    <3> QED BY <3>1, <3>2 DEF Entry
  <2> HIDE DEF f
  <2>3. EntryOK(k, f, now) /\ f.data.at >= e.data.at
    BY <1>2, <1>3, <2>2 DEF EntryOK, HasData
  <2> HIDE DEF e
  <2>4. /\ cache' \in [Keys -> Entry] /\ CacheOK'
        /\ \E w \in Seen[k] .. now : Seen' = [Seen EXCEPT ![k] = w]
    BY <1>2, <2>1, <2>2, <2>3, PutKeeps DEF e
  <2>5. /\ mut' \in Mutation /\ mut'.stage = mut.stage /\ mut'.at = mut.at
        /\ mut'.waits = mut.waits \ {k} /\ mut'.keys = mut.keys \ {k}
    BY <2>1, AwaitedFacts DEF IInv
  <2>6. TypeOK'
    BY <1>2, <2>4, <2>5 DEF IInv, TypeOK, mapVars
  <2>7. MutOK'
    <3>1. \A l \in Keys \ {k} : cache'[l] = cache[l]
      BY <2>1 DEF Put, IInv, TypeOK
    <3> QED BY <1>2, <1>5, <2>5, <3>1 DEF IInv, MutOK
  <2> QED BY <1>4, <2>4, <2>6, <2>7 DEF IInv
<1> QED BY <1>6, <1>7

\* onSuccess asks again for what is on the screen.
LEMMA OnSuccessStep ==
    ASSUME IInv, OnSuccess
    PROVE  IInv' /\ Seen' = Seen
<1> DEFINE stale == {k \in Keys : Observed(k) /\ k.res \in Invalidates(mut.res)}
           asked == {k \in stale : HasData(cache[k]) \/ cache[k].reqs = {}}
           d == [mut EXCEPT !.stage = "awaiting", !.waits = stale, !.keys = asked]
<1>1. /\ mut.stage = "applied"
      /\ cache' = [k \in Keys |-> IF k \in stale
                                  THEN Refetch(cache[k], ParamsOf(k.res, params)) ELSE cache[k]]
      /\ mut' \in {d, NoMutation}
      /\ UNCHANGED <<hist, page, params, moves, fails, mapVars>>
  BY DEF OnSuccess
<1>2. stale \subseteq Keys /\ asked \subseteq stale
  OBVIOUS
<1>3. TypeOK /\ CacheOK /\ MutOK /\ mut \in Mutation /\ page \in Pages /\ params \in Params
  BY DEF IInv, TypeOK
<1>4. \A k \in stale : cache'[k] = Refetch(cache[k], ForKey(k))
  BY <1>1, <1>3, ObservedFacts DEF Observed
<1>5. /\ d \in Mutation /\ d.stage = "awaiting" /\ d.waits = stale /\ d.keys = asked
      /\ d.at = mut.at
  <2> DEFINE d1 == [mut EXCEPT !.stage = "awaiting"]
             d2 == [d1 EXCEPT !.waits = stale]
  <2> HIDE DEF stale, asked
  <2>1. d1 \in Mutation /\ d1.stage = "awaiting" /\ d1.at = mut.at
    BY <1>3 DEF Mutation
  <2>2. d = [d2 EXCEPT !.keys = asked]
    OBVIOUS
  <2> HIDE DEF d, d1
  <2>3. d2 \in Mutation /\ d2.stage = "awaiting" /\ d2.at = mut.at /\ d2.waits = stale
    BY <1>2, <2>1 DEF Mutation
  <2> HIDE DEF d2
  <2>4. asked \in SUBSET Keys
    BY <1>2
  <2> QED BY <2>2, <2>3, <2>4 DEF Mutation
<1>6. NoMutation \in Mutation /\ NoMutation.stage = "idle" /\ NoMutation.keys = {}
  BY ConstantFacts DEF NoMutation, Mutation
<1> HIDE DEF d
<1>7. ASSUME NEW k \in asked PROVE cache'[k].reqs = {[for |-> ForKey(k), since |-> now]}
  <2>1. k \in stale /\ k \in Keys
    OBVIOUS
  <2>2. HasData(cache[k]) \/ cache[k].reqs = {}
    OBVIOUS
  <2>3. cache[k] \in Entry /\ ForKey(k) \in Params
    BY <1>3, <2>1, KeyParams DEF TypeOK
  <2>4. cache'[k] = Refetch(cache[k], ForKey(k))
    BY <1>4, <2>1
  <2> HIDE DEF stale, asked
  <2> QED BY <1>3, <2>2, <2>3, <2>4, RefetchFacts
<1> HIDE DEF asked
<1>8. AskedOnly
  <2> SUFFICES ASSUME NEW k \in Keys
               PROVE  /\ cache'[k] \in Entry
                      /\ cache'[k].data = cache[k].data
                      /\ cache'[k].reqs \in {cache[k].reqs, {[for |-> ForKey(k), since |-> now]}}
    BY <1>1 DEF AskedOnly
  <2>1. cache[k] \in Entry /\ ForKey(k) \in Params
    BY <1>3, KeyParams DEF TypeOK
  <2>2. CASE k \in stale
    <3> HIDE DEF stale
    <3> QED BY <1>3, <1>4, <2>1, <2>2, RefetchFacts
  <2>3. CASE k \notin stale
    BY <1>1, <2>1, <2>3
  <2> QED BY <2>2, <2>3
<1> HIDE DEF stale
<1>9. CacheOK' /\ Seen' = Seen
  BY <1>1, <1>3, <1>8, AskedKeeps
<1>10. TypeOK'
  BY <1>1, <1>5, <1>6, <1>8 DEF IInv, TypeOK, AskedOnly, mapVars
<1>11. MutOK'
  <2>1. mut.at <= now /\ mut.at \in Int /\ now \in Int /\ now' = now
    BY <1>1, <1>3, NowFacts, ConstantFacts DEF MutOK, Mutation, Versions, now
  <2>2. CASE mut' = NoMutation
    BY <1>6, <2>2 DEF MutOK
  <2>3. CASE mut' = d
    <3>1. \A k \in asked : (\A r \in cache'[k].reqs : r.since >= mut.at) /\ k \in stale
      BY <1>2, <1>7, <2>1
    <3> QED BY <1>5, <2>1, <2>3, <3>1 DEF MutOK
  <2> QED BY <1>1, <2>2, <2>3
<1>12. MapOK' /\ PagesOK'
  BY <1>1, PagesKept DEF IInv, MapOK, mapVars
<1> QED BY <1>9, <1>10, <1>11, <1>12 DEF IInv

\* The moves of the administrator within the console.
LEMMA NavigateStep ==
    ASSUME IInv, NEW pge \in Pages, Navigate(pge)
    PROVE  IInv' /\ Seen' = Seen
<1>1. /\ page' = pge /\ params' = FirstPage /\ cache' = Mounted(pge, FirstPage)
      /\ moves' \in 0 .. MaxMoves /\ UNCHANGED <<hist, mut, fails>>
      /\ drawn' = Never /\ mountsRef' = Never /\ selected' = Never /\ highlight' = FALSE
  BY ViewsAssumption DEF Navigate, Move, IInv, TypeOK
<1>2. AskedOnly
  BY <1>1, ConstantFacts, MountedAsks DEF IInv
<1>3. CacheOK' /\ Seen' = Seen /\ MutOK'
  BY <1>1, <1>2, AskedKeeps, AskedKeepsMut DEF IInv
<1>4. TypeOK'
  BY <1>1, <1>2, ConstantFacts DEF IInv, TypeOK, AskedOnly
<1>5. MapOK' /\ PagesOK'
  BY <1>1 DEF MapOK, PagesOK, FirstPage
<1> QED BY <1>3, <1>4, <1>5 DEF IInv

LEMMA SetFilterStep ==
    ASSUME IInv, NEW f \in Filters, SetFilter(f)
    PROVE  IInv' /\ Seen' = Seen
<1> DEFINE p == [pg |-> 1, flt |-> f]
<1>1. /\ params' = p /\ cache' = Mounted(page, p)
      /\ moves' \in 0 .. MaxMoves /\ UNCHANGED <<hist, page, mut, fails, mapVars>>
  BY ViewsAssumption DEF SetFilter, Move, IInv, TypeOK
<1>2. p \in Params /\ p.pg = 1 /\ page \in Pages
  BY ConstantFacts DEF Params, IInv, TypeOK
<1> HIDE DEF p
<1>3. AskedOnly
  BY <1>1, <1>2, MountedAsks DEF IInv
<1>4. CacheOK' /\ Seen' = Seen /\ MutOK'
  BY <1>1, <1>3, AskedKeeps, AskedKeepsMut DEF IInv
<1>5. TypeOK'
  BY <1>1, <1>2, <1>3 DEF IInv, TypeOK, AskedOnly, mapVars
<1>6. MapOK' /\ PagesOK'
  BY <1>1, <1>2 DEF IInv, MapOK, PagesOK, mapVars
<1> QED BY <1>4, <1>5, <1>6 DEF IInv

\* What the list on the screen holds.
LEMMA ShownFacts ==
    ASSUME IInv, ListShown
    PROVE  /\ page \in Lists /\ Shown \in Data /\ Shown.for = params
           /\ Shown.counted \in 0 .. now
           /\ Total(page, Shown) = TableAt(Shown.counted, page)[params.flt]
           /\ Total(page, Shown) \in Nat
<1> DEFINE k == ListKey(page, params)
<1>1. page \in Lists /\ HasData(cache[k]) /\ Shown = cache[k].data
  BY DEF ListShown, Shown
<1>2. params \in Params /\ k \in Keys /\ ForKey(k) = params
  BY <1>1, ListKeyFacts DEF IInv, TypeOK
<1> HIDE DEF k
<1>3. cache[k] \in Entry /\ EntryOK(k, cache[k], now) /\ now \in 0 .. MaxChanges
  BY <1>2, NowFacts DEF IInv, TypeOK, CacheOK
<1>4. Shown \in Data /\ Shown.for = params /\ Shown.counted \in 0 .. Shown.at /\ Shown.at <= now
  BY <1>1, <1>2, <1>3 DEF EntryOK, Entry
<1>5. Shown.counted \in 0 .. now
  BY <1>3, <1>4, ConstantFacts DEF Data, Versions
<1>6. Total(page, Shown) = TableAt(Shown.counted, page)[params.flt]
  BY <1>4 DEF Total
<1>7. hist[Shown.counted + 1] \in Content
  <2>1. Shown.counted + 1 \in 1 .. Len(hist)
    BY <1>5 DEF IInv, TypeOK, now
  <2> QED BY <2>1 DEF IInv, TypeOK
<1>8. Total(page, Shown) \in Nat
  BY <1>1, <1>2, <1>6, <1>7, ConstantFacts DEF TableAt, Content, Params
<1> QED BY <1>1, <1>4, <1>5, <1>6, <1>8

LEMMA PagesOfTotal ==
    ASSUME NEW total \in Nat
    PROVE  TotalPages(total) \in Int /\ (total > 0 => TotalPages(total) >= 1)
<1>1. Limit \in Nat \ {0}
  BY ViewsAssumption
<1> QED BY <1>1, SMT DEF TotalPages

\* No button leads past the last page.
LEMMA ButtonFacts ==
    ASSUME NEW pg \in Nat \ {0}, NEW total \in Nat, NEW n \in Buttons(pg, total)
    PROVE  n = 1 \/ n <= TotalPages(total) \/ (n = pg - 1 /\ pg > 1)
<1> DEFINE last == TotalPages(total)
<1>1. last \in Int
  BY PagesOfTotal
<1> HIDE DEF last
<1>2. Buttons(pg, total) \subseteq
        ((IF pg - 2 > 1 THEN pg - 2 ELSE 1) .. (IF pg + 2 < last THEN pg + 2 ELSE last))
        \cup {m \in {pg - 1} : pg > 1} \cup {m \in {pg + 1} : pg < last} \cup {1} \cup {last}
  BY DEF Buttons, last
<1>3. n <= last \/ n = 1 \/ (n = pg - 1 /\ pg > 1)
  BY <1>1, <1>2
<1> QED BY <1>3 DEF last

LEMMA PageChangeStep ==
    ASSUME IInv, NEW n \in 1 .. MaxRows, PageChange(n)
    PROVE  IInv' /\ Seen' = Seen
<1> DEFINE p == [params EXCEPT !.pg = n]
<1>1. /\ params' = p /\ cache' = Mounted(page, p) /\ n \in Buttons(params.pg, Total(page, Shown))
      /\ moves' \in 0 .. MaxMoves /\ UNCHANGED <<hist, page, mut, fails, mapVars>>
  BY ViewsAssumption DEF PageChange, Move, IInv, TypeOK
<1>2. params \in Params /\ page \in Pages
  BY DEF IInv, TypeOK
<1>3. p \in Params /\ p.pg = n /\ p.flt = params.flt /\ params.pg \in Nat \ {0}
  BY <1>2, ConstantFacts DEF Params
<1> HIDE DEF p
<1>4. AskedOnly
  BY <1>1, <1>2, <1>3, MountedAsks DEF IInv
<1>5. CacheOK' /\ Seen' = Seen /\ MutOK'
  BY <1>1, <1>4, AskedKeeps, AskedKeepsMut DEF IInv
<1>6. TypeOK'
  BY <1>1, <1>3, <1>4 DEF IInv, TypeOK, AskedOnly, mapVars
<1>7. MapOK'
  BY <1>1 DEF IInv, MapOK, mapVars
<1>8. PagesOK'
  <2> SUFFICES ASSUME n # 1
               PROVE  \E v \in 0 .. now : TotalPages(TableAt(v, page)[params.flt]) >= n
    BY <1>1, <1>3 DEF PagesOK, TableAt, now
  <2> DEFINE total == Total(page, Shown)
  <2>1. /\ page \in Lists /\ Shown.counted \in 0 .. now
        /\ total = TableAt(Shown.counted, page)[params.flt] /\ total \in Nat
    BY ShownFacts DEF PageChange
  <2>2. n <= TotalPages(total) \/ (n = params.pg - 1 /\ params.pg > 1)
    BY <1>1, <1>3, <2>1, ButtonFacts
  <2>3. CASE n <= TotalPages(total)
    <3>1. TotalPages(total) >= n
      BY <2>1, <2>3, PagesOfTotal, ConstantFacts
    <3> QED BY <2>1, <3>1
  <2>4. CASE n = params.pg - 1 /\ params.pg > 1
    <3>1. PICK v \in 0 .. now : TotalPages(TableAt(v, page)[params.flt]) >= params.pg
      BY <1>3, <2>1, <2>4 DEF IInv, PagesOK
    <3>2. TableAt(v, page)[params.flt] \in Nat
      <4>1. v + 1 \in 1 .. Len(hist)
        BY DEF IInv, TypeOK, now
      <4>2. hist[v + 1] \in Content
        BY <4>1 DEF IInv, TypeOK
      <4> QED BY <1>2, <2>1, <4>2, ConstantFacts DEF TableAt, Content, Params
    <3>3. TotalPages(TableAt(v, page)[params.flt]) \in Int
      BY <3>2, PagesOfTotal
    <3>4. TotalPages(TableAt(v, page)[params.flt]) >= n
      BY <1>3, <2>4, <3>1, <3>3
    <3> QED BY <3>4
  <2> QED BY <2>2, <2>3, <2>4
<1> QED BY <1>5, <1>6, <1>7, <1>8 DEF IInv

-----------------------------------------------------------------------------
(* The console is loaded; the other steps.                                 *)

LEMMA LoadedFacts ==
    ASSUME now \in Versions, now \in Nat, NEW pge \in Pages
    PROVE  /\ Loaded(pge) \in [Keys -> Entry]
           /\ \A k \in Keys : /\ Loaded(pge)[k].data = NoData
                             /\ EntryOK(k, Loaded(pge)[k], now)
<1> SUFFICES ASSUME NEW k \in Keys
             PROVE  /\ Loaded(pge)[k] \in Entry /\ Loaded(pge)[k].data = NoData
                    /\ EntryOK(k, Loaded(pge)[k], now)
  BY DEF Loaded
<1> DEFINE e == Loaded(pge)[k]
<1>1. Unfetched \in Entry /\ Unfetched.data = NoData /\ Unfetched.reqs = {}
  BY ConstantFacts DEF Unfetched
<1>2. now \in Nat /\ FirstPage \in Params /\ NoData.at = -1
  BY ConstantFacts DEF NoData, Never
<1>3. e \in Entry /\ e.data = NoData /\ e.reqs \in {{}, {[for |-> ForKey(k), since |-> now]}}
  <2>1. CASE k \in ObservedOn(pge, FirstPage)
    <3>1. FirstPage = ForKey(k)
      BY <1>2, <2>1, ObservedFacts DEF ParamsOf
    <3>2. e = Fetch(Unfetched, FirstPage)
      BY <2>1 DEF Loaded
    <3> HIDE DEF e
    <3> QED BY <1>1, <1>2, <3>1, <3>2, FetchFacts
  <2>2. CASE k \notin ObservedOn(pge, FirstPage)
    BY <1>1, <2>2 DEF Loaded
  <2> QED BY <2>1, <2>2
<1> HIDE DEF e
<1>4. EntryOK(k, e, now)
  BY <1>2, <1>3 DEF EntryOK, HasData, Never
<1> QED BY <1>3, <1>4 DEF e

LEMMA NoMutationFacts ==
    NoMutation \in Mutation /\ NoMutation.stage = "idle" /\ NoMutation.keys = {}
  BY ConstantFacts DEF NoMutation, Mutation

LEMMA InitIInv ==
    ASSUME Init
    PROVE  IInv /\ now = 0 /\ Seen = [k \in Keys |-> -1]
<1>1. /\ hist = <<Start>> /\ page = "dashboard" /\ params = FirstPage /\ moves = 0
      /\ cache = Loaded("dashboard") /\ mut = NoMutation /\ fails = 0
      /\ drawn = Never /\ mountsRef = Never /\ selected = Never /\ highlight = FALSE
  BY DEF Init
<1>2. hist \in Seq(Content) /\ Len(hist) = 1 /\ now = 0 /\ page \in Pages
  BY <1>1, ConstantFacts, ViewsAssumption DEF now
<1>3. /\ cache \in [Keys -> Entry]
      /\ \A k \in Keys : cache[k].data = NoData /\ EntryOK(k, cache[k], now)
  BY <1>1, <1>2, LoadedFacts, ConstantFacts
<1>4. TypeOK
  <2>1. /\ Len(hist) \in 1 .. MaxChanges + 1 /\ params \in Params
        /\ moves \in 0 .. MaxMoves /\ fails \in 0 .. MaxFails /\ Never \in Versions
    BY <1>1, <1>2, ConstantFacts, ViewsAssumption
  <2> QED BY <1>1, <1>2, <1>3, <2>1, NoMutationFacts DEF TypeOK
<1>5. CacheOK /\ MutOK /\ MapOK /\ PagesOK
  BY <1>1, <1>3, NoMutationFacts DEF CacheOK, MutOK, MapOK, PagesOK, FirstPage
<1>6. Seen = [k \in Keys |-> -1]
  BY <1>3 DEF Seen, NoData, Never
<1> QED BY <1>2, <1>4, <1>5, <1>6 DEF IInv

\* The browser loads the map page anew.
LEMMA ShowOnMapStep ==
    ASSUME IInv, ShowOnMap
    PROVE  IInv' /\ now' = now /\ Seen' = [k \in Keys |-> -1]
<1>1. /\ page' = "map" /\ params' = FirstPage /\ cache' = Loaded("map") /\ mut' = NoMutation
      /\ "map" \in Pages /\ moves' \in 0 .. MaxMoves /\ UNCHANGED <<hist, fails>>
      /\ drawn' = Never /\ mountsRef' = Never /\ selected' = Never /\ highlight' = TRUE
  BY ViewsAssumption DEF ShowOnMap, Move, IInv, TypeOK
<1>2. now' = now /\ now \in Versions /\ now \in Nat
  BY <1>1, NowFacts DEF now, IInv
<1>3. /\ cache' \in [Keys -> Entry]
      /\ \A k \in Keys : cache'[k].data = NoData /\ EntryOK(k, cache'[k], now)
  BY <1>1, <1>2, LoadedFacts
<1>4. TypeOK'
  BY <1>1, <1>3, ConstantFacts, NoMutationFacts DEF IInv, TypeOK
<1>5. CacheOK' /\ MutOK' /\ MapOK' /\ PagesOK'
  BY <1>1, <1>2, <1>3, NoMutationFacts DEF CacheOK, MutOK, MapOK, PagesOK, FirstPage
<1>6. Seen' = [k \in Keys |-> -1]
  BY <1>3 DEF Seen, NoData, Never
<1> QED BY <1>2, <1>4, <1>5, <1>6 DEF IInv

\* A timer asks again.
LEMMA PollStep ==
    ASSUME IInv, NEW k \in Keys, Poll(k)
    PROVE  IInv' /\ Seen' = Seen
<1> DEFINE f == Fetch(cache[k], FirstPage)
<1>1. /\ cache' = [cache EXCEPT ![k] = f] /\ cache[k].reqs = {}
      /\ UNCHANGED <<hist, page, params, moves, mut, fails, mapVars>>
  BY DEF Poll, Put
<1>2. TypeOK /\ CacheOK /\ MutOK /\ cache \in [Keys -> Entry]
  BY DEF IInv, TypeOK
<1>3. FirstPage = ForKey(k)
  <2>1. page \in Pages /\ params \in Params
    BY <1>2 DEF TypeOK
  <2>2. k.res \notin Lists
    BY DEF Poll, Polled, Lists
  <2> QED BY <2>1, <2>2, ObservedFacts DEF Poll, Observed, ParamsOf
<1>4. /\ f \in Entry /\ f.data = cache[k].data
      /\ f.reqs = {[for |-> ForKey(k), since |-> now]}
  BY <1>1, <1>2, <1>3, NowFacts, ConstantFacts, FetchFacts
<1> HIDE DEF f
<1>5. AskedOnly
  BY <1>1, <1>2, <1>4 DEF AskedOnly
<1>6. CacheOK' /\ Seen' = Seen /\ MutOK'
  BY <1>1, <1>2, <1>5, AskedKeeps, AskedKeepsMut
<1>7. TypeOK'
  BY <1>1, <1>5 DEF IInv, TypeOK, AskedOnly, mapVars
<1>8. MapOK' /\ PagesOK'
  BY <1>1, PagesKept DEF IInv, MapOK, mapVars
<1> QED BY <1>6, <1>7, <1>8 DEF IInv

\* The server changes, for another or for the mutation.
LEMMA OtherChangeStep ==
    ASSUME IInv, OtherChange
    PROVE  IInv' /\ now' = now + 1 /\ Seen' = Seen
<1>1. Change /\ UNCHANGED <<page, params, moves, cache, mut, fails, mapVars>>
  BY DEF OtherChange
<1>2. /\ hist' \in Seq(Content) /\ Len(hist') \in 1 .. MaxChanges + 1 /\ now' = now + 1
      /\ now \in Nat
  BY <1>1, ChangeFacts, NowFacts DEF IInv
<1>3. CacheOK' /\ Seen' = Seen /\ PagesOK'
  BY <1>1, ChangeKeeps
<1>4. TypeOK'
  BY <1>1, <1>2 DEF IInv, TypeOK, mapVars
<1>5. MutOK'
  <2>1. mut.at \in Int
    BY ConstantFacts DEF IInv, TypeOK, Mutation, Versions
  <2> QED BY <1>1, <1>2, <2>1 DEF IInv, MutOK
<1>6. MapOK'
  BY <1>1 DEF IInv, MapOK, mapVars
<1> QED BY <1>2, <1>3, <1>4, <1>5, <1>6 DEF IInv

LEMMA ApplyStep ==
    ASSUME IInv, Apply
    PROVE  IInv' /\ now' = now + 1 /\ Seen' = Seen
<1>1. /\ Change /\ mut.stage = "sent" /\ mut' = [mut EXCEPT !.stage = "applied", !.at = now + 1]
      /\ UNCHANGED <<page, params, moves, cache, fails, mapVars>>
  BY DEF Apply
<1>2. /\ hist' \in Seq(Content) /\ Len(hist') \in 1 .. MaxChanges + 1 /\ now' = now + 1
      /\ now \in Nat /\ now < MaxChanges
  BY <1>1, ChangeFacts, NowFacts DEF IInv, Change
<1>3. CacheOK' /\ Seen' = Seen /\ PagesOK'
  BY <1>1, ChangeKeeps
<1>4. mut' \in Mutation /\ mut'.stage = "applied" /\ mut'.at = now + 1 /\ mut'.keys = {}
  <2> DEFINE d == [mut EXCEPT !.stage = "applied"]
  <2>1. mut \in Mutation /\ mut.keys = {}
    BY <1>1 DEF IInv, TypeOK, MutOK
  <2>2. now + 1 \in Versions
    BY <1>2, ConstantFacts
  <2>3. d \in Mutation /\ d.stage = "applied" /\ d.keys = {}
    BY <2>1 DEF Mutation
  <2>4. mut' = [d EXCEPT !.at = now + 1]
    BY <1>1
  <2> HIDE DEF d
  <2> QED BY <2>2, <2>3, <2>4 DEF Mutation
<1>5. TypeOK'
  BY <1>1, <1>2, <1>4 DEF IInv, TypeOK, mapVars
<1>6. MutOK'
  BY <1>2, <1>4 DEF MutOK
<1>7. MapOK'
  BY <1>1 DEF IInv, MapOK, mapVars
<1> QED BY <1>2, <1>3, <1>5, <1>6, <1>7 DEF IInv

\* Steps that leave the cache and the server alone.
LEMMA QuietSteps ==
    ASSUME IInv,
           (\E r \in Resources : Mutate(r)) \/ Reject \/ Resolve \/ DrawMarkers \/ SelectMarker
    PROVE  IInv' /\ UNCHANGED <<now, Seen>>
<1>1. UNCHANGED <<hist, page, params, moves, cache>>
  BY DEF Mutate, Reject, Resolve, DrawMarkers, SelectMarker
<1>2. UNCHANGED <<now, Seen>> /\ CacheOK' /\ PagesOK'
  BY <1>1, PagesKept DEF IInv, CacheOK, now, Seen
<1>3. CASE \E r \in Resources : Mutate(r)
  <2>1. PICK r \in Resources : Mutate(r)
    BY <1>3
  <2>2. mut' = [res |-> r, stage |-> "sent", at |-> Never, waits |-> {}, keys |-> {}]
    BY <2>1 DEF Mutate, NoMutation
  <2>3. mut' \in Mutation /\ mut'.stage = "sent" /\ mut'.keys = {}
    BY <2>2, ConstantFacts DEF Mutation
  <2>4. TypeOK' /\ MapOK'
    BY <1>1, <2>1, <2>3 DEF Mutate, IInv, TypeOK, MapOK, mapVars
  <2>5. MutOK'
    BY <2>3 DEF MutOK
  <2> QED BY <1>2, <2>4, <2>5 DEF IInv
<1>4. CASE Reject \/ Resolve
  <2>1. mut' = NoMutation /\ fails' \in 0 .. MaxFails /\ UNCHANGED mapVars
    BY <1>4, ViewsAssumption DEF Reject, Resolve, IInv, TypeOK
  <2>2. TypeOK' /\ MapOK'
    BY <1>1, <2>1, NoMutationFacts DEF IInv, TypeOK, MapOK, mapVars
  <2>3. MutOK'
    BY <2>1, NoMutationFacts DEF MutOK
  <2> QED BY <1>2, <2>2, <2>3 DEF IInv
<1>5. CASE DrawMarkers
  <2>1. Whole("mounts") \in Keys
    BY <1>5, ViewsAssumption, ConstantFacts DEF DrawMarkers, Keys, Key, Whole
  <2>2. MapData \in Versions
    BY <2>1 DEF MapData, IInv, TypeOK, Entry, Data
  <2>3. TypeOK' /\ MapOK'
    BY <1>1, <1>5, <2>2 DEF DrawMarkers, IInv, TypeOK, MapOK
  <2>4. MutOK'
    BY <1>1, <1>2, <1>5 DEF DrawMarkers, IInv, MutOK
  <2> QED BY <1>2, <2>3, <2>4 DEF IInv
<1>6. CASE SelectMarker
  <2>1. TypeOK' /\ MapOK'
    BY <1>1, <1>6 DEF SelectMarker, IInv, TypeOK, MapOK
  <2>2. MutOK'
    BY <1>1, <1>2, <1>6 DEF SelectMarker, IInv, MutOK
  <2> QED BY <1>2, <2>1, <2>2 DEF IInv
<1> QED BY <1>3, <1>4, <1>5, <1>6

-----------------------------------------------------------------------------
(* The invariant and the refinement, step by step.                         *)

LEMMA StepIInv ==
    ASSUME IInv, [Next]_vars
    PROVE  IInv' /\ [Lookout!Next]_<<now, Seen>>
<1>1. ASSUME UNCHANGED vars PROVE IInv' /\ UNCHANGED <<now, Seen>>
  <2>1. UNCHANGED <<hist, page, params, moves, cache, mut, fails, drawn, mountsRef, selected, highlight>>
    BY <1>1 DEF vars
  <2> QED BY <2>1 DEF IInv, TypeOK, CacheOK, MutOK, MapOK, PagesOK, now, Seen, TableAt
<1>2. ASSUME OtherChange \/ Apply PROVE IInv' /\ Lookout!Next
  BY <1>2, OtherChangeStep, ApplyStep DEF Lookout!Next, Lookout!Change
<1>3. ASSUME ShowOnMap PROVE IInv' /\ Lookout!Next
  BY <1>3, ShowOnMapStep DEF Lookout!Next, Lookout!Reload
<1>4. ASSUME NEW k \in Keys, Settle(k) \/ Fail(k) PROVE IInv' /\ Lookout!Next
  <2>1. IInv' /\ \E v \in Seen[k] .. now : Seen' = [Seen EXCEPT ![k] = v]
    BY <1>4, SettleStep, FailStep
  <2>2. now' = now
    BY <1>4 DEF Settle, Fail, now
  <2> QED BY <2>1, <2>2 DEF Lookout!Next, Lookout!Show
<1>5. ASSUME NEW k \in Keys, Poll(k) PROVE IInv' /\ UNCHANGED <<now, Seen>>
  BY <1>5, PollStep DEF Poll, now
<1>6. ASSUME NEW pge \in Pages, Navigate(pge) PROVE IInv' /\ UNCHANGED <<now, Seen>>
  BY <1>6, NavigateStep DEF Navigate, now
<1>7. ASSUME NEW f \in Filters, SetFilter(f) PROVE IInv' /\ UNCHANGED <<now, Seen>>
  BY <1>7, SetFilterStep DEF SetFilter, now
<1>8. ASSUME NEW n \in 1 .. MaxRows, PageChange(n) PROVE IInv' /\ UNCHANGED <<now, Seen>>
  BY <1>8, PageChangeStep DEF PageChange, now
<1>9. ASSUME OnSuccess PROVE IInv' /\ UNCHANGED <<now, Seen>>
  BY <1>9, OnSuccessStep DEF OnSuccess, now
<1>10. ASSUME (\E r \in Resources : Mutate(r)) \/ Reject \/ Resolve \/ DrawMarkers \/ SelectMarker
       PROVE  IInv' /\ UNCHANGED <<now, Seen>>
  BY <1>10, QuietSteps
<1> QED BY <1>1, <1>2, <1>3, <1>4, <1>5, <1>6, <1>7, <1>8, <1>9, <1>10 DEF Next

THEOREM InductiveInvariant == Spec => []IInv
<1>1. Init => IInv
  BY InitIInv
<1>2. IInv /\ [Next]_vars => IInv'
  BY StepIInv
<1> QED BY <1>1, <1>2, PTL DEF Spec

\* The state of the console's queries is well typed in every behaviour of
\* hooks.ts and the pages that use it.
THEOREM TypeOKCorrect == Spec => []TypeOK
<1>1. IInv => TypeOK
  BY DEF IInv
<1> QED BY <1>1, InductiveInvariant, PTL

\* queryKeys puts page and filters into the key, so what is on the screen
\* always answers what was chosen there.
THEOREM ShownMatches == Spec => []ShownMatchesParams
<1>1. IInv => ShownMatchesParams
  BY ShownFacts DEF ShownMatchesParams
<1> QED BY <1>1, InductiveInvariant, PTL

\* The filter handlers reset the page and Pagination offers no page past the
\* last: an empty page of a list with rows was once a page with rows.
THEOREM EmptyAfterShrink == Spec => []EmptyOnlyAfterShrink
<1>1. IInv => EmptyOnlyAfterShrink
  <2> SUFFICES ASSUME IInv, ListShown, Total(page, Shown) > 0
               PROVE  \E v \in 0 .. now : TotalPages(TableAt(v, page)[params.flt]) >= params.pg
    BY DEF EmptyOnlyAfterShrink
  <2>1. /\ page \in Lists /\ Shown.counted \in 0 .. now
        /\ Total(page, Shown) = TableAt(Shown.counted, page)[params.flt]
        /\ Total(page, Shown) \in Nat
    BY ShownFacts
  <2>2. CASE params.pg = 1
    <3>1. TotalPages(Total(page, Shown)) >= 1
      BY <2>1, PagesOfTotal
    <3> QED BY <2>1, <2>2, <3>1
  <2>3. CASE params.pg # 1
    BY <2>1, <2>3 DEF IInv, PagesOK
  <2> QED BY <2>2, <2>3
<1> QED BY <1>1, InductiveInvariant, PTL

\* onSuccess returns the promise of its refetches: when the dialog closes,
\* the list behind it shows the change.
THEOREM FreshWhenDialogCloses == Spec => []FreshWhenClosed
<1>1. IInv => FreshWhenClosed
  BY DEF IInv, MutOK, FreshWhenClosed
<1> QED BY <1>1, InductiveInvariant, PTL

\* The click handler of MarkerLayer, registered once, reads a ref that every
\* drawing renews.
THEOREM CardShowsDrawn == Spec => CardAsDrawn
<1>1. ASSUME IInv, [Next]_vars PROVE [SelectMarker => Card' = drawn]_vars
  <2> SUFFICES ASSUME SelectMarker PROVE Card' = drawn
    OBVIOUS
  <2>1. selected' = mountsRef /\ mountsRef = drawn /\ drawn # Never
    BY <1>1 DEF SelectMarker, IInv, MapOK
  <2> QED BY <2>1 DEF Card
<1> QED BY <1>1, InductiveInvariant, PTL DEF Spec, CardAsDrawn

\* The queries of the console implement Snapshot, for any number of keys,
\* changes, retries and cancellations.
THEOREM Refinement == Spec => ImplementsSnapshot
<1>1. Init => Lookout!Init
  BY InitIInv DEF Lookout!Init
<1>2. IInv /\ [Next]_vars => [Lookout!Next]_<<now, Seen>>
  BY StepIInv
<1> QED BY <1>1, <1>2, InductiveInvariant, PTL DEF Spec, ImplementsSnapshot, Lookout!Spec

=============================================================================
