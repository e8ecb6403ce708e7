--------------------------- MODULE AccountsProofs ---------------------------
(***************************************************************************)
(* Proofs about Accounts, for any users, passwords, connections and, where  *)
(* the cache is concerned, any number of concurrent requests.              *)
(*                                                                         *)
(* The cache is coherent because an Authenticate that is between its query  *)
(* and its store has read what the table still says, or was outrun by a     *)
(* purge (Fresh).  That disabled accounts are gone needs to follow an       *)
(* account from the statement that disables it to the moment when its       *)
(* connections are closed (Gone).                                          *)
(***************************************************************************)
EXTENDS Accounts, TLAPS

AllRoles == {"admin", "base", "rover"}
UserRow == [name : Names, pw : Passwords, role : AllRoles, enabled : BOOLEAN]
User == [id : Ids, role : AllRoles]

\* The states of a handler that works with a user.
Working == {"verify", "bind", "attach", "served"}

\* The states of PUT /api/users/{id}.
AfterWrite == {"updateClear", "password", "passwordClear", "disconnect"}
Updating == AfterWrite \cup {"update"}

TableOK ==
    /\ users \in [Ids -> UserRow \cup {None}]
    /\ nextId \in Nat
    /\ \A i \in Ids : users[i] # None => i < nextId

HandlersOK ==
    /\ cache \in [Key -> [user : User, outrun : BOOLEAN] \cup {None}]
    /\ DOMAIN cpc = Conns /\ DOMAIN cred = Conns /\ DOMAIN user = Conns
    /\ \A c \in Conns : cpc[c] \in {"query", "verify"} => cred[c] \in Key
    /\ \A c \in Conns : cpc[c] \in Working => user[c] \in User

RequestsOK ==
    /\ DOMAIN apc = Admins /\ DOMAIN id = Admins /\ DOMAIN was = Admins
    /\ want \in [Admins -> Body]
    /\ \A a \in Admins : apc[a] \in Updating => id[a] \in Ids /\ was[a] \in UserRow
    /\ \A a \in Admins : apc[a] \in {"delete", "deleteClear"} => id[a] \in Ids
    /\ \A a \in Admins : apc[a] = "password" => want[a].pw # None

Typed == TableOK /\ HandlersOK /\ RequestsOK

-----------------------------------------------------------------------------
(* Types.                                                                  *)

LEMMA NoBodyTyped == NoBody \in Body
BY DEF NoBody, Body

LEMMA InitTyped == Init => Typed
<1> SUFFICES ASSUME Init PROVE Typed
  OBVIOUS
<1>1. TableOK
  BY IdAssumption DEF Init, TableOK, UserRow, AllRoles
<1>2. HandlersOK
  BY DEF Init, HandlersOK, Working
<1>3. RequestsOK
  BY NoBodyTyped DEF Init, RequestsOK, Updating, AfterWrite
<1> QED BY <1>1, <1>2, <1>3 DEF Typed

\* What UpdateUser and UpdatePassword do to the table.
LEMMA UpdateUserWrites ==
    ASSUME Typed, NEW a \in Admins, UpdateUser(a)
    PROVE  /\ TableOK'
           /\ \A i \in Ids : i # id[a] => users'[i] = users[i]
           /\ users[id[a]] = None => users'[id[a]] = None
           /\ users[id[a]] # None =>
                users'[id[a]].enabled = Or(want[a].enabled, was[a].enabled)
<1>1. id[a] \in Ids /\ was[a] \in UserRow /\ want[a] \in Body /\ nextId' = nextId
  BY DEF UpdateUser, AAt, Typed, RequestsOK, Updating
<1> DEFINE r == Or(want[a].role, was[a].role)
           e == Or(want[a].enabled, was[a].enabled)
<1>2. r \in AllRoles /\ e \in BOOLEAN
  BY <1>1, RoleAssumption DEF Or, Body, UserRow, AllRoles
<1> HIDE DEF r, e
<1>3. CASE users[id[a]] = None
  <2>1. users' = users
    BY <1>3 DEF UpdateUser, SetField
  <2> QED BY <1>1, <1>3, <2>1 DEF Typed, TableOK
<1>4. CASE users[id[a]] # None
  <2> DEFINE u == users[id[a]]
             v == [[u EXCEPT !.role = r] EXCEPT !.enabled = e]
  <2>1. u \in UserRow
    BY <1>1, <1>4 DEF Typed, TableOK
  <2>2. v \in UserRow /\ v.enabled = e
    BY <1>2, <2>1 DEF UserRow
  <2>3. users' = [users EXCEPT ![id[a]] = v]
    BY <1>4 DEF UpdateUser, SetField, r, e
  <2> HIDE DEF v
  <2>4. users'[id[a]] = v /\ \A i \in Ids : i # id[a] => users'[i] = users[i]
    BY <1>1, <2>3 DEF Typed, TableOK
  <2>5. TableOK'
    BY <1>1, <1>4, <2>2, <2>3, <2>4 DEF Typed, TableOK
  <2> QED BY <1>4, <2>2, <2>4, <2>5 DEF e
<1> QED BY <1>3, <1>4

LEMMA UpdatePasswordWrites ==
    ASSUME Typed, NEW a \in Admins, UpdatePassword(a)
    PROVE  /\ TableOK'
           /\ \A i \in Ids : i # id[a] => users'[i] = users[i]
           /\ users[id[a]] = None => users'[id[a]] = None
           /\ users[id[a]] # None => users'[id[a]].enabled = users[id[a]].enabled
<1>1. id[a] \in Ids /\ want[a] \in Body /\ want[a].pw \in Passwords /\ nextId' = nextId
  BY DEF UpdatePassword, AAt, Typed, RequestsOK, Updating, AfterWrite, Body
<1>2. CASE users[id[a]] = None
  <2>1. users' = users
    BY <1>2 DEF UpdatePassword, SetField
  <2> QED BY <1>1, <1>2, <2>1 DEF Typed, TableOK
<1>3. CASE users[id[a]] # None
  <2> DEFINE u == users[id[a]]
             v == [u EXCEPT !.pw = want[a].pw]
  <2>1. u \in UserRow
    BY <1>1, <1>3 DEF Typed, TableOK
  <2>2. v \in UserRow /\ v.enabled = u.enabled
    BY <1>1, <2>1 DEF UserRow
  <2>3. users' = [users EXCEPT ![id[a]] = v]
    BY <1>3 DEF UpdatePassword, SetField
  <2> HIDE DEF v
  <2>4. users'[id[a]] = v /\ \A i \in Ids : i # id[a] => users'[i] = users[i]
    BY <1>1, <2>3 DEF Typed, TableOK
  <2>5. TableOK'
    BY <1>1, <1>3, <2>2, <2>3, <2>4 DEF Typed, TableOK
  <2> QED BY <1>3, <2>2, <2>4, <2>5
<1> QED BY <1>2, <1>3

LEMMA HandlerTyped ==
    ASSUME Typed, NEW c \in Conns, HandlerStep(c)
    PROVE  Typed'
<1>1. TableOK' /\ RequestsOK'
  <2>1. UNCHANGED <<table, request>>
    BY DEF HandlerStep, Query, Store, HasBinding, Attach, CacheHit, CacheMiss
  <2> QED BY <2>1 DEF table, request, Typed, TableOK, RequestsOK
<1> SUFFICES HandlersOK'
  BY <1>1 DEF Typed
<1> USE DEF HandlersOK, Working, CAt, CGoto
<1>2. HandlersOK
  BY DEF Typed
<1>3. CASE Query(c)
  <2>1. ASSUME NEW i \in Ids, users[i] # None, user' = [user EXCEPT ![c] = UserOf(i)],
               CGoto(c, "verify"), UNCHANGED <<cred, cache>>
        PROVE HandlersOK'
    <3>1. UserOf(i) \in User
      BY <2>1 DEF UserOf, User, UserRow, Typed, TableOK
    <3> QED BY <1>2, <1>3, <2>1, <3>1 DEF Query
  <2>2. CASE Refuse(c)
    BY <1>2, <1>3, <2>2 DEF Query, Refuse
  <2>3. \A n : GetUserByName(n) # None =>
               GetUserByName(n) \in Ids /\ users[GetUserByName(n)] # None
    BY DEF GetUserByName
  <2> QED BY <1>3, <2>1, <2>2, <2>3 DEF Query
<1>4. CASE Store(c)
  <2>1. cred[c] \in Key /\ user[c] \in User
    BY <1>2, <1>4 DEF Store
  <2> DEFINE e == [user |-> user[c], outrun |-> c \in outrun]
  <2>2. e \in [user : User, outrun : BOOLEAN]
    BY <2>1
  <2>3. cache' = [cache EXCEPT ![cred[c]] = e]
    BY <1>4 DEF Store
  <2> HIDE DEF e
  <2>4. cache' \in [Key -> [user : User, outrun : BOOLEAN] \cup {None}]
    BY <1>2, <2>2, <2>3
  <2> QED BY <1>2, <1>4, <2>4 DEF Store
<1>5. CASE HasBinding(c)
  BY <1>2, <1>5 DEF HasBinding, Refuse
<1>6. CASE Attach(c)
  BY <1>2, <1>6 DEF Attach
<1>7. ASSUME NEW k \in Key, CacheHit(c, k) PROVE HandlersOK'
  <2>1. cache[k].user \in User
    BY <1>2, <1>7 DEF CacheHit
  <2> QED BY <1>2, <1>7, <2>1 DEF CacheHit
<1>8. ASSUME NEW k \in Key, CacheMiss(c, k) PROVE HandlersOK'
  BY <1>2, <1>8 DEF CacheMiss
<1> HIDE DEF HandlersOK
<1> QED BY <1>3, <1>4, <1>5, <1>6, <1>7, <1>8 DEF HandlerStep

LEMMA ClearTyped ==
    ASSUME HandlersOK, ClearCache, UNCHANGED handler
    PROVE  HandlersOK'
BY DEF HandlersOK, ClearCache, handler

LEMMA DisconnectTyped ==
    ASSUME HandlersOK, NEW i, DisconnectUser(i), UNCHANGED cache
    PROVE  HandlersOK'
<1>1. \A c \in Conns : cpc'[c] # "closed" => cpc'[c] = cpc[c] /\ user'[c] = user[c]
  BY DEF DisconnectUser, HandlersOK
<1> QED BY <1>1 DEF DisconnectUser, HandlersOK, Working

LEMMA FinishTyped ==
    ASSUME RequestsOK, NEW a \in Admins, Finish(a)
    PROVE  RequestsOK'
BY NoBodyTyped DEF RequestsOK, Finish, AGoto, Updating, AfterWrite

\* The request moves on, knowing what it knew.
LEMMA OnwardTyped ==
    ASSUME RequestsOK, NEW a \in Admins, NEW p, AGoto(a, p), UNCHANGED <<id, was, want>>,
           apc[a] \in Updating, p \in AfterWrite, p = "password" => want[a].pw # None
    PROVE  RequestsOK'
BY DEF RequestsOK, AGoto, Updating, AfterWrite

LEMMA RequestTyped ==
    ASSUME Typed, NEW a \in Admins, RequestStep(a)
    PROVE  Typed'
<1> USE DEF AAt
<1>0. TableOK /\ HandlersOK /\ RequestsOK
  BY DEF Typed
<1>1. UNCHANGED table => TableOK'
  BY <1>0 DEF TableOK, table
<1>2. UNCHANGED <<cache, handler>> => HandlersOK'
  BY <1>0 DEF HandlersOK, handler
<1>3. CASE UpdateUser(a)
  <2>1. RequestsOK'
    BY <1>0, <1>3, OnwardTyped DEF UpdateUser, Updating, AfterWrite
  <2> QED BY <1>0, <1>2, <1>3, <2>1, UpdateUserWrites DEF UpdateUser, Typed
<1>4. CASE UpdateClear(a)
  <2>1. RequestsOK'
    BY <1>0, <1>4, OnwardTyped DEF UpdateClear, Updating, AfterWrite
  <2> QED BY <1>0, <1>1, <1>4, <2>1, ClearTyped DEF UpdateClear, Typed
<1>5. CASE UpdatePassword(a)
  <2>1. RequestsOK'
    BY <1>0, <1>5, OnwardTyped DEF UpdatePassword, Updating, AfterWrite
  <2> QED BY <1>0, <1>2, <1>5, <2>1, UpdatePasswordWrites DEF UpdatePassword, Typed
<1>6. CASE PasswordClear(a)
  <2>1. RequestsOK'
    BY <1>0, <1>6, OnwardTyped DEF PasswordClear, Updating, AfterWrite
  <2> QED BY <1>0, <1>1, <1>6, <2>1, ClearTyped DEF PasswordClear, Typed
<1>7. CASE DisconnectDisabled(a)
  <2>1. HandlersOK'
    BY <1>0, <1>2, <1>7, DisconnectTyped DEF DisconnectDisabled
  <2> QED BY <1>0, <1>1, <1>7, <2>1, FinishTyped DEF DisconnectDisabled, Typed
<1>8. CASE DeleteUser(a)
  <2>1. TableOK'
    BY <1>0, <1>8 DEF DeleteUser, TableOK
  <2>2. RequestsOK'
    BY <1>0, <1>8 DEF DeleteUser, AGoto, RequestsOK, Updating, AfterWrite
  <2> QED BY <1>2, <1>8, <2>1, <2>2 DEF DeleteUser, Typed
<1>9. CASE DeleteClear(a)
  BY <1>0, <1>1, <1>9, ClearTyped, FinishTyped DEF DeleteClear, Typed
<1>10. CASE StatementFails(a)
  BY <1>0, <1>1, <1>2, <1>10, FinishTyped DEF StatementFails, Typed
<1> QED BY <1>3, <1>4, <1>5, <1>6, <1>7, <1>8, <1>9, <1>10 DEF RequestStep

LEMMA NextTyped == Typed /\ [Next]_vars => Typed'
<1> SUFFICES ASSUME Typed, [Next]_vars PROVE Typed'
  OBVIOUS
<1>0. TableOK /\ HandlersOK /\ RequestsOK
  BY DEF Typed
<1>1. UNCHANGED <<users, nextId>> => TableOK'
  BY <1>0 DEF TableOK
<1>2. UNCHANGED <<cache, handler>> => HandlersOK'
  BY <1>0 DEF HandlersOK, handler
<1>3. UNCHANGED request => RequestsOK'
  BY <1>0 DEF RequestsOK, request
<1>4. CASE UNCHANGED vars
  BY <1>1, <1>2, <1>3, <1>4 DEF vars, Typed, table
<1>5. ASSUME NEW k \in Key, Expire(k) PROVE Typed'
  <2>1. HandlersOK'
    BY <1>0, <1>5 DEF Expire, HandlersOK, handler
  <2> QED BY <1>1, <1>3, <1>5, <2>1 DEF Expire, Typed, table
<1>6. ASSUME NEW a \in Admins, NEW n \in Names, NEW p \in Passwords, NEW r \in Roles,
             CreateUser(a, n, p, r)
      PROVE  Typed'
  <2> DEFINE u == [name |-> n, pw |-> p, role |-> r, enabled |-> TRUE]
  <2>1. u \in UserRow
    BY RoleAssumption DEF UserRow, AllRoles
  <2>2. users' = [users EXCEPT ![nextId] = u] /\ nextId \in Ids /\ nextId' = nextId + 1
    BY <1>6 DEF CreateUser
  <2> HIDE DEF u
  <2>3. TableOK'
    BY <1>0, <2>1, <2>2, IdAssumption DEF TableOK
  <2> QED BY <1>2, <1>3, <1>6, <2>3 DEF CreateUser, Typed
<1>7. ASSUME NEW a \in Admins, NEW i \in Ids, AddBinding(a, i) \/ RemoveBinding(a, i)
      PROVE  Typed'
  BY <1>1, <1>2, <1>3, <1>7 DEF AddBinding, RemoveBinding, Typed
<1>8. ASSUME NEW a \in Admins, NEW i \in Ids, DisconnectDeleted(a, i) PROVE Typed'
  <2>1. RequestsOK'
    BY <1>0, <1>8 DEF DisconnectDeleted, AGoto, RequestsOK, Updating, AfterWrite
  <2> QED BY <1>0, <1>1, <1>8, <2>1, DisconnectTyped DEF DisconnectDeleted, Typed, table
<1>9. ASSUME NEW a \in Admins, NEW i \in Ids, NEW w \in Body, GetUser(a, i, w) PROVE Typed'
  <2>1. users[i] \in UserRow
    BY <1>0, <1>9 DEF GetUser, TableOK
  <2>2. RequestsOK'
    BY <1>0, <1>9, <2>1 DEF GetUser, AGoto, RequestsOK, Updating, AfterWrite
  <2> QED BY <1>1, <1>2, <1>9, <2>2 DEF GetUser, Typed, table
<1> QED BY <1>4, <1>5, <1>6, <1>7, <1>8, <1>9, HandlerTyped, RequestTyped DEF Next

-----------------------------------------------------------------------------
(* The cache.                                                              *)

\* What is cached and what is about to be cached is what the table says, unless
\* a purge is due or has come in between.
Fresh ==
    ~Clearing =>
        /\ \A k \in Key : cache[k] # None /\ ~cache[k].outrun =>
              Vouches(cache[k].user.id, k, cache[k].user)
        /\ \A c \in Conns : cpc[c] = "verify" /\ c \notin outrun =>
              Vouches(user[c].id, cred[c], user[c])

LEMMA FreshKept ==
    ASSUME Fresh, Clearing => Clearing', UNCHANGED <<users, cache>>,
           \A c \in Conns : cpc'[c] = "verify" /\ c \notin outrun' =>
               /\ cpc[c] = "verify" /\ c \notin outrun
               /\ user'[c] = user[c] /\ cred'[c] = cred[c]
    PROVE  Fresh'
BY DEF Fresh, Vouches, UserOf

\* A purge leaves nothing behind that is not marked as outrun.
LEMMA FreshCleared ==
    ASSUME HandlersOK, ClearCache, UNCHANGED handler
    PROVE  Fresh'
BY DEF Fresh, ClearCache, CAt, handler

\* A request that is not about to purge makes no purge undue.
LEMMA ClearingKept ==
    ASSUME RequestsOK, NEW a \in Admins, NEW p, AGoto(a, p),
           apc[a] \notin {"updateClear", "passwordClear", "deleteClear"}
    PROVE  Clearing => Clearing'
BY DEF Clearing, AGoto, RequestsOK

LEMMA ClearingDue ==
    ASSUME RequestsOK, NEW a \in Admins, NEW p \in {"updateClear", "passwordClear", "deleteClear"},
           AGoto(a, p)
    PROVE  Fresh'
BY DEF Fresh, Clearing, AGoto, RequestsOK

LEMMA HandlerFresh ==
    ASSUME Typed, Fresh, NEW c \in Conns, HandlerStep(c)
    PROVE  Fresh'
<1> USE DEF CAt, CGoto
<1>0. /\ UNCHANGED <<users, apc>> /\ (Clearing' <=> Clearing)
      /\ DOMAIN cpc = Conns /\ DOMAIN user = Conns /\ DOMAIN cred = Conns
  BY DEF HandlerStep, Query, Store, HasBinding, Attach, CacheHit, CacheMiss, table, request,
         Clearing, Typed, HandlersOK
<1>1. CASE Query(c)
  <2>1. CASE Refuse(c)
    BY <1>0, <1>1, <2>1, FreshKept DEF Query, Refuse, history
  <2>2. CASE ~Refuse(c)
    <3> DEFINE i == GetUserByName(cred[c][1])
    <3>1. /\ i # None /\ users[i].enabled /\ users[i].pw = cred[c][2]
          /\ user' = [user EXCEPT ![c] = UserOf(i)] /\ cpc' = [cpc EXCEPT ![c] = "verify"]
          /\ cpc[c] = "query" /\ UNCHANGED <<cred, cache, outrun>>
      BY <1>1, <2>2 DEF Query, history
    <3>2. users[i] # None /\ users[i].name = cred[c][1]
      BY <3>1 DEF GetUserByName
    <3>3. cred[c] = <<cred[c][1], cred[c][2]>>
      BY <3>1 DEF Typed, HandlersOK, Key
    <3> HIDE DEF i
    <3>4. UserOf(i).id = i
      BY DEF UserOf
    <3>5. Vouches(i, cred[c], UserOf(i))
      BY <3>1, <3>2, <3>3 DEF Vouches
    <3>6. Vouches(user[c].id, cred[c], user[c])'
      BY <1>0, <3>1, <3>4, <3>5 DEF Vouches, UserOf
    <3>7. \A d \in Conns : d # c => cpc'[d] = cpc[d] /\ user'[d] = user[d]
      BY <1>0, <3>1
    <3>8. ASSUME ~Clearing', NEW d \in Conns, cpc'[d] = "verify", d \notin outrun'
          PROVE  Vouches(user[d].id, cred[d], user[d])'
      <4>1. CASE d # c
        <5>1. Vouches(user[d].id, cred[d], user[d])
          BY <1>0, <3>1, <3>7, <3>8, <4>1 DEF Fresh
        <5> QED BY <1>0, <3>1, <3>7, <4>1, <5>1 DEF Vouches, UserOf
      <4> QED BY <3>6, <4>1
    <3>9. ASSUME ~Clearing', NEW l \in Key, cache'[l] # None, ~cache'[l].outrun
          PROVE  Vouches(cache[l].user.id, l, cache[l].user)'
      <4>1. Vouches(cache[l].user.id, l, cache[l].user)
        BY <1>0, <3>1, <3>9 DEF Fresh
      <4> QED BY <1>0, <3>1, <4>1 DEF Vouches, UserOf
    <3> QED BY <3>8, <3>9 DEF Fresh
  <2> QED BY <2>1, <2>2
<1>2. CASE Store(c)
  <2> DEFINE e == [user |-> user[c], outrun |-> c \in outrun]
             k == cred[c]
  <2>1. /\ cache' = [cache EXCEPT ![k] = e] /\ cpc' = [cpc EXCEPT ![c] = "bind"]
        /\ cred' = [cred EXCEPT ![c] = None] /\ user' = user /\ outrun' = outrun \ {c}
        /\ cpc[c] = "verify"
    BY <1>2 DEF Store
  <2>2. k \in Key /\ cache'[k] = e /\ \A l \in Key : l # k => cache'[l] = cache[l]
    BY <2>1 DEF Typed, HandlersOK
  <2>3. e.user = user[c] /\ (e.outrun <=> c \in outrun)
    OBVIOUS
  <2> HIDE DEF e, k
  <2>4. \A d \in Conns : d # c => cpc'[d] = cpc[d] /\ cred'[d] = cred[d]
    BY <1>0, <2>1
  <2>5. ASSUME ~Clearing', NEW l \in Key, cache'[l] # None, ~cache'[l].outrun
        PROVE  Vouches(cache[l].user.id, l, cache[l].user)'
    <3>1. CASE l = k
      <4>1. Vouches(user[c].id, l, user[c])
        BY <1>0, <2>1, <2>2, <2>3, <2>5, <3>1 DEF Fresh, k
      <4> QED BY <1>0, <2>2, <2>3, <3>1, <4>1 DEF Vouches, UserOf
    <3>2. CASE l # k
      <4>1. Vouches(cache[l].user.id, l, cache[l].user)
        BY <1>0, <2>2, <2>5, <3>2 DEF Fresh
      <4> QED BY <1>0, <2>2, <3>2, <4>1 DEF Vouches, UserOf
    <3> QED BY <3>1, <3>2
  <2>6. ASSUME ~Clearing', NEW d \in Conns, cpc'[d] = "verify", d \notin outrun'
        PROVE  Vouches(user[d].id, cred[d], user[d])'
    <3>1. d # c
      BY <1>0, <2>1, <2>6
    <3>2. Vouches(user[d].id, cred[d], user[d])
      BY <1>0, <2>1, <2>4, <2>6, <3>1 DEF Fresh
    <3> QED BY <1>0, <2>1, <2>4, <3>1, <3>2 DEF Vouches, UserOf
  <2> QED BY <2>5, <2>6 DEF Fresh
<1>3. CASE HasBinding(c)
  BY <1>0, <1>3, FreshKept DEF HasBinding, Refuse, history
<1>4. CASE Attach(c)
  BY <1>0, <1>4, FreshKept DEF Attach, history
<1>5. ASSUME NEW k \in Key, CacheHit(c, k) PROVE Fresh'
  BY <1>0, <1>5, FreshKept DEF CacheHit
<1>6. ASSUME NEW k \in Key, CacheMiss(c, k) PROVE Fresh'
  BY <1>0, <1>6, FreshKept DEF CacheMiss, history
<1> QED BY <1>1, <1>2, <1>3, <1>4, <1>5, <1>6 DEF HandlerStep

LEMMA NextFresh ==
    ASSUME Typed, Fresh, [Next]_vars
    PROVE  Fresh'
<1> USE DEF AAt
<1>0. TableOK /\ HandlersOK /\ RequestsOK
  BY DEF Typed
<1>1. CASE UNCHANGED vars
  BY <1>1, FreshKept DEF vars, table, handler, request, history, Clearing
<1>2. ASSUME NEW k \in Key, Expire(k) PROVE Fresh'
  <2>1. /\ UNCHANGED <<users, cpc, user, cred, outrun, apc>>
        /\ \A l \in Key : cache'[l] = None \/ cache'[l] = cache[l]
    BY <1>0, <1>2 DEF Expire, HandlersOK, table, handler, request, history
  <2>2. ASSUME ~Clearing', NEW l \in Key, cache'[l] # None, ~cache'[l].outrun
        PROVE  Vouches(cache[l].user.id, l, cache[l].user)'
    <3>1. Vouches(cache[l].user.id, l, cache[l].user) /\ cache'[l] = cache[l]
      BY <2>1, <2>2 DEF Fresh, Clearing
    <3> QED BY <2>1, <3>1 DEF Vouches, UserOf
  <2>3. ASSUME ~Clearing', NEW d \in Conns, cpc'[d] = "verify", d \notin outrun'
        PROVE  Vouches(user[d].id, cred[d], user[d])'
    <3>1. Vouches(user[d].id, cred[d], user[d])
      BY <2>1, <2>3 DEF Fresh, Clearing
    <3> QED BY <2>1, <3>1 DEF Vouches, UserOf
  <2> QED BY <2>2, <2>3 DEF Fresh
<1>3. ASSUME NEW a \in Admins, NEW n \in Names, NEW p \in Passwords, NEW r \in Roles,
             CreateUser(a, n, p, r)
      PROVE  Fresh'
  <2>1. /\ users[nextId] = None /\ \A i \in Ids : i # nextId => users'[i] = users[i]
        /\ nextId \in Ids /\ UNCHANGED <<cache, cpc, user, cred, outrun, apc>>
    BY <1>0, <1>3 DEF CreateUser, TableOK, handler, request, history
  <2>2. \A i \in Ids : users[i] # None => users'[i] = users[i]
    BY <2>1
  <2>3. ASSUME ~Clearing', NEW l \in Key, cache'[l] # None, ~cache'[l].outrun
        PROVE  Vouches(cache[l].user.id, l, cache[l].user)'
    <3>1. Vouches(cache[l].user.id, l, cache[l].user) /\ cache[l].user \in User
      BY <1>0, <2>1, <2>3 DEF Fresh, Clearing, HandlersOK
    <3> QED BY <2>1, <2>2, <3>1 DEF Vouches, UserOf, User
  <2>4. ASSUME ~Clearing', NEW d \in Conns, cpc'[d] = "verify", d \notin outrun'
        PROVE  Vouches(user[d].id, cred[d], user[d])'
    <3>1. Vouches(user[d].id, cred[d], user[d]) /\ user[d] \in User
      BY <1>0, <2>1, <2>4 DEF Fresh, Clearing, HandlersOK, Working
    <3> QED BY <2>1, <2>2, <3>1 DEF Vouches, UserOf, User
  <2> QED BY <2>3, <2>4 DEF Fresh
<1>4. ASSUME NEW a \in Admins, NEW i \in Ids, AddBinding(a, i) \/ RemoveBinding(a, i)
      PROVE  Fresh'
  BY <1>4, FreshKept DEF AddBinding, RemoveBinding, handler, request, history, Clearing
<1>5. ASSUME NEW a \in Admins, NEW i, DisconnectUser(i), UNCHANGED <<users, cache, outrun>>,
             Clearing => Clearing'
      PROVE  Fresh'
  <2>1. \A c \in Conns : cpc'[c] = "verify" =>
            cpc[c] = "verify" /\ user'[c] = user[c] /\ cred'[c] = cred[c]
    BY <1>0, <1>5 DEF DisconnectUser, HandlersOK
  <2> QED BY <1>5, <2>1, FreshKept
<1>6. ASSUME NEW a \in Admins, NEW i \in Ids, DisconnectDeleted(a, i) PROVE Fresh'
  <2>1. Clearing => Clearing'
    BY <1>0, <1>6, ClearingKept DEF DisconnectDeleted
  <2> QED BY <1>5, <1>6, <2>1 DEF DisconnectDeleted, table
<1>7. ASSUME NEW a \in Admins, NEW i \in Ids, NEW w \in Body, GetUser(a, i, w) PROVE Fresh'
  <2>1. Clearing => Clearing'
    BY <1>0, <1>7, ClearingKept DEF GetUser
  <2> QED BY <1>7, <2>1, FreshKept DEF GetUser, table, handler, history
<1>8. ASSUME NEW a \in Admins, UpdateUser(a) \/ UpdatePassword(a) \/ DeleteUser(a)
      PROVE  Fresh'
  BY <1>0, <1>8, ClearingDue DEF UpdateUser, UpdatePassword, DeleteUser
<1>9. ASSUME NEW a \in Admins, UpdateClear(a) \/ PasswordClear(a) \/ DeleteClear(a)
      PROVE  Fresh'
  BY <1>0, <1>9, FreshCleared DEF UpdateClear, PasswordClear, DeleteClear
<1>10. ASSUME NEW a \in Admins, DisconnectDisabled(a) PROVE Fresh'
  <2>1. Clearing => Clearing'
    BY <1>0, <1>10, ClearingKept DEF DisconnectDisabled, Finish
  <2>2. CASE Disables(a)
    BY <1>5, <1>10, <2>1, <2>2 DEF DisconnectDisabled, table
  <2>3. CASE ~Disables(a)
    BY <1>10, <2>1, <2>3, FreshKept DEF DisconnectDisabled, table, handler
  <2> QED BY <2>2, <2>3
<1>11. ASSUME NEW a \in Admins, StatementFails(a) PROVE Fresh'
  <2>1. Clearing => Clearing'
    BY <1>0, <1>11, ClearingKept DEF StatementFails, Finish
  <2> QED BY <1>11, <2>1, FreshKept DEF StatementFails, table, handler
<1> QED
  BY <1>1, <1>2, <1>3, <1>4, <1>6, <1>7, <1>8, <1>9, <1>10, <1>11, HandlerFresh
     DEF Next, RequestStep

LEMMA FreshInvariant == Spec => [](Typed /\ Fresh)
<1>1. Init => Fresh
  BY DEF Init, Fresh
<1> QED BY <1>1, InitTyped, NextTyped, NextFresh, PTL DEF Spec

\* The cache never says of an account what the table does not, except while a
\* purge is on its way or by an entry that a purge overtook: for any number
\* of concurrent requests and connections.
THEOREM CacheCoherentHolds == Spec => []CacheCoherent
<1>1. Typed /\ Fresh => CacheCoherent
  BY DEF Fresh, CacheCoherent
<1> QED BY <1>1, FreshInvariant, PTL

-----------------------------------------------------------------------------
(* Disabled accounts, with one request at a time.                          *)

SingleRequest == \A a, b \in Admins : a = b

\* A request that disables account i is at one of these stages.
Disabling(i, stages) ==
    \E a \in Admins : apc[a] \in stages /\ id[a] = i /\ Disables(a)

Allowed(i, stages) ==
    users[i] # None => users[i].enabled \/ Disabling(i, stages)

\* Nothing that is cached, verified or served belongs to a disabled account,
\* unless the request that disables it has yet to purge the cache (the first
\* two) or to disconnect (the last), or the connection was spared.
Gone ==
    /\ \A a \in Admins : apc[a] = "update" => was[a] = users[id[a]]
    /\ \A k \in Key : cache[k] # None /\ ~cache[k].outrun =>
          Allowed(cache[k].user.id, {"updateClear"})
    /\ \A c \in Conns : cpc[c] = "verify" /\ c \notin outrun =>
          Allowed(user[c].id, {"updateClear"})
    /\ \A c \in Conns : cpc[c] \in {"bind", "attach", "served"} /\ c \notin spared =>
          Allowed(user[c].id, AfterWrite)

\* A stage later on is allowed more.
LEMMA AllowedLater ==
    ASSUME NEW i, Allowed(i, {"updateClear"})
    PROVE  Allowed(i, AfterWrite)
BY DEF Allowed, Disabling, AfterWrite

\* With one request, it alone can be disabling an account.
LEMMA AllowedOnly ==
    ASSUME SingleRequest, NEW a \in Admins, NEW i, NEW stages
    PROVE  /\ Allowed(i, stages) <=>
                (users[i] # None => \/ users[i].enabled
                                    \/ apc[a] \in stages /\ id[a] = i /\ Disables(a))
           /\ Allowed(i, stages)' <=>
                (users'[i] # None => \/ users'[i].enabled
                                     \/ apc'[a] \in stages /\ id'[a] = i /\ Disables(a)')
BY DEF SingleRequest, Allowed, Disabling

LEMMA HandlerGone ==
    ASSUME Typed, Gone, NEW c \in Conns, HandlerStep(c)
    PROVE  Gone'
<1> USE DEF CAt, CGoto
<1>0. /\ UNCHANGED <<users, apc, id, was, want>>
      /\ HandlersOK
  BY DEF HandlerStep, Query, Store, HasBinding, Attach, CacheHit, CacheMiss, table, request, Typed
<1>1. \A i, stages : Allowed(i, stages)' <=> Allowed(i, stages)
  BY <1>0 DEF Allowed, Disabling, Disables
<1>2. /\ \A d \in Conns : d # c => cpc'[d] = cpc[d] /\ user'[d] = user[d]
      /\ \A d \in Conns : d # c => (d \in outrun' <=> d \in outrun) /\ (d \in spared => d \in spared')
  BY <1>0 DEF HandlersOK, HandlerStep, Query, Refuse, Store, HasBinding, Attach, CacheHit,
              CacheMiss, history
<1> DEFINE Cached == \A k \in Key : cache'[k] # None /\ ~cache'[k].outrun =>
                        Allowed(cache'[k].user.id, {"updateClear"})
           Verified == cpc'[c] = "verify" /\ c \notin outrun' => Allowed(user'[c].id, {"updateClear"})
           Served == cpc'[c] \in {"bind", "attach", "served"} /\ c \notin spared' =>
                        Allowed(user'[c].id, AfterWrite)
<1>3. SUFFICES Cached /\ Verified /\ Served
  <2>1. \A a \in Admins : apc'[a] = "update" => was'[a] = users'[id'[a]]
    BY <1>0 DEF Gone
  <2>2. \A d \in Conns : cpc'[d] = "verify" /\ d \notin outrun' => Allowed(user'[d].id, {"updateClear"})
    BY <1>2, <1>3 DEF Gone
  <2>3. \A d \in Conns : cpc'[d] \in {"bind", "attach", "served"} /\ d \notin spared' =>
            Allowed(user'[d].id, AfterWrite)
    BY <1>2, <1>3 DEF Gone
  <2> QED BY <1>1, <1>3, <2>1, <2>2, <2>3 DEF Gone
<1>4. cache' = cache => Cached
  BY DEF Gone
<1> HIDE DEF Cached
<1>5. CASE Query(c)
  <2>1. CASE Refuse(c)
    BY <1>0, <1>4, <1>5, <2>1 DEF Query, Refuse, HandlersOK
  <2>2. CASE ~Refuse(c)
    <3> DEFINE i == GetUserByName(cred[c][1])
    <3>1. /\ users[i].enabled /\ user'[c] = UserOf(i) /\ cpc'[c] = "verify" /\ cache' = cache
      BY <1>0, <1>5, <2>2 DEF Query, HandlersOK
    <3> HIDE DEF i
    <3>2. UserOf(i).id = i
      BY DEF UserOf
    <3> QED BY <1>4, <3>1, <3>2 DEF Allowed
  <2> QED BY <2>1, <2>2
<1>6. CASE Store(c)
  <2> DEFINE e == [user |-> user[c], outrun |-> c \in outrun]
             k == cred[c]
  <2>1. /\ cache' = [cache EXCEPT ![k] = e] /\ cpc' = [cpc EXCEPT ![c] = "bind"]
        /\ user' = user /\ cpc[c] = "verify"
        /\ c \in outrun => c \in spared'
    BY <1>6 DEF Store
  <2>2. k \in Key /\ cache'[k] = e /\ \A l \in Key : l # k => cache'[l] = cache[l]
    BY <1>0, <2>1 DEF HandlersOK
  <2>3. e.user = user[c] /\ (e.outrun <=> c \in outrun)
    OBVIOUS
  <2> HIDE DEF e, k
  <2>4. c \notin outrun => Allowed(user[c].id, {"updateClear"})
    BY <2>1 DEF Gone
  <2>5. Cached
    BY <2>2, <2>3, <2>4 DEF Gone, Cached
  <2>6. cpc'[c] = "bind" /\ user'[c] = user[c]
    BY <1>0, <2>1 DEF HandlersOK
  <2>7. c \notin outrun => Allowed(user[c].id, AfterWrite)
    BY <2>4, AllowedLater
  <2> QED BY <2>1, <2>5, <2>6, <2>7
<1>7. CASE HasBinding(c)
  BY <1>0, <1>4, <1>7 DEF HasBinding, Refuse, HandlersOK, Gone, history
<1>8. CASE Attach(c)
  BY <1>0, <1>4, <1>8 DEF Attach, HandlersOK, Gone, history
<1>9. ASSUME NEW k \in Key, CacheHit(c, k) PROVE Cached /\ Verified /\ Served
  <2>1. /\ cpc'[c] = "bind" /\ user'[c] = cache[k].user /\ cache' = cache /\ cache[k] # None
        /\ cache[k].outrun => c \in spared'
    BY <1>0, <1>9 DEF CacheHit, HandlersOK
  <2>2. ~cache[k].outrun => Allowed(cache[k].user.id, {"updateClear"})
    BY <2>1 DEF Gone
  <2>3. ~cache[k].outrun => Allowed(cache[k].user.id, AfterWrite)
    BY <2>2, AllowedLater
  <2> QED BY <1>4, <2>1, <2>3
<1>10. ASSUME NEW k \in Key, CacheMiss(c, k) PROVE Cached /\ Verified /\ Served
  BY <1>0, <1>4, <1>10 DEF CacheMiss, HandlersOK
<1> QED BY <1>5, <1>6, <1>7, <1>8, <1>9, <1>10 DEF HandlerStep

\* A step of the only request: what was allowed stays so.
LEMMA RequestKeepsGone ==
    ASSUME Typed, Gone, SingleRequest, NEW a \in Admins,
           apc'[a] = "update" => was'[a] = users'[id'[a]],
           \A k \in Key : cache'[k] # None => cache'[k] = cache[k],
           \A c \in Conns : cpc'[c] # "closed" => cpc'[c] = cpc[c] /\ user'[c] = user[c],
           outrun \subseteq outrun', spared \subseteq spared',
           \A i \in Ids : /\ Allowed(i, {"updateClear"}) => Allowed(i, {"updateClear"})'
                          /\ Allowed(i, AfterWrite) => Allowed(i, AfterWrite)'
    PROVE  Gone'
<1>1. \A b \in Admins : apc'[b] = "update" => was'[b] = users'[id'[b]]
  BY DEF SingleRequest
<1>2. /\ \A k \in Key : cache[k] # None => cache[k].user.id \in Ids
      /\ \A c \in Conns : cpc[c] \in Working => user[c].id \in Ids
  BY DEF Typed, HandlersOK, User
<1>3. ASSUME NEW k \in Key, cache'[k] # None, ~cache'[k].outrun
      PROVE  Allowed(cache[k].user.id, {"updateClear"})'
  <2>1. cache'[k] = cache[k] /\ Allowed(cache[k].user.id, {"updateClear"})
    BY <1>3 DEF Gone
  <2>2. PICK i \in Ids : i = cache[k].user.id
    BY <1>2, <1>3, <2>1
  <2>3. Allowed(i, {"updateClear"})'
    BY <2>1, <2>2
  <2> QED BY <2>1, <2>2, <2>3 DEF Allowed, Disabling
<1>4. ASSUME NEW c \in Conns, cpc'[c] = "verify", c \notin outrun'
      PROVE  Allowed(user[c].id, {"updateClear"})'
  <2>1. /\ cpc[c] = "verify" /\ user'[c] = user[c] /\ c \notin outrun
        /\ Allowed(user[c].id, {"updateClear"})
    BY <1>4 DEF Gone
  <2>2. PICK i \in Ids : i = user[c].id
    BY <1>2, <2>1 DEF Working
  <2>3. Allowed(i, {"updateClear"})'
    BY <2>1, <2>2
  <2> QED BY <2>1, <2>2, <2>3 DEF Allowed, Disabling
<1>5. ASSUME NEW c \in Conns, cpc'[c] \in {"bind", "attach", "served"}, c \notin spared'
      PROVE  Allowed(user[c].id, AfterWrite)'
  <2>1. /\ cpc[c] = cpc'[c] /\ user'[c] = user[c] /\ c \notin spared
        /\ Allowed(user[c].id, AfterWrite)
    BY <1>5 DEF Gone
  <2>2. PICK i \in Ids : i = user[c].id
    BY <1>2, <1>5, <2>1 DEF Working
  <2>3. Allowed(i, AfterWrite)'
    BY <2>1, <2>2
  <2> QED BY <2>1, <2>2, <2>3 DEF Allowed, Disabling
<1> QED BY <1>1, <1>3, <1>4, <1>5 DEF Gone

\* A purge: of the first two parts nothing is left to show.
LEMMA ClearKeepsGone ==
    ASSUME Typed, Gone, SingleRequest, NEW a \in Admins, ClearCache,
           apc'[a] # "update", UNCHANGED <<handler, spared>>,
           \A i \in Ids : Allowed(i, AfterWrite) => Allowed(i, AfterWrite)'
    PROVE  Gone'
<1>1. \A b \in Admins : apc'[b] # "update"
  BY DEF SingleRequest
<1>2. \A c \in Conns : cpc[c] \in Working => user[c].id \in Ids
  BY DEF Typed, HandlersOK, User
<1> QED BY <1>1, <1>2 DEF Gone, ClearCache, CAt, handler, Working

LEMMA UpdateUserGone ==
    ASSUME Typed, Gone, SingleRequest, NEW a \in Admins, UpdateUser(a)
    PROVE  Gone'
<1>1. /\ apc[a] = "update" /\ apc'[a] = "updateClear" /\ id[a] \in Ids
      /\ was[a] = users[id[a]] /\ was[a] \in UserRow /\ want[a] \in Body
      /\ UNCHANGED <<id, was, want, cache, cpc, user, outrun, spared>>
  BY DEF UpdateUser, AAt, AGoto, Typed, RequestsOK, Updating, Gone, handler, history
<1>2. ASSUME NEW i \in Ids, users[i] # None => users[i].enabled
      PROVE  users'[i] # None => users'[i].enabled \/ (id[a] = i /\ Disables(a))
  <2>1. CASE i = id[a]
    <3>1. CASE users[i] # None
      <4>1. users'[i].enabled = Or(want[a].enabled, was[a].enabled) /\ was[a].enabled
        BY <1>1, <1>2, <2>1, <3>1, UpdateUserWrites
      <4>2. CASE want[a].enabled = None
        BY <4>1, <4>2 DEF Or
      <4>3. CASE want[a].enabled = TRUE
        BY <4>1, <4>3, NoneAssumption DEF Or
      <4>4. CASE want[a].enabled = FALSE
        BY <2>1, <4>1, <4>4 DEF Disables
      <4> QED BY <1>1, <4>2, <4>3, <4>4 DEF Body
    <3>2. CASE users[i] = None
      BY <2>1, <3>2, UpdateUserWrites
    <3> QED BY <3>1, <3>2
  <2>2. CASE i # id[a]
    BY <1>2, <2>2, UpdateUserWrites
  <2> QED BY <2>1, <2>2
<1>3. \A i \in Ids : \A stages : apc[a] \notin stages /\ apc'[a] \in stages =>
          (Allowed(i, stages) => Allowed(i, stages)')
  <2>1. Disables(a)' <=> Disables(a)
    BY <1>1 DEF Disables
  <2> QED BY <1>1, <1>2, <2>1, AllowedOnly
<1>4. \A i \in Ids : /\ Allowed(i, {"updateClear"}) => Allowed(i, {"updateClear"})'
                     /\ Allowed(i, AfterWrite) => Allowed(i, AfterWrite)'
  BY <1>1, <1>3 DEF AfterWrite
<1> QED BY <1>1, <1>4, RequestKeepsGone

LEMMA UpdatePasswordGone ==
    ASSUME Typed, Gone, SingleRequest, NEW a \in Admins, UpdatePassword(a)
    PROVE  Gone'
<1>1. /\ apc[a] = "password" /\ apc'[a] = "passwordClear" /\ id[a] \in Ids
      /\ UNCHANGED <<id, was, want, cache, cpc, user, outrun, spared>>
  BY DEF UpdatePassword, AAt, AGoto, Typed, RequestsOK, Updating, AfterWrite, handler, history
<1>2. ASSUME NEW i \in Ids
      PROVE  /\ users[i] = None => users'[i] = None
             /\ users[i] # None => users'[i].enabled = users[i].enabled
  <2>1. CASE i = id[a]
    BY <2>1, UpdatePasswordWrites
  <2>2. CASE i # id[a]
    BY <2>2, UpdatePasswordWrites
  <2> QED BY <2>1, <2>2
<1>3. Disables(a)' <=> Disables(a)
  BY <1>1 DEF Disables
<1>4. \A i \in Ids : /\ Allowed(i, {"updateClear"}) => Allowed(i, {"updateClear"})'
                     /\ Allowed(i, AfterWrite) => Allowed(i, AfterWrite)'
  BY <1>1, <1>2, <1>3, AllowedOnly DEF AfterWrite
<1> QED BY <1>1, <1>4, RequestKeepsGone

\* The last statement of the request that disables an account disconnects it;
\* who is not closed then is spared.
LEMMA DisconnectDisabledGone ==
    ASSUME Typed, Gone, SingleRequest, NEW a \in Admins, DisconnectDisabled(a)
    PROVE  Gone'
<1> USE DEF AAt, CAt
<1>1. /\ apc[a] = "disconnect" /\ apc'[a] = "idle" /\ UNCHANGED <<users, cache, outrun>>
      /\ HandlersOK /\ RequestsOK
  BY DEF DisconnectDisabled, Finish, AGoto, Typed, RequestsOK, table
<1>3. \A i : /\ Allowed(i, {"updateClear"}) => Allowed(i, {"updateClear"})'
             /\ i # id[a] \/ ~Disables(a) => (Allowed(i, AfterWrite) => Allowed(i, AfterWrite)')
  BY <1>1, AllowedOnly DEF AfterWrite
<1>4. CASE ~Disables(a)
  <2>1. UNCHANGED <<cpc, user, spared>>
    BY <1>4 DEF DisconnectDisabled, handler
  <2>2. \A i \in Ids : /\ Allowed(i, {"updateClear"}) => Allowed(i, {"updateClear"})'
                       /\ Allowed(i, AfterWrite) => Allowed(i, AfterWrite)'
    BY <1>3, <1>4
  <2> QED BY <1>1, <2>1, <2>2, RequestKeepsGone
<1>5. CASE Disables(a)
  <2>1. DisconnectUser(id[a])
    BY <1>5 DEF DisconnectDisabled
  <2>2. /\ \A c \in Conns : cpc'[c] # "closed" =>
              /\ cpc'[c] = cpc[c] /\ user'[c] = user[c]
              /\ cpc[c] = "served" => user[c].id # id[a]
        /\ spared \subseteq spared'
        /\ \A c \in Conns : cpc[c] \in InFlight /\ user[c].id = id[a] => c \in spared'
    BY <1>1, <2>1 DEF DisconnectUser, HandlersOK
  <2>3. \A b \in Admins : apc'[b] # "update"
    BY <1>1 DEF SingleRequest
  <2>4. ASSUME NEW k \in Key, cache'[k] # None, ~cache'[k].outrun
        PROVE  Allowed(cache[k].user.id, {"updateClear"})'
    <3>1. PICK i : i = cache[k].user.id
      OBVIOUS
    <3>2. Allowed(i, {"updateClear"})'
      BY <1>1, <1>3, <2>4, <3>1 DEF Gone
    <3> QED BY <1>1, <3>1, <3>2 DEF Allowed, Disabling
  <2>5. ASSUME NEW c \in Conns, cpc'[c] = "verify", c \notin outrun'
        PROVE  Allowed(user[c].id, {"updateClear"})'
    <3>1. PICK i : i = user[c].id
      OBVIOUS
    <3>2. Allowed(i, {"updateClear"})' /\ user'[c] = user[c]
      BY <1>1, <1>3, <2>2, <2>5, <3>1 DEF Gone
    <3> QED BY <3>1, <3>2 DEF Allowed, Disabling
  <2>6. ASSUME NEW c \in Conns, cpc'[c] \in {"bind", "attach", "served"}, c \notin spared'
        PROVE  Allowed(user[c].id, AfterWrite)'
    <3>1. PICK i : i = user[c].id
      OBVIOUS
    <3>2. i # id[a] /\ user'[c] = user[c] /\ cpc'[c] = cpc[c]
      BY <2>2, <2>6, <3>1 DEF InFlight
    <3>3. Allowed(i, AfterWrite)'
      BY <1>3, <2>2, <2>6, <3>1, <3>2 DEF Gone
    <3> QED BY <3>1, <3>2, <3>3 DEF Allowed, Disabling
  <2> QED BY <2>3, <2>4, <2>5, <2>6 DEF Gone
<1> QED BY <1>4, <1>5

\* A request that fails after the account was disabled spares its connections.
LEMMA StatementFailsGone ==
    ASSUME Typed, Gone, SingleRequest, NEW a \in Admins, StatementFails(a)
    PROVE  Gone'
<1> USE DEF AAt
<1>1. /\ apc[a] \in {"update", "password", "delete"} /\ apc'[a] = "idle"
      /\ UNCHANGED <<users, cache, outrun, cpc, user>>
      /\ HandlersOK /\ RequestsOK
  BY DEF StatementFails, Finish, AGoto, Typed, RequestsOK, table, handler
<1>2. spared \subseteq spared'
  BY DEF StatementFails
<1>3. \A i : /\ Allowed(i, {"updateClear"}) => Allowed(i, {"updateClear"})'
             /\ ~(apc[a] = "password" /\ i = id[a] /\ Disables(a)) =>
                   (Allowed(i, AfterWrite) => Allowed(i, AfterWrite)')
  BY <1>1, AllowedOnly DEF AfterWrite
<1>4. CASE ~(apc[a] = "password" /\ Disables(a))
  <2>1. \A i \in Ids : /\ Allowed(i, {"updateClear"}) => Allowed(i, {"updateClear"})'
                       /\ Allowed(i, AfterWrite) => Allowed(i, AfterWrite)'
    BY <1>3, <1>4
  <2> QED BY <1>1, <1>2, <2>1, RequestKeepsGone
<1>5. CASE apc[a] = "password" /\ Disables(a)
  <2>1. \A c \in Conns : user[c] # None /\ user[c].id = id[a] => c \in spared'
    BY <1>5 DEF StatementFails
  <2>2. \A c \in Conns : cpc[c] \in Working => user[c] # None
    BY <1>1, NoneAssumption DEF HandlersOK, User, AllRoles
  <2>3. \A b \in Admins : apc'[b] # "update"
    BY <1>1 DEF SingleRequest
  <2>4. ASSUME NEW k \in Key, cache'[k] # None, ~cache'[k].outrun
        PROVE  Allowed(cache[k].user.id, {"updateClear"})'
    <3>1. PICK i : i = cache[k].user.id
      OBVIOUS
    <3>2. Allowed(i, {"updateClear"})'
      BY <1>1, <1>3, <2>4, <3>1 DEF Gone
    <3> QED BY <1>1, <3>1, <3>2 DEF Allowed, Disabling
  <2>5. ASSUME NEW c \in Conns, cpc'[c] = "verify", c \notin outrun'
        PROVE  Allowed(user[c].id, {"updateClear"})'
    <3>1. PICK i : i = user[c].id
      OBVIOUS
    <3>2. Allowed(i, {"updateClear"})'
      BY <1>1, <1>3, <2>5, <3>1 DEF Gone
    <3> QED BY <1>1, <3>1, <3>2 DEF Allowed, Disabling
  <2>6. ASSUME NEW c \in Conns, cpc'[c] \in {"bind", "attach", "served"}, c \notin spared'
        PROVE  Allowed(user[c].id, AfterWrite)'
    <3>1. PICK i : i = user[c].id
      OBVIOUS
    <3>2. i # id[a]
      BY <1>1, <2>1, <2>2, <2>6, <3>1 DEF Working
    <3>3. Allowed(i, AfterWrite)'
      BY <1>1, <1>2, <1>3, <2>6, <3>1, <3>2 DEF Gone
    <3> QED BY <1>1, <3>1, <3>3 DEF Allowed, Disabling
  <2> QED BY <2>3, <2>4, <2>5, <2>6 DEF Gone
<1> QED BY <1>4, <1>5

\* The other statements of a request.
LEMMA RequestGone ==
    ASSUME Typed, Gone, SingleRequest, NEW a \in Admins, RequestStep(a)
    PROVE  Gone'
<1> USE DEF AAt
<1>0. RequestsOK /\ TableOK
  BY DEF Typed
<1>1. CASE UpdateClear(a) \/ PasswordClear(a)
  <2>1. /\ apc[a] \in AfterWrite /\ apc'[a] \in AfterWrite /\ apc'[a] # "update"
        /\ UNCHANGED <<users, id, was, want>> /\ ClearCache /\ UNCHANGED <<handler, spared>>
    BY <1>0, <1>1 DEF UpdateClear, PasswordClear, AGoto, RequestsOK, AfterWrite, table
  <2>2. Disables(a)' <=> Disables(a)
    BY <2>1 DEF Disables
  <2>3. \A i \in Ids : Allowed(i, AfterWrite) => Allowed(i, AfterWrite)'
    BY <2>1, <2>2, AllowedOnly
  <2> QED BY <2>1, <2>3, ClearKeepsGone
<1>2. CASE DeleteClear(a)
  <2>1. /\ apc[a] = "deleteClear" /\ apc'[a] = "idle"
        /\ UNCHANGED users /\ ClearCache /\ UNCHANGED <<handler, spared>>
    BY <1>0, <1>2 DEF DeleteClear, Finish, AGoto, RequestsOK, table
  <2>2. \A i \in Ids : Allowed(i, AfterWrite) => Allowed(i, AfterWrite)'
    BY <2>1, AllowedOnly DEF AfterWrite
  <2> QED BY <2>1, <2>2, ClearKeepsGone
<1>3. CASE DeleteUser(a)
  <2>1. /\ apc[a] = "delete" /\ apc'[a] = "deleteClear" /\ id[a] \in Ids
        /\ users' = [users EXCEPT ![id[a]] = None]
        /\ UNCHANGED <<cache, cpc, user, outrun, spared>>
    BY <1>0, <1>3 DEF DeleteUser, AGoto, RequestsOK, handler, history
  <2>2. \A i \in Ids : users'[i] = None \/ users'[i] = users[i]
    BY <1>0, <2>1 DEF TableOK
  <2>3. \A i \in Ids : /\ Allowed(i, {"updateClear"}) => Allowed(i, {"updateClear"})'
                       /\ Allowed(i, AfterWrite) => Allowed(i, AfterWrite)'
    BY <2>1, <2>2, AllowedOnly DEF AfterWrite
  <2> QED BY <2>1, <2>3, RequestKeepsGone
<1> QED
  BY <1>1, <1>2, <1>3, UpdateUserGone, UpdatePasswordGone, DisconnectDisabledGone,
     StatementFailsGone DEF RequestStep

LEMMA NextGone ==
    ASSUME Typed, Gone, SingleRequest, [Next]_vars
    PROVE  Gone'
<1> USE DEF AAt
<1>0. RequestsOK /\ TableOK /\ HandlersOK
  BY DEF Typed
<1>1. CASE UNCHANGED vars
  BY <1>1 DEF vars, table, handler, request, history, Gone, Allowed, Disabling, Disables
<1>2. ASSUME NEW k \in Key, Expire(k) PROVE Gone'
  <2>1. /\ UNCHANGED <<users, cpc, user, outrun, spared, apc, id, was, want>>
        /\ \A l \in Key : cache'[l] = None \/ cache'[l] = cache[l]
    BY <1>0, <1>2 DEF Expire, HandlersOK, table, handler, request, history
  <2> QED BY <2>1 DEF Gone, Allowed, Disabling, Disables
<1>3. ASSUME NEW a \in Admins, NEW n \in Names, NEW p \in Passwords, NEW r \in Roles,
             CreateUser(a, n, p, r)
      PROVE  Gone'
  <2>1. /\ apc[a] = "idle" /\ nextId \in Ids
        /\ UNCHANGED <<cache, cpc, user, outrun, spared, apc>>
        /\ \A i \in Ids : users'[i] = users[i] \/ users'[i].enabled
    BY <1>0, <1>3 DEF CreateUser, TableOK, handler, request, history
  <2>2. \A i \in Ids : /\ Allowed(i, {"updateClear"}) => Allowed(i, {"updateClear"})'
                       /\ Allowed(i, AfterWrite) => Allowed(i, AfterWrite)'
    BY <2>1, AllowedOnly DEF AfterWrite
  <2> QED BY <2>1, <2>2, RequestKeepsGone
<1>4. ASSUME NEW a \in Admins, NEW i \in Ids, AddBinding(a, i) \/ RemoveBinding(a, i)
      PROVE  Gone'
  BY <1>4 DEF AddBinding, RemoveBinding, handler, request, history, Gone, Allowed, Disabling,
              Disables
<1>5. ASSUME NEW a \in Admins, NEW i \in Ids, DisconnectDeleted(a, i) PROVE Gone'
  <2>1. /\ apc[a] = "idle" /\ apc'[a] = "delete" /\ UNCHANGED <<users, cache, outrun>>
        /\ spared \subseteq spared'
        /\ \A c \in Conns : cpc'[c] # "closed" => cpc'[c] = cpc[c] /\ user'[c] = user[c]
    BY <1>0, <1>5 DEF DisconnectDeleted, AGoto, RequestsOK, table, DisconnectUser, HandlersOK
  <2>2. \A j \in Ids : /\ Allowed(j, {"updateClear"}) => Allowed(j, {"updateClear"})'
                       /\ Allowed(j, AfterWrite) => Allowed(j, AfterWrite)'
    BY <2>1, AllowedOnly DEF AfterWrite
  <2> QED BY <2>1, <2>2, RequestKeepsGone
<1>6. ASSUME NEW a \in Admins, NEW i \in Ids, NEW w \in Body, GetUser(a, i, w) PROVE Gone'
  <2>1. /\ apc[a] = "idle" /\ apc'[a] = "update" /\ id'[a] = i /\ was'[a] = users[i]
        /\ UNCHANGED <<users, cache, cpc, user, outrun, spared>>
    BY <1>0, <1>6 DEF GetUser, AGoto, RequestsOK, table, handler, history
  <2>2. \A j \in Ids : /\ Allowed(j, {"updateClear"}) => Allowed(j, {"updateClear"})'
                       /\ Allowed(j, AfterWrite) => Allowed(j, AfterWrite)'
    BY <2>1, AllowedOnly DEF AfterWrite
  <2> QED BY <2>1, <2>2, RequestKeepsGone
<1> QED BY <1>1, <1>2, <1>3, <1>4, <1>5, <1>6, HandlerGone, RequestGone DEF Next

\* With one request at a time, a connection of a disabled account is left only
\* if it was past its query when the account was disconnected, came in by an
\* entry that a purge had overtaken, or was spared by a request that failed.
THEOREM DisabledUserGoneHolds ==
    ASSUME \A a, b \in Admins : a = b
    PROVE  Spec => []DisabledUserGone
<1>1. SingleRequest
  BY DEF SingleRequest
<1>2. Init => Gone
  BY DEF Init, Gone
<1>3. Typed /\ Gone /\ [Next]_vars => Typed' /\ Gone'
  BY <1>1, NextTyped, NextGone
<1>4. Typed /\ Gone => DisabledUserGone
  <2> SUFFICES ASSUME Typed, Gone, Quiet, NEW c \in Conns, CAt(c, "served"),
                      users[user[c].id] # None, c \notin spared
               PROVE  users[user[c].id].enabled
    BY DEF DisabledUserGone
  <2>1. Allowed(user[c].id, AfterWrite)
    BY DEF Gone, CAt
  <2> QED BY <2>1 DEF Allowed, Disabling, Quiet, AAt, AfterWrite
<1> QED BY <1>2, <1>3, <1>4, InitTyped, PTL DEF Spec

=============================================================================
