------------------------------ MODULE Accounts ------------------------------
(***************************************************************************)
(* Accounts: the users and bindings tables, the cache Authenticate keeps of *)
(* verified credentials, the handlers of rover connections that ask it, and *)
(* the admin requests that change users and disconnect them.               *)
(*                                                                         *)
(* A statement of the database is one step, and so is a critical section   *)
(* of authCacheMu; bcrypt runs between them.  Time is not counted: a cached *)
(* entry may reach the end of its five minutes at any moment.              *)
(***************************************************************************)
EXTENDS Integers, FiniteSets

CONSTANTS
    Ids,            \* user ids, handed out in increasing order
    Names,          \* usernames
    Passwords,
    Roles,          \* roles a request may assign
    Conns,          \* rover connections
    Admins,         \* concurrent API requests
    Faults,         \* whether a statement may fail
    None

ASSUME IdAssumption == Ids \subseteq Nat \ {0} /\ 1 \in Ids
ASSUME RoleAssumption == Roles \subseteq {"admin", "base", "rover"}
ASSUME FlagAssumption == Faults \in BOOLEAN
ASSUME NoneAssumption ==
    /\ None \notin Ids /\ None \notin Names /\ None \notin Passwords
    /\ None \notin Roles /\ None \notin BOOLEAN
    /\ None \notin [id : Ids, role : {"admin", "base", "rover"}]

VARIABLES
    users,          \* table users, None where there is no row
    nextId,         \* sqlite_sequence
    bound,          \* ids with a binding to the mountpoint
    cache,          \* Service.authCache, without its expired entries
    cpc,            \* where the handler of a connection is
    cred,           \* the credentials Authenticate is working on
    user,           \* the *User it works with
    apc,            \* where the request is
    id,             \* the user it is about
    was,            \* the row it read
    want,           \* the fields of its body; None means absent
    outrun,         \* history: a purge ran since the connection's query
    spared          \* history: handlers in flight when their user was
                    \* disconnected, served from an outrun entry, or whose
                    \* user was disabled by a request that failed

table   == <<users, nextId, bound>>
handler == <<cpc, cred, user>>
request == <<apc, id, was, want>>
history == <<outrun, spared>>

vars == <<table, cache, handler, request, history>>

-----------------------------------------------------------------------------

\* The key is username + ":" + password.  Basic authentication splits at the
\* first colon, so that no two credentials of a rover have the same key.
Key == Names \X Passwords

Body == [enabled : BOOLEAN \cup {None}, role : Roles \cup {None},
         pw : Passwords \cup {None}]
NoBody == [enabled |-> None, role |-> None, pw |-> None]

Or(x, default) == IF x = None THEN default ELSE x

\* The row of a username, None when there is none.
GetUserByName(n) ==
    IF \E i \in Ids : users[i] # None /\ users[i].name = n
    THEN CHOOSE i \in Ids : users[i] # None /\ users[i].name = n
    ELSE None

\* What Authenticate returns of row i.
UserOf(i) == [id |-> i, role |-> users[i].role]

\* Between the query and the end of the handler.
InFlight == {"verify", "bind", "attach"}

Init ==
    /\ \E n \in Names, p \in Passwords :
          users = [i \in Ids |-> IF i = 1 THEN [name |-> n, pw |-> p,
                                                role |-> "rover",
                                                enabled |-> TRUE] ELSE None]
    /\ nextId = 2
    /\ bound = {1}
    /\ cache = [k \in Key |-> None]
    /\ cpc = [c \in Conns |-> "idle"]
    /\ cred = [c \in Conns |-> None]
    /\ user = [c \in Conns |-> None]
    /\ apc = [a \in Admins |-> "idle"]
    /\ id = [a \in Admins |-> None]
    /\ was = [a \in Admins |-> None]
    /\ want = [a \in Admins |-> NoBody]
    /\ outrun = {}
    /\ spared = {}

CAt(c, p) == cpc[c] = p
CGoto(c, p) == cpc' = [cpc EXCEPT ![c] = p]
AAt(a, p) == apc[a] = p
AGoto(a, p) == apc' = [apc EXCEPT ![a] = p]

\* 401 or 403, and the connection is closed.
Refuse(c) ==
    /\ CGoto(c, "closed")
    /\ user' = [user EXCEPT ![c] = None]
    /\ cred' = [cred EXCEPT ![c] = None]

-----------------------------------------------------------------------------
(* handleRover up to the mountpoint.                                       *)

\* Authenticate looks the credentials up; the role is judged on a hit.
CacheHit(c, k) ==
    /\ CAt(c, "idle")
    /\ cache[k] # None
    /\ user' = [user EXCEPT ![c] = cache[k].user]
    /\ spared' = IF cache[k].outrun THEN spared \cup {c} ELSE spared
    /\ CGoto(c, "bind")
    /\ UNCHANGED <<table, cache, cred, request, outrun>>

CacheMiss(c, k) ==
    /\ CAt(c, "idle")
    /\ cache[k] = None
    /\ cred' = [cred EXCEPT ![c] = k]
    /\ CGoto(c, "query")
    /\ UNCHANGED <<table, cache, user, request, history>>

\* GetUserByName, enabled, and the comparison of what was read.  A query that
\* fails refuses the connection too.
Query(c) ==
    /\ CAt(c, "query")
    /\ LET i == GetUserByName(cred[c][1])
           ok == i # None /\ users[i].enabled /\ users[i].pw = cred[c][2]
       IN  \/ /\ ok
              /\ user' = [user EXCEPT ![c] = UserOf(i)]
              /\ CGoto(c, "verify")
              /\ UNCHANGED cred
           \/ (~ok \/ Faults) /\ Refuse(c)
    /\ UNCHANGED <<table, cache, request, history>>

\* After bcrypt, the result is cached.
Store(c) ==
    /\ CAt(c, "verify")
    /\ cache' = [cache EXCEPT ![cred[c]] =
                    [user |-> user[c], outrun |-> c \in outrun]]
    /\ cred' = [cred EXCEPT ![c] = None]
    /\ spared' = IF c \in outrun THEN spared \cup {c} ELSE spared
    /\ outrun' = outrun \ {c}
    /\ CGoto(c, "bind")
    /\ UNCHANGED <<table, user, request>>

\* Whether authenticateBasic lets a user with this role be a rover.
authenticateBasic(u) == u.role \in {"admin", "rover"}

\* The role, then HasBinding, which is not asked for administrators.
HasBinding(c) ==
    /\ CAt(c, "bind")
    /\ LET asked == user[c].role # "admin"
           ok == authenticateBasic(user[c]) /\ (asked => user[c].id \in bound)
       IN  \/ ok /\ CGoto(c, "attach") /\ UNCHANGED <<cred, user>>
           \/ (~ok \/ (asked /\ Faults)) /\ Refuse(c)
    /\ UNCHANGED <<table, cache, request, history>>

\* AddClient registers the connection under the user's id.
Attach(c) ==
    /\ CAt(c, "attach")
    /\ CGoto(c, "served")
    /\ UNCHANGED <<table, cache, cred, user, request, history>>

\* The entry's five minutes are over.
Expire(k) ==
    /\ cache[k] # None
    /\ cache' = [cache EXCEPT ![k] = None]
    /\ UNCHANGED <<table, handler, request, history>>

-----------------------------------------------------------------------------
(* Pieces of the admin requests.                                           *)

Finish(a) ==
    /\ AGoto(a, "idle")
    /\ id' = [id EXCEPT ![a] = None]
    /\ was' = [was EXCEPT ![a] = None]
    /\ want' = [want EXCEPT ![a] = NoBody]

\* The cache is replaced by an empty one.
ClearCache ==
    /\ cache' = [k \in Key |-> None]
    /\ outrun' = outrun \cup {c \in Conns : CAt(c, "verify")}

\* Manager.DisconnectUser(i): every registered connection of the user.
DisconnectUser(i) ==
    /\ LET kicked == {c \in Conns : CAt(c, "served") /\ user[c].id = i}
       IN  /\ cpc' = [c \in Conns |->
                         IF c \in kicked THEN "closed" ELSE cpc[c]]
           /\ user' = [c \in Conns |-> IF c \in kicked THEN None ELSE user[c]]
    /\ spared' = spared \cup {c \in Conns : cpc[c] \in InFlight
                                        /\ user[c].id = i}
    /\ UNCHANGED cred

\* UPDATE ... WHERE id = ?
SetField(i, f(_)) ==
    users' = IF users[i] = None THEN users ELSE [users EXCEPT ![i] = f(@)]

-----------------------------------------------------------------------------
(* POST /api/users and the bindings.                                       *)

CreateUser(a, n, p, r) ==
    /\ AAt(a, "idle")
    /\ nextId \in Ids
    /\ GetUserByName(n) = None
    /\ users' = [users EXCEPT ![nextId] = [name |-> n, pw |-> p, role |-> r,
                                           enabled |-> TRUE]]
    /\ nextId' = nextId + 1
    /\ UNCHANGED <<bound, cache, handler, request, history>>

\* Whether the user exists is asked by a foreign key only, which not every
\* connection of the pool enforces.
AddBinding(a, i) ==
    /\ AAt(a, "idle")
    /\ i \notin bound
    /\ bound' = bound \cup {i}
    /\ UNCHANGED <<users, nextId, cache, handler, request, history>>

RemoveBinding(a, i) ==
    /\ AAt(a, "idle")
    /\ i \in bound
    /\ bound' = bound \ {i}
    /\ UNCHANGED <<users, nextId, cache, handler, request, history>>

-----------------------------------------------------------------------------
(* PUT /api/users/{id}                                                     *)

\* GetUser; 404 without a row.
GetUser(a, i, w) ==
    /\ AAt(a, "idle")
    /\ users[i] # None
    /\ AGoto(a, "update")
    /\ id' = [id EXCEPT ![a] = i]
    /\ was' = [was EXCEPT ![a] = users[i]]
    /\ want' = [want EXCEPT ![a] = w]
    /\ UNCHANGED <<table, cache, handler, history>>

\* UpdateUser writes both fields, the old value of an absent one ...
UpdateUser(a) ==
    /\ AAt(a, "update")
    /\ SetField(id[a], LAMBDA u :
          [u EXCEPT !.role = Or(want[a].role, was[a].role),
                    !.enabled = Or(want[a].enabled, was[a].enabled)])
    /\ AGoto(a, "updateClear")
    /\ UNCHANGED <<nextId, bound, cache, handler, id, was, want, history>>

\* ... then clears the cache.
UpdateClear(a) ==
    /\ AAt(a, "updateClear")
    /\ ClearCache
    /\ AGoto(a, IF want[a].pw # None THEN "password" ELSE "disconnect")
    /\ UNCHANGED <<table, handler, id, was, want, spared>>

\* Mutant: the new password does not clear the cache.
UpdatePasswordOnly(a) ==
    /\ AAt(a, "password")
    /\ SetField(id[a], LAMBDA u : [u EXCEPT !.pw = want[a].pw])
    /\ AGoto(a, "disconnect")
    /\ UNCHANGED <<nextId, bound, cache, handler, id, was, want, history>>

UpdatePassword(a) ==
    /\ AAt(a, "password")
    /\ SetField(id[a], LAMBDA u : [u EXCEPT !.pw = want[a].pw])
    /\ AGoto(a, "passwordClear")
    /\ UNCHANGED <<nextId, bound, cache, handler, id, was, want, history>>

PasswordClear(a) ==
    /\ AAt(a, "passwordClear")
    /\ ClearCache
    /\ AGoto(a, "disconnect")
    /\ UNCHANGED <<table, handler, id, was, want, spared>>

\* The request takes the account's permission away.
Disables(a) == was[a].enabled /\ want[a].enabled = FALSE

\* Mutant: connections stay as they are.
KeepConnections(a) ==
    /\ AAt(a, "disconnect")
    /\ Finish(a)
    /\ UNCHANGED <<table, cache, handler, history>>

\* A user that was enabled and is not any more is disconnected.
DisconnectDisabled(a) ==
    /\ AAt(a, "disconnect")
    /\ IF Disables(a) THEN DisconnectUser(id[a])
                      ELSE UNCHANGED <<handler, spared>>
    /\ Finish(a)
    /\ UNCHANGED <<table, cache, outrun>>

-----------------------------------------------------------------------------
(* DELETE /api/users/{id}                                                  *)

\* DisconnectUser comes first; nothing asks whether the user exists.
DisconnectDeleted(a, i) ==
    /\ AAt(a, "idle")
    /\ DisconnectUser(i)
    /\ AGoto(a, "delete")
    /\ id' = [id EXCEPT ![a] = i]
    /\ UNCHANGED <<table, cache, was, want, outrun>>

\* PRAGMA foreign_keys holds for one connection of the pool: the bindings
\* are deleted with the user, or stay.
DeleteUser(a) ==
    /\ AAt(a, "delete")
    /\ users' = [users EXCEPT ![id[a]] = None]
    /\ bound' \in {bound, bound \ {id[a]}}
    /\ AGoto(a, "deleteClear")
    /\ UNCHANGED <<nextId, cache, handler, id, was, want, history>>

DeleteClear(a) ==
    /\ AAt(a, "deleteClear")
    /\ ClearCache
    /\ Finish(a)
    /\ UNCHANGED <<table, handler, spared>>

\* A statement fails: 500, and what was done stays done.  When the password
\* cannot be changed, the account may be disabled already, and its connections
\* are spared.
StatementFails(a) ==
    /\ Faults
    /\ apc[a] \in {"update", "password", "delete"}
    /\ spared' = IF AAt(a, "password") /\ Disables(a)
                 THEN spared \cup {c \in Conns : user[c] # None
                                                /\ user[c].id = id[a]}
                 ELSE spared
    /\ Finish(a)
    /\ UNCHANGED <<table, cache, handler, outrun>>

-----------------------------------------------------------------------------

HandlerStep(c) ==
    \/ Query(c) \/ Store(c) \/ HasBinding(c) \/ Attach(c)
    \/ \E k \in Key : CacheHit(c, k) \/ CacheMiss(c, k)

RequestStep(a) ==
    \/ UpdateUser(a) \/ UpdateClear(a) \/ UpdatePassword(a)
    \/ PasswordClear(a) \/ DisconnectDisabled(a)
    \/ DeleteUser(a) \/ DeleteClear(a) \/ StatementFails(a)

Next ==
    \/ \E c \in Conns : HandlerStep(c)
    \/ \E k \in Key : Expire(k)
    \/ \E a \in Admins :
          \/ RequestStep(a)
          \/ \E n \in Names, p \in Passwords, r \in Roles :
                CreateUser(a, n, p, r)
          \/ \E i \in Ids : \/ AddBinding(a, i) \/ RemoveBinding(a, i)
                            \/ DisconnectDeleted(a, i)
                            \/ \E w \in Body : GetUser(a, i, w)

Spec == Init /\ [][Next]_vars

-----------------------------------------------------------------------------

\* A request changed the table and has not cleared the cache yet.
Clearing == \E a \in Admins : apc[a] \in {"updateClear", "passwordClear",
                                          "deleteClear"}

\* Row i is an enabled account with the credentials k and the rights of u.
Vouches(i, k, u) ==
    /\ users[i] # None
    /\ users[i].enabled
    /\ <<users[i].name, users[i].pw>> = k
    /\ UserOf(i) = u

\* What the cache says, the table says: an entry may only be out of date while
\* a change is on its way to clear the cache, or when it was stored by an
\* Authenticate that the clearing overtook.
CacheCoherent ==
    ~Clearing => \A k \in Key :
        cache[k] # None /\ ~cache[k].outrun =>
            Vouches(cache[k].user.id, k, cache[k].user)

\* No request is under way.
Quiet == \A a \in Admins : AAt(a, "idle")

\* Disabling an account ends its connections: one that is left was past its
\* query when the account was disconnected, came in by an entry that outlived
\* the clearing of the cache, or was spared by a request that failed halfway.
\* With one request at a time; of two concurrent ones that read the same row,
\* the second may write the old value of enabled back.
DisabledUserGone ==
    Quiet => \A c \in Conns :
        CAt(c, "served") /\ users[user[c].id] # None =>
            users[user[c].id].enabled \/ c \in spared
=============================================================================
