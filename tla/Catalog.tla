------------------------------ MODULE Catalog ------------------------------
(***************************************************************************)
(* The mountpoint catalog, kept twice: as rows of the SQLite table and as   *)
(* the in-memory mounts of Manager.  The admin API changes the row first    *)
(* and the manager last (Delete the other way round), one statement at a    *)
(* time and without a transaction; syncMountpoints rebuilds the manager     *)
(* from the rows when the process starts.                                  *)
(*                                                                         *)
(* Of a mountpoint, enabled and max_clients are kept.  The hash of the      *)
(* source secret has no copy in memory: the statement that writes it is one *)
(* more place where a request can fail or the process can die.              *)
(***************************************************************************)
EXTENDS Integers, FiniteSets

CONSTANTS
    Names,          \* mountpoint names
    Ids,            \* row ids, handed out in increasing order
    Admins,         \* concurrent API requests
    Limits,         \* values of max_clients a request may carry
    Secrets,        \* what a request does to the secret: TRUE sets, FALSE clears
    Faults,         \* whether a statement may fail (SQLITE_BUSY, disk full)
    None

ASSUME IdAssumption == Ids \subseteq Nat \ {0} /\ IsFiniteSet(Ids)
ASSUME LimitAssumption == Limits \subseteq Nat
ASSUME FlagAssumption == Faults \in BOOLEAN /\ Secrets \subseteq BOOLEAN
ASSUME NoneAssumption ==
    /\ None \notin Names /\ None \notin Nat /\ None \notin BOOLEAN
    /\ None \notin [name : Names, enabled : BOOLEAN, max : Nat]
    /\ None \notin [enabled : BOOLEAN, max : Nat]

VARIABLES
    rows,           \* table mountpoints, None where there is no row
    nextId,         \* sqlite_sequence
    mounts,         \* Manager.mounts, None where the name is not a key
    pc,             \* where the request is
    op,             \* create, update or delete
    id, row,        \* the row the request is about, as it read it
    want,           \* the fields of the request body; None means absent
    clean,          \* history: since the process started no statement failed
                    \* and no two requests overlapped
    dormant         \* history: rows that were disabled when it started

vars == <<rows, nextId, mounts, pc, op, id, row, want, clean, dormant>>

table   == <<rows, nextId>>
request == <<op, id, row, want>>
history == <<clean, dormant>>

-----------------------------------------------------------------------------

Body == [enabled : BOOLEAN \cup {None}, max : Limits \cup {None},
         secret : Secrets \cup {None}]
NoBody == [enabled |-> None, max |-> None, secret |-> None]

PC == {"idle", "updateRow", "setSecret", "setMax", "manager", "deleteRow"}

Row(n) == [name |-> n, enabled |-> TRUE, max |-> 0]

Mount(en, max) == [enabled |-> en, max |-> max]

\* An optional value and the default that replaces it.
Or(x, default) == IF x = None THEN default ELSE x

RowsOf(n) == {i \in Ids : rows[i] # None /\ rows[i].name = n}

\* What the manager holds after syncMountpoints: the enabled rows.
syncMountpoints ==
    [n \in Names |->
        IF \E i \in RowsOf(n) : rows[i].enabled
        THEN LET r == rows[CHOOSE i \in RowsOf(n) : TRUE]
             IN  Mount(TRUE, r.max)
        ELSE None]

\* The process starts on an empty table, or on one enabled row.
Init ==
    /\ \/ rows = [i \in Ids |-> None] /\ nextId = 1
       \/ /\ \E n \in Names :
                rows = [i \in Ids |-> IF i = 1 THEN Row(n) ELSE None]
          /\ nextId = 2
    /\ mounts = syncMountpoints
    /\ pc = [a \in Admins |-> "idle"]
    /\ op = [a \in Admins |-> None]
    /\ id = [a \in Admins |-> None]
    /\ row = [a \in Admins |-> None]
    /\ want = [a \in Admins |-> NoBody]
    /\ clean = TRUE
    /\ dormant = {}

At(a, p, o) == pc[a] = p /\ op[a] = o
Goto(a, p) == pc' = [pc EXCEPT ![a] = p]

\* No request is under way.
Quiet == \A a \in Admins : pc[a] = "idle"

\* The request is answered.
Finish(a) ==
    /\ Goto(a, "idle")
    /\ op' = [op EXCEPT ![a] = None]
    /\ id' = [id EXCEPT ![a] = None]
    /\ row' = [row EXCEPT ![a] = None]
    /\ want' = [want EXCEPT ![a] = NoBody]

Begin(a, o, i, r, w, p) ==
    /\ Goto(a, p)
    /\ op' = [op EXCEPT ![a] = o]
    /\ id' = [id EXCEPT ![a] = i]
    /\ row' = [row EXCEPT ![a] = r]
    /\ want' = [want EXCEPT ![a] = w]
    /\ clean' = (clean /\ Quiet)
    /\ UNCHANGED dormant

\* UPDATE ... WHERE id = ?; it is no error when the row is gone.
SetField(i, f(_)) ==
    rows' = IF rows[i] = None THEN rows ELSE [rows EXCEPT ![i] = f(@)]

\* Whether the request runs the optional statements: a create skips an empty
\* secret and a limit of 0, an update only fields that are absent.
HasSecret(a) == IF op[a] = "create" THEN want[a].secret = TRUE
                                    ELSE want[a].secret # None
HasMax(a) == IF op[a] = "create" THEN Or(want[a].max, 0) > 0
                                 ELSE want[a].max # None

-----------------------------------------------------------------------------
(* POST /api/mountpoints                                                   *)

\* CreateMountPointRow; a name that is taken is answered 409.
CreateMountPointRow(a, n, w) ==
    /\ pc[a] = "idle"
    /\ w.enabled = None
    /\ nextId \in Ids
    /\ RowsOf(n) = {}
    /\ rows' = [rows EXCEPT ![nextId] = Row(n)]
    /\ nextId' = nextId + 1
    /\ Begin(a, "create", nextId, Row(n), w, "setSecret")
    /\ UNCHANGED mounts

\* SetMountPointSourceSecret, when the body has a secret.
CreateSecret(a) ==
    /\ At(a, "setSecret", "create")
    /\ Goto(a, "setMax")
    /\ UNCHANGED <<table, mounts, request, history>>

\* SetMountPointMaxClients, when max_clients > 0.
CreateMax(a) ==
    /\ At(a, "setMax", "create")
    /\ IF HasMax(a)
       THEN SetField(id[a], LAMBDA r : [r EXCEPT !.max = want[a].max])
       ELSE UNCHANGED rows
    /\ Goto(a, "manager")
    /\ UNCHANGED <<nextId, mounts, request, history>>

\* Mutant: the manager is not told of the new row.
CreateRowOnly(a) ==
    /\ At(a, "manager", "create")
    /\ Finish(a)
    /\ UNCHANGED <<table, mounts, history>>

\* Manager.Create; that the name exists is ignored.
Create(a) ==
    /\ At(a, "manager", "create")
    /\ LET n == row[a].name IN
          mounts' = IF mounts[n] = None
                    THEN [mounts EXCEPT ![n] = Mount(TRUE, Or(want[a].max, 0))]
                    ELSE mounts
    /\ Finish(a)
    /\ UNCHANGED <<table, history>>

-----------------------------------------------------------------------------
(* PUT /api/mountpoints/{id}                                               *)

\* GetMountPointRowByID; 404 without a row.
GetMountPointRowByID(a, i, w) ==
    /\ pc[a] = "idle"
    /\ rows[i] # None
    /\ Begin(a, "update", i, rows[i], w, "updateRow")
    /\ UNCHANGED <<table, mounts>>

\* Mutant: the row is inserted again when it is gone.
UpsertMountPointRow(a) ==
    /\ At(a, "updateRow", "update")
    /\ rows' = [rows EXCEPT ![id[a]] =
          [row[a] EXCEPT !.enabled = Or(want[a].enabled, row[a].enabled)]]
    /\ Goto(a, "setMax")
    /\ UNCHANGED <<nextId, mounts, request, history>>

\* UpdateMountPointRow writes enabled, the old value when it is not given.
UpdateMountPointRow(a) ==
    /\ At(a, "updateRow", "update")
    /\ SetField(id[a], LAMBDA r :
          [r EXCEPT !.enabled = Or(want[a].enabled, row[a].enabled)])
    /\ Goto(a, "setMax")
    /\ UNCHANGED <<nextId, mounts, request, history>>

SetMountPointMaxClients(a) ==
    /\ At(a, "setMax", "update")
    /\ IF HasMax(a)
       THEN SetField(id[a], LAMBDA r : [r EXCEPT !.max = want[a].max])
       ELSE UNCHANGED rows
    /\ Goto(a, "setSecret")
    /\ UNCHANGED <<nextId, mounts, request, history>>

SetMountPointSourceSecret(a) ==
    /\ At(a, "setSecret", "update")
    /\ Goto(a, "manager")
    /\ UNCHANGED <<table, mounts, request, history>>

\* Mutant: an absent max_clients reaches the manager as 0.
UpdateZeroMax(a) ==
    /\ At(a, "manager", "update")
    /\ LET n == row[a].name IN
          mounts' = IF mounts[n] = None THEN mounts
                    ELSE [mounts EXCEPT ![n] =
                             Mount(Or(want[a].enabled, row[a].enabled),
                                   Or(want[a].max, 0))]
    /\ Finish(a)
    /\ UNCHANGED <<table, history>>

\* Manager.UpdateMountPoint; that it has no such mountpoint is ignored.
UpdateMountPoint(a) ==
    /\ At(a, "manager", "update")
    /\ LET n == row[a].name IN
          mounts' = IF mounts[n] = None THEN mounts
                    ELSE [mounts EXCEPT ![n] =
                             Mount(Or(want[a].enabled, row[a].enabled),
                                   Or(want[a].max, row[a].max))]
    /\ Finish(a)
    /\ UNCHANGED <<table, history>>

-----------------------------------------------------------------------------
(* DELETE /api/mountpoints/{id}                                            *)

FindDeleted(a, i) ==
    /\ pc[a] = "idle"
    /\ rows[i] # None
    /\ Begin(a, "delete", i, rows[i], NoBody, "manager")
    /\ UNCHANGED <<table, mounts>>

\* Manager.Delete; that it has no such mountpoint is ignored.
Delete(a) ==
    /\ At(a, "manager", "delete")
    /\ mounts' = [mounts EXCEPT ![row[a].name] = None]
    /\ Goto(a, "deleteRow")
    /\ UNCHANGED <<table, request, history>>

DeleteMountPointRow(a) ==
    /\ At(a, "deleteRow", "delete")
    /\ rows' = [rows EXCEPT ![id[a]] = None]
    /\ Finish(a)
    /\ UNCHANGED <<nextId, mounts, history>>

-----------------------------------------------------------------------------

\* A statement fails and the request is answered 500, what was done before it
\* stays done.
StatementFails(a) ==
    /\ Faults
    /\ \/ pc[a] \in {"updateRow", "deleteRow"}
       \/ pc[a] = "setSecret" /\ HasSecret(a)
       \/ pc[a] = "setMax" /\ HasMax(a)
    /\ clean' = FALSE
    /\ Finish(a)
    /\ UNCHANGED <<table, mounts, dormant>>

\* The process stops at any point and starts again.
Restart ==
    /\ mounts' = syncMountpoints
    /\ pc' = [a \in Admins |-> "idle"]
    /\ op' = [a \in Admins |-> None]
    /\ id' = [a \in Admins |-> None]
    /\ row' = [a \in Admins |-> None]
    /\ want' = [a \in Admins |-> NoBody]
    /\ clean' = TRUE
    /\ dormant' = {i \in Ids : rows[i] # None /\ ~rows[i].enabled}
    /\ UNCHANGED table

Step(a) ==
    \/ CreateSecret(a) \/ CreateMax(a) \/ Create(a)
    \/ UpdateMountPointRow(a) \/ SetMountPointMaxClients(a)
    \/ SetMountPointSourceSecret(a) \/ UpdateMountPoint(a)
    \/ Delete(a) \/ DeleteMountPointRow(a) \/ StatementFails(a)

Next ==
    \/ \E a \in Admins :
          \/ Step(a)
          \/ \E n \in Names, w \in Body : CreateMountPointRow(a, n, w)
          \/ \E i \in Ids, w \in Body : GetMountPointRowByID(a, i, w)
          \/ \E i \in Ids : FindDeleted(a, i)
    \/ Restart

Spec == Init /\ [][Next]_vars

-----------------------------------------------------------------------------

\* Rows, mounts and the state of the requests have their types.
TypeOK ==
    /\ \A i \in Ids : rows[i] # None =>
          rows[i] \in [name : Names, enabled : BOOLEAN, max : Limits \cup {0}]
    /\ nextId \in Nat
    /\ \A n \in Names : mounts[n] # None =>
          mounts[n] \in [enabled : BOOLEAN, max : Limits \cup {0}]
    /\ pc \in [Admins -> PC]
    /\ want \in [Admins -> Body]

\* Whatever the manager serves, a row says the same of it: enabled or not, and
\* how many clients.  So it is after any sequence of requests, crashes in the
\* middle of them included, and after a restart whatever happened before.  Of
\* requests that overlap, or have a statement fail, nothing is said until then.
ServedAsRecorded ==
    clean /\ Quiet => \A n \in Names : mounts[n] # None =>
        \E i \in RowsOf(n) : /\ rows[i].enabled = mounts[n].enabled
                             /\ rows[i].max = mounts[n].max

\* And every enabled row is served, unless the process found it disabled when
\* it started (syncMountpoints skips it, UpdateMountPoint does not find it).
AwakeRowServed ==
    clean /\ Quiet => \A i \in Ids \ dormant :
        rows[i] # None /\ rows[i].enabled =>
            mounts[rows[i].name] # None /\ mounts[rows[i].name].enabled

\* A deleted row stays deleted: an update that read it before, and writes it
\* after, brings nothing back, and its id is not given to another row.
DeletedForGood ==
    [][\A i \in Ids : i < nextId /\ rows[i] = None => rows'[i] = None]_vars
=============================================================================
