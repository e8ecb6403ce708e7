---------------------------- MODULE CatalogProofs ----------------------------
(***************************************************************************)
(* Proofs about Catalog, for any names, row ids, limits and any number of   *)
(* concurrent requests.                                                    *)
(*                                                                         *)
(* ServedAsRecorded and AwakeRowServed speak of the moments when no request *)
(* is under way.  To be inductive they need to say what each request has    *)
(* done so far to its row and to its mount (CleanOK), which holds as long   *)
(* as requests do not overlap and no statement fails.                      *)
(***************************************************************************)
EXTENDS Catalog, TLAPS

RowSet == [name : Names, enabled : BOOLEAN, max : Limits \cup {0}]
MountSet == [enabled : BOOLEAN, max : Limits \cup {0}]

Busy(a) == pc[a] # "idle"

Typed ==
    /\ rows \in [Ids -> RowSet \cup {None}]
    /\ nextId \in Nat
    /\ mounts \in [Names -> MountSet \cup {None}]
    /\ pc \in [Admins -> PC]
    /\ DOMAIN op = Admins /\ DOMAIN id = Admins /\ DOMAIN row = Admins
    /\ want \in [Admins -> Body]
    /\ clean \in BOOLEAN

\* A request under way has a row it is about, and the stage fits the method.
StageOK ==
    \A a \in Admins : Busy(a) =>
        /\ id[a] \in Ids /\ id[a] < nextId
        /\ row[a] \in RowSet
        /\ \/ op[a] = "create" /\ pc[a] \in {"setSecret", "setMax", "manager"}
           \/ op[a] = "update" /\ pc[a] \in {"updateRow", "setMax", "setSecret", "manager"}
           \/ op[a] = "delete" /\ pc[a] \in {"manager", "deleteRow"}

\* Names are unique in the table, and ids come from the sequence.
TableOK ==
    /\ \A i, j \in Ids :
          rows[i] # None /\ rows[j] # None /\ rows[i].name = rows[j].name => i = j
    /\ \A i \in Ids : rows[i] # None => i < nextId

Base == Typed /\ StageOK /\ TableOK

-----------------------------------------------------------------------------
(* Types and the table.                                                    *)

\* No record of a row or a mount is None.
LEMMA NoneApart ==
    /\ None \notin RowSet /\ None \notin MountSet
    /\ \A m \in Limits \cup {0} : m \in Nat
    /\ \A n \in Names : Row(n) \in RowSet
    /\ \A e \in BOOLEAN, m \in Limits \cup {0} : Mount(e, m) \in MountSet
BY NoneAssumption, LimitAssumption DEF RowSet, MountSet, Row, Mount

\* The manager serves the enabled rows when syncMountpoints has run.
LEMMA SyncServes ==
    ASSUME rows \in [Ids -> RowSet \cup {None}], TableOK, NEW n \in Names
    PROVE  /\ syncMountpoints[n] \in MountSet \cup {None}
           /\ syncMountpoints[n] # None =>
                \E i \in RowsOf(n) :
                    /\ rows[i].enabled
                    /\ syncMountpoints[n] = Mount(rows[i].enabled, rows[i].max)
           /\ syncMountpoints[n] = None => \A i \in RowsOf(n) : ~rows[i].enabled
<1>1. CASE \E i \in RowsOf(n) : rows[i].enabled
  <2>1. PICK i \in RowsOf(n) : rows[i].enabled
    BY <1>1
  <2>2. \A j \in RowsOf(n) : j = i
    BY <2>1 DEF RowsOf, TableOK
  <2>3. (CHOOSE j \in RowsOf(n) : TRUE) = i
    BY <2>1, <2>2
  <2>4. syncMountpoints[n] = Mount(TRUE, rows[i].max)
    BY <1>1, <2>3 DEF syncMountpoints
  <2>5. rows[i] \in RowSet
    BY <2>1 DEF RowsOf
  <2>6. Mount(TRUE, rows[i].max) \in MountSet /\ rows[i].enabled = TRUE
    BY <2>1, <2>5, NoneApart DEF RowSet
  <2> QED BY <2>1, <2>4, <2>6, NoneApart
<1>2. CASE \A i \in RowsOf(n) : ~rows[i].enabled
  BY <1>2 DEF syncMountpoints
<1> QED BY <1>1, <1>2

LEMMA InitBase == Init => Base
<1> SUFFICES ASSUME Init PROVE Base
  OBVIOUS
<1>1. rows \in [Ids -> RowSet \cup {None}] /\ nextId \in Nat /\ TableOK
  BY NoneApart, IdAssumption DEF Init, TableOK
<1>2. StageOK
  BY DEF Init, StageOK, Busy
<1>3. /\ pc \in [Admins -> PC] /\ DOMAIN op = Admins /\ DOMAIN id = Admins /\ DOMAIN row = Admins
      /\ want \in [Admins -> Body]
      /\ clean \in BOOLEAN
  BY DEF Init, PC, Body, NoBody
<1>4. mounts \in [Names -> MountSet \cup {None}]
  <2>1. \A n \in Names : syncMountpoints[n] \in MountSet \cup {None}
    BY <1>1, SyncServes
  <2>2. mounts = [n \in Names |-> syncMountpoints[n]]
    BY DEF Init, syncMountpoints
  <2> QED BY <2>1, <2>2
<1> QED BY <1>1, <1>2, <1>3, <1>4 DEF Base, Typed

\* An UPDATE statement leaves the other rows and the name alone.
Writes(i, en, m) ==
    /\ rows' \in [Ids -> RowSet \cup {None}]
    /\ \A j \in Ids : j # i => rows'[j] = rows[j]
    /\ rows[i] = None => rows'[i] = None
    /\ rows[i] # None => /\ rows'[i] \in RowSet
                         /\ rows'[i] = [name |-> rows[i].name, enabled |-> en, max |-> m]

LEMMA RowFields ==
    ASSUME NEW r, NEW n, NEW e, NEW m, r = [name |-> n, enabled |-> e, max |-> m]
    PROVE  r.name = n /\ r.enabled = e /\ r.max = m
OBVIOUS

LEMMA MountFields ==
    ASSUME NEW r, NEW e, NEW m, r = Mount(e, m)
    PROVE  r.enabled = e /\ r.max = m
BY DEF Mount

LEMMA WritesTable ==
    ASSUME Typed, TableOK, NEW i \in Ids, NEW en, NEW m, Writes(i, en, m), nextId' = nextId
    PROVE  TableOK' /\ rows' \in [Ids -> RowSet \cup {None}]
<1>1. \A j \in Ids : /\ rows'[j] = None <=> rows[j] = None
                     /\ rows[j] # None => rows'[j].name = rows[j].name
  BY NoneApart DEF Writes
<1> QED BY <1>1 DEF TableOK, Writes

LEMMA CreateMaxWrites ==
    ASSUME Base, NEW a \in Admins, CreateMax(a)
    PROVE  \/ HasMax(a) /\ want[a].max \in Limits /\ Writes(id[a], rows[id[a]].enabled, want[a].max)
           \/ ~HasMax(a) /\ rows' = rows
<1>1. id[a] \in Ids /\ rows \in [Ids -> RowSet \cup {None}]
  BY DEF Base, StageOK, Typed, CreateMax, At, Busy
<1>2. CASE HasMax(a)
  <2>1. want[a].max \in Limits
    BY <1>2, NoneAssumption DEF HasMax, Base, Typed, Body, CreateMax, At, Or
  <2>2. CASE rows[id[a]] = None
    BY <1>1, <1>2, <2>1, <2>2 DEF CreateMax, SetField, Writes
  <2>3. CASE rows[id[a]] # None
    <3> DEFINE r == rows[id[a]]
               s == [r EXCEPT !.max = want[a].max]
    <3>1. r \in RowSet
      BY <1>1, <2>3
    <3>2. s = [name |-> r.name, enabled |-> r.enabled, max |-> want[a].max] /\ s \in RowSet
      BY <2>1, <3>1 DEF RowSet
    <3>3. rows' = [rows EXCEPT ![id[a]] = s]
      BY <1>2, <2>3 DEF CreateMax, SetField
    <3> HIDE DEF s
    <3> QED BY <1>1, <1>2, <2>1, <2>3, <3>2, <3>3 DEF Writes
  <2> QED BY <2>2, <2>3
<1>3. CASE ~HasMax(a)
  BY <1>3 DEF CreateMax
<1> QED BY <1>2, <1>3

LEMMA UpdateRowWrites ==
    ASSUME Base, NEW a \in Admins, UpdateMountPointRow(a)
    PROVE  /\ Or(want[a].enabled, row[a].enabled) \in BOOLEAN
           /\ Writes(id[a], Or(want[a].enabled, row[a].enabled), rows[id[a]].max)
<1>1. id[a] \in Ids /\ rows \in [Ids -> RowSet \cup {None}] /\ row[a] \in RowSet
  BY DEF Base, StageOK, Typed, UpdateMountPointRow, At, Busy
<1> DEFINE en == Or(want[a].enabled, row[a].enabled)
<1>2. en \in BOOLEAN
  BY <1>1 DEF Base, Typed, Body, Or, RowSet
<1> HIDE DEF en
<1>3. CASE rows[id[a]] = None
  BY <1>1, <1>2, <1>3 DEF UpdateMountPointRow, SetField, Writes, en
<1>4. CASE rows[id[a]] # None
  <2> DEFINE r == rows[id[a]]
             s == [r EXCEPT !.enabled = en]
  <2>1. r \in RowSet
    BY <1>1, <1>4
  <2>2. s = [name |-> r.name, enabled |-> en, max |-> r.max] /\ s \in RowSet
    BY <1>2, <2>1 DEF RowSet
  <2>3. rows' = [rows EXCEPT ![id[a]] = s]
    BY <1>4 DEF UpdateMountPointRow, SetField, en
  <2> HIDE DEF s
  <2> QED BY <1>1, <1>2, <1>4, <2>2, <2>3 DEF Writes, en
<1> QED BY <1>3, <1>4

LEMMA UpdateMaxWrites ==
    ASSUME Base, NEW a \in Admins, SetMountPointMaxClients(a)
    PROVE  \/ HasMax(a) /\ want[a].max \in Limits /\ Writes(id[a], rows[id[a]].enabled, want[a].max)
           \/ ~HasMax(a) /\ want[a].max = None /\ rows' = rows
<1>1. id[a] \in Ids /\ rows \in [Ids -> RowSet \cup {None}]
  BY DEF Base, StageOK, Typed, SetMountPointMaxClients, At, Busy
<1>2. CASE HasMax(a)
  <2>1. want[a].max \in Limits
    BY <1>2 DEF HasMax, Base, Typed, Body, SetMountPointMaxClients, At
  <2>2. CASE rows[id[a]] = None
    BY <1>1, <1>2, <2>1, <2>2 DEF SetMountPointMaxClients, SetField, Writes
  <2>3. CASE rows[id[a]] # None
    <3> DEFINE r == rows[id[a]]
               s == [r EXCEPT !.max = want[a].max]
    <3>1. r \in RowSet
      BY <1>1, <2>3
    <3>2. s = [name |-> r.name, enabled |-> r.enabled, max |-> want[a].max] /\ s \in RowSet
      BY <2>1, <3>1 DEF RowSet
    <3>3. rows' = [rows EXCEPT ![id[a]] = s]
      BY <1>2, <2>3 DEF SetMountPointMaxClients, SetField
    <3> HIDE DEF s
    <3> QED BY <1>1, <1>2, <2>1, <2>3, <3>2, <3>3 DEF Writes
  <2> QED BY <2>2, <2>3
<1>3. CASE ~HasMax(a)
  BY <1>3 DEF SetMountPointMaxClients, HasMax, At
<1> QED BY <1>2, <1>3

\* What Manager.Create and Manager.UpdateMountPoint may write.
LEMMA WantedMount ==
    ASSUME Base, NEW a \in Admins, Busy(a)
    PROVE  /\ row[a].name \in Names
           /\ Mount(TRUE, Or(want[a].max, 0)) \in MountSet
           /\ Mount(Or(want[a].enabled, row[a].enabled), Or(want[a].max, row[a].max)) \in MountSet
<1>1. row[a] \in RowSet /\ want[a] \in Body
  BY DEF Base, StageOK, Typed
<1>2. /\ Or(want[a].max, 0) \in Limits \cup {0}
      /\ Or(want[a].enabled, row[a].enabled) \in BOOLEAN
      /\ Or(want[a].max, row[a].max) \in Limits \cup {0}
  BY <1>1 DEF RowSet, Body, Or
<1> QED BY <1>1, <1>2 DEF RowSet, MountSet, Mount

LEMMA BeginBase ==
    ASSUME Base, NEW a \in Admins,
           \/ \E n \in Names, w \in Body : CreateMountPointRow(a, n, w)
           \/ \E i \in Ids, w \in Body : GetMountPointRowByID(a, i, w)
           \/ \E i \in Ids : FindDeleted(a, i)
    PROVE  Base'
<1>1. ASSUME NEW n \in Names, NEW w \in Body, CreateMountPointRow(a, n, w) PROVE Base'
  <2>1. /\ rows' = [rows EXCEPT ![nextId] = Row(n)] /\ nextId \in Ids /\ nextId' = nextId + 1
        /\ mounts' = mounts /\ pc' = [pc EXCEPT ![a] = "setSecret"]
        /\ op' = [op EXCEPT ![a] = "create"] /\ id' = [id EXCEPT ![a] = nextId]
        /\ row' = [row EXCEPT ![a] = Row(n)] /\ want' = [want EXCEPT ![a] = w]
        /\ clean' \in BOOLEAN
    BY <1>1 DEF CreateMountPointRow, Begin, Goto, Base, Typed
  <2>2. Typed'
    BY <2>1, NoneApart DEF Base, Typed, PC
  <2>6. /\ id'[a] = nextId /\ row'[a] = Row(n) /\ op'[a] = "create" /\ pc'[a] = "setSecret"
        /\ \A b \in Admins \ {a} : /\ id'[b] = id[b] /\ row'[b] = row[b]
                                  /\ op'[b] = op[b] /\ pc'[b] = pc[b]
    BY <2>1 DEF Base, Typed
  <2>7. nextId < nextId' /\ \A i \in Ids : i < nextId => i < nextId'
    BY <2>1, IdAssumption DEF Base, Typed
  <2>3. StageOK'
    BY <2>1, <2>6, <2>7, NoneApart DEF Base, StageOK, Busy
  <2>4. \A i \in Ids : rows[i] # None => rows[i].name # n
    BY <1>1 DEF CreateMountPointRow, RowsOf
  <2>5. TableOK'
    BY <2>1, <2>4, IdAssumption DEF Base, Typed, TableOK, Row
  <2> QED BY <2>2, <2>3, <2>5 DEF Base
<1>2. ASSUME NEW i \in Ids, NEW w \in Body, NEW o \in {"update", "delete"},
             NEW p \in {"updateRow", "manager"}, o = "update" \/ p = "manager",
             rows[i] # None, Begin(a, o, i, rows[i], w, p), UNCHANGED <<table, mounts>>
      PROVE  Base'
  <2>1. /\ rows' = rows /\ nextId' = nextId
        /\ mounts' = mounts /\ pc' = [pc EXCEPT ![a] = p]
        /\ op' = [op EXCEPT ![a] = o] /\ id' = [id EXCEPT ![a] = i]
        /\ row' = [row EXCEPT ![a] = rows[i]] /\ want' = [want EXCEPT ![a] = w]
        /\ clean' \in BOOLEAN
    BY <1>2 DEF Begin, Goto, Base, Typed, table
  <2>2. Typed'
    BY <2>1 DEF Base, Typed, PC
  <2>5. rows[i] \in RowSet /\ i < nextId
    BY <1>2 DEF Base, Typed, TableOK
  <2>6. /\ id'[a] = i /\ row'[a] = rows[i] /\ op'[a] = o /\ pc'[a] = p
        /\ \A b \in Admins \ {a} : /\ id'[b] = id[b] /\ row'[b] = row[b]
                                  /\ op'[b] = op[b] /\ pc'[b] = pc[b]
    BY <2>1 DEF Base, Typed
  <2>3. StageOK'
    BY <1>2, <2>1, <2>5, <2>6 DEF Base, StageOK, Busy
  <2>4. TableOK'
    BY <2>1 DEF Base, TableOK
  <2> QED BY <2>2, <2>3, <2>4 DEF Base
<1>3. NoBody \in Body
  BY DEF NoBody, Body
<1> QED BY <1>1, <1>2, <1>3 DEF GetMountPointRowByID, FindDeleted

\* The request goes on to its next statement, the mounts are typed.
LEMMA OnwardBase ==
    ASSUME Base, NEW a \in Admins, Busy(a), NEW p \in PC, Goto(a, p),
           TableOK', rows' \in [Ids -> RowSet \cup {None}], nextId' = nextId,
           mounts' \in [Names -> MountSet \cup {None}], UNCHANGED <<request, history>>,
           \/ op[a] = "create" /\ p \in {"setSecret", "setMax", "manager"}
           \/ op[a] = "update" /\ p \in {"updateRow", "setMax", "setSecret", "manager"}
           \/ op[a] = "delete" /\ p \in {"manager", "deleteRow"}
    PROVE  Base'
<1>1. Typed'
  BY DEF Base, Typed, Goto, request, history
<1>2. StageOK'
  BY DEF Base, Typed, StageOK, Busy, Goto, request
<1> QED BY <1>1, <1>2 DEF Base

LEMMA FinishBase ==
    ASSUME Base, NEW a \in Admins, Finish(a), clean' \in BOOLEAN,
           TableOK', rows' \in [Ids -> RowSet \cup {None}], nextId' = nextId,
           mounts' \in [Names -> MountSet \cup {None}]
    PROVE  Base'
<1>1. NoBody \in Body
  BY DEF NoBody, Body
<1>2. Typed'
  BY <1>1 DEF Base, Typed, Finish, Goto, PC
<1>3. StageOK'
  BY DEF Base, Typed, StageOK, Busy, Finish, Goto
<1> QED BY <1>2, <1>3 DEF Base

LEMMA StepBase ==
    ASSUME Base, NEW a \in Admins, Step(a)
    PROVE  Base'
<1>0. /\ rows \in [Ids -> RowSet \cup {None}] /\ mounts \in [Names -> MountSet \cup {None}]
      /\ clean \in BOOLEAN
  BY DEF Base, Typed
<1>1. UNCHANGED table => TableOK' /\ rows' \in [Ids -> RowSet \cup {None}] /\ nextId' = nextId
  BY <1>0 DEF Base, TableOK, table
<1>2. UNCHANGED mounts => mounts' \in [Names -> MountSet \cup {None}]
  BY <1>0
<1>3. CASE CreateSecret(a)
  BY <1>1, <1>2, <1>3, OnwardBase DEF CreateSecret, At, Busy, PC
<1>4. CASE CreateMax(a)
  <2>1. TableOK' /\ rows' \in [Ids -> RowSet \cup {None}]
    <3>1. CASE rows' = rows
      BY <1>1, <1>4, <3>1 DEF CreateMax, table
    <3>2. CASE Writes(id[a], rows[id[a]].enabled, want[a].max)
      BY <1>4, <3>2, WritesTable DEF CreateMax, At, Base, StageOK, Busy
    <3> QED BY <1>4, <3>1, <3>2, CreateMaxWrites
  <2> QED BY <1>2, <1>4, <2>1, OnwardBase DEF CreateMax, At, Busy, PC
<1>5. CASE Create(a)
  <2>1. Busy(a)
    BY <1>5 DEF Create, At, Busy
  <2>2. mounts' \in [Names -> MountSet \cup {None}]
    BY <1>0, <1>5, <2>1, WantedMount DEF Create
  <2> QED BY <1>0, <1>1, <1>5, <2>2, FinishBase DEF Create, history
<1>6. CASE UpdateMountPointRow(a)
  <2>1. TableOK' /\ rows' \in [Ids -> RowSet \cup {None}]
    BY <1>6, UpdateRowWrites, WritesTable
       DEF UpdateMountPointRow, At, Base, StageOK, Busy
  <2> QED BY <1>2, <1>6, <2>1, OnwardBase DEF UpdateMountPointRow, At, Busy, PC
<1>7. CASE SetMountPointMaxClients(a)
  <2>1. TableOK' /\ rows' \in [Ids -> RowSet \cup {None}]
    <3>1. CASE rows' = rows
      BY <1>1, <1>7, <3>1 DEF SetMountPointMaxClients, table
    <3>2. CASE Writes(id[a], rows[id[a]].enabled, want[a].max)
      BY <1>7, <3>2, WritesTable DEF SetMountPointMaxClients, At, Base, StageOK, Busy
    <3> QED BY <1>7, <3>1, <3>2, UpdateMaxWrites
  <2> QED BY <1>2, <1>7, <2>1, OnwardBase DEF SetMountPointMaxClients, At, Busy, PC
<1>8. CASE SetMountPointSourceSecret(a)
  BY <1>1, <1>2, <1>8, OnwardBase DEF SetMountPointSourceSecret, At, Busy, PC
<1>9. CASE UpdateMountPoint(a)
  <2>1. Busy(a)
    BY <1>9 DEF UpdateMountPoint, At, Busy
  <2>2. mounts' \in [Names -> MountSet \cup {None}]
    BY <1>0, <1>9, <2>1, WantedMount DEF UpdateMountPoint
  <2> QED BY <1>0, <1>1, <1>9, <2>2, FinishBase DEF UpdateMountPoint, history
<1>10. CASE Delete(a)
  <2>1. mounts' \in [Names -> MountSet \cup {None}]
    BY <1>0, <1>10 DEF Delete
  <2> QED BY <1>1, <1>10, <2>1, OnwardBase DEF Delete, At, Busy, PC
<1>11. CASE DeleteMountPointRow(a)
  <2>1. TableOK' /\ rows' \in [Ids -> RowSet \cup {None}]
    BY <1>0, <1>11 DEF DeleteMountPointRow, Base, TableOK
  <2> QED BY <1>0, <1>2, <1>11, <2>1, FinishBase DEF DeleteMountPointRow, history
<1>12. CASE StatementFails(a)
  BY <1>1, <1>2, <1>12, FinishBase DEF StatementFails
<1> QED BY <1>3, <1>4, <1>5, <1>6, <1>7, <1>8, <1>9, <1>10, <1>11, <1>12 DEF Step

LEMMA RestartBase ==
    ASSUME Base, Restart
    PROVE  Base'
<1>1. TableOK' /\ rows' = rows /\ nextId' = nextId
  BY DEF Base, TableOK, Restart, table
<1>2. mounts' \in [Names -> MountSet \cup {None}]
  <2>1. \A n \in Names : syncMountpoints[n] \in MountSet \cup {None}
    BY SyncServes DEF Base, Typed
  <2>2. mounts' = [n \in Names |-> syncMountpoints[n]]
    BY DEF Restart, syncMountpoints
  <2> QED BY <2>1, <2>2
<1>3. NoBody \in Body
  BY DEF NoBody, Body
<1>4. Typed'
  BY <1>1, <1>2, <1>3 DEF Base, Typed, Restart, PC
<1>5. StageOK'
  BY DEF StageOK, Busy, Restart
<1> QED BY <1>1, <1>4, <1>5 DEF Base

LEMMA NextBase == Base /\ [Next]_vars => Base'
<1> SUFFICES ASSUME Base, [Next]_vars PROVE Base'
  OBVIOUS
<1>1. CASE UNCHANGED vars
  BY <1>1 DEF vars, Base, Typed, StageOK, Busy, TableOK
<1>2. CASE Next
  BY <1>2, BeginBase, StepBase, RestartBase DEF Next
<1> QED BY <1>1, <1>2

-----------------------------------------------------------------------------
(* Deleted rows.                                                           *)

LEMMA BaseInvariant == Spec => []Base
BY InitBase, NextBase, PTL DEF Spec

\* Only CreateMountPointRow puts a row where there was none, and under an id
\* that no row has had.
LEMMA NextDeletedForGood ==
    ASSUME Base, [Next]_vars, NEW i \in Ids, i < nextId, rows[i] = None
    PROVE  rows'[i] = None
<1>1. ASSUME NEW a \in Admins, Step(a) PROVE rows'[i] = None
  <2>1. CASE UNCHANGED rows
    BY <2>1
  <2>2. CASE CreateMax(a)
    BY <2>1, <2>2, CreateMaxWrites DEF Writes
  <2>3. CASE UpdateMountPointRow(a)
    <3>1. \E en, m : Writes(id[a], en, m)
      BY <2>3, UpdateRowWrites
    <3> QED BY <3>1 DEF Writes
  <2>4. CASE SetMountPointMaxClients(a)
    BY <2>1, <2>4, UpdateMaxWrites DEF Writes
  <2>5. CASE DeleteMountPointRow(a)
    BY <2>5 DEF DeleteMountPointRow, Base, Typed
  <2> QED BY <1>1, <2>1, <2>2, <2>3, <2>4, <2>5
     DEF Step, CreateSecret, Create, SetMountPointSourceSecret, UpdateMountPoint, Delete,
         StatementFails, table
<1>2. ASSUME NEW a \in Admins, NEW n \in Names, NEW w \in Body, CreateMountPointRow(a, n, w)
      PROVE rows'[i] = None
  BY <1>2 DEF CreateMountPointRow, Base, Typed
<1>3. CASE UNCHANGED rows
  BY <1>3
<1> QED BY <1>1, <1>2, <1>3 DEF Next, GetMountPointRowByID, FindDeleted, Restart, table, vars

\* A deleted row stays deleted under any interleaving of requests, failures
\* and restarts.
THEOREM DeletedForGoodHolds == Spec => DeletedForGood
<1>1. Base /\ [Next]_vars =>
        [\A i \in Ids : i < nextId /\ rows[i] = None => rows'[i] = None]_vars
  BY NextDeletedForGood
<1> QED BY <1>1, BaseInvariant, PTL DEF Spec, DeletedForGood

\* Rows, mounts and requests keep their types.
THEOREM CatalogTypeCorrect == Spec => []TypeOK
<1>1. Base => TypeOK
  BY DEF Base, Typed, TypeOK, RowSet, MountSet
<1> QED BY <1>1, BaseInvariant, PTL

-----------------------------------------------------------------------------
(* What a request has done so far.                                         *)

\* The manager and the table agree on name n.
Settled(n) ==
    /\ mounts[n] # None =>
          \E i \in RowsOf(n) : mounts[n] = Mount(rows[i].enabled, rows[i].max)
    /\ \A i \in RowsOf(n) \ dormant : mounts[n] # None

\* The new row is enabled, has its limit once that statement has run, and the
\* manager does not know it yet.
CreateOK(a) ==
    /\ mounts[row[a].name] = None
    /\ rows[id[a]].enabled
    /\ rows[id[a]].max = IF pc[a] = "manager" THEN Or(want[a].max, 0) ELSE 0

\* The row gets the wanted values one by one, the mount has the old ones.
UpdateOK(a) ==
    /\ mounts[row[a].name] # None =>
          mounts[row[a].name] = Mount(row[a].enabled, row[a].max)
    /\ id[a] \notin dormant => mounts[row[a].name] # None
    /\ rows[id[a]].enabled = IF pc[a] = "updateRow" THEN row[a].enabled
                             ELSE Or(want[a].enabled, row[a].enabled)
    /\ rows[id[a]].max = IF pc[a] \in {"updateRow", "setMax"} THEN row[a].max
                         ELSE Or(want[a].max, row[a].max)

\* The mount goes before the row.
DeleteOK(a) ==
    /\ pc[a] = "deleteRow" => mounts[row[a].name] = None
    /\ pc[a] # "deleteRow" => Settled(row[a].name)

RequestOK(a) ==
    /\ rows[id[a]] # None /\ rows[id[a]].name = row[a].name
    /\ op[a] = "create" => CreateOK(a)
    /\ op[a] = "update" => UpdateOK(a)
    /\ op[a] = "delete" => DeleteOK(a)

CleanOK ==
    clean => /\ \A a, b \in Admins : Busy(a) /\ Busy(b) => a = b
             /\ \A n \in Names :
                   (\A a \in Admins : Busy(a) => row[a].name # n) => Settled(n)
             /\ \A a \in Admins : Busy(a) => RequestOK(a)

IInv == Base /\ CleanOK

\* A step that touches neither the rows nor the mount of a name.
LEMMA SettledKept ==
    ASSUME NEW n \in Names, Settled(n), mounts'[n] = mounts[n], dormant' = dormant,
           \A i \in Ids : \/ rows'[i] = rows[i]
                         \/ /\ rows[i] = None \/ rows[i].name # n
                            /\ rows'[i] = None \/ rows'[i].name # n
    PROVE  Settled(n)'
<1>1. RowsOf(n)' = RowsOf(n) /\ \A i \in RowsOf(n) : rows'[i] = rows[i]
  BY DEF RowsOf
<1> QED BY <1>1 DEF Settled

\* A request's step concerns its own row and its own mount.
Local(a) ==
    /\ \A i \in Ids : i # id[a] => rows'[i] = rows[i]
    /\ rows'[id[a]] = None \/ rows'[id[a]].name = row[a].name
    /\ \A n \in Names : n # row[a].name => mounts'[n] = mounts[n]

LEMMA OthersSettled ==
    ASSUME Base, CleanOK, clean, NEW a \in Admins, Busy(a), Local(a), dormant' = dormant,
           NEW n \in Names, n # row[a].name
    PROVE  Settled(n)'
<1>1. Settled(n)
  BY DEF CleanOK
<1>2. rows[id[a]] # None /\ rows[id[a]].name = row[a].name
  BY DEF CleanOK, RequestOK
<1>3. \A i \in Ids : \/ rows'[i] = rows[i]
                     \/ /\ rows[i] = None \/ rows[i].name # n
                        /\ rows'[i] = None \/ rows'[i].name # n
  BY <1>2 DEF Local
<1>4. mounts'[n] = mounts[n]
  BY DEF Local
<1> QED BY <1>1, <1>3, <1>4, SettledKept

LEMMA OnwardClean ==
    ASSUME Base, CleanOK, clean, NEW a \in Admins, Busy(a), Local(a),
           NEW p \in PC \ {"idle"}, Goto(a, p), UNCHANGED <<request, history>>,
           RequestOK(a)'
    PROVE  CleanOK'
<1>1. \A b \in Admins : Busy(b)' <=> b = a
  BY DEF CleanOK, Busy, Goto, Base, Typed
<1>2. row' = row /\ dormant' = dormant
  BY DEF request, history
<1>3. ASSUME NEW n \in Names, n # row[a].name PROVE Settled(n)'
  BY <1>2, <1>3, OthersSettled
<1> QED BY <1>1, <1>2, <1>3 DEF CleanOK

LEMMA FinishClean ==
    ASSUME Base, CleanOK, clean, NEW a \in Admins, Busy(a), Local(a),
           Finish(a), UNCHANGED history,
           NEW own \in Names, own = row[a].name, Settled(own)'
    PROVE  CleanOK'
<1>1. \A b \in Admins : ~Busy(b)'
  BY DEF CleanOK, Busy, Finish, Goto, Base, Typed
<1>2. dormant' = dormant
  BY DEF history
<1>3. ASSUME NEW n \in Names PROVE Settled(n)'
  BY <1>2, OthersSettled
<1> QED BY <1>1, <1>3 DEF CleanOK

-----------------------------------------------------------------------------
(* The requests, one at a time.                                            *)

LEMMA CreateBeginsClean ==
    ASSUME Base, CleanOK, NEW a \in Admins, NEW n \in Names, NEW w \in Body,
           CreateMountPointRow(a, n, w)
    PROVE  CleanOK'
<1> SUFFICES ASSUME clean' PROVE CleanOK'
  BY DEF CleanOK
<1>1. clean /\ Quiet
  BY DEF CreateMountPointRow, Begin
<1>2. /\ rows' = [rows EXCEPT ![nextId] = Row(n)] /\ nextId \in Ids
      /\ mounts' = mounts /\ pc' = [pc EXCEPT ![a] = "setSecret"]
      /\ op' = [op EXCEPT ![a] = "create"] /\ id' = [id EXCEPT ![a] = nextId]
      /\ row' = [row EXCEPT ![a] = Row(n)] /\ dormant' = dormant
      /\ RowsOf(n) = {}
  BY DEF CreateMountPointRow, Begin, Goto
<1>3. \A m \in Names : Settled(m)
  BY <1>1 DEF CleanOK, Quiet, Busy
<1>4. rows[nextId] = None
  BY <1>2 DEF Base, TableOK, Typed
<1>5. mounts[n] = None
  BY <1>2, <1>3 DEF Settled
<1>6. \A b \in Admins : Busy(b)' <=> b = a
  BY <1>1, <1>2 DEF Quiet, Busy, Base, Typed
<1>7. /\ id'[a] = nextId /\ row'[a] = Row(n) /\ op'[a] = "create" /\ pc'[a] = "setSecret"
      /\ rows'[nextId] = Row(n)
  BY <1>2 DEF Base, Typed
<1>8. RequestOK(a)'
  BY <1>2, <1>5, <1>7, NoneApart DEF RequestOK, CreateOK, Row
<1>9. ASSUME NEW m \in Names, m # n PROVE Settled(m)'
  <2>1. \A i \in Ids : \/ rows'[i] = rows[i]
                       \/ /\ rows[i] = None \/ rows[i].name # m
                          /\ rows'[i] = None \/ rows'[i].name # m
    BY <1>2, <1>4, <1>7, <1>9 DEF Base, Typed, Row
  <2> QED BY <1>2, <1>3, <2>1, SettledKept
<1> QED BY <1>6, <1>7, <1>8, <1>9 DEF CleanOK, Row

LEMMA FoundBeginsClean ==
    ASSUME Base, CleanOK, NEW a \in Admins, NEW i \in Ids, rows[i] # None,
           NEW w, NEW o, NEW p,
           \/ o = "update" /\ p = "updateRow"
           \/ o = "delete" /\ p = "manager",
           Begin(a, o, i, rows[i], w, p), UNCHANGED <<table, mounts>>
    PROVE  CleanOK'
<1> SUFFICES ASSUME clean' PROVE CleanOK'
  BY DEF CleanOK
<1>1. clean /\ Quiet
  BY DEF Begin
<1>2. /\ rows' = rows /\ mounts' = mounts /\ pc' = [pc EXCEPT ![a] = p]
      /\ op' = [op EXCEPT ![a] = o] /\ id' = [id EXCEPT ![a] = i]
      /\ row' = [row EXCEPT ![a] = rows[i]] /\ dormant' = dormant
  BY DEF Begin, Goto, table
<1>3. \A m \in Names : Settled(m)
  BY <1>1 DEF CleanOK, Quiet, Busy
<1>4. \A m \in Names : Settled(m)'
  BY <1>2, <1>3, SettledKept
<1>5. \A b \in Admins : Busy(b)' <=> b = a
  BY <1>1, <1>2 DEF Quiet, Busy, Base, Typed
<1>6. id'[a] = i /\ row'[a] = rows[i] /\ op'[a] = o /\ pc'[a] = p
  BY <1>2 DEF Base, Typed
<1>7. rows[i] \in RowSet /\ rows[i].name \in Names
  BY DEF Base, Typed, RowSet
<1> DEFINE n == rows[i].name
<1>8. /\ i \in RowsOf(n)
      /\ \A j \in RowsOf(n) : j = i
  BY <1>7 DEF RowsOf, Base, TableOK
<1>9. /\ mounts[n] # None => mounts[n] = Mount(rows[i].enabled, rows[i].max)
      /\ i \notin dormant => mounts[n] # None
  BY <1>3, <1>7, <1>8 DEF Settled
<1>10. RequestOK(a)'
  <2>1. CASE o = "update" /\ p = "updateRow"
    BY <1>2, <1>6, <1>9, <2>1 DEF RequestOK, UpdateOK
  <2>2. CASE o = "delete" /\ p = "manager"
    <3>1. DeleteOK(a)'
      BY <1>4, <1>6, <1>7, <2>2 DEF DeleteOK
    <3> QED BY <1>2, <1>6, <2>2, <3>1 DEF RequestOK
  <2> QED BY <2>1, <2>2
<1> QED BY <1>4, <1>5, <1>10 DEF CleanOK

LEMMA CreateClean ==
    ASSUME Base, CleanOK, clean, NEW a \in Admins,
           CreateSecret(a) \/ CreateMax(a) \/ Create(a)
    PROVE  CleanOK'
<1>0. PICK n \in Names, i \in Ids :
      /\ n = row[a].name /\ i = id[a]
      /\ Busy(a) /\ op[a] = "create" /\ row[a] \in RowSet
      /\ rows[i] # None /\ rows[i] \in RowSet /\ rows[i].name = n /\ CreateOK(a)
  <2>1. Busy(a) /\ op[a] = "create"
    BY DEF CreateSecret, CreateMax, Create, At, Busy
  <2> QED BY <2>1 DEF Base, StageOK, Typed, RowSet, CleanOK, RequestOK
<1>1. CASE CreateSecret(a)
  <2>1. /\ rows' = rows /\ mounts' = mounts /\ id' = id /\ row' = row /\ op' = op /\ want' = want
        /\ pc[a] = "setSecret" /\ pc'[a] = "setMax" /\ Goto(a, "setMax")
    BY <1>1 DEF CreateSecret, At, Goto, table, request, Base, Typed
  <2>2. Local(a)
    BY <1>0, <2>1 DEF Local
  <2>3. RequestOK(a)'
    BY <1>0, <2>1 DEF RequestOK, CreateOK
  <2> QED BY <1>0, <1>1, <2>1, <2>2, <2>3, OnwardClean DEF CreateSecret, PC
<1>2. CASE CreateMax(a)
  <2>1. /\ mounts' = mounts /\ id' = id /\ row' = row /\ op' = op /\ want' = want
        /\ pc[a] = "setMax" /\ pc'[a] = "manager" /\ Goto(a, "manager")
    BY <1>2 DEF CreateMax, At, Goto, request, Base, Typed
  <2>2. /\ \A j \in Ids : j # i => rows'[j] = rows[j]
        /\ rows'[i] # None /\ rows'[i].name = n /\ rows'[i].enabled
        /\ rows'[i].max = Or(want[a].max, 0)
    <3>1. CASE HasMax(a) /\ want[a].max \in Limits /\ Writes(i, rows[i].enabled, want[a].max)
      <4>1. want[a].max # None /\ want[a].max \in Limits \cup {0}
        BY <3>1, NoneAssumption, LimitAssumption
      <4>2. Or(want[a].max, 0) = want[a].max
        BY <4>1 DEF Or
      <4>3. \A j \in Ids : j # i => rows'[j] = rows[j]
        BY <1>0, <3>1 DEF Writes
      <4>4. rows'[i] = [name |-> n, enabled |-> rows[i].enabled, max |-> want[a].max]
        BY <1>0, <3>1 DEF Writes
      <4>5. rows[i].enabled /\ rows[i].enabled \in BOOLEAN
        BY <1>0 DEF CreateOK, RowSet
      <4>6. rows'[i] \in RowSet
        BY <4>1, <4>4, <4>5 DEF RowSet
      <4>7. rows'[i] # None
        BY <4>6, NoneApart
      <4>8. rows'[i].name = n /\ rows'[i].enabled /\ rows'[i].max = want[a].max
        BY <4>4, <4>5
      <4> QED BY <4>2, <4>3, <4>7, <4>8
    <3>2. CASE ~HasMax(a) /\ rows' = rows
      <4>1. Or(want[a].max, 0) = 0
        <5>1. want[a].max \in Limits \cup {None}
          BY DEF Base, Typed, Body
        <5>2. ~(Or(want[a].max, 0) > 0)
          BY <1>0, <3>2 DEF HasMax
        <5>3. Or(want[a].max, 0) \in Nat
          BY <5>1, LimitAssumption DEF Or
        <5> QED BY <5>2, <5>3
      <4> QED BY <1>0, <2>1, <3>2, <4>1 DEF CreateOK
    <3> QED BY <1>0, <1>2, <3>1, <3>2, CreateMaxWrites
  <2>3. Local(a)
    BY <1>0, <2>1, <2>2 DEF Local
  <2>4. RequestOK(a)'
    BY <1>0, <2>1, <2>2 DEF RequestOK, CreateOK
  <2> QED BY <1>0, <1>2, <2>1, <2>3, <2>4, OnwardClean DEF CreateMax, PC
<1>3. CASE Create(a)
  <2>1. /\ rows' = rows /\ pc[a] = "manager" /\ dormant' = dormant
        /\ mounts' = [mounts EXCEPT ![n] = Mount(TRUE, Or(want[a].max, 0))]
    BY <1>0, <1>3 DEF Create, At, table, history, CreateOK
  <2>2. mounts'[n] = Mount(TRUE, Or(want[a].max, 0)) /\ mounts'[n] \in MountSet
    BY <1>0, <2>1, WantedMount DEF Base, Typed
  <2>3. rows[i].enabled = TRUE /\ rows[i].max = Or(want[a].max, 0)
    BY <1>0, <2>1 DEF CreateOK, RowSet
  <2>4. Local(a)
    BY <1>0, <2>1 DEF Local, Base, Typed
  <2>5. i \in RowsOf(n)'
    BY <1>0, <2>1 DEF RowsOf
  <2>6. Settled(n)'
    BY <2>1, <2>2, <2>3, <2>5, NoneApart DEF Settled
  <2> QED BY <1>0, <1>3, <2>4, <2>6, FinishClean DEF Create
<1> QED BY <1>1, <1>2, <1>3

LEMMA UpdateClean ==
    ASSUME Base, CleanOK, clean, NEW a \in Admins,
           \/ UpdateMountPointRow(a) \/ SetMountPointMaxClients(a)
           \/ SetMountPointSourceSecret(a) \/ UpdateMountPoint(a)
    PROVE  CleanOK'
<1>0. PICK n \in Names, i \in Ids :
      /\ n = row[a].name /\ i = id[a]
      /\ Busy(a) /\ op[a] = "update" /\ row[a] \in RowSet
      /\ rows[i] # None /\ rows[i] \in RowSet /\ rows[i].name = n /\ UpdateOK(a)
  <2>1. Busy(a) /\ op[a] = "update"
    BY DEF UpdateMountPointRow, SetMountPointMaxClients, SetMountPointSourceSecret,
           UpdateMountPoint, At, Busy
  <2> QED BY <2>1 DEF Base, StageOK, Typed, RowSet, CleanOK, RequestOK
<1>1. CASE UpdateMountPointRow(a)
  <2>1. /\ mounts' = mounts /\ id' = id /\ row' = row /\ op' = op /\ want' = want
        /\ dormant' = dormant
        /\ pc[a] = "updateRow" /\ pc'[a] = "setMax" /\ Goto(a, "setMax")
    BY <1>1 DEF UpdateMountPointRow, At, Goto, request, history, Base, Typed
  <2>2. /\ \A j \in Ids : j # i => rows'[j] = rows[j]
        /\ rows'[i] # None /\ rows'[i].name = n
        /\ rows'[i].enabled = Or(want[a].enabled, row[a].enabled)
        /\ rows'[i].max = rows[i].max
    <3>1. Writes(i, Or(want[a].enabled, row[a].enabled), rows[i].max)
      BY <1>0, <1>1, UpdateRowWrites
    <3>2. /\ rows'[i] # None
          /\ rows'[i] = [name |-> n, enabled |-> Or(want[a].enabled, row[a].enabled),
                         max |-> rows[i].max]
          /\ \A j \in Ids : j # i => rows'[j] = rows[j]
      BY <1>0, <3>1, NoneApart DEF Writes
    <3> QED BY <3>2, RowFields
  <2>3. Local(a)
    BY <1>0, <2>1, <2>2 DEF Local
  <2>4. RequestOK(a)'
    BY <1>0, <2>1, <2>2 DEF RequestOK, UpdateOK
  <2> QED BY <1>0, <1>1, <2>1, <2>3, <2>4, OnwardClean DEF UpdateMountPointRow, PC
<1>2. CASE SetMountPointMaxClients(a)
  <2>1. /\ mounts' = mounts /\ id' = id /\ row' = row /\ op' = op /\ want' = want
        /\ dormant' = dormant
        /\ pc[a] = "setMax" /\ pc'[a] = "setSecret" /\ Goto(a, "setSecret")
    BY <1>2 DEF SetMountPointMaxClients, At, Goto, request, history, Base, Typed
  <2>2. /\ \A j \in Ids : j # i => rows'[j] = rows[j]
        /\ rows'[i] # None /\ rows'[i].name = n
        /\ rows'[i].enabled = rows[i].enabled
        /\ rows'[i].max = Or(want[a].max, row[a].max)
    <3>1. CASE want[a].max \in Limits /\ Writes(i, rows[i].enabled, want[a].max)
      <4>1. Or(want[a].max, row[a].max) = want[a].max
        BY <3>1, NoneAssumption, LimitAssumption DEF Or
      <4>2. /\ rows'[i] # None
            /\ rows'[i] = [name |-> n, enabled |-> rows[i].enabled, max |-> want[a].max]
            /\ \A j \in Ids : j # i => rows'[j] = rows[j]
        BY <1>0, <3>1, NoneApart DEF Writes
      <4> QED BY <4>1, <4>2, RowFields
    <3>2. CASE want[a].max = None /\ rows' = rows
      BY <1>0, <2>1, <3>2 DEF UpdateOK, Or
    <3> QED BY <1>0, <1>2, <3>1, <3>2, UpdateMaxWrites
  <2>3. Local(a)
    BY <1>0, <2>1, <2>2 DEF Local
  <2>4. RequestOK(a)'
    BY <1>0, <2>1, <2>2 DEF RequestOK, UpdateOK
  <2> QED BY <1>0, <1>2, <2>1, <2>3, <2>4, OnwardClean DEF SetMountPointMaxClients, PC
<1>3. CASE SetMountPointSourceSecret(a)
  <2>1. /\ rows' = rows /\ mounts' = mounts /\ id' = id /\ row' = row /\ op' = op /\ want' = want
        /\ dormant' = dormant
        /\ pc[a] = "setSecret" /\ pc'[a] = "manager" /\ Goto(a, "manager")
    BY <1>3 DEF SetMountPointSourceSecret, At, Goto, table, request, history, Base, Typed
  <2>2. Local(a)
    BY <1>0, <2>1 DEF Local
  <2>3. RequestOK(a)'
    BY <1>0, <2>1 DEF RequestOK, UpdateOK
  <2> QED BY <1>0, <1>3, <2>1, <2>2, <2>3, OnwardClean DEF SetMountPointSourceSecret, PC
<1>4. CASE UpdateMountPoint(a)
  <2> DEFINE new == Mount(Or(want[a].enabled, row[a].enabled), Or(want[a].max, row[a].max))
  <2>1. /\ rows' = rows /\ pc[a] = "manager" /\ dormant' = dormant
        /\ mounts[n] = None => mounts' = mounts
        /\ mounts[n] # None => mounts' = [mounts EXCEPT ![n] = new]
    BY <1>0, <1>4 DEF UpdateMountPoint, At, table, history
  <2>2. new \in MountSet /\ new = Mount(rows[i].enabled, rows[i].max)
    BY <1>0, <2>1, WantedMount DEF UpdateOK
  <2> HIDE DEF new
  <2>3. /\ mounts[n] = None => mounts'[n] = None
        /\ mounts[n] # None => mounts'[n] = new
        /\ \A m \in Names : m # n => mounts'[m] = mounts[m]
    BY <1>0, <2>1 DEF Base, Typed
  <2>4. Local(a)
    BY <1>0, <2>1, <2>3 DEF Local
  <2>5. /\ i \in RowsOf(n)'
        /\ \A j \in RowsOf(n)' : j = i
    BY <1>0, <2>1 DEF RowsOf, Base, TableOK
  <2>6. i \notin dormant => mounts[n] # None
    BY <1>0 DEF UpdateOK
  <2>7. Settled(n)'
    BY <2>1, <2>2, <2>3, <2>5, <2>6, NoneApart DEF Settled
  <2> QED BY <1>0, <1>4, <2>4, <2>7, FinishClean DEF UpdateMountPoint
<1> QED BY <1>1, <1>2, <1>3, <1>4

LEMMA DeleteClean ==
    ASSUME Base, CleanOK, clean, NEW a \in Admins, Delete(a) \/ DeleteMountPointRow(a)
    PROVE  CleanOK'
<1>0. PICK n \in Names, i \in Ids :
      /\ n = row[a].name /\ i = id[a]
      /\ Busy(a) /\ op[a] = "delete" /\ row[a] \in RowSet
      /\ rows[i] # None /\ rows[i].name = n /\ DeleteOK(a)
  <2>1. Busy(a) /\ op[a] = "delete"
    BY DEF Delete, DeleteMountPointRow, At, Busy
  <2> QED BY <2>1 DEF Base, StageOK, RowSet, CleanOK, RequestOK
<1>1. CASE Delete(a)
  <2>1. /\ rows' = rows /\ id' = id /\ row' = row /\ op' = op
        /\ mounts' = [mounts EXCEPT ![n] = None]
        /\ pc'[a] = "deleteRow" /\ Goto(a, "deleteRow")
    BY <1>0, <1>1 DEF Delete, At, Goto, table, request, Base, Typed
  <2>2. mounts'[n] = None /\ \A m \in Names : m # n => mounts'[m] = mounts[m]
    BY <1>0, <2>1 DEF Base, Typed
  <2>3. Local(a)
    BY <1>0, <2>1, <2>2 DEF Local
  <2>4. RequestOK(a)'
    BY <1>0, <2>1, <2>2 DEF RequestOK, DeleteOK
  <2> QED BY <1>0, <1>1, <2>1, <2>3, <2>4, OnwardClean DEF Delete, PC
<1>2. CASE DeleteMountPointRow(a)
  <2>1. /\ rows' = [rows EXCEPT ![i] = None] /\ mounts' = mounts /\ dormant' = dormant
        /\ pc[a] = "deleteRow"
    BY <1>0, <1>2 DEF DeleteMountPointRow, At, history
  <2>2. rows'[i] = None /\ \A j \in Ids : j # i => rows'[j] = rows[j]
    BY <1>0, <2>1 DEF Base, Typed
  <2>3. Local(a)
    BY <1>0, <2>1, <2>2 DEF Local
  <2>4. RowsOf(n)' = {}
    BY <1>0, <2>2 DEF RowsOf, Base, TableOK
  <2>5. Settled(n)'
    BY <1>0, <2>1, <2>4 DEF Settled, DeleteOK
  <2> QED BY <1>0, <1>2, <2>3, <2>5, FinishClean DEF DeleteMountPointRow
<1> QED BY <1>1, <1>2

\* syncMountpoints brings the manager back to the table, whatever was left.
LEMMA RestartClean ==
    ASSUME Base, Restart
    PROVE  CleanOK'
<1>1. \A a \in Admins : ~Busy(a)'
  BY DEF Restart, Busy
<1>2. rows' = rows /\ mounts' = syncMountpoints
      /\ dormant' = {i \in Ids : rows[i] # None /\ ~rows[i].enabled}
  BY DEF Restart, table
<1>3. ASSUME NEW n \in Names PROVE Settled(n)'
  <2>1. RowsOf(n)' = RowsOf(n) /\ RowsOf(n) \subseteq {i \in Ids : rows[i] # None}
    BY <1>2 DEF RowsOf
  <2>2. /\ mounts'[n] # None =>
             \E i \in RowsOf(n) : mounts'[n] = Mount(rows[i].enabled, rows[i].max)
        /\ mounts'[n] = None => \A i \in RowsOf(n) : ~rows[i].enabled
    BY <1>2, SyncServes DEF Base, Typed
  <2> QED BY <1>2, <2>1, <2>2 DEF Settled
<1> QED BY <1>1, <1>3 DEF CleanOK

LEMMA InitClean == Init => CleanOK
<1> SUFFICES ASSUME Init PROVE CleanOK
  OBVIOUS
<1>1. \A a \in Admins : ~Busy(a)
  BY DEF Init, Busy
<1>2. Base /\ mounts = syncMountpoints /\ dormant = {}
  BY InitBase DEF Init
<1>3. \A i \in Ids : rows[i] # None => rows[i].enabled
  BY DEF Init, Row
<1>4. ASSUME NEW n \in Names PROVE Settled(n)
  <2>1. /\ mounts[n] # None =>
             \E i \in RowsOf(n) : mounts[n] = Mount(rows[i].enabled, rows[i].max)
        /\ mounts[n] = None => \A i \in RowsOf(n) : ~rows[i].enabled
    BY <1>2, SyncServes DEF Base, Typed
  <2> QED BY <1>3, <2>1 DEF Settled, RowsOf
<1> QED BY <1>1, <1>4 DEF CleanOK

LEMMA NextIInv == IInv /\ [Next]_vars => IInv'
<1> SUFFICES ASSUME IInv, [Next]_vars PROVE CleanOK'
  BY NextBase DEF IInv
<1>0. Base /\ CleanOK
  BY DEF IInv
<1>1. CASE UNCHANGED vars
  BY <1>0, <1>1 DEF vars, CleanOK, Busy, Settled, RowsOf, RequestOK, CreateOK, UpdateOK, DeleteOK
<1>2. ASSUME NEW a \in Admins, Step(a), clean PROVE CleanOK'
  <2>1. CASE StatementFails(a)
    BY <2>1 DEF StatementFails, CleanOK
  <2> QED BY <1>0, <1>2, <2>1, CreateClean, UpdateClean, DeleteClean DEF Step
<1>3. ASSUME NEW a \in Admins, Step(a), ~clean PROVE CleanOK'
  <2>1. ~clean'
    BY <1>3 DEF Step, CreateSecret, CreateMax, Create, UpdateMountPointRow,
       SetMountPointMaxClients, SetMountPointSourceSecret, UpdateMountPoint, Delete,
       DeleteMountPointRow, StatementFails, history
  <2> QED BY <2>1 DEF CleanOK
<1>4. ASSUME NEW a \in Admins, NEW n \in Names, NEW w \in Body, CreateMountPointRow(a, n, w)
      PROVE  CleanOK'
  BY <1>0, <1>4, CreateBeginsClean
<1>5. ASSUME NEW a \in Admins, NEW i \in Ids, NEW w \in Body, GetMountPointRowByID(a, i, w)
      PROVE  CleanOK'
  BY <1>0, <1>5, FoundBeginsClean DEF GetMountPointRowByID
<1>6. ASSUME NEW a \in Admins, NEW i \in Ids, FindDeleted(a, i)
      PROVE  CleanOK'
  BY <1>0, <1>6, FoundBeginsClean DEF FindDeleted
<1>7. CASE Restart
  BY <1>0, <1>7, RestartClean
<1> QED BY <1>1, <1>2, <1>3, <1>4, <1>5, <1>6, <1>7 DEF Next

-----------------------------------------------------------------------------

\* IInv is an invariant of the catalog.
THEOREM CatalogInvariant == Spec => []IInv
<1>1. Init => IInv
  BY InitBase, InitClean DEF IInv
<1> QED BY <1>1, NextIInv, PTL DEF Spec

\* Whatever the manager serves the table records with the same values, after
\* any sequence of requests, crashes and restarts.
THEOREM ServedAsRecordedHolds == Spec => []ServedAsRecorded
<1>1. IInv => ServedAsRecorded
  <2> SUFFICES ASSUME IInv, clean, Quiet, NEW n \in Names, mounts[n] # None
               PROVE \E i \in RowsOf(n) : /\ rows[i].enabled = mounts[n].enabled
                                          /\ rows[i].max = mounts[n].max
    BY DEF ServedAsRecorded
  <2>1. Settled(n)
    BY DEF IInv, CleanOK, Quiet, Busy
  <2>2. PICK i \in RowsOf(n) : mounts[n] = Mount(rows[i].enabled, rows[i].max)
    BY <2>1 DEF Settled
  <2> QED BY <2>2, MountFields
<1> QED BY <1>1, CatalogInvariant, PTL

\* Every enabled row is served, unless it was disabled when the process
\* started.
THEOREM AwakeRowServedHolds == Spec => []AwakeRowServed
<1>1. IInv => AwakeRowServed
  <2> SUFFICES ASSUME IInv, clean, Quiet,
                      NEW i \in Ids \ dormant, rows[i] # None
               PROVE  \E n \in Names : /\ n = rows[i].name /\ mounts[n] # None
                                       /\ mounts[n].enabled = rows[i].enabled
    BY DEF AwakeRowServed
  <2>1. PICK n \in Names : n = rows[i].name
    BY DEF IInv, Base, Typed, RowSet
  <2>2. i \in RowsOf(n) /\ \A j \in RowsOf(n) : j = i
    BY <2>1 DEF IInv, Base, Typed, TableOK, RowsOf
  <2>3. Settled(n)
    BY DEF IInv, CleanOK, Quiet, Busy
  <2>4. mounts[n] # None /\ mounts[n] = Mount(rows[i].enabled, rows[i].max)
    BY <2>2, <2>3 DEF Settled
  <2>5. mounts[n].enabled = rows[i].enabled
    BY <2>4, MountFields
  <2> QED BY <2>1, <2>4, <2>5
<1> QED BY <1>1, CatalogInvariant, PTL

==============================================================================
