------------------------------ MODULE Dialogs ------------------------------
(***************************************************************************)
(* What the administrator changes from the web console: the dialogs of     *)
(* src/web/src/pages/users.tsx with UserBindingsSection, of mountpoints.tsx*)
(* and of connections.tsx, the mutations they send (api/client.ts,         *)
(* api/hooks.ts) and the handlers that carry them out (internal/api/       *)
(* handlers.go), one step each: what happens inside a handler is the       *)
(* matter of Accounts, Catalog and MountPoint.                             *)
(*                                                                         *)
(* A dialog is modal, so one is open at a time, but its fields are state   *)
(* of the page and outlive it.  Its target is the row as the list showed   *)
(* it.  Cancel works while a mutation is under way.  When a mutation       *)
(* succeeds its handler closes the dialog of its kind, whichever row that  *)
(* dialog is about by now; a page that was left and opened again knows     *)
(* nothing of the mutations of before.                                     *)
(*                                                                         *)
(* Names, descriptions, formats, roles and limits are left out: enabled    *)
(* stands for the fields that a save always sends, the secret for those it *)
(* sends only when they were filled in.  A secret says in which row's      *)
(* dialog it was entered.                                                  *)
(***************************************************************************)
EXTENDS Integers, FiniteSets

CONSTANTS
    Users, Mounts,      \* ids of the rows at the beginning
    Conns,              \* the connections at the beginning
    MaxConn,            \* bound on the ids of connections
    MaxMoves,           \* bound on the changes of page
    MaxOpens,           \* bound on the dialogs that are opened
    MaxSends,           \* bound on the mutations
    MaxOthers           \* bound on what others change and the network loses

Tables == {"users", "mountpoints"}
Stores == Tables \cup {"bindings", "conns"}
Pages == Tables \cup {"connections"}

ASSUME DialogsAssumption ==
    /\ Users \subseteq Nat \ {0} /\ IsFiniteSet(Users)
    /\ Mounts \subseteq Nat \ {0} /\ IsFiniteSet(Mounts)
    /\ MaxConn \in Nat
    /\ Conns \subseteq [kind : {"source", "client"}, id : 1 .. MaxConn, mount : Mounts]
    /\ \A c, d \in Conns : c.id = d.id => c = d
    /\ {MaxMoves, MaxOpens, MaxSends, MaxOthers} \subseteq Nat

VARIABLES
    page,       \* the page that is shown
    db,         \* the tables and the connections of the caster
    seq,        \* sqlite_sequence: the last id of each table
    list,       \* what the lists of the console show
    form,       \* the dialogs of the page
    requests,   \* mutations that have not been reported
    used,       \* how much of each bound is used up
    asked       \* what the administrator asked for, for the properties

vars == <<page, db, seq, list, form, requests, used, asked>>

(***************************************************************************)
(* Rows.  born counts the rows a table ever had, ver the writes of a row.  *)
(***************************************************************************)
Original == <<"original", 0>>       \* the secret with which the row was created
Keep == <<"keep", 0>>               \* the field is not in the body
Blank == <<"blank", 0>>             \* the field as the dialog opens, empty
Typed(b) == <<"typed", b>>          \* typed in the dialog of the row born as b
Emptied(b) == <<"emptied", b>>      \* emptied there

Row(i, b) == [id |-> i, born |-> b, on |-> TRUE, secret |-> Original, ver |-> 0]

\* Mutant: INTEGER PRIMARY KEY without AUTOINCREMENT.
NextIdReused(t) ==
    LET ids == {r.id : r \in db[t]}
    IN  IF ids = {} THEN 1 ELSE 1 + CHOOSE i \in ids : \A j \in ids : j <= i

\* AUTOINCREMENT: an id is never given twice.
NextId(t) == seq[t] + 1

With(t, rows) == db' = [db EXCEPT ![t] = rows]
Written(r, on, secret) ==
    [r EXCEPT !.on = on, !.secret = IF secret = Keep THEN @ ELSE secret, !.ver = @ + 1]
RowsWith(t, i) == {r \in db[t] : r.id = i}

Spend(b, max) == used[b] < max /\ used' = [used EXCEPT ![b] = @ + 1]

(***************************************************************************)
(* Dialogs.                                                                *)
(***************************************************************************)
NoPick == [id |-> 0, pair |-> <<0, 0>>]
NoForm == [open |-> "none", id |-> 0, born |-> 0, on |-> TRUE, ver |-> 0, touched |-> FALSE,
           secret |-> Blank, dirty |-> FALSE, filled |-> FALSE, pick |-> NoPick]

Is(p, d) == page = p /\ form.open = d

\* Mutant: the chosen mountpoint outlives the dialog.
ClosedKeepsPick(f) == [NoForm EXCEPT !.secret = f.secret, !.dirty = f.dirty, !.pick = f.pick]

\* The target is null, UserBindingsSection is unmounted with the dialog, and
\* the fields stay; those that every opening sets are forgotten at once.
Closed(f) == [NoForm EXCEPT !.secret = f.secret, !.dirty = f.dirty]

\* Its mutations are then nobody's, those of a page when the page is left.
Detached(rs, ops) == {[m EXCEPT !.attached = @ /\ m.op \notin ops] : m \in rs}
SectionOps == {"bind", "unbind"}
AllOps == {"create", "update", "delete", "kickSource", "kickClient"} \cup SectionOps

\* isPending of the page's or the section's useMutation
Pending(op) == \E m \in requests : m.op = op /\ m.attached

\* mutateAsync
Body(op, t, i) == [n |-> used.sends, op |-> op, t |-> t, id |-> i, other |-> 0, on |-> TRUE,
                   secret |-> Keep, touched |-> FALSE, ver |-> 0, stage |-> "sent", attached |-> TRUE]
Mutate(m) ==
    /\ Spend("sends", MaxSends)
    /\ requests' = requests \cup {m}
    /\ UNCHANGED <<page, db, seq, list, form>>

Confirm(t, b) == asked' = [asked EXCEPT !.gone = @ \cup {<<t, b>>}]

\* A save of row i: the value that should be stored from now on, unless a
\* save from before the page was left is still on its way.
SaveAsked(t, i, on) ==
    LET others == {w \in asked.saved : w.t # t \/ w.id # i}
        early == \E m \in requests : m.op = "update" /\ m.t = t /\ m.id = i /\ ~m.attached
    IN  asked' = [asked EXCEPT !.saved =
                    IF early THEN others ELSE others \cup {[t |-> t, id |-> i, on |-> on]}]
SaveForgotten(t, i) == {w \in asked.saved : w.t # t \/ w.id # i}

\* A button of the table, under no dialog.
Open(p, f) ==
    /\ Is(p, "none")
    /\ Spend("opens", MaxOpens)
    /\ form' = f
    /\ UNCHANGED <<page, db, seq, list, requests, asked>>

\* A field of a dialog.
Enter(p, d, f) ==
    /\ Is(p, d)
    /\ form' = f
    /\ UNCHANGED <<page, db, seq, list, requests, used, asked>>

Target(d, i, b) == [form EXCEPT !.open = d, !.id = i, !.born = b]

\* Cancel, Escape or a click beside the dialog
Cancel ==
    /\ form.open # "none"
    /\ form' = Closed(form)
    /\ requests' = Detached(requests, SectionOps)
    /\ UNCHANGED <<page, db, seq, list, used, asked>>

(***************************************************************************)
(* users.tsx                                                               *)
(***************************************************************************)
UserTable == list.users
CreateUserDialog == Is("users", "create") /\ form.filled /\ ~Pending("create")
EditUserDialog == Is("users", "edit") /\ ~Pending("update")
DeleteUserDialog == Is("users", "delete")

UsersOpenCreate == Open("users", [form EXCEPT !.open = "create", !.filled = FALSE])

UsersFill == Enter("users", "create", [form EXCEPT !.filled = TRUE])

\* Mutant: the dialog starts with its default instead of the row's value.
UsersOpenEditDefault(r) ==
    Open("users", [Target("edit", r.id, r.born) EXCEPT !.on = TRUE, !.ver = r.ver,
                   !.touched = FALSE, !.secret = Blank])

UsersOpenEdit(r) ==
    Open("users", [Target("edit", r.id, r.born) EXCEPT !.on = r.on, !.ver = r.ver,
                   !.touched = FALSE, !.secret = Blank])

UsersToggle == ~form.touched /\ Enter("users", "edit", [form EXCEPT !.on = ~@, !.touched = TRUE])

UsersType == Enter("users", "edit", [form EXCEPT !.secret = Typed(form.born)])

UsersOpenDelete(r) == Open("users", Target("delete", r.id, r.born))

UsersHandleCreate == CreateUserDialog /\ Mutate(Body("create", "users", 0)) /\ UNCHANGED asked

\* The password is sent when it is not empty.
UsersHandleUpdate ==
    /\ EditUserDialog
    /\ SaveAsked("users", form.id, form.on)
    /\ Mutate([Body("update", "users", form.id) EXCEPT
                 !.on = form.on, !.touched = form.touched, !.ver = form.ver,
                 !.secret = IF form.secret # Blank THEN form.secret ELSE Keep])

UsersHandleDelete ==
    /\ DeleteUserDialog
    /\ Confirm("users", form.born)
    /\ Mutate(Body("delete", "users", form.id))

\* UserBindingsSection
UserBindings == {b \in list.bindings : b.user = form.id}
AvailableMountpoints == {r \in list.mountpoints : \A b \in UserBindings : b.mount # r.id}

SelectMountpoint(r) ==
    Enter("users", "edit", [form EXCEPT !.pick = [id |-> r.id, pair |-> <<form.born, r.born>>]])

\* A mountpoint that has become unavailable is silently not added.
HandleAdd ==
    /\ Is("users", "edit") /\ form.pick.id # 0 /\ ~Pending("bind")
    /\ \E r \in AvailableMountpoints : r.id = form.pick.id
    /\ Mutate([Body("bind", "bindings", form.id) EXCEPT !.other = form.pick.id])
    /\ asked' = [asked EXCEPT !.bound = @ \cup {form.pick.pair}]

HandleRemove(b) ==
    /\ Is("users", "edit") /\ b \in UserBindings
    /\ Confirm("bindings", b.born)
    /\ Mutate(Body("unbind", "bindings", b.id))

(***************************************************************************)
(* mountpoints.tsx                                                         *)
(***************************************************************************)
MountpointTable == list.mountpoints
CreateMountpointDialog == Is("mountpoints", "create") /\ form.filled /\ ~Pending("create")

\* Mutant: the button is not disabled while a save is under way.
EditMountpointUnguarded == Is("mountpoints", "edit")

EditMountpointDialog == Is("mountpoints", "edit") /\ ~Pending("update")

DeleteMountpointDialog == Is("mountpoints", "delete")

MountsOpenCreate == Open("mountpoints", [form EXCEPT !.open = "create", !.filled = FALSE])
MountsFill == Enter("mountpoints", "create", [form EXCEPT !.filled = TRUE])

\* Mutant: the secret of the dialog before is not cleared.
MountsOpenEditKeeps(r) ==
    Open("mountpoints", [Target("edit", r.id, r.born) EXCEPT !.on = r.on, !.ver = r.ver,
                         !.touched = FALSE])

MountsOpenEdit(r) ==
    Open("mountpoints", [Target("edit", r.id, r.born) EXCEPT !.on = r.on, !.ver = r.ver,
                         !.touched = FALSE, !.secret = Blank, !.dirty = FALSE])

MountsToggle ==
    ~form.touched /\ Enter("mountpoints", "edit", [form EXCEPT !.on = ~@, !.touched = TRUE])

\* The secret's field and the button that empties it
MountsType(s) == Enter("mountpoints", "edit", [form EXCEPT !.secret = s, !.dirty = TRUE])

MountsOpenDelete(r) == Open("mountpoints", Target("delete", r.id, r.born))

MountsHandleCreate ==
    CreateMountpointDialog /\ Mutate(Body("create", "mountpoints", 0)) /\ UNCHANGED asked

\* The secret is sent when its field was touched, also when it is empty.
MountsHandleUpdate ==
    /\ EditMountpointDialog
    /\ SaveAsked("mountpoints", form.id, form.on)
    /\ Mutate([Body("update", "mountpoints", form.id) EXCEPT
                 !.on = form.on, !.touched = form.touched, !.ver = form.ver,
                 !.secret = IF form.dirty THEN form.secret ELSE Keep])

MountsHandleDelete ==
    /\ DeleteMountpointDialog
    /\ Confirm("mountpoints", form.born)
    /\ Mutate(Body("delete", "mountpoints", form.id))

(***************************************************************************)
(* connections.tsx.  The target of a source's dialog is its mountpoint.    *)
(***************************************************************************)
Sources == {c \in list.conns : c.kind = "source"}
Clients == {c \in list.conns : c.kind = "client"}
KickSourceDialog == Is("connections", "kickSource")
KickClientDialog == Is("connections", "kickClient")

HandleKickSourceItem(c) == Open("connections", Target("kickSource", c.mount, 0))
HandleKickClientItem(c) == Open("connections", Target("kickClient", c.id, 0))

HandleKickSource ==
    /\ KickSourceDialog
    /\ Confirm("mount", form.id)
    /\ Mutate(Body("kickSource", "conns", form.id))

HandleKickClient ==
    /\ KickClientDialog
    /\ Confirm("client", form.id)
    /\ Mutate(Body("kickClient", "conns", form.id))

(***************************************************************************)
(* handlers.go: a request is carried out, stage is its answer.             *)
(***************************************************************************)
Answer(m, stage) == requests' = (requests \ {m}) \cup {[m EXCEPT !.stage = stage]}
Refused(m) == Answer(m, "failed") /\ UNCHANGED <<db, seq>>

Insert(t, row) ==
    /\ With(t, db[t] \cup {row})
    /\ seq' = [seq EXCEPT ![t] = @ + 1]

\* A name that is taken is refused.
Create(m) ==
    \/ Insert(m.t, Row(NextId(m.t), seq[m.t] + 1)) /\ Answer(m, "ok")
    \/ Refused(m)

\* UpdateUser and UpdateMountpoint: 404 when the row is gone
Update(m) ==
    IF RowsWith(m.t, m.id) = {} THEN Refused(m)
    ELSE /\ With(m.t, {IF r.id = m.id THEN Written(r, m.on, m.secret) ELSE r : r \in db[m.t]})
         /\ Answer(m, "ok")
         /\ UNCHANGED seq

\* ON DELETE CASCADE works on the pooled connection that was told to.
Erase(t, i) ==
    \E cascade \in BOOLEAN :
        db' = [db EXCEPT ![t] = {r \in @ : r.id # i},
                         !.bindings = {b \in @ : ~cascade \/
                             i # (IF t = "users" THEN b.user ELSE b.mount)}]

DeleteUser(m) == Erase("users", m.id) /\ Answer(m, "ok") /\ UNCHANGED seq

DeleteMountpoint(m) ==
    IF RowsWith("mountpoints", m.id) = {} THEN Refused(m)
    ELSE Erase("mountpoints", m.id) /\ Answer(m, "ok") /\ UNCHANGED seq

\* AddBinding is INSERT OR IGNORE; the foreign keys are checked on the
\* connection that was told to.
CreateBinding(m) ==
    \/ /\ \E b \in db.bindings : b.user = m.id /\ b.mount = m.other
       /\ Answer(m, "ok") /\ UNCHANGED <<db, seq>>
    \/ /\ \A b \in db.bindings : b.user # m.id \/ b.mount # m.other
       /\ Insert("bindings", [id |-> NextId("bindings"), born |-> seq.bindings + 1,
                              user |-> m.id, mount |-> m.other])
       /\ Answer(m, "ok")
    \/ /\ RowsWith("users", m.id) = {} \/ RowsWith("mountpoints", m.other) = {}
       /\ Refused(m)

DeleteBinding(m) ==
    With("bindings", {b \in db.bindings : b.id # m.id}) /\ Answer(m, "ok") /\ UNCHANGED seq

\* ClearSource also closes the clients of the mountpoint.
KickSource(m) ==
    IF RowsWith("mountpoints", m.id) = {} THEN Refused(m)
    ELSE /\ With("conns", IF \E c \in db.conns : c.kind = "source" /\ c.mount = m.id
                          THEN {c \in db.conns : c.mount # m.id} ELSE db.conns)
         /\ Answer(m, "ok") /\ UNCHANGED seq

KickClient(m) ==
    /\ With("conns", {c \in db.conns : c.kind # "client" \/ c.id # m.id})
    /\ Answer(m, "ok") /\ UNCHANGED seq

Handle(m) ==
    CASE m.op = "create" -> Create(m)
      [] m.op = "update" -> Update(m)
      [] m.op = "delete" -> IF m.t = "users" THEN DeleteUser(m) ELSE DeleteMountpoint(m)
      [] m.op = "bind" -> CreateBinding(m)
      [] m.op = "unbind" -> DeleteBinding(m)
      [] m.op = "kickSource" -> KickSource(m)
      [] m.op = "kickClient" -> KickClient(m)

Arrive(m) ==
    /\ m.stage = "sent"
    /\ Handle(m)
    /\ UNCHANGED <<page, list, form, used, asked>>

\* The request never arrives, or its answer does not.
Lose(m) ==
    /\ Spend("others", MaxOthers)
    /\ m.stage \in {"sent", "ok"}
    /\ Answer(m, "failed")
    /\ asked' = IF m.op = "update" THEN [asked EXCEPT !.saved = SaveForgotten(m.t, m.id)] ELSE asked
    /\ UNCHANGED <<page, db, seq, list, form>>

(***************************************************************************)
(* The promise of mutateAsync.                                             *)
(***************************************************************************)
DialogOf(op) == CASE op = "update" -> "edit" [] op \in SectionOps -> "none" [] OTHER -> op

\* The rest of handleCreate and the others: after the invalidated list has
\* been read again, or could not be, a success closes the dialog or empties
\* the selection, a failure leaves both.
Report(m) ==
    /\ m.stage # "sent"
    /\ list' \in IF m.stage = "ok" THEN {list, [list EXCEPT ![m.t] = db[m.t]]} ELSE {list}
    /\ LET closes == m.stage = "ok" /\ m.attached /\ form.open = DialogOf(m.op)
                     /\ form.open # "none"
       IN  /\ form' = IF closes THEN Closed(form)
                      ELSE IF m.stage = "ok" /\ m.attached /\ m.op = "bind"
                      THEN [form EXCEPT !.pick = NoPick] ELSE form
           /\ requests' = Detached(requests \ {m}, IF closes THEN SectionOps ELSE {})
    /\ UNCHANGED <<page, db, seq, used, asked>>

(***************************************************************************)
(* Lists are read again, pages change, others work too.                    *)
(***************************************************************************)
ListsOf(p) ==
    CASE p = "users" -> {"users", "mountpoints", "bindings"}
      [] p = "mountpoints" -> {"mountpoints"}
      [] p = "connections" -> {"conns"}

Refresh(t) ==
    /\ t \in ListsOf(page)
    /\ list' = [list EXCEPT ![t] = db[t]]
    /\ UNCHANGED <<page, db, seq, form, requests, used, asked>>

\* The page is left, and p is the next of these three to be opened: its
\* state is new, and mutations go on.
Navigate(p) ==
    /\ form.open = "none"
    /\ Spend("moves", MaxMoves)
    /\ page' = p /\ form' = NoForm
    /\ requests' = Detached(requests, AllOps)
    /\ UNCHANGED <<db, seq, list, asked>>

\* Another administrator
OtherWrite(t, r) ==
    /\ Spend("others", MaxOthers)
    /\ With(t, (db[t] \ {r}) \cup {Written(r, ~r.on, Keep)})
    /\ asked' = [asked EXCEPT !.saved = SaveForgotten(t, r.id)]
    /\ UNCHANGED <<page, seq, list, form, requests>>

OtherCreate(t) ==
    /\ Spend("others", MaxOthers)
    /\ Insert(t, Row(NextId(t), seq[t] + 1))
    /\ UNCHANGED <<page, list, form, requests, asked>>

OtherDelete(t, r) ==
    /\ Spend("others", MaxOthers)
    /\ Erase(t, r.id)
    /\ UNCHANGED <<page, seq, list, form, requests, asked>>

\* A station or a rover connects or goes, for example because the row it
\* needs is disabled or deleted.
Connect(c) ==
    /\ Spend("others", MaxOthers)
    /\ \A d \in db.conns : d.id # c.id /\ (c.kind = "source" => d.kind = "client" \/ d.mount # c.mount)
    /\ c.id > seq.conns
    /\ db' = [db EXCEPT !.conns = @ \cup {c}]
    /\ seq' = [seq EXCEPT !.conns = c.id]
    /\ UNCHANGED <<page, list, form, requests, asked>>

Disconnect(c) ==
    /\ Spend("others", MaxOthers)
    /\ db' = [db EXCEPT !.conns = @ \ {c}]
    /\ UNCHANGED <<page, seq, list, form, requests, asked>>

Largest(S) == IF S = {} THEN 0 ELSE CHOOSE i \in S : \A j \in S : j <= i

Init ==
    /\ page \in Pages
    /\ db = [users |-> {Row(i, i) : i \in Users}, mountpoints |-> {Row(i, i) : i \in Mounts},
             bindings |-> {}, conns |-> Conns]
    /\ seq = [users |-> Largest(Users), mountpoints |-> Largest(Mounts), bindings |-> 0,
              conns |-> Largest({c.id : c \in Conns})]
    /\ list = db
    /\ form = NoForm
    /\ requests = {}
    /\ used = [moves |-> 0, opens |-> 0, sends |-> 0, others |-> 0]
    /\ asked = [gone |-> {}, saved |-> {}, bound |-> {}]

UsersNext ==
    \/ UsersOpenCreate \/ UsersFill \/ UsersToggle
    \/ UsersType
    \/ UsersHandleCreate \/ UsersHandleUpdate \/ UsersHandleDelete
    \/ \E r \in UserTable : UsersOpenEdit(r) \/ UsersOpenDelete(r)
    \/ \E r \in AvailableMountpoints : SelectMountpoint(r)
    \/ HandleAdd
    \/ \E b \in list.bindings : HandleRemove(b)

MountsNext ==
    \/ MountsOpenCreate \/ MountsFill \/ MountsToggle
    \/ MountsType(Typed(form.born)) \/ MountsType(Emptied(form.born))
    \/ MountsHandleCreate \/ MountsHandleUpdate \/ MountsHandleDelete
    \/ \E r \in MountpointTable : MountsOpenEdit(r) \/ MountsOpenDelete(r)

ConnsNext ==
    \/ \E c \in Sources : HandleKickSourceItem(c)
    \/ \E c \in Clients : HandleKickClientItem(c)
    \/ HandleKickSource \/ HandleKickClient

\* Others are followed where they meet the page that is open.
OtherNext ==
    \/ \E t \in Tables \cap (ListsOf(page) \cup {"mountpoints"}) :
         OtherCreate(t) \/ \E r \in db[t] : OtherWrite(t, r) \/ OtherDelete(t, r)
    \/ page = "connections" /\ \E k \in {"source", "client"}, i \in 1 .. MaxConn, d \in Mounts :
         Connect([kind |-> k, id |-> i, mount |-> d])
    \/ page = "connections" /\ \E c \in db.conns : Disconnect(c)

Next ==
    \/ UsersNext \/ MountsNext \/ ConnsNext \/ OtherNext
    \/ Cancel
    \/ \E m \in requests : Arrive(m) \/ Lose(m) \/ Report(m)
    \/ \E t \in Stores : Refresh(t)
    \/ \E p \in Pages : Navigate(p)

Spec == Init /\ [][Next]_vars

(***************************************************************************)
(* Properties.                                                             *)
(***************************************************************************)
Ids == Nat
SecretType == {"original", "keep", "blank", "typed", "emptied"} \X Ids
RowType == [id : Ids, born : Ids, on : BOOLEAN, secret : SecretType, ver : Nat]
ConnType == [kind : {"source", "client"}, id : 1 .. MaxConn, mount : Mounts]
BindingType == [id : Ids, born : Ids, user : Ids, mount : Ids]
StoreType(s) ==
    /\ s.users \subseteq RowType /\ s.mountpoints \subseteq RowType
    /\ s.bindings \subseteq BindingType /\ s.conns \subseteq ConnType

\* The console's state has its type; no two rows of a table share an id.
TypeOK ==
    /\ page \in Pages
    /\ StoreType(db) /\ StoreType(list)
    /\ \A t \in Stores : seq[t] \in Nat /\ \A r, s \in db[t] : r.id = s.id => r = s
    /\ form \in [open : {"none", "create", "edit", "delete", "kickSource", "kickClient"},
                 id : Ids, born : Ids, on : BOOLEAN, ver : Nat, touched : BOOLEAN,
                 secret : SecretType, dirty : BOOLEAN, filled : BOOLEAN, pick : [id : Ids, pair : Ids \X Ids]]
    /\ requests \subseteq
         [n : 0 .. MaxSends, op : AllOps, t : Stores, id : Ids, other : Ids, on : BOOLEAN,
          secret : SecretType, touched : BOOLEAN, ver : Nat, stage : {"sent", "ok", "failed"},
          attached : BOOLEAN]

\* A stored password or station secret was set when the row was created, or
\* typed into the dialog of this very row, or, for a mountpoint, emptied
\* there: whatever dialogs were opened, cancelled and saved before, and
\* whatever was deleted and created meanwhile (openEdit resets the field).
SecretIntended ==
    \A t \in Tables : \A r \in db[t] :
        \/ r.secret \in {Original, Typed(r.born)}
        \/ t = "mountpoints" /\ r.secret = Emptied(r.born)

\* A save leaves enabled as it is when the switch was not touched and nobody
\* has written the row since the list was read (openEdit copies the row; a
\* save always sends enabled).
UntouchedKept ==
    [][\A m \in requests : m.op = "update" /\ ~m.touched /\ Arrive(m) =>
         \A r \in RowsWith(m.t, m.id) : r.ver = m.ver =>
             \E s \in db'[m.t] : s.id = r.id /\ s.on = r.on]_vars

\* Saves of a row do not overtake each other: once none is on its way the
\* last one that was made is stored, unless another administrator wrote the
\* row, a save failed, or the page was left while a save was on its way (the
\* button is disabled while isPending).
LastSaveStored ==
    \A w \in asked.saved :
        (\A m \in requests : m.op # "update" \/ m.t # w.t \/ m.id # w.id \/ m.stage # "sent") =>
            \A r \in RowsWith(w.t, w.id) : r.on = w.on

\* What a request of the console takes away is what the administrator
\* confirmed: that row, also when the button was pressed twice and rows came
\* and went between the two requests; that client; or the source of that
\* mountpoint with its clients.
OnlyConfirmedGone ==
    [][\A m \in requests : Arrive(m) =>
         /\ \A t \in Tables : \A r \in db[t] :
              <<t, r.born>> \in asked.gone \/ \E s \in db'[t] : s.born = r.born
         /\ \A c \in db.conns \ db'.conns :
              <<c.kind, c.id>> \in asked.gone \/ <<"mount", c.mount>> \in asked.gone]_vars

\* A user may use a mountpoint only if that was chosen in the dialog of that
\* user, even where deletions leave bindings behind.
BindingsIntended ==
    \A b \in db.bindings : \A u \in RowsWith("users", b.user) :
        \A d \in RowsWith("mountpoints", b.mount) : <<u.born, d.born>> \in asked.bound
=============================================================================
