--------------------------- MODULE DialogsProofs ---------------------------
(***************************************************************************)
(* What Dialogs promises, for any number of rows, dialogs, saves, changes  *)
(* by others and lost answers.                                             *)
(*                                                                         *)
(* Everything rests on ids that are never given twice (AUTOINCREMENT): the *)
(* target of a dialog, a request under way and a row of a stale list name  *)
(* by their id the row they were made for, or no row at all.  From there:  *)
(* the fields of a dialog belong to its target (FormOK, FormFresh), a      *)
(* request carries what the dialog asked for (RequestsOK, RequestsFresh),  *)
(* and the tables hold what requests carried.                              *)
(***************************************************************************)
EXTENDS Dialogs, FiniteSetTheorems, WellFoundedInduction, TLAPS

(***************************************************************************)
(* The inductive invariant.                                                *)
(***************************************************************************)
AnyRow == RowType \cup BindingType \cup ConnType
IsStore(s) == s \in [Stores -> SUBSET AnyRow] /\ StoreType(s)

FormType ==
    [open : {"none", "create", "edit", "delete", "kickSource", "kickClient"},
     id : Ids, born : Ids, on : BOOLEAN, ver : Nat, touched : BOOLEAN,
     secret : SecretType, dirty : BOOLEAN, filled : BOOLEAN,
     pick : [id : Ids, pair : Ids \X Ids]]

RequestType ==
    [n : 0 .. MaxSends, op : AllOps, t : Stores, id : Ids, other : Ids, on : BOOLEAN,
     secret : SecretType, touched : BOOLEAN, ver : Nat, stage : {"sent", "ok", "failed"},
     attached : BOOLEAN]

UsedType == [moves : 0 .. MaxMoves, opens : 0 .. MaxOpens, sends : 0 .. MaxSends,
             others : 0 .. MaxOthers]

Confirmable == Tables \cup {"bindings", "mount", "client"}
AskedType == [gone : SUBSET (Confirmable \X Ids), saved : SUBSET [t : Tables, id : Ids, on : BOOLEAN],
              bound : SUBSET (Ids \X Ids)]

\* Every variable is a record of the right shape.
Shaped ==
    /\ page \in Pages
    /\ IsStore(db) /\ IsStore(list)
    /\ seq \in [Stores -> Nat]
    /\ form \in FormType
    /\ requests \subseteq RequestType
    /\ used \in UsedType
    /\ asked \in AskedType

\* The rows that exist or that a list still shows: an id says which row of
\* the history of its table a row is, and is not above the last one given.
Known(t, r) == r.id = r.born /\ r.id <= seq[t]
RowsKnown == \A t \in Tables \cup {"bindings"} : \A r \in db[t] \cup list[t] : Known(t, r)
ConnsKnown == \A c \in db.conns : c.id <= seq.conns
IdsUnique == \A t \in Stores : \A r, s \in db[t] : r.id = s.id => r = s

\* The target of an edit or delete dialog is a row its page has listed, and
\* what was entered was entered for it.
FormOK ==
    /\ form.open \in {"edit", "delete"} =>
         page \in Tables /\ form.id = form.born /\ form.id <= seq[page]
    /\ form.open = "edit" =>
         /\ \/ form.secret \in {Blank, Typed(form.born)}
            \/ page = "mountpoints" /\ form.secret = Emptied(form.born)
         /\ page = "mountpoints" /\ form.dirty => form.secret # Blank
    /\ form.pick.id # 0 => form.open = "edit" /\ form.pick.pair = <<form.born, form.pick.id>>

\* What a request does was asked for in the dialog that sent it.
RequestOK(m) ==
    /\ m.op = "create" => m.t \in Tables
    /\ m.op = "update" =>
         /\ m.t \in Tables /\ m.id <= seq[m.t]
         /\ \/ m.secret \in {Keep, Typed(m.id)}
            \/ m.t = "mountpoints" /\ m.secret = Emptied(m.id)
    /\ m.op = "delete" => m.t \in Tables /\ <<m.t, m.id>> \in asked.gone
    /\ m.op = "kickSource" => <<"mount", m.id>> \in asked.gone
    /\ m.op = "kickClient" => <<"client", m.id>> \in asked.gone
    /\ m.op = "bind" => <<m.id, m.other>> \in asked.bound
RequestsOK == \A m \in requests : RequestOK(m)

BoundOK == \A b \in db.bindings : <<b.user, b.mount>> \in asked.bound

\* While a save is remembered, every save of its row on the way is that one.
SavesOK ==
    \A w \in asked.saved :
        /\ w.id <= seq[w.t]
        /\ \A m \in requests : m.op = "update" /\ m.t = w.t /\ m.id = w.id => m.on = w.on

\* A copy of a row that was taken at version ver with the value on is not
\* newer than the row, and has its value while nobody has written it since.
Fresh(t, i, ver, on) ==
    \A r \in db[t] : r.id = i => ver <= r.ver /\ (ver = r.ver => r.on = on)
FreshOrTouched(t, i, ver, on, touched) ==
    \A r \in db[t] : r.id = i => ver <= r.ver /\ (ver = r.ver /\ ~touched => r.on = on)
ListFresh == \A t \in Tables : \A r \in list[t] : Fresh(t, r.id, r.ver, r.on)
FormFresh ==
    form.open = "edit" => FreshOrTouched(page, form.id, form.ver, form.on, form.touched)
RequestsFresh ==
    \A m \in requests : m.op = "update" => FreshOrTouched(m.t, m.id, m.ver, m.on, m.touched)

Identified == RowsKnown /\ ConnsKnown /\ IdsUnique
Meant == FormOK /\ RequestsOK /\ BoundOK /\ SecretIntended
Versions == ListFresh /\ FormFresh /\ RequestsFresh
Saves == SavesOK /\ LastSaveStored

IInv == Shaped /\ Identified /\ Meant /\ Versions /\ Saves

(***************************************************************************)
(* Numbers.                                                                *)
(***************************************************************************)
\* A set of natural numbers has a least element: the induction of the two
\* lemmas that follow.
LEMMA NatMin ==
    ASSUME NEW T, T \subseteq Nat, T # {}
    PROVE  \E x \in T : \A y \in T : x <= y
<1>1. PICK x \in T : \A y \in T : ~(<<y, x>> \in OpToRel(<, Nat))
  BY NatLessThanWellFounded, WFMin
<1>2. ASSUME NEW y \in T, ~(x <= y) PROVE FALSE
  <2>1. x \in Nat /\ y \in Nat /\ y < x
    BY <1>2
  <2>2. <<y, x>> \in Nat \X Nat /\ <<y, x>>[1] = y /\ <<y, x>>[2] = x
    BY <2>1
  <2>3. <<y, x>> \in OpToRel(<, Nat)
    BY <2>1, <2>2 DEF OpToRel
  <2> QED BY <1>1, <2>3
<1> QED BY <1>2

\* A finite set of ids is bounded.
LEMMA FiniteBounded ==
    ASSUME NEW S, S \subseteq Nat, IsFiniteSet(S)
    PROVE  \E b \in Nat : \A i \in S : i <= b
<1>1. PICK n \in Nat : ExistsSurjection(1 .. n, S)
  BY FS_NatSurjection
<1>2. PICK f \in [1 .. n -> S] : \A i \in S : \E j \in 1 .. n : f[j] = i
  BY <1>1 DEF ExistsSurjection, Surjection
<1> DEFINE Bounded(k) == \E b \in Nat : \A j \in 1 .. k : f[j] <= b
           Bad == {k \in 0 .. n : ~Bounded(k)}
<1>3. ASSUME Bounded(n) PROVE \E b \in Nat : \A i \in S : i <= b
  <2>1. PICK b \in Nat : \A j \in 1 .. n : f[j] <= b
    BY <1>3
  <2> QED BY <2>1, <1>2
<1>4. SUFFICES ASSUME ~Bounded(n) PROVE FALSE
  BY <1>3
<1>5. PICK k \in Bad : \A y \in Bad : k <= y
  <2>1. Bad \subseteq Nat
    OBVIOUS
  <2>2. n \in Bad
    BY <1>4
  <2> HIDE DEF Bad
  <2> QED BY <2>1, <2>2, NatMin
<1>6. Bounded(0)
  OBVIOUS
<1>7. k \in 1 .. n /\ k - 1 \in 0 .. n /\ k - 1 \notin Bad
  <2> HIDE DEF Bounded
  <2> QED BY <1>5, <1>6
<1>8. PICK b \in Nat : \A j \in 1 .. (k - 1) : f[j] <= b
  BY <1>7
<1>9. f[k] \in Nat
  BY <1>7
<1>10. b + f[k] \in Nat /\ \A j \in 1 .. k : f[j] <= b + f[k]
  <2>1. ASSUME NEW j \in 1 .. k PROVE f[j] <= b + f[k]
    <3>1. j \in 1 .. n
      BY <1>7
    <3>2. f[j] \in Nat
      BY <3>1
    <3> QED BY <3>2, <1>7, <1>8, <1>9, SMTT(30)
  <2> QED BY <2>1, <1>9
<1>11. Bounded(k)
  BY <1>10
<1> HIDE DEF Bounded
<1> QED BY <1>5, <1>11

\* sqlite_sequence starts at the largest id: no row is above it.
LEMMA LargestIsBound ==
    ASSUME NEW S, S \subseteq Nat, IsFiniteSet(S)
    PROVE  Largest(S) \in Nat /\ \A i \in S : i <= Largest(S)
<1>1. CASE S = {}
  BY <1>1 DEF Largest
<1>2. CASE S # {}
  <2> DEFINE T == {b \in Nat : \A i \in S : i <= b}
  <2>1. T \subseteq Nat /\ T # {}
    BY FiniteBounded
  <2>2. PICK m \in T : \A b \in T : m <= b
    <3> HIDE DEF T
    <3> QED BY <2>1, NatMin
  <2>3. m \in S
    <3>1. SUFFICES ASSUME m \notin S PROVE FALSE
      OBVIOUS
    <3>2. PICK i \in S : TRUE
      BY <1>2
    <3>3. \A j \in S : j \in Nat /\ j <= m /\ j # m
      BY <3>1
    <3>4. m - 1 \in Nat /\ \A j \in S : j <= m - 1
      BY <3>2, <3>3
    <3> QED BY <3>4, <2>2
  <2>4. \A j \in S : j <= m
    OBVIOUS
  <2> QED BY <2>3, <2>4, <1>2 DEF Largest
<1> QED BY <1>1, <1>2

(***************************************************************************)
(* Stores and rows.                                                        *)
(***************************************************************************)
\* The rows of a store, by table.
LEMMA StoreRows ==
    ASSUME NEW s, IsStore(s)
    PROVE  /\ \A t \in Tables : s[t] \subseteq RowType
           /\ s["bindings"] \subseteq BindingType
           /\ s["conns"] \subseteq ConnType
BY DEF IsStore, StoreType, Tables, Stores

\* A store with one of its tables replaced, and after a deletion that may
\* cascade.
Replaced(s, t, x) == [s EXCEPT ![t] = x]
Erased(s, t, x, y) == [s EXCEPT ![t] = x, !.bindings = y]

LEMMA StoreExcept ==
    ASSUME NEW s, IsStore(s), NEW t \in Stores, NEW x, NEW z, z = Replaced(s, t, x),
           t \in Tables => x \subseteq RowType,
           t = "bindings" => x \subseteq BindingType,
           t = "conns" => x \subseteq ConnType
    PROVE  IsStore(z) /\ z[t] = x /\ \A u \in Stores \ {t} : z[u] = s[u]
<1>1. x \subseteq AnyRow
  BY DEF Stores, Tables, AnyRow
<1>2. s \in [Stores -> SUBSET AnyRow]
  BY DEF IsStore
<1>3. /\ z \in [Stores -> SUBSET AnyRow]
      /\ z[t] = x /\ \A u \in Stores \ {t} : z[u] = s[u]
  BY <1>1, <1>2 DEF Replaced
<1>4. StoreType(z)
  BY <1>3, StoreRows DEF StoreType, Stores, Tables
<1> QED BY <1>3, <1>4 DEF IsStore

LEMMA StoreErased ==
    ASSUME NEW s, IsStore(s), NEW t \in Tables, NEW x, NEW y, NEW z,
           z = Erased(s, t, x, y),
           x \subseteq s[t], y \subseteq s["bindings"]
    PROVE  /\ IsStore(z) /\ z[t] = x /\ z["bindings"] = y
           /\ \A u \in Stores \ {t, "bindings"} : z[u] = s[u]
<1>1. x \subseteq AnyRow /\ y \subseteq AnyRow
  BY StoreRows DEF AnyRow
<1>2. s \in [Stores -> SUBSET AnyRow]
  BY DEF IsStore
<1>3. t \in Stores /\ t # "bindings" /\ "bindings" \in Stores
  BY DEF Stores, Tables
<1>4. /\ z \in [Stores -> SUBSET AnyRow]
      /\ z[t] = x /\ z["bindings"] = y
      /\ \A u \in Stores \ {t, "bindings"} : z[u] = s[u]
  BY <1>1, <1>2, <1>3 DEF Erased
<1>5. x \subseteq RowType /\ y \subseteq BindingType
  BY StoreRows
<1>6. StoreType(z)
  BY <1>4, <1>5, StoreRows DEF StoreType, Stores, Tables
<1> QED BY <1>4, <1>6 DEF IsStore

\* The fields of a row that was written.
LEMMA WrittenFields ==
    ASSUME NEW r \in RowType, NEW on \in BOOLEAN, NEW secret \in SecretType,
           NEW s, s = Written(r, on, secret)
    PROVE  /\ s \in RowType
           /\ s.id = r.id /\ s.born = r.born /\ s.on = on /\ s.ver = r.ver + 1
           /\ s.secret = (IF secret = Keep THEN r.secret ELSE secret)
<1>1. PICK x \in SecretType : x = IF secret = Keep THEN r.secret ELSE secret
  BY DEF RowType
<1>2. s = [r EXCEPT !.on = on, !.secret = x, !.ver = r.ver + 1]
  BY <1>1 DEF Written, RowType
<1> HIDE DEF SecretType
<1>3. s.id = r.id /\ s.born = r.born /\ s.ver = r.ver + 1 /\ s.secret = x
  BY <1>2 DEF RowType
<1>4. s.on = on
  BY <1>2 DEF RowType
<1>5. s \in RowType
  <2>1. \A o \in BOOLEAN, v \in Nat : [r EXCEPT !.on = o, !.secret = x, !.ver = v] \in RowType
    BY DEF RowType
  <2>2. r.ver + 1 \in Nat
    BY DEF RowType
  <2> QED BY <1>2, <2>1, <2>2
<1> QED BY <1>1, <1>3, <1>4, <1>5

\* The fields of a new row.
LEMMA RowFields ==
    ASSUME NEW i \in Nat, NEW b \in Nat, NEW s, s = Row(i, b)
    PROVE  /\ s \in RowType
           /\ s.id = i /\ s.born = b /\ s.ver = 0 /\ s.secret = Original
BY DEF RowType, Row, Original, SecretType, Ids

\* A bound is spent within its limit.
LEMMA SpendTyped ==
    ASSUME used \in UsedType,
           \/ Spend("moves", MaxMoves) \/ Spend("opens", MaxOpens)
           \/ Spend("sends", MaxSends) \/ Spend("others", MaxOthers)
    PROVE  used' \in UsedType
BY DialogsAssumption DEF UsedType, Spend

(***************************************************************************)
(* Dialogs: a step that changes only the dialog and what is spent.         *)
(***************************************************************************)
LEMMA FormStep ==
    ASSUME IInv, UNCHANGED <<page, db, seq, list, requests, asked>>,
           used' \in UsedType, form' \in FormType, FormOK', FormFresh'
    PROVE  IInv'
<1>1. Shaped'
  BY DEF IInv, Shaped, IsStore
<1>2. Identified'
  BY DEF IInv, Identified, RowsKnown, ConnsKnown, IdsUnique, Known
<1>3. Meant'
  BY DEF IInv, Meant, RequestsOK, RequestOK, BoundOK, SecretIntended
<1>4. ListFresh' /\ RequestsFresh'
  BY DEF IInv, Versions, ListFresh, RequestsFresh, Fresh, FreshOrTouched
<1>5. SavesOK' /\ LastSaveStored'
  BY DEF IInv, Saves, SavesOK, LastSaveStored, RowsWith
<1> QED BY <1>1, <1>2, <1>3, <1>4, <1>5 DEF IInv, Versions, Saves

\* The button of the table that opens the dialog f.
LEMMA OpenStep ==
    ASSUME IInv, NEW p, NEW f, Open(p, f), f \in FormType,
           f.open \in {"edit", "delete"} => p \in Tables /\ f.id = f.born /\ f.id <= seq[p],
           f.open = "edit" => /\ f.secret = Blank
                              /\ p = "mountpoints" => ~f.dirty
                              /\ FreshOrTouched(p, f.id, f.ver, f.on, f.touched),
           f.pick = form.pick
    PROVE  IInv'
<1>1. /\ page = p /\ form.open = "none" /\ form' = f /\ used' \in UsedType
      /\ UNCHANGED <<page, db, seq, list, requests, asked>>
  BY SpendTyped DEF Open, Is, IInv, Shaped
<1>2. f.pick.id = 0
  BY <1>1 DEF IInv, Meant, FormOK
<1>3. FormOK'
  BY <1>1, <1>2 DEF FormOK
<1>4. FormFresh'
  BY <1>1 DEF FormFresh, FreshOrTouched
<1> QED BY <1>1, <1>3, <1>4, FormStep

\* A row that a list shows, as the target of a dialog.
LEMMA ListedRow ==
    ASSUME IInv, NEW t \in Tables, NEW r \in list[t]
    PROVE  /\ r \in RowType /\ r.id = r.born /\ r.id <= seq[t]
           /\ Fresh(t, r.id, r.ver, r.on)
BY StoreRows DEF IInv, Shaped, Identified, RowsKnown, Known, Versions, ListFresh

\* openCreate: the dialog of a new row.
LEMMA OpenCreateStep ==
    ASSUME IInv, UsersOpenCreate \/ MountsOpenCreate
    PROVE  IInv'
<1>1. PICK f : f = [form EXCEPT !.open = "create", !.filled = FALSE]
  OBVIOUS
<1>2. f \in FormType /\ f.open = "create" /\ f.pick = form.pick
  BY <1>1 DEF IInv, Shaped, FormType
<1>3. Open("users", f) \/ Open("mountpoints", f)
  BY <1>1 DEF UsersOpenCreate, MountsOpenCreate
<1> QED BY <1>2, <1>3, OpenStep

\* openEdit: the dialog starts with the row as the list showed it, and with
\* an empty secret.
LEMMA OpenEditStep ==
    ASSUME IInv, NEW r,
           \/ r \in UserTable /\ UsersOpenEdit(r)
           \/ r \in MountpointTable /\ MountsOpenEdit(r)
    PROVE  IInv'
<1>1. form \in FormType
  BY DEF IInv, Shaped
<1>2. CASE r \in UserTable /\ UsersOpenEdit(r)
  <2>1. r \in RowType /\ r.id = r.born /\ r.id <= seq["users"] /\ Fresh("users", r.id, r.ver, r.on)
    BY <1>2, ListedRow DEF UserTable, Tables
  <2>2. PICK f : f = [Target("edit", r.id, r.born) EXCEPT !.on = r.on, !.ver = r.ver,
                        !.touched = FALSE, !.secret = Blank]
    OBVIOUS
  <2>3. Open("users", f)
    BY <1>2, <2>2 DEF UsersOpenEdit
  <2>4. /\ f \in FormType
        /\ f.open = "edit" /\ f.id = r.id /\ f.born = r.born /\ f.ver = r.ver /\ f.on = r.on
        /\ f.secret = Blank /\ f.pick = form.pick /\ f.touched = FALSE
    BY <1>1, <2>1, <2>2 DEF FormType, Target, RowType, SecretType, Blank, Ids
  <2>5. FreshOrTouched("users", f.id, f.ver, f.on, f.touched)
    BY <2>1, <2>4 DEF Fresh, FreshOrTouched
  <2> QED BY <2>1, <2>3, <2>4, <2>5, OpenStep DEF Tables
<1>3. CASE r \in MountpointTable /\ MountsOpenEdit(r)
  <2>1. /\ r \in RowType /\ r.id = r.born /\ r.id <= seq["mountpoints"]
        /\ Fresh("mountpoints", r.id, r.ver, r.on)
    BY <1>3, ListedRow DEF MountpointTable, Tables
  <2>2. PICK f : f = [Target("edit", r.id, r.born) EXCEPT !.on = r.on, !.ver = r.ver,
                        !.touched = FALSE, !.secret = Blank, !.dirty = FALSE]
    OBVIOUS
  <2>3. Open("mountpoints", f)
    BY <1>3, <2>2 DEF MountsOpenEdit
  <2>4. /\ f \in FormType
        /\ f.open = "edit" /\ f.id = r.id /\ f.born = r.born /\ f.ver = r.ver /\ f.on = r.on
        /\ f.secret = Blank /\ f.pick = form.pick /\ f.touched = FALSE /\ ~f.dirty
    BY <1>1, <2>1, <2>2 DEF FormType, Target, RowType, SecretType, Blank, Ids
  <2>5. FreshOrTouched("mountpoints", f.id, f.ver, f.on, f.touched)
    BY <2>1, <2>4 DEF Fresh, FreshOrTouched
  <2> QED BY <2>1, <2>3, <2>4, <2>5, OpenStep DEF Tables
<1> QED BY <1>2, <1>3

\* The other dialogs with a target.
LEMMA OpenTargetStep ==
    ASSUME IInv, NEW r,
           \/ r \in UserTable /\ UsersOpenDelete(r)
           \/ r \in MountpointTable /\ MountsOpenDelete(r)
           \/ r \in Sources /\ HandleKickSourceItem(r)
           \/ r \in Clients /\ HandleKickClientItem(r)
    PROVE  IInv'
<1>1. form \in FormType
  BY DEF IInv, Shaped
<1>2. ASSUME NEW d \in {"delete", "kickSource", "kickClient"}, NEW i \in Nat, NEW b \in Nat,
             NEW f, f = Target(d, i, b)
      PROVE  f \in FormType /\ f.open = d /\ f.id = i /\ f.born = b /\ f.pick = form.pick
  BY <1>1, <1>2 DEF FormType, Target, Ids
<1>3. ASSUME NEW t \in Tables, r \in list[t], Open(t, Target("delete", r.id, r.born))
      PROVE  IInv'
  <2>1. r \in RowType /\ r.id = r.born /\ r.id <= seq[t] /\ r.id \in Nat
    BY <1>3, ListedRow DEF RowType, Ids
  <2>2. PICK f : f = Target("delete", r.id, r.born)
    OBVIOUS
  <2>3. f \in FormType /\ f.open = "delete" /\ f.id = r.id /\ f.born = r.born /\ f.pick = form.pick
    BY <1>2, <2>1, <2>2
  <2> QED BY <1>3, <2>1, <2>2, <2>3, OpenStep
<1>4. ASSUME NEW d \in {"kickSource", "kickClient"}, NEW i \in Nat,
             Open("connections", Target(d, i, 0))
      PROVE  IInv'
  <2>1. PICK f : f = Target(d, i, 0)
    OBVIOUS
  <2>2. f \in FormType /\ f.open = d /\ f.pick = form.pick
    BY <1>2, <2>1
  <2> QED BY <1>4, <2>1, <2>2, OpenStep
<1>5. \A c \in list["conns"] : c.id \in Nat /\ c.mount \in Nat
  <2>1. list["conns"] \subseteq ConnType
    BY StoreRows DEF IInv, Shaped
  <2>2. Mounts \subseteq Nat /\ MaxConn \in Nat
    BY DialogsAssumption
  <2>3. \A c \in ConnType : c.id \in 1 .. MaxConn /\ c.mount \in Mounts
    BY DEF ConnType
  <2>4. 1 .. MaxConn \subseteq Nat
    BY <2>2
  <2> QED BY <2>1, <2>2, <2>3, <2>4
<1> QED
  BY <1>3, <1>4, <1>5 DEF UserTable, UsersOpenDelete, MountpointTable, MountsOpenDelete, Sources,
     HandleKickSourceItem, Clients, HandleKickClientItem, Tables

\* What is entered in a dialog, which stays about its target.
LEMMA EnterStep ==
    ASSUME IInv, NEW p, NEW d, NEW f, Enter(p, d, f), f \in FormType,
           f.open = form.open /\ f.id = form.id /\ f.born = form.born /\ f.ver = form.ver,
           f.touched \/ (~form.touched /\ f.on = form.on),
           \/ f.secret = form.secret /\ f.dirty = form.dirty
           \/ f.secret = Typed(form.born)
           \/ page = "mountpoints" /\ f.secret = Emptied(form.born),
           \/ f.pick = form.pick
           \/ d = "edit" /\ f.pick.pair = <<form.born, f.pick.id>>
    PROVE  IInv'
<1>1. /\ page = p /\ form.open = d /\ form' = f
      /\ UNCHANGED <<page, db, seq, list, requests, used, asked>>
  BY DEF Enter, Is
<1>2. FormOK /\ FormFresh
  BY DEF IInv, Meant, Versions
<1>3. Typed(form.born) # Blank /\ Emptied(form.born) # Blank
  BY DEF Typed, Emptied, Blank
<1>4. FormOK'
  BY <1>1, <1>2, <1>3 DEF FormOK
<1>5. FormFresh'
  BY <1>1, <1>2 DEF FormFresh, FreshOrTouched
<1>6. used' \in UsedType
  BY <1>1 DEF IInv, Shaped
<1> QED BY <1>1, <1>4, <1>5, <1>6, FormStep

LEMMA EnterFieldStep ==
    ASSUME IInv,
           \/ UsersFill \/ UsersToggle \/ UsersType \/ MountsFill \/ MountsToggle
           \/ MountsType(Typed(form.born)) \/ MountsType(Emptied(form.born))
    PROVE  IInv'
<1>1. form \in FormType /\ form.born \in Nat /\ form.touched \in BOOLEAN
  BY DEF IInv, Shaped, FormType, Ids
<1>2. CASE UsersFill \/ MountsFill
  <2>1. PICK f : f = [form EXCEPT !.filled = TRUE]
    OBVIOUS
  <2>2. f \in FormType
    BY <1>1, <2>1 DEF FormType
  <2>3. /\ f.open = form.open /\ f.id = form.id /\ f.born = form.born /\ f.ver = form.ver
        /\ f.on = form.on /\ f.touched = form.touched /\ f.secret = form.secret
        /\ f.dirty = form.dirty /\ f.pick = form.pick
    BY <1>1, <2>1 DEF FormType
  <2>4. Enter("users", "create", f) \/ Enter("mountpoints", "create", f)
    BY <1>2, <2>1 DEF UsersFill, MountsFill
  <2> QED BY <1>1, <2>2, <2>3, <2>4, EnterStep
<1>3. CASE UsersToggle \/ MountsToggle
  <2>1. PICK f : f = [form EXCEPT !.on = ~@, !.touched = TRUE]
    OBVIOUS
  <2>2. f \in FormType
    BY <1>1, <2>1 DEF FormType
  <2>3. /\ f.open = form.open /\ f.id = form.id /\ f.born = form.born /\ f.ver = form.ver
        /\ f.touched /\ f.secret = form.secret /\ f.dirty = form.dirty /\ f.pick = form.pick
    BY <1>1, <2>1 DEF FormType
  <2>4. Enter("users", "edit", f) \/ Enter("mountpoints", "edit", f)
    BY <1>3, <2>1 DEF UsersToggle, MountsToggle
  <2> QED BY <2>2, <2>3, <2>4, EnterStep
<1>4. Typed(form.born) \in SecretType /\ Emptied(form.born) \in SecretType
  BY <1>1 DEF Typed, Emptied, SecretType, Ids
<1>5. CASE UsersType
  <2>1. PICK f : f = [form EXCEPT !.secret = Typed(form.born)]
    OBVIOUS
  <2>2. f \in FormType
    BY <1>1, <1>4, <2>1 DEF FormType
  <2>3. /\ f.open = form.open /\ f.id = form.id /\ f.born = form.born /\ f.ver = form.ver
        /\ f.on = form.on /\ f.touched = form.touched /\ f.secret = Typed(form.born)
        /\ f.pick = form.pick
    BY <1>1, <2>1 DEF FormType
  <2>4. Enter("users", "edit", f)
    BY <1>5, <2>1 DEF UsersType
  <2> QED BY <1>1, <2>2, <2>3, <2>4, EnterStep
<1>6. ASSUME NEW s \in {Typed(form.born), Emptied(form.born)}, MountsType(s) PROVE IInv'
  <2>1. PICK f : f = [form EXCEPT !.secret = s, !.dirty = TRUE]
    OBVIOUS
  <2>2. f \in FormType
    BY <1>1, <1>4, <2>1 DEF FormType
  <2>3. /\ f.open = form.open /\ f.id = form.id /\ f.born = form.born /\ f.ver = form.ver
        /\ f.on = form.on /\ f.touched = form.touched /\ f.secret = s /\ f.pick = form.pick
    BY <1>1, <2>1 DEF FormType
  <2>4. Enter("mountpoints", "edit", f) /\ page = "mountpoints"
    BY <1>6, <2>1 DEF MountsType, Enter, Is
  <2> QED BY <1>1, <2>2, <2>3, <2>4, EnterStep
<1> QED BY <1>2, <1>3, <1>5, <1>6

LEMMA SelectStep ==
    ASSUME IInv, NEW r \in AvailableMountpoints, SelectMountpoint(r)
    PROVE  IInv'
<1>1. form \in FormType /\ form.born \in Nat
  BY DEF IInv, Shaped, FormType, Ids
<1>2. r \in RowType /\ r.id = r.born /\ r.id \in Nat
  BY ListedRow DEF AvailableMountpoints, Tables, RowType, Ids
<1>3. PICK k : k = [id |-> r.id, pair |-> <<form.born, r.born>>]
  OBVIOUS
<1>4. k \in [id : Ids, pair : Ids \X Ids] /\ k.pair = <<form.born, k.id>>
  BY <1>1, <1>2, <1>3 DEF Ids
<1>5. PICK f : f = [form EXCEPT !.pick = k]
  OBVIOUS
<1>6. f \in FormType
  BY <1>1, <1>4, <1>5 DEF FormType
<1>7. /\ f.open = form.open /\ f.id = form.id /\ f.born = form.born /\ f.ver = form.ver
      /\ f.on = form.on /\ f.touched = form.touched /\ f.secret = form.secret
      /\ f.dirty = form.dirty /\ f.pick = k
  BY <1>1, <1>5 DEF FormType
<1>8. Enter("users", "edit", f)
  BY <1>3, <1>5 DEF SelectMountpoint
<1>9. f.touched \in BOOLEAN
  BY <1>6 DEF FormType
<1> QED BY <1>4, <1>6, <1>7, <1>8, <1>9, EnterStep

(***************************************************************************)
(* How tables change: a row stays, is written and its version counts on,   *)
(* or is new and has an id nobody has seen.                                *)
(***************************************************************************)
RowsEvolve ==
    \A t \in Tables :
        /\ seq[t] <= seq'[t]
        /\ \A s \in db'[t] :
             \/ s \in db[t]
             \/ \E r \in db[t] : s.id = r.id /\ s.born = r.born /\ s.ver = r.ver + 1
             \/ s.id = s.born /\ s.id = seq[t] + 1 /\ s.id <= seq'[t]

LEMMA SameRowsEvolve ==
    ASSUME Shaped, UNCHANGED <<db, seq>>
    PROVE  RowsEvolve
BY DEF Shaped, RowsEvolve, Stores

\* A copy of a row stays no newer than the row.
LEMMA StillFresh ==
    ASSUME Shaped, Shaped', RowsEvolve, NEW t \in Tables, NEW i \in Nat, i <= seq[t],
           NEW ver \in Nat, NEW on, NEW touched, FreshOrTouched(t, i, ver, on, touched)
    PROVE  \A r \in db'[t] : r.id = i => ver <= r.ver /\ (ver = r.ver /\ ~touched => r.on = on)
<1>1. SUFFICES ASSUME NEW s \in db'[t], s.id = i
               PROVE  ver <= s.ver /\ (ver = s.ver /\ ~touched => s.on = on)
  OBVIOUS
<1>2. seq[t] \in Nat
  BY DEF Shaped, Stores
<1>3. \A r \in db[t] : r.ver \in Nat
  BY StoreRows DEF Shaped, RowType
<1>4. CASE s \in db[t]
  BY <1>1, <1>4 DEF FreshOrTouched
<1>5. CASE \E r \in db[t] : s.id = r.id /\ s.born = r.born /\ s.ver = r.ver + 1
  <2>1. PICK r \in db[t] : s.id = r.id /\ s.ver = r.ver + 1
    BY <1>5
  <2>2. ver <= r.ver /\ r.ver \in Nat
    BY <1>1, <1>3, <2>1 DEF FreshOrTouched
  <2> QED BY <2>1, <2>2
<1>6. s.id # seq[t] + 1
  BY <1>1, <1>2
<1> QED BY <1>4, <1>5, <1>6 DEF RowsEvolve

\* The dialog and the lists, while tables change under them.
LEMMA UnderDialogs ==
    ASSUME IInv, Shaped', RowsEvolve, UNCHANGED <<page, list, form>>
    PROVE  /\ FormOK' /\ FormFresh' /\ ListFresh'
           /\ \A t \in Tables : \A r \in db'[t] \cup list'[t] : Known(t, r)'
<1>1. Shaped /\ FormOK /\ FormFresh /\ ListFresh /\ RowsKnown
  BY DEF IInv, Meant, Versions, Identified
<1>2. \A t \in Tables : seq[t] \in Nat /\ seq'[t] \in Nat /\ seq[t] <= seq'[t]
  BY <1>1 DEF RowsEvolve, Shaped, Stores
<1>3. form \in FormType /\ form.id \in Nat /\ form.ver \in Nat
  BY <1>1 DEF Shaped, FormType, Ids
<1>4. FormOK'
  BY <1>1, <1>2, <1>3 DEF FormOK
<1>5. FormFresh'
  <2>1. SUFFICES ASSUME form.open = "edit"
                 PROVE  FreshOrTouched(page, form.id, form.ver, form.on, form.touched)'
    BY DEF FormFresh
  <2>2. /\ page \in Tables /\ form.id <= seq[page]
        /\ FreshOrTouched(page, form.id, form.ver, form.on, form.touched)
    BY <1>1, <2>1 DEF FormOK, FormFresh
  <2>3. \A r \in db'[page] : r.id = form.id =>
            form.ver <= r.ver /\ (form.ver = r.ver /\ ~form.touched => r.on = form.on)
    BY <1>1, <1>3, <2>2, StillFresh
  <2> QED BY <2>3 DEF FreshOrTouched
<1>6. ASSUME NEW t \in Tables, NEW r \in list[t]
      PROVE  \A s \in db'[t] : s.id = r.id => r.ver <= s.ver /\ (r.ver = s.ver => s.on = r.on)
  <2>1. r \in RowType /\ r.id <= seq[t] /\ Fresh(t, r.id, r.ver, r.on)
    BY <1>6, ListedRow
  <2>2. r.id \in Nat /\ r.ver \in Nat
    BY <2>1 DEF RowType, Ids
  <2>3. PICK touched \in BOOLEAN : ~touched
    OBVIOUS
  <2>4. FreshOrTouched(t, r.id, r.ver, r.on, touched)
    BY <2>1 DEF Fresh, FreshOrTouched
  <2>5. \A s \in db'[t] : s.id = r.id =>
            r.ver <= s.ver /\ (r.ver = s.ver /\ ~touched => s.on = r.on)
    BY <1>1, <2>1, <2>2, <2>4, StillFresh
  <2> QED BY <2>3, <2>5
<1>7. ListFresh'
  BY <1>6 DEF ListFresh, Fresh
<1>8. ASSUME NEW t \in Tables, NEW r \in list[t] PROVE r.id = r.born /\ r.id <= seq'[t]
  <2>1. r \in RowType /\ r.id = r.born /\ r.id <= seq[t]
    BY <1>8, ListedRow
  <2>2. r.id \in Nat
    BY <2>1 DEF RowType, Ids
  <2> QED BY <1>2, <2>1, <2>2
<1>9. ASSUME NEW t \in Tables, NEW s \in db'[t] PROVE s.id = s.born /\ s.id <= seq'[t]
  <2>1. \A r \in db[t] : r.id \in Nat /\ r.id = r.born /\ r.id <= seq[t]
    BY <1>1, StoreRows DEF Shaped, RowType, Ids, RowsKnown, Known
  <2> QED BY <1>2, <2>1 DEF RowsEvolve
<1>10. \A t \in Tables : \A r \in db'[t] \cup list'[t] : Known(t, r)'
  BY <1>8, <1>9 DEF Known
<1> QED BY <1>4, <1>5, <1>7, <1>10

(***************************************************************************)
(* How requests change once they are sent: their answer comes, or nobody   *)
(* waits for it any more.                                                  *)
(***************************************************************************)
Twin(k, m) ==
    /\ k.op = m.op /\ k.t = m.t /\ k.id = m.id /\ k.other = m.other /\ k.on = m.on
    /\ k.secret = m.secret /\ k.touched = m.touched /\ k.ver = m.ver

\* The requests of a dialog or a page that is left.
LEMMA DetachedTwins ==
    ASSUME NEW rs, rs \subseteq RequestType, NEW ops
    PROVE  /\ Detached(rs, ops) \subseteq RequestType
           /\ \A k \in Detached(rs, ops) : \E m \in rs : Twin(k, m) /\ k.stage = m.stage
           /\ \A m \in rs : \E k \in Detached(rs, ops) : Twin(k, m) /\ k.stage = m.stage
<1> DEFINE d(m) == [m EXCEPT !.attached = @ /\ m.op \notin ops]
<1>1. Detached(rs, ops) = {d(m) : m \in rs}
  BY DEF Detached
<1>2. ASSUME NEW m \in rs PROVE d(m) \in RequestType /\ Twin(d(m), m) /\ d(m).stage = m.stage
  <2>1. PICK a \in BOOLEAN : a = (m.attached /\ m.op \notin ops)
    OBVIOUS
  <2>2. PICK k : k = [m EXCEPT !.attached = a]
    OBVIOUS
  <2>3. m \in RequestType /\ d(m) = k
    BY <2>1, <2>2
  <2>4. k \in RequestType
    BY <2>2, <2>3 DEF RequestType
  <2>5. Twin(k, m) /\ k.stage = m.stage
    BY <2>2, <2>3 DEF RequestType, Twin
  <2> QED BY <2>3, <2>4, <2>5
<1> HIDE DEF d
<1> QED BY <1>1, <1>2

\* A request that is answered.
LEMMA AnswerTwins ==
    ASSUME Shaped, NEW m \in requests, NEW stage \in {"ok", "failed"}, Answer(m, stage)
    PROVE  /\ requests' \subseteq RequestType
           /\ \A k \in requests' : \E l \in requests : Twin(k, l)
           /\ \A l \in requests \ {m} : l \in requests'
<1>1. PICK k : k = [m EXCEPT !.stage = stage]
  OBVIOUS
<1>2. m \in RequestType
  BY DEF Shaped
<1>3. k \in RequestType /\ Twin(k, m)
  BY <1>1, <1>2 DEF RequestType, Twin
<1>4. requests' = (requests \ {m}) \cup {k}
  BY <1>1 DEF Answer
<1>5. \A l \in requests : Twin(l, l)
  BY DEF Twin
<1> QED BY <1>3, <1>4, <1>5 DEF Shaped

\* What was asked for in a request stays so.
LEMMA TwinsKept ==
    ASSUME IInv, Shaped', RowsEvolve,
           \A k \in requests' : \E m \in requests : Twin(k, m),
           asked'.gone = asked.gone, asked'.bound = asked.bound, asked'.saved \subseteq asked.saved
    PROVE  RequestsOK' /\ RequestsFresh' /\ SavesOK'
<1>1. Shaped /\ RequestsOK /\ RequestsFresh /\ SavesOK
  BY DEF IInv, Meant, Versions, Saves
<1>2. \A t \in Tables : seq[t] \in Nat /\ seq'[t] \in Nat /\ seq[t] <= seq'[t]
  BY <1>1 DEF RowsEvolve, Shaped, Stores
<1>3. \A m \in requests : m.id \in Nat /\ m.ver \in Nat
  BY <1>1 DEF Shaped, RequestType, Ids
<1>4. ASSUME NEW k \in requests' PROVE RequestOK(k)'
  <2>1. PICK m \in requests : Twin(k, m)
    BY <1>4
  <2>2. RequestOK(m) /\ m.id \in Nat
    BY <1>1, <1>3 DEF RequestsOK
  <2>3. /\ k.op = m.op /\ k.t = m.t /\ k.id = m.id /\ k.other = m.other
        /\ k.secret = m.secret
    BY <2>1 DEF Twin
  <2> QED BY <1>2, <2>2, <2>3 DEF RequestOK
<1>5. ASSUME NEW k \in requests', k.op = "update"
      PROVE  FreshOrTouched(k.t, k.id, k.ver, k.on, k.touched)'
  <2>1. PICK m \in requests : Twin(k, m)
    BY <1>5
  <2>2. /\ k.op = m.op /\ k.t = m.t /\ k.id = m.id /\ k.ver = m.ver /\ k.on = m.on
        /\ k.touched = m.touched
    BY <2>1 DEF Twin
  <2>3. m.t \in Tables /\ m.id <= seq[m.t] /\ FreshOrTouched(m.t, m.id, m.ver, m.on, m.touched)
    BY <1>1, <1>5, <2>2 DEF RequestsOK, RequestOK, RequestsFresh
  <2>4. \A r \in db'[m.t] : r.id = m.id =>
            m.ver <= r.ver /\ (m.ver = r.ver /\ ~m.touched => r.on = m.on)
    BY <1>1, <1>3, <2>3, StillFresh
  <2> QED BY <2>2, <2>4 DEF FreshOrTouched
<1>6. SavesOK'
  <2>1. SUFFICES ASSUME NEW w \in asked'.saved
                 PROVE  /\ w.id <= seq'[w.t]
                        /\ \A k \in requests' : k.op = "update" /\ k.t = w.t /\ k.id = w.id =>
                                                k.on = w.on
    BY DEF SavesOK
  <2>2. /\ w \in asked.saved /\ w.id <= seq[w.t]
        /\ \A m \in requests : m.op = "update" /\ m.t = w.t /\ m.id = w.id => m.on = w.on
    BY <1>1, <2>1 DEF SavesOK
  <2>3. w.t \in Tables /\ w.id \in Nat
    BY <1>1, <2>2 DEF Shaped, AskedType, Ids
  <2>4. w.id <= seq'[w.t]
    BY <1>2, <2>2, <2>3
  <2>5. ASSUME NEW k \in requests', k.op = "update", k.t = w.t, k.id = w.id PROVE k.on = w.on
    <3>1. PICK m \in requests : Twin(k, m)
      BY <2>5
    <3> QED BY <2>2, <2>5, <3>1 DEF Twin
  <2> QED BY <2>4, <2>5
<1> QED BY <1>4, <1>5, <1>6 DEF RequestsOK, RequestsFresh

(***************************************************************************)
(* Steps of the console and the network that leave the tables alone.       *)
(***************************************************************************)
LEMMA ConsoleStep ==
    ASSUME IInv, Shaped', UNCHANGED <<db, seq>>,
           \A t \in Stores : list'[t] \in {list[t], db[t]},
           \A k \in requests' : \E m \in requests : Twin(k, m),
           \A w \in asked'.saved : \A m \in requests :
               m.op = "update" /\ m.t = w.t /\ m.id = w.id /\ m.stage = "sent" =>
                   \E k \in requests' : Twin(k, m) /\ k.stage = "sent",
           asked'.gone = asked.gone, asked'.bound = asked.bound, asked'.saved \subseteq asked.saved,
           FormOK', FormFresh'
    PROVE  IInv'
<1>1. RowsEvolve
  BY SameRowsEvolve DEF IInv
<1>2. RequestsOK' /\ RequestsFresh' /\ SavesOK'
  BY <1>1, TwinsKept
<1>3. RowsKnown'
  BY DEF IInv, Identified, RowsKnown, Known, Stores
<1>4. ConnsKnown' /\ IdsUnique'
  BY DEF IInv, Identified, ConnsKnown, IdsUnique
<1>5. BoundOK' /\ SecretIntended'
  BY DEF IInv, Meant, BoundOK, SecretIntended
<1>6. ListFresh'
  <2>1. ASSUME NEW t \in Tables, NEW r \in list'[t], NEW s \in db[t], s.id = r.id
        PROVE  r.ver <= s.ver /\ (r.ver = s.ver => s.on = r.on)
    <3>1. CASE r \in list[t]
      BY <2>1, <3>1 DEF IInv, Versions, ListFresh, Fresh
    <3>2. CASE r \in db[t]
      <4>1. r = s
        BY <2>1, <3>2 DEF IInv, Identified, IdsUnique, Stores
      <4>2. s.ver \in Nat
        BY StoreRows DEF IInv, Shaped, RowType
      <4> QED BY <4>1, <4>2
    <3> QED BY <2>1, <3>1, <3>2 DEF Stores
  <2> QED BY <2>1 DEF ListFresh, Fresh
<1>7. LastSaveStored'
  <2>1. SUFFICES ASSUME NEW w \in asked'.saved,
                        \A k \in requests' : k.op # "update" \/ k.t # w.t \/ k.id # w.id
                                             \/ k.stage # "sent"
                 PROVE  \A r \in RowsWith(w.t, w.id) : r.on = w.on
    BY DEF LastSaveStored, RowsWith
  <2>2. \A m \in requests : m.op # "update" \/ m.t # w.t \/ m.id # w.id \/ m.stage # "sent"
    BY <2>1 DEF Twin
  <2> QED BY <2>1, <2>2 DEF IInv, Saves, LastSaveStored
<1> QED BY <1>2, <1>3, <1>4, <1>5, <1>6, <1>7 DEF IInv, Identified, Meant, Versions, Saves

\* A dialog without a target.
LEMMA ClosedFields ==
    ASSUME form \in FormType, NEW f, f = Closed(form) \/ f = NoForm
    PROVE  f \in FormType /\ f.open = "none" /\ f.pick.id = 0
<1>1. NoForm \in FormType
  BY DEF NoForm, FormType, NoPick, Ids, SecretType, Blank
<1>2. NoForm.open = "none" /\ NoForm.pick.id = 0
  BY DEF NoForm, NoPick
<1>3. CASE f = Closed(form)
  <2>1. f = [NoForm EXCEPT !.secret = form.secret, !.dirty = form.dirty]
    BY <1>3 DEF Closed
  <2>2. form.secret \in SecretType /\ form.dirty \in BOOLEAN
    BY DEF FormType
  <2> HIDE DEF NoForm
  <2> QED BY <1>1, <1>2, <2>1, <2>2 DEF FormType
<1> QED BY <1>1, <1>2, <1>3

LEMMA CancelStep ==
    ASSUME IInv, Cancel
    PROVE  IInv'
<1>1. Shaped
  BY DEF IInv
<1>2. form' \in FormType /\ form'.open = "none" /\ form'.pick.id = 0
  BY <1>1, ClosedFields DEF Cancel, Shaped
<1>3. /\ requests' \subseteq RequestType
      /\ \A k \in requests' : \E m \in requests : Twin(k, m) /\ k.stage = m.stage
      /\ \A m \in requests : \E k \in requests' : Twin(k, m) /\ k.stage = m.stage
  BY <1>1, DetachedTwins DEF Cancel, Shaped
<1>4. UNCHANGED <<page, db, seq, list, used, asked>>
  BY DEF Cancel
<1>5. Shaped'
  BY <1>1, <1>2, <1>3, <1>4 DEF Shaped, IsStore
<1>6. FormOK' /\ FormFresh'
  BY <1>2 DEF FormOK, FormFresh
<1> QED BY <1>3, <1>4, <1>5, <1>6, ConsoleStep

LEMMA NavigateStep ==
    ASSUME IInv, NEW p \in Pages, Navigate(p)
    PROVE  IInv'
<1>1. Shaped
  BY DEF IInv
<1>2. form' \in FormType /\ form'.open = "none" /\ form'.pick.id = 0
  BY <1>1, ClosedFields DEF Navigate, Shaped
<1>3. /\ requests' \subseteq RequestType
      /\ \A k \in requests' : \E m \in requests : Twin(k, m) /\ k.stage = m.stage
      /\ \A m \in requests : \E k \in requests' : Twin(k, m) /\ k.stage = m.stage
  BY <1>1, DetachedTwins DEF Navigate, Shaped
<1>4. UNCHANGED <<db, seq, list, asked>> /\ page' = p /\ used' \in UsedType
  BY <1>1, SpendTyped DEF Navigate, Shaped
<1>5. Shaped'
  BY <1>1, <1>2, <1>3, <1>4 DEF Shaped, IsStore
<1>6. FormOK' /\ FormFresh'
  BY <1>2 DEF FormOK, FormFresh
<1> QED BY <1>3, <1>4, <1>5, <1>6, ConsoleStep

\* A list that is read again.
LEMMA ListRead ==
    ASSUME Shaped, NEW t \in Stores, list' = Replaced(list, t, db[t])
    PROVE  IsStore(list') /\ \A u \in Stores : list'[u] \in {list[u], db[u]}
<1>1. IsStore(list) /\ IsStore(db)
  BY DEF Shaped
<1>2. PICK x : x = db[t]
  OBVIOUS
<1>3. /\ t \in Tables => x \subseteq RowType
      /\ t = "bindings" => x \subseteq BindingType
      /\ t = "conns" => x \subseteq ConnType
  BY <1>1, <1>2, StoreRows
<1>4. list' = Replaced(list, t, x)
  BY <1>2
<1>5. IsStore(list') /\ list'[t] = x /\ \A u \in Stores \ {t} : list'[u] = list[u]
  BY <1>1, <1>3, <1>4, StoreExcept
<1> QED BY <1>2, <1>5

LEMMA RefreshStep ==
    ASSUME IInv, NEW t \in Stores, Refresh(t)
    PROVE  IInv'
<1>1. Shaped
  BY DEF IInv
<1>2. list' = Replaced(list, t, db[t]) /\ UNCHANGED <<page, db, seq, form, requests, used, asked>>
  BY DEF Refresh, Replaced
<1>3. IsStore(list') /\ \A u \in Stores : list'[u] \in {list[u], db[u]}
  BY <1>1, <1>2, ListRead
<1>4. Shaped'
  BY <1>1, <1>2, <1>3 DEF Shaped, IsStore, StoreType
<1>5. FormOK' /\ FormFresh'
  BY <1>2 DEF IInv, Meant, Versions, FormOK, FormFresh, FreshOrTouched
<1>6. \A m \in requests : Twin(m, m)
  BY DEF Twin
<1> QED BY <1>2, <1>3, <1>4, <1>5, <1>6, ConsoleStep

\* Saves that are no longer remembered.
AskedForgetting(t, i) == [asked EXCEPT !.saved = SaveForgotten(t, i)]

LEMMA ForgottenFields ==
    ASSUME Shaped, NEW t, NEW i, NEW a, a = AskedForgetting(t, i)
    PROVE  /\ a \in AskedType /\ a.gone = asked.gone /\ a.bound = asked.bound
           /\ a.saved = {w \in asked.saved : w.t # t \/ w.id # i}
<1>1. PICK v : v = SaveForgotten(t, i)
  OBVIOUS
<1>2. v = {w \in asked.saved : w.t # t \/ w.id # i}
  BY <1>1 DEF SaveForgotten
<1>3. a = [asked EXCEPT !.saved = v] /\ asked \in AskedType
  BY <1>1 DEF Shaped, AskedForgetting
<1>4. a.gone = asked.gone /\ a.bound = asked.bound /\ a.saved = v
  BY <1>3 DEF AskedType
<1>5. v \in SUBSET [t : Tables, id : Ids, on : BOOLEAN]
  BY <1>2, <1>3 DEF AskedType
<1>6. a \in AskedType
  BY <1>3, <1>5 DEF AskedType
<1> QED BY <1>2, <1>4, <1>6

LEMMA LoseStep ==
    ASSUME IInv, NEW m \in requests, Lose(m)
    PROVE  IInv'
<1>1. Shaped
  BY DEF IInv
<1>2. Answer(m, "failed") /\ UNCHANGED <<page, db, seq, list, form>> /\ used' \in UsedType
  BY <1>1, SpendTyped DEF Lose, Shaped
<1>3. /\ requests' \subseteq RequestType
      /\ \A k \in requests' : \E l \in requests : Twin(k, l)
      /\ \A l \in requests \ {m} : l \in requests'
  BY <1>1, <1>2, AnswerTwins
<1>4. /\ asked' \in AskedType /\ asked'.gone = asked.gone /\ asked'.bound = asked.bound
      /\ asked'.saved \subseteq asked.saved
      /\ m.op = "update" => \A w \in asked'.saved : w.t # m.t \/ w.id # m.id
  <2>1. CASE m.op = "update"
    <3>1. asked' = AskedForgetting(m.t, m.id)
      BY <2>1 DEF Lose, AskedForgetting
    <3>2. /\ asked' \in AskedType /\ asked'.gone = asked.gone /\ asked'.bound = asked.bound
          /\ asked'.saved = {w \in asked.saved : w.t # m.t \/ w.id # m.id}
      BY <1>1, <3>1, ForgottenFields
    <3> QED BY <3>2
  <2>2. CASE m.op # "update"
    BY <1>1, <2>2 DEF Lose, Shaped
  <2> QED BY <2>1, <2>2
<1>5. Shaped'
  BY <1>1, <1>2, <1>3, <1>4 DEF Shaped, IsStore
<1>6. FormOK' /\ FormFresh'
  BY <1>2 DEF IInv, Meant, Versions, FormOK, FormFresh, FreshOrTouched
<1>7. ASSUME NEW w \in asked'.saved, NEW l \in requests,
             l.op = "update", l.t = w.t, l.id = w.id, l.stage = "sent"
      PROVE  \E k \in requests' : Twin(k, l) /\ k.stage = "sent"
  <2>1. l # m
    BY <1>4, <1>7
  <2> QED BY <1>3, <1>7, <2>1 DEF Twin
<1> QED BY <1>2, <1>3, <1>4, <1>5, <1>6, <1>7, ConsoleStep

LEMMA ReportStep ==
    ASSUME IInv, NEW m \in requests, Report(m)
    PROVE  IInv'
<1>1. Shaped
  BY DEF IInv
<1>2. m \in RequestType /\ m.t \in Stores /\ m.stage # "sent"
  BY <1>1 DEF Shaped, RequestType, Report
<1>3. UNCHANGED <<page, db, seq, used, asked>>
  BY DEF Report
<1>4. IsStore(list') /\ \A u \in Stores : list'[u] \in {list[u], db[u]}
  <2>1. list' = list \/ list' = Replaced(list, m.t, db[m.t])
    BY DEF Report, Replaced
  <2>2. CASE list' = list
    BY <1>1, <2>2 DEF Shaped, IsStore
  <2>3. CASE list' = Replaced(list, m.t, db[m.t])
    BY <1>1, <1>2, <2>3, ListRead
  <2> QED BY <2>1, <2>2, <2>3
<1>5. PICK ops : requests' = Detached(requests \ {m}, ops)
  BY DEF Report
<1>6. /\ requests' \subseteq RequestType
      /\ \A k \in requests' : \E l \in requests \ {m} : Twin(k, l) /\ k.stage = l.stage
      /\ \A l \in requests \ {m} : \E k \in requests' : Twin(k, l) /\ k.stage = l.stage
  <2>1. PICK rs : rs = requests \ {m}
    OBVIOUS
  <2>2. rs \subseteq RequestType /\ requests' = Detached(rs, ops)
    BY <1>1, <1>5, <2>1 DEF Shaped
  <2>3. /\ requests' \subseteq RequestType
        /\ \A k \in requests' : \E l \in rs : Twin(k, l) /\ k.stage = l.stage
        /\ \A l \in rs : \E k \in requests' : Twin(k, l) /\ k.stage = l.stage
    BY <2>2, DetachedTwins
  <2> QED BY <2>1, <2>3
<1>7. form' \in {form, Closed(form), [form EXCEPT !.pick = NoPick]}
  BY DEF Report
<1>8. form' \in FormType /\ FormOK' /\ FormFresh'
  <2>1. FormOK /\ FormFresh /\ form \in FormType
    BY <1>1 DEF IInv, Meant, Versions, Shaped
  <2>2. CASE form' = form
    BY <1>3, <2>1, <2>2 DEF FormOK, FormFresh, FreshOrTouched
  <2>3. CASE form' = Closed(form)
    <3>1. form' \in FormType /\ form'.open = "none" /\ form'.pick.id = 0
      BY <2>1, <2>3, ClosedFields
    <3> QED BY <3>1 DEF FormOK, FormFresh
  <2>4. CASE form' = [form EXCEPT !.pick = NoPick]
    <3>1. NoPick \in [id : Ids, pair : Ids \X Ids] /\ NoPick.id = 0
      BY DEF NoPick, Ids
    <3> HIDE DEF NoPick
    <3>2. form' \in FormType
      BY <2>1, <2>4, <3>1 DEF FormType
    <3>3. /\ form'.open = form.open /\ form'.id = form.id /\ form'.born = form.born
          /\ form'.ver = form.ver /\ form'.on = form.on /\ form'.touched = form.touched
          /\ form'.secret = form.secret /\ form'.dirty = form.dirty /\ form'.pick.id = 0
      BY <2>1, <2>4, <3>1 DEF FormType
    <3>4. FormOK' /\ FormFresh'
      BY <1>3, <2>1, <3>3 DEF FormOK, FormFresh, FreshOrTouched
    <3> QED BY <3>2, <3>4
  <2> QED BY <1>7, <2>2, <2>3, <2>4
<1>9. Shaped'
  BY <1>1, <1>3, <1>4, <1>6, <1>8 DEF Shaped, IsStore, StoreType
<1>10. \A l \in requests : l.stage = "sent" => \E k \in requests' : Twin(k, l) /\ k.stage = "sent"
  BY <1>2, <1>6
<1> QED BY <1>3, <1>4, <1>6, <1>8, <1>9, <1>10, ConsoleStep

(***************************************************************************)
(* Mutations that are sent.                                                *)
(***************************************************************************)
\* A request joins the others.  When it is a save, what is remembered of its
\* row is this save, and only if no other save of it is on the way.
LEMMA SendStep ==
    ASSUME IInv, NEW m, Mutate(m), m \in RequestType, m.stage = "sent", RequestOK(m)',
           m.op = "update" => FreshOrTouched(m.t, m.id, m.ver, m.on, m.touched),
           asked' \in AskedType, asked.gone \subseteq asked'.gone, asked.bound \subseteq asked'.bound,
           \A w \in asked'.saved :
               \/ w \in asked.saved /\ (m.op # "update" \/ w.t # m.t \/ w.id # m.id)
               \/ /\ m.op = "update" /\ w.t = m.t /\ w.id = m.id /\ w.on = m.on
                  /\ \A k \in requests : k.op = "update" => k.t # m.t \/ k.id # m.id
    PROVE  IInv'
<1>1. Shaped
  BY DEF IInv
<1>2. /\ requests' = requests \cup {m} /\ UNCHANGED <<page, db, seq, list, form>>
      /\ used' \in UsedType
  BY <1>1, SpendTyped DEF Mutate, Shaped
<1>3. Shaped'
  BY <1>1, <1>2 DEF Shaped, IsStore
<1>4. Identified'
  BY <1>2 DEF IInv, Identified, RowsKnown, Known, ConnsKnown, IdsUnique
<1>5. FormOK' /\ BoundOK' /\ SecretIntended'
  BY <1>2 DEF IInv, Meant, FormOK, BoundOK, SecretIntended
<1>6. RequestsOK'
  <2>1. ASSUME NEW k \in requests PROVE RequestOK(k)'
    <3>1. RequestOK(k)
      BY <2>1 DEF IInv, Meant, RequestsOK
    <3> QED BY <1>2, <3>1 DEF RequestOK
  <2> QED BY <1>2, <2>1 DEF RequestsOK
<1>7. ListFresh' /\ FormFresh'
  BY <1>2 DEF IInv, Versions, ListFresh, FormFresh, Fresh, FreshOrTouched
<1>8. RequestsFresh'
  BY <1>2 DEF IInv, Versions, RequestsFresh, FreshOrTouched
<1>9. SavesOK'
  <2>1. SUFFICES ASSUME NEW w \in asked'.saved
                 PROVE  /\ w.id <= seq[w.t]
                        /\ \A k \in requests' : k.op = "update" /\ k.t = w.t /\ k.id = w.id =>
                                                k.on = w.on
    BY <1>2 DEF SavesOK
  <2>2. CASE w \in asked.saved /\ (m.op # "update" \/ w.t # m.t \/ w.id # m.id)
    BY <1>2, <2>2 DEF IInv, Saves, SavesOK
  <2>3. CASE /\ m.op = "update" /\ w.t = m.t /\ w.id = m.id /\ w.on = m.on
             /\ \A k \in requests : k.op = "update" => k.t # m.t \/ k.id # m.id
    BY <1>2, <2>3 DEF RequestOK
  <2> QED BY <2>2, <2>3
<1>10. LastSaveStored'
  <2>1. SUFFICES ASSUME NEW w \in asked'.saved,
                        \A k \in requests' : k.op # "update" \/ k.t # w.t \/ k.id # w.id
                                             \/ k.stage # "sent"
                 PROVE  \A r \in RowsWith(w.t, w.id) : r.on = w.on
    BY <1>2 DEF LastSaveStored, RowsWith
  <2>2. w \in asked.saved
    BY <1>2, <2>1
  <2> QED BY <1>2, <2>1, <2>2 DEF IInv, Saves, LastSaveStored
<1> QED BY <1>3, <1>4, <1>5, <1>6, <1>7, <1>8, <1>9, <1>10 DEF IInv, Meant, Versions, Saves

\* The body of a mutation.
LEMMA BodyFields ==
    ASSUME Shaped, NEW op \in AllOps, NEW t \in Stores, NEW i \in Nat, NEW m, m = Body(op, t, i)
    PROVE  /\ m \in RequestType
           /\ m.op = op /\ m.t = t /\ m.id = i /\ m.stage = "sent"
<1>1. used.sends \in 0 .. MaxSends
  BY DEF Shaped, UsedType
<1>2. Keep \in SecretType
  BY DEF Keep, SecretType, Ids
<1>3. m = [n |-> used.sends, op |-> op, t |-> t, id |-> i, other |-> 0, on |-> TRUE,
           secret |-> Keep, touched |-> FALSE, ver |-> 0, stage |-> "sent", attached |-> TRUE]
  BY DEF Body
<1> HIDE DEF Keep, SecretType, AllOps, Stores
<1>4. m \in RequestType
  BY <1>1, <1>2, <1>3 DEF RequestType, Ids
<1> QED BY <1>3, <1>4

\* A dialog that is confirmed.
LEMMA ConfirmFields ==
    ASSUME Shaped, NEW t \in Confirmable, NEW b \in Nat, Confirm(t, b)
    PROVE  /\ asked' \in AskedType /\ asked'.saved = asked.saved /\ asked'.bound = asked.bound
           /\ asked'.gone = asked.gone \cup {<<t, b>>}
<1>1. PICK g : g = asked.gone \cup {<<t, b>>}
  OBVIOUS
<1>2. asked' = [asked EXCEPT !.gone = g] /\ asked \in AskedType
  BY <1>1 DEF Confirm, Shaped
<1>3. g \in SUBSET (Confirmable \X Ids)
  BY <1>1, <1>2 DEF AskedType, Ids
<1>4. asked' \in AskedType
  BY <1>2, <1>3 DEF AskedType
<1>5. asked'.saved = asked.saved /\ asked'.bound = asked.bound /\ asked'.gone = g
  BY <1>2 DEF AskedType
<1> QED BY <1>1, <1>4, <1>5

LEMMA SendCreateStep ==
    ASSUME IInv, UsersHandleCreate \/ MountsHandleCreate
    PROVE  IInv'
<1>1. Shaped
  BY DEF IInv
<1>2. PICK t \in Tables : Mutate(Body("create", t, 0)) /\ UNCHANGED asked
  BY DEF UsersHandleCreate, MountsHandleCreate, Tables
<1>3. PICK m : m = Body("create", t, 0)
  OBVIOUS
<1>4. m \in RequestType /\ m.op = "create" /\ m.t = t /\ m.stage = "sent"
  BY <1>1, <1>3, BodyFields DEF AllOps, Stores
<1>5. RequestOK(m)'
  BY <1>2, <1>4 DEF RequestOK
<1>6. asked' \in AskedType
  BY <1>1, <1>2 DEF Shaped
<1> QED BY <1>2, <1>3, <1>4, <1>5, <1>6, SendStep

LEMMA SendDeleteStep ==
    ASSUME IInv, UsersHandleDelete \/ MountsHandleDelete
    PROVE  IInv'
<1>1. Shaped
  BY DEF IInv
<1>2. PICK t \in Tables : /\ Is(t, "delete") /\ Confirm(t, form.born)
                          /\ Mutate(Body("delete", t, form.id))
  BY DEF UsersHandleDelete, DeleteUserDialog, MountsHandleDelete, DeleteMountpointDialog, Tables
<1>3. form.id \in Nat /\ form.born = form.id
  BY <1>1, <1>2 DEF Shaped, FormType, Ids, Is, IInv, Meant, FormOK
<1>4. PICK m : m = Body("delete", t, form.id)
  OBVIOUS
<1>5. m \in RequestType /\ m.op = "delete" /\ m.t = t /\ m.id = form.id /\ m.stage = "sent"
  BY <1>1, <1>3, <1>4, BodyFields DEF AllOps, Stores
<1>6. /\ asked' \in AskedType /\ asked'.saved = asked.saved /\ asked'.bound = asked.bound
      /\ asked'.gone = asked.gone \cup {<<t, form.id>>}
  <2>1. t \in Confirmable
    BY DEF Confirmable
  <2>2. PICK i \in Nat : i = form.id
    BY <1>3
  <2>3. Confirm(t, i)
    BY <1>2, <1>3, <2>2
  <2> QED BY <1>1, <2>1, <2>2, <2>3, ConfirmFields
<1>7. RequestOK(m)'
  BY <1>5, <1>6 DEF RequestOK
<1> QED BY <1>2, <1>4, <1>5, <1>6, <1>7, SendStep

LEMMA SendKickStep ==
    ASSUME IInv, HandleKickSource \/ HandleKickClient
    PROVE  IInv'
<1>1. Shaped /\ form.id \in Nat
  BY DEF IInv, Shaped, FormType, Ids
<1>2. PICK op \in {"kickSource", "kickClient"}, what \in {"mount", "client"} :
          /\ Mutate(Body(op, "conns", form.id)) /\ Confirm(what, form.id)
          /\ op = "kickSource" => what = "mount"
          /\ op = "kickClient" => what = "client"
  BY DEF HandleKickSource, HandleKickClient
<1>3. PICK m : m = Body(op, "conns", form.id)
  OBVIOUS
<1>4. m \in RequestType /\ m.op = op /\ m.id = form.id /\ m.stage = "sent"
  BY <1>1, <1>3, BodyFields DEF AllOps, Stores
<1>5. /\ asked' \in AskedType /\ asked'.saved = asked.saved /\ asked'.bound = asked.bound
      /\ asked'.gone = asked.gone \cup {<<what, form.id>>}
  <2>1. what \in Confirmable
    BY DEF Confirmable
  <2>2. PICK i \in Nat : i = form.id
    BY <1>1
  <2>3. Confirm(what, i)
    BY <1>2, <2>2
  <2> QED BY <1>1, <2>1, <2>2, <2>3, ConfirmFields
<1>6. RequestOK(m)'
  BY <1>2, <1>4, <1>5 DEF RequestOK
<1> QED BY <1>2, <1>3, <1>4, <1>5, <1>6, SendStep

LEMMA SendBindStep ==
    ASSUME IInv, HandleAdd
    PROVE  IInv'
<1>1. Shaped
  BY DEF IInv
<1>2. form \in FormType /\ form.id \in Nat /\ form.pick.id \in Nat /\ form.pick.pair \in Ids \X Ids
  BY <1>1 DEF Shaped, FormType, Ids
<1>3. /\ Is("users", "edit") /\ form.pick.id # 0
      /\ Mutate([Body("bind", "bindings", form.id) EXCEPT !.other = form.pick.id])
      /\ asked' = [asked EXCEPT !.bound = @ \cup {form.pick.pair}]
  BY DEF HandleAdd
<1>4. form.pick.pair = <<form.id, form.pick.id>>
  BY <1>3 DEF Is, IInv, Meant, FormOK
<1>5. PICK b : b = Body("bind", "bindings", form.id)
  OBVIOUS
<1>6. b \in RequestType /\ b.op = "bind" /\ b.id = form.id /\ b.stage = "sent"
  BY <1>1, <1>2, <1>5, BodyFields DEF AllOps, SectionOps, Stores
<1>7. PICK m : m = [b EXCEPT !.other = form.pick.id]
  OBVIOUS
<1>8. /\ m \in RequestType /\ m.op = "bind" /\ m.id = form.id /\ m.stage = "sent"
      /\ m.other = form.pick.id
  BY <1>2, <1>6, <1>7 DEF RequestType, Ids
<1>9. Mutate(m)
  BY <1>3, <1>5, <1>7
<1>10. PICK c : c = asked.bound \cup {form.pick.pair}
  OBVIOUS
<1>11. asked' = [asked EXCEPT !.bound = c] /\ asked \in AskedType
  BY <1>1, <1>3, <1>10 DEF Shaped
<1>12. c \in SUBSET (Ids \X Ids)
  BY <1>2, <1>10, <1>11 DEF AskedType
<1>13. asked' \in AskedType
  BY <1>11, <1>12 DEF AskedType
<1>14. asked'.saved = asked.saved /\ asked'.gone = asked.gone /\ asked'.bound = c
  BY <1>11 DEF AskedType
<1>15. RequestOK(m)'
  BY <1>4, <1>8, <1>10, <1>14 DEF RequestOK
<1> HIDE DEF Mutate
<1> QED BY <1>8, <1>9, <1>10, <1>13, <1>14, <1>15, SendStep

LEMMA SendUnbindStep ==
    ASSUME IInv, NEW b \in list["bindings"], HandleRemove(b)
    PROVE  IInv'
<1>1. Shaped
  BY DEF IInv
<1>2. b \in BindingType
  BY <1>1, StoreRows DEF Shaped
<1>3. PICK i \in Nat, j \in Nat : i = b.id /\ j = b.born
  BY <1>2 DEF BindingType, Ids
<1>4. Confirm("bindings", j) /\ Mutate(Body("unbind", "bindings", i))
  BY <1>3 DEF HandleRemove
<1>5. PICK m : m = Body("unbind", "bindings", i)
  OBVIOUS
<1>6. m \in RequestType /\ m.op = "unbind" /\ m.stage = "sent"
  BY <1>1, <1>5, BodyFields DEF AllOps, SectionOps, Stores
<1>7. /\ asked' \in AskedType /\ asked'.saved = asked.saved /\ asked'.bound = asked.bound
      /\ asked.gone \subseteq asked'.gone
  BY <1>1, <1>4, ConfirmFields DEF Confirmable
<1>8. RequestOK(m)'
  BY <1>6 DEF RequestOK
<1> QED BY <1>4, <1>5, <1>6, <1>7, <1>8, SendStep

\* What is remembered when a row is saved.
LEMMA SaveAskedFields ==
    ASSUME Shaped, NEW t \in Tables, NEW i \in Nat, NEW on \in BOOLEAN,
           SaveAsked(t, i, on), ~Pending("update")
    PROVE  /\ asked' \in AskedType /\ asked'.gone = asked.gone /\ asked'.bound = asked.bound
           /\ \A w \in asked'.saved :
                \/ w \in asked.saved /\ (w.t # t \/ w.id # i)
                \/ /\ w.t = t /\ w.id = i /\ w.on = on
                   /\ \A k \in requests : k.op = "update" => k.t # t \/ k.id # i
<1> DEFINE others == {w \in asked.saved : w.t # t \/ w.id # i}
           early == \E m \in requests : m.op = "update" /\ m.t = t /\ m.id = i /\ ~m.attached
<1>1. PICK e : e = [t |-> t, id |-> i, on |-> on]
  OBVIOUS
<1>2. e \in [t : Tables, id : Ids, on : BOOLEAN]
  BY <1>1 DEF Ids
<1>3. e.t = t /\ e.id = i
  BY <1>1
<1>4. e.on = on
  BY <1>1
<1>5. PICK v : v = IF early THEN others ELSE others \cup {e}
  OBVIOUS
<1>6. asked' = [asked EXCEPT !.saved = v] /\ asked \in AskedType
  BY <1>1, <1>5 DEF SaveAsked, Shaped
<1>7. v \in SUBSET [t : Tables, id : Ids, on : BOOLEAN]
  BY <1>2, <1>5, <1>6 DEF AskedType
<1>8. asked' \in AskedType
  BY <1>6, <1>7 DEF AskedType
<1>9. asked'.gone = asked.gone /\ asked'.bound = asked.bound /\ asked'.saved = v
  BY <1>6 DEF AskedType
<1>10. ~early => \A k \in requests : k.op = "update" => k.t # t \/ k.id # i
  BY DEF Pending
<1>11. ASSUME NEW w \in v
       PROVE  \/ w \in asked.saved /\ (w.t # t \/ w.id # i)
              \/ /\ w.t = t /\ w.id = i /\ w.on = on
                 /\ \A k \in requests : k.op = "update" => k.t # t \/ k.id # i
  <2>1. CASE w \in others
    BY <2>1
  <2>2. CASE w \notin others
    <3>1. w = e /\ ~early
      BY <1>5, <1>11, <2>2
    <3> QED BY <1>3, <1>4, <1>10, <3>1
  <2> QED BY <2>1, <2>2
<1> QED BY <1>8, <1>9, <1>11

\* handleUpdate: the secret goes along when it was filled in.
LEMMA SendUpdateStep ==
    ASSUME IInv, UsersHandleUpdate \/ MountsHandleUpdate
    PROVE  IInv'
<1>1. Shaped /\ FormOK /\ FormFresh
  BY DEF IInv, Meant, Versions
<1>2. form \in FormType
  BY <1>1 DEF Shaped
<1>3. PICK t \in Tables, s \in SecretType :
          /\ Is(t, "edit") /\ ~Pending("update") /\ SaveAsked(t, form.id, form.on)
          /\ Mutate([Body("update", t, form.id) EXCEPT !.on = form.on, !.touched = form.touched,
                                                       !.ver = form.ver, !.secret = s])
          /\ s \in {Keep, Typed(form.id)} \/ (t = "mountpoints" /\ s = Emptied(form.id))
  <2>1. Keep \in SecretType /\ form.secret \in SecretType
    BY <1>2 DEF FormType, SecretType, Keep, Ids
  <2>2. CASE UsersHandleUpdate
    <3>1. PICK s : s = IF form.secret # Blank THEN form.secret ELSE Keep
      OBVIOUS
    <3>2. /\ Is("users", "edit") /\ ~Pending("update") /\ SaveAsked("users", form.id, form.on)
          /\ Mutate([Body("update", "users", form.id) EXCEPT
               !.on = form.on, !.touched = form.touched, !.ver = form.ver, !.secret = s])
      BY <2>2, <3>1 DEF UsersHandleUpdate, EditUserDialog
    <3>3. s \in SecretType /\ s \in {Keep, Typed(form.id)}
      BY <1>1, <2>1, <3>1, <3>2 DEF Is, FormOK
    <3> HIDE DEF Mutate, SaveAsked, Pending
    <3> QED BY <3>2, <3>3 DEF Tables
  <2>3. CASE MountsHandleUpdate
    <3>1. PICK s : s = IF form.dirty THEN form.secret ELSE Keep
      OBVIOUS
    <3>2. /\ Is("mountpoints", "edit") /\ ~Pending("update")
          /\ SaveAsked("mountpoints", form.id, form.on)
          /\ Mutate([Body("update", "mountpoints", form.id) EXCEPT
               !.on = form.on, !.touched = form.touched, !.ver = form.ver, !.secret = s])
      BY <2>3, <3>1 DEF MountsHandleUpdate, EditMountpointDialog
    <3>3. s \in SecretType /\ s \in {Keep, Typed(form.id), Emptied(form.id)}
      BY <1>1, <2>1, <3>1, <3>2 DEF Is, FormOK
    <3> QED BY <3>2, <3>3 DEF Tables
  <2> QED BY <2>2, <2>3
<1>4. /\ form.open = "edit" /\ page = t /\ form.id <= seq[t] /\ form.id \in Nat
      /\ form.ver \in Nat /\ form.on \in BOOLEAN /\ form.touched \in BOOLEAN
  BY <1>1, <1>2, <1>3 DEF Is, FormOK, FormType, Ids
<1>5. FreshOrTouched(t, form.id, form.ver, form.on, form.touched)
  BY <1>1, <1>4 DEF FormFresh
<1>6. PICK b : b = Body("update", t, form.id)
  OBVIOUS
<1>7. b \in RequestType /\ b.op = "update" /\ b.t = t /\ b.id = form.id /\ b.stage = "sent"
  BY <1>1, <1>4, <1>6, BodyFields DEF AllOps, Stores
<1>8. PICK m : m = [b EXCEPT !.on = form.on, !.touched = form.touched, !.ver = form.ver,
                             !.secret = s]
  OBVIOUS
<1>9. m \in RequestType
  BY <1>3, <1>4, <1>7, <1>8 DEF RequestType
<1>10. /\ m.op = "update" /\ m.t = t /\ m.id = form.id /\ m.stage = "sent"
       /\ m.secret = s /\ m.ver = form.ver /\ m.on = form.on /\ m.touched = form.touched
  BY <1>7, <1>8 DEF RequestType
<1>11. Mutate(m)
  BY <1>3, <1>6, <1>8
<1>12. PICK i \in Nat, on \in BOOLEAN : i = form.id /\ on = form.on
  BY <1>4
<1>13. /\ asked' \in AskedType /\ asked'.gone = asked.gone /\ asked'.bound = asked.bound
       /\ \A w \in asked'.saved :
            \/ w \in asked.saved /\ (w.t # t \/ w.id # i)
            \/ /\ w.t = t /\ w.id = i /\ w.on = on
               /\ \A k \in requests : k.op = "update" => k.t # t \/ k.id # i
  <2>1. SaveAsked(t, i, on) /\ ~Pending("update")
    BY <1>3, <1>12
  <2> QED BY <1>1, <2>1, SaveAskedFields
<1>14. RequestOK(m)'
  <2>1. seq' = seq
    BY <1>11 DEF Mutate
  <2> QED BY <1>3, <1>4, <1>10, <2>1 DEF RequestOK
<1> QED BY <1>5, <1>9, <1>10, <1>11, <1>12, <1>13, <1>14, SendStep

(***************************************************************************)
(* Steps that change the tables.                                           *)
(***************************************************************************)
\* What any change of the tables keeps.
Sound ==
    /\ IsStore(db') /\ seq' \in [Stores -> Nat]
    /\ RowsEvolve
    /\ IdsUnique' /\ ConnsKnown' /\ SecretIntended'
    /\ seq["bindings"] <= seq'["bindings"]
    /\ \A b \in db'["bindings"] :
         /\ b \in db["bindings"] \/ (b.id = b.born /\ b.id <= seq'["bindings"])
         /\ <<b.user, b.mount>> \in asked.bound

\* No row is written.
Unwritten == \A t \in Tables : \A s \in db'[t] : s \in db[t] \/ s.id = seq[t] + 1

\* The save that is remembered is stored when none is on the way.
LEMMA StoredKept ==
    ASSUME IInv, asked'.saved \subseteq asked.saved,
           \A w \in asked'.saved : \A l \in requests :
               l.op = "update" /\ l.t = w.t /\ l.id = w.id /\ l.stage = "sent" =>
                   \/ \E k \in requests' : Twin(k, l) /\ k.stage = "sent"
                   \/ \A s \in db'[w.t] : s.id = w.id => s.on = w.on,
           \A t \in Tables : \A s \in db'[t] :
               \/ s \in db[t] \/ s.id = seq[t] + 1
               \/ \A w \in asked'.saved : w.t = t /\ w.id = s.id => s.on = w.on
    PROVE  LastSaveStored'
<1>1. SUFFICES ASSUME NEW w \in asked'.saved,
                      \A k \in requests' : k.op # "update" \/ k.t # w.t \/ k.id # w.id
                                           \/ k.stage # "sent",
                      NEW s \in db'[w.t], s.id = w.id
               PROVE  s.on = w.on
  BY DEF LastSaveStored, RowsWith
<1>2. w \in asked.saved /\ w.t \in Tables /\ w.id \in Nat /\ w.id <= seq[w.t] /\ seq[w.t] \in Nat
  BY <1>1 DEF IInv, Shaped, AskedType, Ids, Saves, SavesOK, Stores
<1>3. w.id # seq[w.t] + 1
  BY <1>2
<1>4. CASE \E l \in requests : l.op = "update" /\ l.t = w.t /\ l.id = w.id /\ l.stage = "sent"
  <2>1. PICK l \in requests : l.op = "update" /\ l.t = w.t /\ l.id = w.id /\ l.stage = "sent"
    BY <1>4
  <2>2. ~\E k \in requests' : Twin(k, l) /\ k.stage = "sent"
    BY <1>1, <2>1 DEF Twin
  <2> QED BY <1>1, <2>1, <2>2
<1>5. CASE \A l \in requests : l.op # "update" \/ l.t # w.t \/ l.id # w.id \/ l.stage # "sent"
  <2>1. \A r \in db[w.t] : r.id = w.id => r.on = w.on
    BY <1>2, <1>5 DEF IInv, Saves, LastSaveStored, RowsWith
  <2> QED BY <1>1, <1>2, <1>3, <2>1
<1> QED BY <1>4, <1>5

LEMMA TableStep ==
    ASSUME IInv, Sound, UNCHANGED <<page, list, form>>,
           used' \in UsedType, asked' \in AskedType, requests' \subseteq RequestType,
           \A k \in requests' : \E m \in requests : Twin(k, m),
           asked'.gone = asked.gone, asked'.bound = asked.bound, asked'.saved \subseteq asked.saved,
           LastSaveStored'
    PROVE  IInv'
<1>1. Shaped
  BY DEF IInv
<1>2. Shaped'
  BY <1>1 DEF Shaped, Sound, IsStore, StoreType
<1>3. RowsEvolve
  BY DEF Sound
<1>4. /\ FormOK' /\ FormFresh' /\ ListFresh'
      /\ \A t \in Tables : \A r \in db'[t] \cup list'[t] : Known(t, r)'
  BY <1>2, <1>3, UnderDialogs
<1>5. RequestsOK' /\ RequestsFresh' /\ SavesOK'
  BY <1>2, <1>3, TwinsKept
<1>6. ASSUME NEW b \in db'["bindings"] \cup list'["bindings"]
      PROVE  b.id = b.born /\ b.id <= seq'["bindings"]
  <2>1. \A c \in db["bindings"] \cup list["bindings"] :
            c.id \in Nat /\ c.id = c.born /\ c.id <= seq["bindings"]
    <3>1. \A c \in db["bindings"] \cup list["bindings"] : c \in BindingType
      BY <1>1, StoreRows DEF Shaped
    <3> QED BY <3>1 DEF BindingType, Ids, IInv, Identified, RowsKnown, Known
  <2>2. seq["bindings"] \in Nat /\ seq'["bindings"] \in Nat /\ seq["bindings"] <= seq'["bindings"]
    BY <1>1 DEF Shaped, Sound, Stores
  <2>3. \/ b \in db["bindings"] \cup list["bindings"]
        \/ b.id = b.born /\ b.id <= seq'["bindings"]
    BY <1>6 DEF Sound
  <2> QED BY <2>1, <2>2, <2>3
<1>7. RowsKnown'
  BY <1>4, <1>6 DEF RowsKnown, Known
<1>8. BoundOK'
  BY DEF BoundOK, Sound
<1> QED BY <1>2, <1>4, <1>5, <1>7, <1>8 DEF IInv, Identified, Meant, Versions, Saves, Sound

\* Nothing is changed.
LEMMA SoundSame ==
    ASSUME IInv, UNCHANGED <<db, seq>>
    PROVE  Sound /\ Unwritten
<1>1. RowsEvolve
  BY SameRowsEvolve DEF IInv
<1>2. IsStore(db') /\ seq' \in [Stores -> Nat] /\ seq["bindings"] <= seq'["bindings"]
  BY DEF IInv, Shaped, IsStore, Stores
<1>3. IdsUnique' /\ ConnsKnown' /\ SecretIntended'
  BY DEF IInv, Identified, IdsUnique, ConnsKnown, Meant, SecretIntended
<1>4. \A b \in db["bindings"] : <<b.user, b.mount>> \in asked.bound
  BY DEF IInv, Meant, BoundOK
<1> QED BY <1>1, <1>2, <1>3, <1>4 DEF Sound, Unwritten

\* sqlite_sequence counts on.
LEMMA SeqFields ==
    ASSUME Shaped, NEW t \in Stores, NEW n \in Nat, seq[t] <= n, NEW z, z = [seq EXCEPT ![t] = n]
    PROVE  /\ z \in [Stores -> Nat] /\ z[t] = n
           /\ \A u \in Stores : seq[u] \in Nat /\ seq[u] <= z[u]
           /\ \A u \in Stores \ {t} : z[u] = seq[u]
<1> HIDE DEF Stores
<1> QED BY DEF Shaped

\* A change of one table t leaves what is known of the others.
LEMMA SoundElsewhere ==
    ASSUME IInv, NEW t \in Stores, IsStore(db'), seq' \in [Stores -> Nat],
           \A u \in Stores \ {t} : db'[u] = db[u],
           \A u \in Stores : seq[u] <= seq'[u],
           \A r, s \in db'[t] : r.id = s.id => r = s,
           t \in Tables => \A s \in db'[t] :
               /\ \/ s \in db[t]
                  \/ \E r \in db[t] : s.id = r.id /\ s.born = r.born /\ s.ver = r.ver + 1
                  \/ s.id = s.born /\ s.id = seq[t] + 1 /\ s.id <= seq'[t]
               /\ \/ s.secret \in {Original, Typed(s.born)}
                  \/ t = "mountpoints" /\ s.secret = Emptied(s.born),
           t = "bindings" => \A b \in db'[t] :
               /\ b \in db[t] \/ (b.id = b.born /\ b.id <= seq'[t])
               /\ <<b.user, b.mount>> \in asked.bound,
           t = "conns" => \A c \in db'[t] : c.id <= seq'[t]
    PROVE  Sound
<1>1. RowsEvolve
  BY DEF RowsEvolve, Stores
<1>2. IdsUnique'
  BY DEF IdsUnique, IInv, Identified
<1>3. SecretIntended'
  <2>1. SecretIntended
    BY DEF IInv, Meant
  <2>2. ASSUME NEW u \in Tables, NEW s \in db'[u]
        PROVE  \/ s.secret \in {Original, Typed(s.born)}
               \/ u = "mountpoints" /\ s.secret = Emptied(s.born)
    <3>1. CASE u = t
      BY <3>1
    <3>2. CASE u # t
      BY <2>1, <3>2 DEF SecretIntended, Stores
    <3> QED BY <3>1, <3>2
  <2> QED BY <2>2 DEF SecretIntended
<1>4. ConnsKnown'
  <2>1. \A c \in db["conns"] : c.id \in Nat /\ c.id <= seq["conns"]
    <3>1. db["conns"] \subseteq ConnType /\ MaxConn \in Nat
      BY StoreRows, DialogsAssumption DEF IInv, Shaped
    <3>2. \A c \in ConnType : c.id \in 1 .. MaxConn
      BY DEF ConnType
    <3> QED BY <3>1, <3>2 DEF IInv, Identified, ConnsKnown
  <2>2. /\ seq["conns"] \in Nat /\ seq'["conns"] \in Nat /\ seq["conns"] <= seq'["conns"]
        /\ "conns" \in Stores
    BY DEF IInv, Shaped, Stores
  <2>3. CASE t = "conns"
    BY <2>3 DEF ConnsKnown
  <2>4. CASE t # "conns"
    BY <2>1, <2>2, <2>4 DEF ConnsKnown
  <2> QED BY <2>3, <2>4
<1>5. "bindings" \in Stores /\ seq["bindings"] <= seq'["bindings"]
  BY DEF Stores
<1>6. ASSUME NEW b \in db'["bindings"]
      PROVE  /\ b \in db["bindings"] \/ (b.id = b.born /\ b.id <= seq'["bindings"])
             /\ <<b.user, b.mount>> \in asked.bound
  <2>1. CASE t = "bindings"
    BY <1>6, <2>1
  <2>2. CASE t # "bindings"
    <3>1. b \in db["bindings"]
      BY <1>5, <1>6, <2>2
    <3> QED BY <3>1 DEF IInv, Meant, BoundOK
  <2> QED BY <2>1, <2>2
<1> QED BY <1>1, <1>2, <1>3, <1>4, <1>5, <1>6 DEF Sound

\* The rows of a table before a step.
LEMMA RowFacts ==
    ASSUME IInv, NEW t \in Tables, NEW r \in db[t]
    PROVE  /\ r \in RowType /\ r.id \in Nat /\ r.ver \in Nat /\ r.id = r.born /\ r.id <= seq[t]
           /\ seq[t] \in Nat
           /\ \/ r.secret \in {Original, Typed(r.born)}
              \/ t = "mountpoints" /\ r.secret = Emptied(r.born)
           /\ \A s \in db[t] : r.id = s.id => r = s
<1>1. r \in RowType
  BY StoreRows DEF IInv, Shaped
<1>2. r.id \in Nat /\ r.ver \in Nat
  BY <1>1 DEF RowType, Ids
<1>3. r.id = r.born /\ r.id <= seq[t] /\ seq[t] \in Nat
  BY DEF IInv, Identified, RowsKnown, Known, Shaped, Stores
<1>4. \/ r.secret \in {Original, Typed(r.born)}
      \/ t = "mountpoints" /\ r.secret = Emptied(r.born)
  BY DEF IInv, Meant, SecretIntended
<1>5. \A s \in db[t] : r.id = s.id => r = s
  BY DEF IInv, Identified, IdsUnique, Stores
<1> QED BY <1>1, <1>2, <1>3, <1>4, <1>5

\* A row is created.
LEMMA SoundInsert ==
    ASSUME IInv, NEW t \in Tables, Insert(t, Row(NextId(t), seq[t] + 1))
    PROVE  Sound /\ Unwritten
<1>1. Shaped /\ t \in Stores /\ seq[t] \in Nat /\ t # "bindings" /\ t # "conns"
  BY DEF IInv, Shaped, Stores, Tables
<1>2. PICK n \in Nat : n = seq[t] + 1
  BY <1>1
<1>3. PICK row : row = Row(n, n)
  OBVIOUS
<1>4. row \in RowType /\ row.id = n /\ row.born = n /\ row.secret = Original
  BY <1>3, RowFields
<1>5. PICK x : x = db[t] \cup {row}
  OBVIOUS
<1>6. db' = Replaced(db, t, x)
  BY <1>2, <1>3, <1>5 DEF Insert, With, NextId, Replaced
<1>7. seq' = [seq EXCEPT ![t] = n]
  BY <1>2 DEF Insert
<1>8. IsStore(db) /\ db[t] \subseteq RowType
  BY <1>1, StoreRows DEF Shaped
<1>9. x \subseteq RowType
  BY <1>4, <1>5, <1>8
<1>10. IsStore(db') /\ db'[t] = x /\ \A u \in Stores \ {t} : db'[u] = db[u]
  BY <1>1, <1>6, <1>8, <1>9, StoreExcept
<1>11. seq[t] <= n
  BY <1>1, <1>2
<1>12. PICK z : z = [seq EXCEPT ![t] = n]
  OBVIOUS
<1>13. /\ z \in [Stores -> Nat] /\ z[t] = n
       /\ \A u \in Stores : seq[u] \in Nat /\ seq[u] <= z[u]
  BY <1>1, <1>11, <1>12, SeqFields, ZenonT(60)
<1>14. seq' = z
  BY <1>7, <1>12
<1>15. \A r \in db[t] : r.id # n
  <2>1. \A r \in db[t] : r.id \in Nat /\ r.id <= seq[t]
    BY RowFacts
  <2> QED BY <1>1, <1>2, <2>1
<1>16. \A r, s \in db'[t] : r.id = s.id => r = s
  BY <1>4, <1>5, <1>10, <1>15, RowFacts
<1>17. ASSUME NEW s \in db'[t]
       PROVE  /\ s \in db[t] \/ (s.id = s.born /\ s.id = seq[t] + 1 /\ s.id <= seq'[t])
              /\ \/ s.secret \in {Original, Typed(s.born)}
                 \/ t = "mountpoints" /\ s.secret = Emptied(s.born)
  <2>1. CASE s \in db[t]
    BY <2>1, RowFacts
  <2>2. CASE s = row
    BY <1>2, <1>4, <1>13, <1>14, <2>2
  <2> QED BY <1>5, <1>10, <1>17, <2>1, <2>2
<1>18. Sound
  BY <1>1, <1>10, <1>13, <1>14, <1>16, <1>17, SoundElsewhere
<1>19. Unwritten
  BY <1>10, <1>17 DEF Unwritten, Stores
<1> QED BY <1>18, <1>19

\* Rows, bindings or connections only go.
LEMMA SoundShrink ==
    ASSUME IInv, IsStore(db'), seq' = seq, \A u \in Stores : db'[u] \subseteq db[u]
    PROVE  Sound /\ Unwritten
<1>1. \A u \in Stores : seq[u] \in Nat
  BY DEF IInv, Shaped
<1>2. Unwritten
  BY DEF Unwritten, Stores
<1>3. RowsEvolve
  BY <1>1 DEF RowsEvolve, Stores
<1>4. IdsUnique' /\ ConnsKnown' /\ SecretIntended'
  <2>1. IdsUnique'
    BY DEF IInv, Identified, IdsUnique
  <2>2. ConnsKnown'
    BY DEF IInv, Identified, ConnsKnown, Stores
  <2>3. SecretIntended'
    BY DEF IInv, Meant, SecretIntended, Stores
  <2> QED BY <2>1, <2>2, <2>3
<1>5. seq' \in [Stores -> Nat] /\ seq["bindings"] <= seq'["bindings"]
  BY <1>1 DEF IInv, Shaped, Stores
<1>6. \A b \in db'["bindings"] : b \in db["bindings"] /\ <<b.user, b.mount>> \in asked.bound
  BY DEF IInv, Meant, BoundOK, Stores
<1> QED BY <1>2, <1>3, <1>4, <1>5, <1>6 DEF Sound

\* What a deletion leaves.
LEMMA ErasedTables ==
    ASSUME Shaped, NEW t \in Tables, NEW i, Erase(t, i)
    PROVE  /\ IsStore(db') /\ db'[t] = {r \in db[t] : r.id # i}
           /\ db'["bindings"] \subseteq db["bindings"]
           /\ \A u \in Stores \ {t, "bindings"} : db'[u] = db[u]
<1>1. PICK cascade \in BOOLEAN :
        db' = [db EXCEPT ![t] = {r \in @ : r.id # i},
                         !.bindings = {b \in @ : ~cascade \/
                             i # (IF t = "users" THEN b.user ELSE b.mount)}]
  BY DEF Erase
<1>2. PICK x : x = {r \in db[t] : r.id # i}
  OBVIOUS
<1>3. PICK y : y = {b \in db["bindings"] : ~cascade \/ i # (IF t = "users" THEN b.user ELSE b.mount)}
  OBVIOUS
<1>4. t # "bindings" /\ IsStore(db)
  BY DEF Tables, Shaped
<1>5. db' = Erased(db, t, x, y)
  BY <1>1, <1>2, <1>3, <1>4 DEF Erased
<1>6. x \subseteq db[t] /\ y \subseteq db["bindings"]
  BY <1>2, <1>3
<1>7. /\ IsStore(db') /\ db'[t] = x /\ db'["bindings"] = y
      /\ \A u \in Stores \ {t, "bindings"} : db'[u] = db[u]
  BY <1>4, <1>5, <1>6, StoreErased
<1> QED BY <1>2, <1>6, <1>7

LEMMA SoundErase ==
    ASSUME IInv, NEW t \in Tables, NEW i, Erase(t, i), seq' = seq
    PROVE  Sound /\ Unwritten
<1>1. /\ IsStore(db') /\ db'[t] = {r \in db[t] : r.id # i}
      /\ db'["bindings"] \subseteq db["bindings"]
      /\ \A u \in Stores \ {t, "bindings"} : db'[u] = db[u]
  BY ErasedTables DEF IInv
<1>2. \A u \in Stores : db'[u] \subseteq db[u]
  BY <1>1
<1> QED BY <1>1, <1>2, SoundShrink

\* One table loses rows.
LEMMA SoundSmaller ==
    ASSUME IInv, NEW t \in Stores, NEW x, x \subseteq db[t], With(t, x), seq' = seq
    PROVE  /\ Sound /\ Unwritten
           /\ db'[t] = x /\ \A u \in Stores \ {t} : db'[u] = db[u]
<1>1. IsStore(db)
  BY DEF IInv, Shaped
<1>2. db' = Replaced(db, t, x)
  BY DEF With, Replaced
<1>3. /\ t \in Tables => x \subseteq RowType
      /\ t = "bindings" => x \subseteq BindingType
      /\ t = "conns" => x \subseteq ConnType
  BY <1>1, StoreRows
<1>4. IsStore(db') /\ db'[t] = x /\ \A u \in Stores \ {t} : db'[u] = db[u]
  BY <1>1, <1>2, <1>3, StoreExcept
<1>5. \A u \in Stores : db'[u] \subseteq db[u]
  BY <1>4
<1> QED BY <1>4, <1>5, SoundShrink

\* Rows of one table are written: each stays itself with a new version, and
\* its secret is its own.
LEMMA SoundWrite ==
    ASSUME IInv, NEW t \in Tables, NEW x, With(t, x), seq' = seq,
           \A r, s \in x : r.id = s.id => r = s,
           \A s \in x : \/ s \in db[t]
                        \/ \E r \in db[t], on \in BOOLEAN, secret \in SecretType :
                             /\ s = Written(r, on, secret)
                             /\ \/ secret \in {Keep, Typed(r.id)}
                                \/ t = "mountpoints" /\ secret = Emptied(r.id)
    PROVE  Sound /\ db'[t] = x /\ \A u \in Stores \ {t} : db'[u] = db[u]
<1>1. IsStore(db) /\ t \in Stores /\ t # "bindings" /\ t # "conns"
  BY DEF IInv, Shaped, Stores, Tables
<1>2. ASSUME NEW s \in x
      PROVE  /\ s \in RowType
             /\ \/ s \in db[t]
                \/ \E r \in db[t] : s.id = r.id /\ s.born = r.born /\ s.ver = r.ver + 1
             /\ \/ s.secret \in {Original, Typed(s.born)}
                \/ t = "mountpoints" /\ s.secret = Emptied(s.born)
  <2>1. CASE s \in db[t]
    BY <2>1, RowFacts
  <2>2. CASE s \notin db[t]
    <3>1. PICK r \in db[t], on \in BOOLEAN, secret \in SecretType :
             /\ s = Written(r, on, secret)
             /\ \/ secret \in {Keep, Typed(r.id)}
                \/ t = "mountpoints" /\ secret = Emptied(r.id)
      BY <1>2, <2>2
    <3>2. /\ r \in RowType /\ r.id = r.born
          /\ \/ r.secret \in {Original, Typed(r.born)}
             \/ t = "mountpoints" /\ r.secret = Emptied(r.born)
      BY RowFacts
    <3>3. /\ s \in RowType /\ s.id = r.id /\ s.born = r.born /\ s.ver = r.ver + 1
          /\ s.secret = (IF secret = Keep THEN r.secret ELSE secret)
      BY <3>1, <3>2, WrittenFields
    <3> QED BY <3>1, <3>2, <3>3
  <2> QED BY <2>1, <2>2
<1>3. x \subseteq RowType
  BY <1>2
<1>4. db' = Replaced(db, t, x)
  BY DEF With, Replaced
<1>5. IsStore(db') /\ db'[t] = x /\ \A u \in Stores \ {t} : db'[u] = db[u]
  BY <1>1, <1>3, <1>4, StoreExcept
<1>6. seq' \in [Stores -> Nat] /\ \A u \in Stores : seq[u] <= seq'[u]
  BY DEF IInv, Shaped
<1>7. \A r, s \in db'[t] : r.id = s.id => r = s
  BY <1>5
<1>8. Sound
  BY <1>1, <1>2, <1>5, <1>6, <1>7, SoundElsewhere
<1> QED BY <1>5, <1>8

\* A binding that was asked for is added.
LEMMA SoundBind ==
    ASSUME IInv, NEW user \in Nat, NEW mount \in Nat, <<user, mount>> \in asked.bound,
           Insert("bindings", [id |-> NextId("bindings"), born |-> seq.bindings + 1,
                               user |-> user, mount |-> mount])
    PROVE  Sound /\ Unwritten
<1>1. Shaped /\ "bindings" \in Stores /\ seq["bindings"] \in Nat /\ "bindings" \notin Tables
  BY DEF IInv, Shaped, Stores, Tables
<1>2. PICK n \in Nat : n = seq["bindings"] + 1
  BY <1>1
<1>3. PICK row : row = [id |-> n, born |-> n, user |-> user, mount |-> mount]
  OBVIOUS
<1>4. row \in BindingType /\ row.id = n /\ row.born = n /\ row.user = user /\ row.mount = mount
  BY <1>3 DEF BindingType, Ids
<1>5. PICK x : x = db["bindings"] \cup {row}
  OBVIOUS
<1>6. db' = Replaced(db, "bindings", x)
  BY <1>2, <1>3, <1>5 DEF Insert, With, NextId, Replaced
<1>7. PICK z : z = [seq EXCEPT !["bindings"] = n]
  OBVIOUS
<1>8. seq' = z
  BY <1>2, <1>7 DEF Insert
<1>9. IsStore(db) /\ db["bindings"] \subseteq BindingType
  BY <1>1, StoreRows DEF Shaped
<1>10. x \subseteq BindingType
  BY <1>4, <1>5, <1>9
<1>11. IsStore(db') /\ db'["bindings"] = x /\ \A u \in Stores \ {"bindings"} : db'[u] = db[u]
  BY <1>1, <1>6, <1>9, <1>10, StoreExcept
<1>12. seq["bindings"] <= n
  BY <1>1, <1>2
<1>13. /\ z \in [Stores -> Nat] /\ z["bindings"] = n
       /\ \A u \in Stores : seq[u] \in Nat /\ seq[u] <= z[u]
  BY <1>1, <1>7, <1>12, SeqFields, ZenonT(60)
<1>14. \A b \in db["bindings"] : b.id # n
  <2>1. \A b \in db["bindings"] : b.id \in Nat /\ b.id <= seq["bindings"]
    BY <1>9 DEF BindingType, Ids, IInv, Identified, RowsKnown, Known
  <2> QED BY <1>1, <1>2, <2>1
<1>15. \A b, c \in db'["bindings"] : b.id = c.id => b = c
  <2>1. \A b, c \in db["bindings"] : b.id = c.id => b = c
    BY <1>1 DEF IInv, Identified, IdsUnique
  <2>2. ASSUME NEW b \in x, NEW c \in x, b.id = c.id PROVE b = c
    <3>1. b \in db["bindings"] \/ b = row
      BY <1>5, <2>2
    <3>2. c \in db["bindings"] \/ c = row
      BY <1>5, <2>2
    <3> QED BY <1>4, <1>14, <2>1, <2>2, <3>1, <3>2
  <2> QED BY <1>11, <2>2
<1>16. ASSUME NEW b \in db'["bindings"]
       PROVE  /\ b \in db["bindings"] \/ (b.id = b.born /\ b.id <= seq'["bindings"])
              /\ <<b.user, b.mount>> \in asked.bound
  <2>1. CASE b \in db["bindings"]
    BY <2>1 DEF IInv, Meant, BoundOK
  <2>2. CASE b = row
    BY <1>4, <1>8, <1>13, <2>2
  <2> QED BY <1>5, <1>11, <1>16, <2>1, <2>2
<1>17. Sound
  BY <1>1, <1>8, <1>11, <1>13, <1>15, <1>16, SoundElsewhere
<1>18. Unwritten
  BY <1>11 DEF Unwritten, Tables, Stores
<1> QED BY <1>17, <1>18

\* A connection appears.
LEMMA SoundConnect ==
    ASSUME IInv, NEW c \in ConnType, Connect(c)
    PROVE  Sound /\ Unwritten
<1>1. Shaped /\ "conns" \in Stores /\ seq["conns"] \in Nat /\ "conns" \notin Tables
  BY DEF IInv, Shaped, Stores, Tables
<1>2. PICK n \in Nat : n = c.id
  <2>1. c.id \in 1 .. MaxConn /\ MaxConn \in Nat
    BY DialogsAssumption DEF ConnType
  <2> QED BY <2>1
<1>3. PICK x : x = db["conns"] \cup {c}
  OBVIOUS
<1>4. db' = Replaced(db, "conns", x)
  BY <1>3 DEF Connect, Replaced
<1>5. PICK z : z = [seq EXCEPT !["conns"] = n]
  OBVIOUS
<1>6. seq' = z
  BY <1>2, <1>5 DEF Connect
<1>7. IsStore(db) /\ db["conns"] \subseteq ConnType
  BY <1>1, StoreRows DEF Shaped
<1>8. x \subseteq ConnType
  BY <1>3, <1>7
<1>9. IsStore(db') /\ db'["conns"] = x /\ \A u \in Stores \ {"conns"} : db'[u] = db[u]
  BY <1>1, <1>4, <1>7, <1>8, StoreExcept
<1>10. seq["conns"] <= n /\ seq["conns"] < n
  BY <1>1, <1>2 DEF Connect
<1>11. /\ z \in [Stores -> Nat] /\ z["conns"] = n
       /\ \A u \in Stores : seq[u] \in Nat /\ seq[u] <= z[u]
  BY <1>1, <1>5, <1>10, SeqFields, ZenonT(60)
<1>12. \A d \in db["conns"] :
           d.id <= n /\ d.id # n /\ \A e \in db["conns"] : d.id = e.id => d = e
  <2>1. MaxConn \in Nat
    BY DialogsAssumption
  <2>2. \A d \in db["conns"] : d.id \in 1 .. MaxConn
    BY <1>7 DEF ConnType
  <2>3. \A d \in db["conns"] : d.id \in Nat /\ d.id <= seq["conns"]
    BY <2>1, <2>2 DEF IInv, Identified, ConnsKnown
  <2>4. \A d, e \in db["conns"] : d.id = e.id => d = e
    BY <1>1 DEF IInv, Identified, IdsUnique
  <2> QED BY <1>1, <1>10, <2>3, <2>4
<1>13. \A d, e \in db'["conns"] : d.id = e.id => d = e
  BY <1>2, <1>3, <1>9, <1>12
<1>14. \A d \in db'["conns"] : d.id <= seq'["conns"]
  BY <1>2, <1>3, <1>6, <1>9, <1>11, <1>12
<1>15. Sound
  BY <1>1, <1>6, <1>9, <1>11, <1>13, <1>14, SoundElsewhere
<1>16. Unwritten
  BY <1>9 DEF Unwritten, Tables, Stores
<1> QED BY <1>15, <1>16

(***************************************************************************)
(* Requests that are carried out.                                          *)
(***************************************************************************)
\* Every handler but a save leaves the rows it does not take away.
LEMMA HandleTables ==
    ASSUME IInv, NEW m \in requests, m.op # "update", Handle(m)
    PROVE  /\ \E stage \in {"ok", "failed"} : Answer(m, stage)
           /\ Sound /\ Unwritten
<1>1. /\ RequestOK(m) /\ m.op \in AllOps \ {"update"} /\ m.id \in Nat /\ m.other \in Nat
      /\ {"bindings", "conns"} \subseteq Stores /\ {"users", "mountpoints"} \subseteq Tables
  BY DEF IInv, Meant, RequestsOK, Shaped, RequestType, Ids, Stores, Tables
<1>2. ASSUME Refused(m) PROVE Answer(m, "failed") /\ Sound /\ Unwritten
  BY <1>2, SoundSame DEF Refused
<1>3. CASE m.op = "create"
  <2>1. Create(m) /\ m.t \in Tables
    BY <1>1, <1>3 DEF Handle, RequestOK
  <2>2. CASE Insert(m.t, Row(NextId(m.t), seq[m.t] + 1)) /\ Answer(m, "ok")
    <3>1. PICK t \in Tables : t = m.t
      BY <2>1
    <3>2. Insert(t, Row(NextId(t), seq[t] + 1))
      BY <2>2, <3>1
    <3> QED BY <2>2, <3>2, SoundInsert
  <2> QED BY <1>2, <2>1, <2>2 DEF Create
<1>4. CASE m.op = "delete"
  <2>1. PICK t \in Tables : /\ t = m.t
                            /\ Refused(m) \/ (Erase(t, m.id) /\ Answer(m, "ok") /\ UNCHANGED seq)
    BY <1>1, <1>4 DEF Handle, RequestOK, DeleteUser, DeleteMountpoint, Tables
  <2> QED BY <1>2, <2>1, SoundErase
<1>5. CASE m.op = "bind"
  <2>1. CreateBinding(m) /\ <<m.id, m.other>> \in asked.bound
    BY <1>1, <1>5 DEF Handle, RequestOK
  <2>2. CASE Answer(m, "ok") /\ UNCHANGED <<db, seq>>
    BY <2>2, SoundSame
  <2>3. CASE /\ Insert("bindings", [id |-> NextId("bindings"), born |-> seq.bindings + 1,
                                    user |-> m.id, mount |-> m.other])
             /\ Answer(m, "ok")
    <3>1. PICK user \in Nat, mount \in Nat : user = m.id /\ mount = m.other
      BY <1>1
    <3>2. /\ <<user, mount>> \in asked.bound
          /\ Insert("bindings", [id |-> NextId("bindings"), born |-> seq.bindings + 1,
                                 user |-> user, mount |-> mount])
      BY <2>1, <2>3, <3>1
    <3> QED BY <2>3, <3>2, SoundBind
  <2> QED BY <1>2, <2>1, <2>2, <2>3 DEF CreateBinding
<1>6. CASE m.op = "unbind"
  <2>1. DeleteBinding(m)
    BY <1>6 DEF Handle
  <2>2. PICK x : x = {b \in db["bindings"] : b.id # m.id}
    OBVIOUS
  <2>3. With("bindings", x) /\ Answer(m, "ok") /\ UNCHANGED seq /\ x \subseteq db["bindings"]
    BY <2>1, <2>2 DEF DeleteBinding
  <2> QED BY <1>1, <2>3, SoundSmaller
<1>7. CASE m.op = "kickSource"
  <2>1. KickSource(m)
    BY <1>7 DEF Handle
  <2>2. PICK x : x = IF \E c \in db["conns"] : c.kind = "source" /\ c.mount = m.id
                     THEN {c \in db["conns"] : c.mount # m.id} ELSE db["conns"]
    OBVIOUS
  <2>3. \/ Refused(m)
        \/ With("conns", x) /\ Answer(m, "ok") /\ UNCHANGED seq
    BY <2>1, <2>2 DEF KickSource
  <2>4. x \subseteq db["conns"]
    BY <2>2
  <2> QED BY <1>1, <1>2, <2>3, <2>4, SoundSmaller
<1>8. CASE m.op = "kickClient"
  <2>1. KickClient(m)
    BY <1>8 DEF Handle
  <2>2. PICK x : x = {c \in db["conns"] : c.kind # "client" \/ c.id # m.id}
    OBVIOUS
  <2>3. With("conns", x) /\ Answer(m, "ok") /\ UNCHANGED seq /\ x \subseteq db["conns"]
    BY <2>1, <2>2 DEF KickClient
  <2> QED BY <1>1, <2>3, SoundSmaller
<1> QED BY <1>1, <1>3, <1>4, <1>5, <1>6, <1>7, <1>8 DEF AllOps, SectionOps

\* A save.
LEMMA UpdateTables ==
    ASSUME IInv, NEW m \in requests, m.op = "update", Update(m)
    PROVE  /\ m.t \in Tables /\ Sound
           /\ \E stage \in {"ok", "failed"} : Answer(m, stage)
           /\ \A u \in Tables : \A s \in db'[u] :
                s \in db[u] \/ (u = m.t /\ s.id = m.id)
           /\ \A s \in db'[m.t] : s.id = m.id => s.on = m.on
           /\ \A r \in db[m.t] : \E s \in db'[m.t] : s.id = r.id /\ s.born = r.born
           /\ \A u \in Stores \ {m.t} : db'[u] = db[u]
<1>1. /\ RequestOK(m) /\ m.id \in Nat /\ m.on \in BOOLEAN /\ m.secret \in SecretType
  BY DEF IInv, Meant, RequestsOK, Shaped, RequestType, Ids
<1>2. /\ m.t \in Tables /\ m.t \in Stores
      /\ m.secret \in {Keep, Typed(m.id)} \/ (m.t = "mountpoints" /\ m.secret = Emptied(m.id))
  BY <1>1 DEF RequestOK, Stores
<1>3. CASE RowsWith(m.t, m.id) = {}
  <2>1. Answer(m, "failed") /\ UNCHANGED <<db, seq>> /\ Sound
    BY <1>3, SoundSame DEF Update, Refused
  <2>2. \A r \in db[m.t] : r.id # m.id
    BY <1>3 DEF RowsWith
  <2> QED BY <1>2, <2>1, <2>2
<1>4. CASE RowsWith(m.t, m.id) # {}
  <2> DEFINE w(r) == IF r.id = m.id THEN Written(r, m.on, m.secret) ELSE r
             x == {w(r) : r \in db[m.t]}
  <2>1. With(m.t, x) /\ Answer(m, "ok") /\ seq' = seq
    BY <1>4 DEF Update
  <2>2. ASSUME NEW r \in db[m.t]
        PROVE  /\ w(r).id = r.id /\ w(r).born = r.born
               /\ r.id = m.id => w(r) = Written(r, m.on, m.secret) /\ w(r).on = m.on
               /\ r.id # m.id => w(r) = r
    <3>1. r \in RowType
      BY <1>2, <2>2, RowFacts
    <3>2. PICK s : s = Written(r, m.on, m.secret)
      OBVIOUS
    <3>3. s.id = r.id /\ s.born = r.born /\ s.on = m.on
      BY <1>1, <3>1, <3>2, WrittenFields
    <3> QED BY <3>2, <3>3
  <2> HIDE DEF w
  <2>3. \A r, s \in x : r.id = s.id => r = s
    <3>1. \A r, s \in db[m.t] : r.id = s.id => r = s
      BY <1>2, RowFacts
    <3> QED BY <2>2, <3>1
  <2>4. ASSUME NEW s \in x
        PROVE  \/ s \in db[m.t]
               \/ \E r \in db[m.t], on \in BOOLEAN, secret \in SecretType :
                    /\ s = Written(r, on, secret)
                    /\ \/ secret \in {Keep, Typed(r.id)}
                       \/ m.t = "mountpoints" /\ secret = Emptied(r.id)
    <3>1. PICK r \in db[m.t] : s = w(r)
      BY <2>4
    <3>2. CASE r.id = m.id
      <4>1. s = Written(r, m.on, m.secret)
        BY <2>2, <3>1, <3>2
      <4> QED BY <1>1, <1>2, <3>2, <4>1
    <3> QED BY <2>2, <3>1, <3>2
  <2>5. \A s \in x : (s \in db[m.t] \/ s.id = m.id) /\ (s.id = m.id => s.on = m.on)
    BY <2>2
  <2>6. \A r \in db[m.t] : \E s \in x : s.id = r.id /\ s.born = r.born
    BY <2>2
  <2> HIDE DEF x
  <2>7. Sound /\ db'[m.t] = x /\ \A u \in Stores \ {m.t} : db'[u] = db[u]
    <3>1. PICK t \in Tables, y \in {x} : t = m.t /\ y = x
      BY <1>2
    <3>2. /\ With(t, y)
          /\ \A r, s \in y : r.id = s.id => r = s
      BY <2>1, <2>3, <3>1
    <3>3. \A s \in y : \/ s \in db[t]
                       \/ \E r \in db[t], on \in BOOLEAN, secret \in SecretType :
                            /\ s = Written(r, on, secret)
                            /\ \/ secret \in {Keep, Typed(r.id)}
                               \/ t = "mountpoints" /\ secret = Emptied(r.id)
      BY <2>4, <3>1
    <3>4. Sound /\ db'[t] = y /\ \A u \in Stores \ {t} : db'[u] = db[u]
      BY <2>1, <3>2, <3>3, SoundWrite
    <3> QED BY <3>1, <3>4
  <2>8. \A u \in Tables : u \in Stores
    BY DEF Stores
  <2> QED BY <1>2, <2>1, <2>5, <2>6, <2>7, <2>8
<1> QED BY <1>3, <1>4

LEMMA ArriveStep ==
    ASSUME IInv, NEW m \in requests, Arrive(m)
    PROVE  IInv'
<1>1. Shaped
  BY DEF IInv
<1>2. Handle(m) /\ m.stage = "sent" /\ UNCHANGED <<page, list, form, used, asked>>
  BY DEF Arrive
<1>3. used' \in UsedType /\ asked' \in AskedType
  BY <1>1, <1>2 DEF Shaped
<1>4. CASE m.op # "update"
  <2>1. /\ \E stage \in {"ok", "failed"} : Answer(m, stage)
        /\ Sound /\ Unwritten
    BY <1>2, <1>4, HandleTables
  <2>2. /\ requests' \subseteq RequestType
        /\ \A k \in requests' : \E l \in requests : Twin(k, l)
        /\ \A l \in requests \ {m} : l \in requests'
    BY <1>1, <2>1, AnswerTwins
  <2>3. \A l \in requests : l.op = "update" => l \in requests' /\ Twin(l, l)
    BY <1>4, <2>2 DEF Twin
  <2>4. LastSaveStored'
    BY <1>2, <2>1, <2>3, StoredKept DEF Unwritten
  <2> QED BY <1>2, <1>3, <2>1, <2>2, <2>4, TableStep
<1>5. CASE m.op = "update"
  <2>1. Update(m)
    BY <1>2, <1>5 DEF Handle
  <2>2. /\ m.t \in Tables /\ Sound
        /\ \E stage \in {"ok", "failed"} : Answer(m, stage)
        /\ \A u \in Tables : \A s \in db'[u] : s \in db[u] \/ (u = m.t /\ s.id = m.id)
        /\ \A s \in db'[m.t] : s.id = m.id => s.on = m.on
    BY <1>5, <2>1, UpdateTables
  <2>3. /\ requests' \subseteq RequestType
        /\ \A k \in requests' : \E l \in requests : Twin(k, l)
        /\ \A l \in requests \ {m} : l \in requests'
    BY <1>1, <2>2, AnswerTwins
  <2>4. \A w \in asked.saved : m.t = w.t /\ m.id = w.id => m.on = w.on
    BY <1>5 DEF IInv, Saves, SavesOK
  <2>5. ASSUME NEW w \in asked'.saved, NEW l \in requests,
               l.op = "update", l.t = w.t, l.id = w.id, l.stage = "sent"
        PROVE  \/ \E k \in requests' : Twin(k, l) /\ k.stage = "sent"
               \/ \A s \in db'[w.t] : s.id = w.id => s.on = w.on
    <3>1. CASE l = m
      BY <1>2, <2>2, <2>4, <2>5, <3>1
    <3>2. CASE l # m
      BY <2>3, <2>5, <3>2 DEF Twin
    <3> QED BY <3>1, <3>2
  <2>6. ASSUME NEW t \in Tables, NEW s \in db'[t], s \notin db[t]
        PROVE  \A w \in asked'.saved : w.t = t /\ w.id = s.id => s.on = w.on
    BY <1>2, <2>2, <2>4, <2>6
  <2>7. LastSaveStored'
    BY <1>2, <2>5, <2>6, StoredKept
  <2> QED BY <1>2, <1>3, <2>2, <2>3, <2>7, TableStep
<1> QED BY <1>4, <1>5

(***************************************************************************)
(* What others do.                                                         *)
(***************************************************************************)
LEMMA OtherQuietStep ==
    ASSUME IInv, Sound, Unwritten, used' \in UsedType, UNCHANGED <<page, list, form, requests, asked>>
    PROVE  IInv'
<1>1. requests' \subseteq RequestType /\ asked' \in AskedType
  BY DEF IInv, Shaped
<1>2. \A m \in requests : Twin(m, m)
  BY DEF Twin
<1>3. LastSaveStored'
  BY <1>2, StoredKept DEF Unwritten
<1> QED BY <1>1, <1>2, <1>3, TableStep

LEMMA OtherWriteStep ==
    ASSUME IInv, NEW t \in Tables, NEW r \in db[t], OtherWrite(t, r)
    PROVE  IInv'
<1>1. Shaped /\ r \in RowType /\ r.on \in BOOLEAN
  BY RowFacts DEF IInv, RowType
<1>2. PICK on \in BOOLEAN : on = ~r.on
  OBVIOUS
<1>3. PICK s : s = Written(r, on, Keep)
  OBVIOUS
<1>4. Keep \in SecretType
  BY DEF Keep, SecretType, Ids
<1>5. s.id = r.id
  BY <1>1, <1>3, <1>4, WrittenFields
<1>6. PICK x : x = (db[t] \ {r}) \cup {s}
  OBVIOUS
<1>7. /\ With(t, x) /\ UNCHANGED <<page, seq, list, form, requests>>
      /\ asked' = AskedForgetting(t, r.id) /\ used' \in UsedType
  BY <1>1, <1>2, <1>3, <1>6, SpendTyped DEF OtherWrite, AskedForgetting, Shaped
<1>8. /\ asked' \in AskedType /\ asked'.gone = asked.gone /\ asked'.bound = asked.bound
      /\ asked'.saved = {w \in asked.saved : w.t # t \/ w.id # r.id}
  BY <1>1, <1>7, ForgottenFields
<1>9. \A a, b \in x : a.id = b.id => a = b
  <2>1. \A a, b \in db[t] : a.id = b.id => a = b
    BY RowFacts
  <2> QED BY <1>5, <1>6, <2>1
<1>10. ASSUME NEW a \in x
       PROVE  \/ a \in db[t]
              \/ \E b \in db[t], o \in BOOLEAN, secret \in SecretType :
                   /\ a = Written(b, o, secret)
                   /\ \/ secret \in {Keep, Typed(b.id)}
                      \/ t = "mountpoints" /\ secret = Emptied(b.id)
  BY <1>3, <1>4, <1>6, <1>10
<1>11. Sound /\ db'[t] = x /\ \A u \in Stores \ {t} : db'[u] = db[u]
  BY <1>7, <1>9, <1>10, SoundWrite
<1>12. requests' \subseteq RequestType /\ \A m \in requests : Twin(m, m)
  BY <1>1, <1>7 DEF Shaped, Twin
<1>13. ASSUME NEW u \in Tables, NEW a \in db'[u], a \notin db[u]
       PROVE  \A w \in asked'.saved : w.t = u /\ w.id = a.id => a.on = w.on
  <2>1. u = t /\ a.id = r.id
    BY <1>5, <1>6, <1>11, <1>13 DEF Stores
  <2> QED BY <1>8, <2>1
<1>14. LastSaveStored'
  <2>1. asked'.saved \subseteq asked.saved
    BY <1>8
  <2> QED BY <1>7, <1>12, <1>13, <2>1, StoredKept
<1>15. asked'.saved \subseteq asked.saved
  BY <1>8
<1> QED BY <1>7, <1>8, <1>11, <1>12, <1>14, <1>15, TableStep

LEMMA OtherStep ==
    ASSUME IInv, OtherNext
    PROVE  IInv'
<1>1. Shaped
  BY DEF IInv
<1>2. ASSUME NEW t \in Tables, OtherCreate(t) PROVE IInv'
  <2>1. /\ Insert(t, Row(NextId(t), seq[t] + 1)) /\ UNCHANGED <<page, list, form, requests, asked>>
        /\ used' \in UsedType
    BY <1>1, <1>2, SpendTyped DEF OtherCreate, Shaped
  <2> QED BY <2>1, SoundInsert, OtherQuietStep
<1>3. ASSUME NEW t \in Tables, NEW r \in db[t], OtherDelete(t, r) PROVE IInv'
  <2>1. /\ Erase(t, r.id) /\ seq' = seq /\ UNCHANGED <<page, list, form, requests, asked>>
        /\ used' \in UsedType
    BY <1>1, <1>3, SpendTyped DEF OtherDelete, Shaped
  <2> QED BY <2>1, SoundErase, OtherQuietStep
<1>4. ASSUME NEW c \in ConnType, Connect(c) PROVE IInv'
  <2>1. UNCHANGED <<page, list, form, requests, asked>> /\ used' \in UsedType
    BY <1>1, <1>4, SpendTyped DEF Connect, Shaped
  <2> QED BY <1>4, <2>1, SoundConnect, OtherQuietStep
<1>5. ASSUME NEW c \in db["conns"], Disconnect(c) PROVE IInv'
  <2>1. PICK x : x = db["conns"] \ {c}
    OBVIOUS
  <2>2. /\ With("conns", x) /\ x \subseteq db["conns"] /\ seq' = seq
        /\ UNCHANGED <<page, list, form, requests, asked>> /\ used' \in UsedType
    BY <1>1, <1>5, <2>1, SpendTyped DEF Disconnect, With, Shaped
  <2>3. "conns" \in Stores
    BY DEF Stores
  <2> QED BY <2>2, <2>3, SoundSmaller, OtherQuietStep
<1>6. \A k \in {"source", "client"}, i \in 1 .. MaxConn, d \in Mounts :
          [kind |-> k, id |-> i, mount |-> d] \in ConnType
  BY DEF ConnType
<1> QED BY <1>2, <1>3, <1>4, <1>5, <1>6, OtherWriteStep DEF OtherNext

(***************************************************************************)
(* The invariant.                                                          *)
(***************************************************************************)
LEMMA InitOK ==
    ASSUME Init
    PROVE  IInv
<1> DEFINE us == {Row(i, i) : i \in Users}
           ms == {Row(i, i) : i \in Mounts}
           ids == {c.id : c \in Conns}
<1>1. /\ Users \subseteq Nat /\ IsFiniteSet(Users) /\ Mounts \subseteq Nat /\ IsFiniteSet(Mounts)
      /\ MaxConn \in Nat /\ Conns \subseteq ConnType
      /\ \A c, d \in Conns : c.id = d.id => c = d
      /\ MaxMoves \in Nat /\ MaxOpens \in Nat /\ MaxSends \in Nat /\ MaxOthers \in Nat
  BY DialogsAssumption DEF ConnType
<1>2. ASSUME NEW r \in us \cup ms
      PROVE  r \in RowType /\ r.id = r.born /\ r.secret = Original
  BY <1>1, <1>2, RowFields
<1>3. \A r, s \in us : r.id = s.id => r = s
  <2>1. \A r \in us : r.id \in Users /\ r = Row(r.id, r.id)
    BY <1>1, RowFields
  <2> HIDE DEF us
  <2> QED BY <2>1
<1>4. \A r, s \in ms : r.id = s.id => r = s
  <2>1. \A r \in ms : r.id \in Mounts /\ r = Row(r.id, r.id)
    BY <1>1, RowFields
  <2> HIDE DEF ms
  <2> QED BY <2>1
<1>5. Largest(Users) \in Nat /\ \A r \in us : r.id <= Largest(Users)
  <2>1. \A r \in us : r.id \in Users
    BY <1>1, RowFields
  <2> HIDE DEF us
  <2> QED BY <1>1, <2>1, LargestIsBound
<1>6. Largest(Mounts) \in Nat /\ \A r \in ms : r.id <= Largest(Mounts)
  <2>1. \A r \in ms : r.id \in Mounts
    BY <1>1, RowFields
  <2> HIDE DEF ms
  <2> QED BY <1>1, <2>1, LargestIsBound
<1>7. Largest(ids) \in Nat /\ \A c \in Conns : c.id <= Largest(ids)
  <2>1. ids \subseteq 1 .. MaxConn
    BY <1>1 DEF ConnType
  <2>2. 1 .. MaxConn \subseteq Nat /\ IsFiniteSet(1 .. MaxConn)
    BY <1>1, FS_Interval
  <2>3. ids \subseteq Nat /\ IsFiniteSet(ids)
    BY <2>1, <2>2, FS_Subset
  <2>4. \A c \in Conns : c.id \in ids
    OBVIOUS
  <2> HIDE DEF ids
  <2> QED BY <2>3, <2>4, LargestIsBound
<1>8. /\ db = [users |-> us, mountpoints |-> ms, bindings |-> {}, conns |-> Conns]
      /\ seq = [users |-> Largest(Users), mountpoints |-> Largest(Mounts), bindings |-> 0,
                conns |-> Largest(ids)]
      /\ list = db /\ form = NoForm /\ requests = {} /\ page \in Pages
      /\ used = [moves |-> 0, opens |-> 0, sends |-> 0, others |-> 0]
      /\ asked = [gone |-> {}, saved |-> {}, bound |-> {}]
  BY DEF Init
<1>9. us \subseteq RowType /\ ms \subseteq RowType
  BY <1>2
<1> HIDE DEF us, ms, ids
<1>10. /\ db["users"] = us /\ db["mountpoints"] = ms /\ db["bindings"] = {} /\ db["conns"] = Conns
       /\ db \in [Stores -> SUBSET AnyRow]
  BY <1>1, <1>8, <1>9 DEF Stores, Tables, AnyRow
<1>11. /\ seq["users"] = Largest(Users) /\ seq["mountpoints"] = Largest(Mounts)
       /\ seq["bindings"] = 0 /\ seq["conns"] = Largest(ids) /\ seq \in [Stores -> Nat]
  BY <1>5, <1>6, <1>7, <1>8 DEF Stores, Tables
<1>12. IsStore(db) /\ IsStore(list)
  BY <1>1, <1>8, <1>9, <1>10 DEF IsStore, StoreType
<1>13. form \in FormType /\ form.open = "none" /\ form.pick.id = 0
  BY <1>8 DEF NoForm, NoPick, FormType, SecretType, Blank, Ids
<1>14. used \in UsedType
  BY <1>1, <1>8 DEF UsedType
<1>15. asked \in AskedType /\ asked.saved = {}
  BY <1>8 DEF AskedType
<1>16. Shaped
  BY <1>8, <1>11, <1>12, <1>13, <1>14, <1>15 DEF Shaped
<1>17. RowsKnown
  BY <1>2, <1>5, <1>6, <1>8, <1>10, <1>11 DEF RowsKnown, Known, Tables
<1>18. ConnsKnown
  BY <1>7, <1>10, <1>11 DEF ConnsKnown
<1>19. IdsUnique
  BY <1>1, <1>3, <1>4, <1>10 DEF IdsUnique, Stores, Tables
<1>20. SecretIntended
  BY <1>2, <1>10 DEF SecretIntended, Tables
<1>21. FormOK /\ RequestsOK /\ BoundOK
  BY <1>8, <1>10, <1>13 DEF FormOK, RequestsOK, BoundOK
<1>22. FormFresh /\ RequestsFresh
  BY <1>8, <1>13 DEF FormFresh, RequestsFresh
<1>23. ListFresh
  <2>1. ASSUME NEW t \in Tables, NEW r \in list[t], NEW s \in db[t], s.id = r.id
        PROVE  r.ver <= s.ver /\ (r.ver = s.ver => s.on = r.on)
    <3>1. r = s
      BY <1>8, <1>19, <2>1 DEF IdsUnique, Stores
    <3>2. s.ver \in Nat
      BY <1>12, StoreRows DEF RowType
    <3> QED BY <3>1, <3>2
  <2> QED BY <2>1 DEF ListFresh, Fresh
<1>24. SavesOK /\ LastSaveStored
  BY <1>15 DEF SavesOK, LastSaveStored
<1> QED BY <1>16, <1>17, <1>18, <1>19, <1>20, <1>21, <1>22, <1>23, <1>24
        DEF IInv, Identified, Meant, Versions, Saves

LEMMA NextOK ==
    ASSUME IInv, [Next]_vars
    PROVE  IInv'
<1>1. CASE UsersNext
  <2>1. CASE UsersOpenCreate
    BY <2>1, OpenCreateStep
  <2>2. CASE UsersFill \/ UsersToggle \/ UsersType
    BY <2>2, EnterFieldStep
  <2>3. CASE UsersHandleCreate \/ UsersHandleUpdate \/ UsersHandleDelete
    BY <2>3, SendCreateStep, SendUpdateStep, SendDeleteStep
  <2>4. CASE \E r \in UserTable : UsersOpenEdit(r) \/ UsersOpenDelete(r)
    BY <2>4, OpenEditStep, OpenTargetStep
  <2>5. CASE \E r \in AvailableMountpoints : SelectMountpoint(r)
    BY <2>5, SelectStep
  <2>6. CASE HandleAdd
    BY <2>6, SendBindStep
  <2>7. CASE \E b \in list["bindings"] : HandleRemove(b)
    BY <2>7, SendUnbindStep
  <2> QED BY <1>1, <2>1, <2>2, <2>3, <2>4, <2>5, <2>6, <2>7 DEF UsersNext
<1>2. CASE MountsNext
  <2>1. CASE MountsOpenCreate
    BY <2>1, OpenCreateStep
  <2>2. CASE \/ MountsFill \/ MountsToggle
             \/ MountsType(Typed(form.born)) \/ MountsType(Emptied(form.born))
    BY <2>2, EnterFieldStep
  <2>3. CASE MountsHandleCreate \/ MountsHandleUpdate \/ MountsHandleDelete
    BY <2>3, SendCreateStep, SendUpdateStep, SendDeleteStep
  <2>4. CASE \E r \in MountpointTable : MountsOpenEdit(r) \/ MountsOpenDelete(r)
    BY <2>4, OpenEditStep, OpenTargetStep
  <2> QED BY <1>2, <2>1, <2>2, <2>3, <2>4 DEF MountsNext
<1>3. CASE ConnsNext
  BY <1>3, OpenTargetStep, SendKickStep DEF ConnsNext
<1>4. CASE OtherNext
  BY <1>4, OtherStep
<1>5. CASE Cancel
  BY <1>5, CancelStep
<1>6. CASE \E m \in requests : Arrive(m) \/ Lose(m) \/ Report(m)
  BY <1>6, ArriveStep, LoseStep, ReportStep
<1>7. CASE \E t \in Stores : Refresh(t)
  BY <1>7, RefreshStep
<1>8. CASE \E p \in Pages : Navigate(p)
  BY <1>8, NavigateStep
<1>9. CASE UNCHANGED vars
  <2>1. /\ UNCHANGED <<page, db, seq, list, requests, asked>>
        /\ form' = form /\ used' = used
    BY <1>9 DEF vars
  <2>2. used' \in UsedType /\ form' \in FormType
    BY <2>1 DEF IInv, Shaped
  <2>3. FormOK' /\ FormFresh'
    BY <2>1 DEF IInv, Meant, Versions, FormOK, FormFresh, FreshOrTouched
  <2> QED BY <2>1, <2>2, <2>3, FormStep
<1> QED BY <1>1, <1>2, <1>3, <1>4, <1>5, <1>6, <1>7, <1>8, <1>9 DEF Next

\* The state of the console, its requests and the tables fit together in
\* every reachable state.
THEOREM DialogsInvariant == Spec => []IInv
<1>1. Init => IInv
  BY InitOK
<1>2. IInv /\ [Next]_vars => IInv'
  BY NextOK
<1> QED BY <1>1, <1>2, PTL DEF Spec

(***************************************************************************)
(* What follows.                                                           *)
(***************************************************************************)
\* Every variable has its type, and no two rows of a table share an id,
\* whatever is created and deleted (AUTOINCREMENT).
THEOREM DialogsTypeCorrect == Spec => []TypeOK
<1>1. IInv => TypeOK
  BY DEF IInv, Shaped, IsStore, FormType, RequestType, Identified, IdsUnique, TypeOK
<1> QED BY <1>1, DialogsInvariant, PTL

\* A stored password or station secret was typed, or emptied, in the dialog
\* of its own row, or is the one the row was created with (openEdit).
THEOREM SecretIntendedHolds == Spec => []SecretIntended
<1>1. IInv => SecretIntended
  BY DEF IInv, Meant
<1> QED BY <1>1, DialogsInvariant, PTL

\* The last save of a row is the one that is stored once none is on its way
\* (the button is disabled while isPending).
THEOREM LastSaveStoredHolds == Spec => []LastSaveStored
<1>1. IInv => LastSaveStored
  BY DEF IInv, Saves
<1> QED BY <1>1, DialogsInvariant, PTL

\* A binding of a user and a mountpoint that both exist was chosen in the
\* dialog of that very user, although deletions may leave bindings behind:
\* no id they hold is ever given to another row.
THEOREM BindingsIntendedHolds == Spec => []BindingsIntended
<1>1. ASSUME IInv PROVE BindingsIntended
  <2>1. SUFFICES ASSUME NEW b \in db["bindings"], NEW u \in RowsWith("users", b.user),
                        NEW d \in RowsWith("mountpoints", b.mount)
                 PROVE  <<u.born, d.born>> \in asked.bound
    BY DEF BindingsIntended
  <2>2. <<b.user, b.mount>> \in asked.bound
    BY <1>1 DEF IInv, Meant, BoundOK
  <2>3. u.born = b.user
    BY <1>1, RowFacts DEF RowsWith, Tables
  <2>4. d.born = b.mount
    BY <1>1, RowFacts DEF RowsWith, Tables
  <2> QED BY <2>2, <2>3, <2>4
<1> QED BY <1>1, DialogsInvariant, PTL

\* A save that did not touch the switch leaves enabled as it is when nobody
\* has written the row since the list was read.
THEOREM UntouchedKeptHolds == Spec => UntouchedKept
<1> DEFINE A == \A m \in requests : m.op = "update" /\ ~m.touched /\ Arrive(m) =>
                  \A r \in RowsWith(m.t, m.id) : r.ver = m.ver =>
                      \E s \in db'[m.t] : s.id = r.id /\ s.on = r.on
<1>1. ASSUME IInv PROVE A
  <2>1. SUFFICES ASSUME NEW m \in requests, m.op = "update", ~m.touched, Arrive(m),
                        NEW r \in RowsWith(m.t, m.id), r.ver = m.ver
                 PROVE  \E s \in db'[m.t] : s.id = r.id /\ s.on = r.on
    OBVIOUS
  <2>2. Update(m)
    BY <2>1 DEF Arrive, Handle
  <2>3. /\ \A s \in db'[m.t] : s.id = m.id => s.on = m.on
        /\ \A q \in db[m.t] : \E s \in db'[m.t] : s.id = q.id
    BY <1>1, <2>1, <2>2, UpdateTables
  <2>4. r \in db[m.t] /\ r.id = m.id
    BY <2>1 DEF RowsWith
  <2>5. r.on = m.on
    BY <1>1, <2>1, <2>4 DEF IInv, Versions, RequestsFresh, FreshOrTouched
  <2>6. PICK s \in db'[m.t] : s.id = r.id
    BY <2>3, <2>4
  <2> QED BY <2>3, <2>4, <2>5, <2>6
<1>2. UntouchedKept <=> [][A]_vars
  BY DEF UntouchedKept
<1> HIDE DEF A
<1> QED BY <1>1, <1>2, DialogsInvariant, PTL DEF Spec

\* What a request takes away is what the administrator confirmed, also when
\* rows came and went while the dialog was open or the request under way.
THEOREM OnlyConfirmedGoneHolds == Spec => OnlyConfirmedGone
<1> DEFINE A == \A m \in requests : Arrive(m) =>
                  /\ \A t \in Tables : \A r \in db[t] :
                       <<t, r.born>> \in asked.gone \/ \E s \in db'[t] : s.born = r.born
                  /\ \A c \in db.conns \ db'.conns :
                       <<c.kind, c.id>> \in asked.gone \/ <<"mount", c.mount>> \in asked.gone
<1>1. ASSUME IInv PROVE A
  <2>1. SUFFICES ASSUME NEW m \in requests, Arrive(m)
                 PROVE  /\ \A t \in Tables : \A r \in db[t] :
                             <<t, r.born>> \in asked.gone \/ \E s \in db'[t] : s.born = r.born
                        /\ \A c \in db["conns"] \ db'["conns"] :
                             \/ <<c.kind, c.id>> \in asked.gone
                             \/ <<"mount", c.mount>> \in asked.gone
    OBVIOUS
  <2>2. Handle(m) /\ RequestOK(m) /\ Shaped /\ m.op \in AllOps /\ m.id \in Nat
    BY <1>1, <2>1 DEF Arrive, IInv, Meant, RequestsOK, Shaped, RequestType, Ids
  <2>3. /\ {"bindings", "conns"} \subseteq Stores /\ {"users", "mountpoints"} \subseteq Tables
        /\ Tables \subseteq Stores \ {"bindings", "conns"} /\ IsStore(db)
    BY <2>2 DEF Stores, Tables, Shaped
  <2> DEFINE Kept(S) == \A t \in S : db[t] \subseteq db'[t]
             Goal == /\ \A t \in Tables : \A r \in db[t] :
                          <<t, r.born>> \in asked.gone \/ \E s \in db'[t] : s.born = r.born
                     /\ \A c \in db["conns"] \ db'["conns"] :
                          \/ <<c.kind, c.id>> \in asked.gone
                          \/ <<"mount", c.mount>> \in asked.gone
  <2>4. ASSUME Kept(Tables \cup {"conns"}) PROVE Goal
    BY <2>4
  <2>5. ASSUME Refused(m) PROVE Goal
    BY <2>5, <2>4 DEF Refused
  <2>6. CASE m.op = "update"
    <3>1. Update(m)
      BY <2>2, <2>6 DEF Handle
    <3>2. /\ m.t \in Tables
          /\ \A r \in db[m.t] : \E s \in db'[m.t] : s.id = r.id /\ s.born = r.born
          /\ \A u \in Stores \ {m.t} : db'[u] = db[u]
      BY <1>1, <2>1, <2>6, <3>1, UpdateTables
    <3> QED BY <2>3, <3>2
  <2>7. CASE m.op = "create"
    <3>1. Create(m) /\ m.t \in Tables
      BY <2>2, <2>7 DEF Handle, RequestOK
    <3>2. CASE Insert(m.t, Row(NextId(m.t), seq[m.t] + 1))
      <4>1. PICK x : db' = [db EXCEPT ![m.t] = x] /\ db[m.t] \subseteq x
        BY <3>2 DEF Insert, With
      <4>2. db \in [Stores -> SUBSET AnyRow]
        BY <2>3 DEF IsStore
      <4>3. Kept(Tables \cup {"conns"})
        BY <2>3, <3>1, <4>1, <4>2
      <4> QED BY <2>4, <4>3
    <3> QED BY <2>5, <3>1, <3>2 DEF Create
  <2>8. CASE m.op = "delete"
    <3>1. PICK t \in Tables : t = m.t /\ (Refused(m) \/ Erase(t, m.id))
      BY <2>2, <2>8 DEF Handle, RequestOK, DeleteUser, DeleteMountpoint, Tables
    <3>2. <<t, m.id>> \in asked.gone
      BY <2>2, <2>8, <3>1 DEF RequestOK
    <3>3. CASE Erase(t, m.id)
      <4>1. /\ db'[t] = {r \in db[t] : r.id # m.id}
            /\ \A u \in Stores \ {t, "bindings"} : db'[u] = db[u]
        BY <2>2, <3>3, ErasedTables
      <4>2. \A r \in db[t] : r.id = r.born
        BY <1>1, RowFacts
      <4>3. \A u \in (Tables \ {t}) \cup {"conns"} : db'[u] = db[u]
        BY <2>3, <4>1
      <4> QED BY <3>2, <4>1, <4>2, <4>3
    <3> QED BY <2>5, <3>1, <3>3
  <2>9. CASE m.op \in {"bind", "unbind"}
    <3>1. Refused(m) \/ UNCHANGED db \/ \E x : db' = [db EXCEPT !["bindings"] = x]
      BY <2>2, <2>9 DEF Handle, CreateBinding, DeleteBinding, Insert, With
    <3>2. CASE \E x : db' = [db EXCEPT !["bindings"] = x]
      <4>1. db \in [Stores -> SUBSET AnyRow]
        BY <2>3 DEF IsStore
      <4>2. Kept(Tables \cup {"conns"})
        BY <2>3, <3>2, <4>1 DEF Stores, Tables
      <4> QED BY <2>4, <4>2
    <3> QED BY <2>4, <2>5, <3>1, <3>2
  <2>10. CASE m.op = "kickSource"
    <3>1. PICK x : x = IF \E c \in db["conns"] : c.kind = "source" /\ c.mount = m.id
                       THEN {c \in db["conns"] : c.mount # m.id} ELSE db["conns"]
      OBVIOUS
    <3>2. Refused(m) \/ (With("conns", x) /\ seq' = seq)
      BY <2>2, <2>10, <3>1 DEF Handle, KickSource
    <3>3. CASE With("conns", x) /\ seq' = seq
      <4>1. x \subseteq db["conns"]
        BY <3>1
      <4>2. db'["conns"] = x /\ \A u \in Stores \ {"conns"} : db'[u] = db[u]
        BY <1>1, <2>3, <3>3, <4>1, SoundSmaller
      <4>3. \A u \in Tables : db'[u] = db[u]
        BY <2>3, <4>2
      <4>4. <<"mount", m.id>> \in asked.gone
        BY <2>2, <2>10 DEF RequestOK
      <4>5. \A c \in db["conns"] \ x : c.mount = m.id
        BY <3>1
      <4> QED BY <4>2, <4>3, <4>4, <4>5
    <3> QED BY <2>5, <3>2, <3>3
  <2>11. CASE m.op = "kickClient"
    <3>1. PICK x : x = {c \in db["conns"] : c.kind # "client" \/ c.id # m.id}
      OBVIOUS
    <3>2. With("conns", x) /\ seq' = seq
      BY <2>2, <2>11, <3>1 DEF Handle, KickClient
    <3>3. x \subseteq db["conns"]
      BY <3>1
    <3>4. db'["conns"] = x /\ \A u \in Stores \ {"conns"} : db'[u] = db[u]
      BY <1>1, <2>3, <3>2, <3>3, SoundSmaller
    <3>5. \A u \in Tables : db'[u] = db[u]
      BY <2>3, <3>4
    <3>6. <<"client", m.id>> \in asked.gone
      BY <2>2, <2>11 DEF RequestOK
    <3>7. \A c \in db["conns"] \ x : c.kind = "client" /\ c.id = m.id
      BY <3>1
    <3> QED BY <3>4, <3>5, <3>6, <3>7
  <2> QED BY <2>2, <2>6, <2>7, <2>8, <2>9, <2>10, <2>11 DEF AllOps, SectionOps
<1>2. OnlyConfirmedGone <=> [][A]_vars
  BY DEF OnlyConfirmedGone
<1> HIDE DEF A
<1> QED BY <1>1, <1>2, DialogsInvariant, PTL DEF Spec

=============================================================================
