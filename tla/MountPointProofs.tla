-------------------------- MODULE MountPointProofs --------------------------
(***************************************************************************)
(* Theorems about MountPoint, for any sets of connections and requests and *)
(* any bounds.  Each invariant of the runs is proved from an inductive     *)
(* strengthening: TypeInv, LifeInv (who still has to close what) and       *)
(* FeedInv (what each running Broadcast still owes each rover).            *)
(***************************************************************************)
EXTENDS MountPoint, FiniteSetTheorems, TLAPS

\* Where a source is relative to its batch: the packets read and not yet
\* broadcast fit the bound, and a Broadcast that began has a packet number.
BatchInv ==
    \A s \in Sources :
        /\ seq[s] + pending[s] <= MaxPackets
        /\ spc[s] = "load" => pending[s] > 0
        /\ spc[s] \in {"bcast", "select", "kick"} => seq[s] > 0
        /\ spc[s] \in {"select", "kick"} => cur[s] \in Rovers

TypeInv == TypeOK /\ BatchInv

\* The number stored in Stats.ClientCount is a number.
LEMMA CountType ==
    ASSUME NEW S \in SUBSET Rovers
    PROVE  Cardinality(S) \in Nat
BY RoverAssumption, FS_Subset, FS_CardinalityType

\* A new registry is a set of rovers, with its snapshot and its count.
LEMMA SetClientsTypes ==
    ASSUME NEW S \in SUBSET Rovers, SetClients(S)
    PROVE  /\ clientsByID' \subseteq Rovers
           /\ snapshot' \subseteq Rovers
           /\ clientCount' \in Nat
BY CountType DEF SetClients, rebuildSnapshotLocked

\* What is collected is a source and a set of rovers.
LEMMA CollectTypes ==
    ASSUME TypeOK, NEW p \in Procs, NEW s \in Sources \cup {None},
           NEW S \in SUBSET Rovers, Collect(p, s, S)
    PROVE  /\ stop' \in [Procs -> Sources \cup {None}]
           /\ kicks' \in [Procs -> SUBSET Rovers]
BY DEF TypeOK, Collect

\* A source goes to a program location.
LEMMA SourceGoto ==
    ASSUME TypeOK, NEW s \in Sources, NEW pc \in SourcePC, SGoto(s, pc)
    PROVE  spc' \in [Sources -> SourcePC]
BY DEF TypeOK, SGoto

\* A request goes to a program location.
LEMMA AdminGoto ==
    ASSUME TypeOK, NEW a \in Admins, NEW pc \in AdminPC, AGoto(a, pc)
    PROVE  apc' \in [Admins -> AdminPC]
BY DEF TypeOK, AGoto

\* A step of a rover connection keeps the types.
LEMMA RoverTypes ==
    ASSUME TypeInv, NEW c \in Rovers,
           RoverStep(c) \/ Hangup(c) \/ ReaderKick(c)
    PROVE  TypeInv'
<1> USE DEF TypeInv, TypeOK, BatchInv, config, slot, registry, link, queue,
            rover, reader, teardown, admin, At, Goto
<1>1. CASE Lookup(c)          BY <1>1 DEF Lookup, RoverPC
<1>2. CASE HasSource(c)       BY <1>2 DEF HasSource, RoverPC
<1>3. CASE AtCapacity(c)      BY <1>3 DEF AtCapacity, RoverPC
<1>4. CASE RefuseClient(c)    BY <1>4 DEF RefuseClient, RoverPC
<1>5. CASE AddClient(c)
  <2>1. clientsByID \cup {c} \in SUBSET Rovers
    OBVIOUS
  <2>2. clientCount' \in Nat
    BY <1>5, <2>1, CountType DEF AddClient, SetClients
  <2> QED BY <1>5, <2>2
          DEF AddClient, SetClients, rebuildSnapshotLocked, RoverPC
<1>6. CASE StartWriteLoop(c)  BY <1>6 DEF StartWriteLoop, RoverPC
<1>7. CASE Take(c)            BY <1>7 DEF Take, RoverPC
<1>8. CASE WriteOK(c)         BY <1>8 DEF WriteOK, RoverPC
<1>9. CASE WriteFails(c)      BY <1>9 DEF WriteFails, KickSlowConsumer, RoverPC
<1>10. CASE ExitLoop(c)       BY <1>10 DEF ExitLoop, RoverPC
<1>11. CASE RemoveClient(c)
  <2>1. clientsByID \ {c} \in SUBSET Rovers
    OBVIOUS
  <2>2. clientCount' \in Nat
    BY <1>11, <2>1, CountType DEF RemoveClient, SetClients
  <2> QED BY <1>11, <2>2
          DEF RemoveClient, SetClients, rebuildSnapshotLocked, RoverPC
<1>12. CASE Hangup(c)         BY <1>12 DEF Hangup
<1>13. CASE ReaderKick(c)     BY <1>13 DEF ReaderKick, KickSlowConsumer
<1> QED BY <1>1, <1>2, <1>3, <1>4, <1>5, <1>6, <1>7, <1>8, <1>9, <1>10,
           <1>11, <1>12, <1>13 DEF RoverStep

\* A step of a source connection keeps the types.
LEMMA SourceTypes ==
    ASSUME TypeInv, NEW s \in Sources, SourceStep(s)
    PROVE  TypeInv'
<1> USE DEF TypeInv, TypeOK, BatchInv, config, slot, registry, link, queue,
            rover, reader, teardown, admin, SAt, SGoto, NextClient
<1>1. CASE SourceLookup(s)    BY <1>1 DEF SourceLookup, SourcePC
<1>2. CASE SetSource(s)       BY <1>2 DEF SetSource, SourcePC
<1>3. CASE StartReadLoop(s)   BY <1>3 DEF StartReadLoop, SourcePC
<1>4. ASSUME NEW n \in 1 .. MaxBatch, ReadPackets(s, n) PROVE TypeInv'
  BY <1>4, BoundAssumption DEF ReadPackets, SourcePC
<1>5. CASE ReadFails(s)       BY <1>5 DEF ReadFails, SourcePC
<1>6. CASE LoadSnapshot(s)
  <2>1. /\ seq[s] + 1 \in 0 .. MaxPackets
        /\ pending[s] - 1 \in 0 .. MaxBatch
    BY <1>6, BoundAssumption DEF LoadSnapshot
  <2>2. /\ seq' \in [Sources -> 0 .. MaxPackets]
        /\ pending' \in [Sources -> 0 .. MaxBatch]
        /\ todo' \in [Sources -> SUBSET Rovers]
        /\ spc' \in [Sources -> SourcePC]
    BY <1>6, <2>1 DEF LoadSnapshot, SourcePC
  <2>3. TypeOK'
    BY <1>6, <2>2 DEF LoadSnapshot
  <2>4. BatchInv'
    BY <1>6, <2>1, BoundAssumption DEF LoadSnapshot
  <2> QED BY <2>3, <2>4
<1>7. CASE EndBroadcast(s)    BY <1>7 DEF EndBroadcast, SourcePC
<1>8. ASSUME NEW c \in Rovers, CheckDone(s, c) PROVE TypeInv'
  <2>1. /\ todo' \in [Sources -> SUBSET Rovers]
        /\ cur' \in [Sources -> Rovers \cup {None}]
        /\ spc' \in [Sources -> SourcePC]
    <3>1. SGoto(s, "select") \/ UNCHANGED spc
      BY <1>8 DEF CheckDone
    <3>2. spc' \in [Sources -> SourcePC]
      BY <3>1, SourceGoto DEF SourcePC
    <3> QED BY <1>8, <3>2 DEF CheckDone
  <2>2. TypeOK'
    BY <1>8, <2>1 DEF CheckDone
  <2>3. BatchInv'
    BY <1>8 DEF CheckDone
  <2> QED BY <2>2, <2>3
<1>9. ASSUME NEW c \in Rovers, Send(s, c) PROVE TypeInv'
  <2>1. <<s, seq[s]>> \in Packet
    BY <1>9, BoundAssumption DEF Send, Packet
  <2>2. Append(stream[c], <<s, seq[s]>>) \in Seq(Packet)
    BY <2>1
  <2>3. stream' \in [Rovers -> Seq(Packet)]
    BY <1>9, <2>2 DEF Send
  <2> QED BY <1>9, <2>3 DEF Send, SourcePC
<1>10. ASSUME NEW c \in Rovers, SeeDone(s, c) PROVE TypeInv'
  BY <1>10 DEF SeeDone, SourcePC
<1>11. ASSUME NEW c \in Rovers, MarkSlowAndKick(s, c) PROVE TypeInv'
  <2>1. /\ slow' \subseteq Rovers
        /\ slowKicks' \in Nat
        /\ cur' \in [Sources -> Rovers \cup {None}]
        /\ spc' \in [Sources -> SourcePC]
    <3>1. slow' \subseteq Rovers
      BY <1>11 DEF MarkSlowAndKick
    <3>2. slowKicks' \in Nat
      BY <1>11 DEF MarkSlowAndKick
    <3>3. cur' \in [Sources -> Rovers \cup {None}]
      BY <1>11 DEF MarkSlowAndKick
    <3>4. SGoto(s, "bcast") \/ SGoto(s, "kick")
      BY <1>11 DEF MarkSlowAndKick
    <3>5. spc' \in [Sources -> SourcePC]
      BY <3>4, SourceGoto DEF SourcePC
    <3> QED BY <3>1, <3>2, <3>3, <3>5
  <2>2. TypeOK'
    BY <1>11, <2>1 DEF MarkSlowAndKick
  <2>3. BatchInv'
    BY <1>11, SMTT(30) DEF MarkSlowAndKick
  <2> QED BY <2>2, <2>3
<1>12. ASSUME NEW c \in Rovers, KickSlow(s, c) PROVE TypeInv'
  BY <1>12 DEF KickSlow, KickSlowConsumer, SourcePC
<1>13. CASE ClearOwn(s)
  <2>1. s \in Procs
    BY DEF Procs
  <2> QED BY <1>13, <2>1, ZenonT(60) DEF ClearOwn, ClearSource, Collect, SourcePC
<1>14. CASE CloseOwn(s)       BY <1>14 DEF CloseOwn, Close, SourcePC
<1> QED BY <1>1, <1>2, <1>3, <1>4, <1>5, <1>6, <1>7, <1>8, <1>9, <1>10,
           <1>11, <1>12, <1>13, <1>14 DEF SourceStep, BroadcastStep

\* Stopping a collected source and kicking a collected rover keep the types.
LEMMA TeardownTypes ==
    ASSUME TypeInv, NEW p \in Procs, TeardownStep(p)
    PROVE  TypeInv'
<1> USE DEF TypeInv, TypeOK, BatchInv, config, slot, registry, link, queue,
            rover, reader, teardown, admin
<1>1. CASE StopSource(p)      BY <1>1 DEF StopSource, Close
<1>2. ASSUME NEW c \in Rovers, KickNext(p, c) PROVE TypeInv'
  BY <1>2 DEF KickNext, KickSlowConsumer
<1> QED BY <1>1, <1>2 DEF TeardownStep

\* A step of an API request keeps the types.
LEMMA AdminTypes ==
    ASSUME TypeInv, NEW a \in Admins, AdminStep(a)
    PROVE  TypeInv'
<1> USE DEF TypeInv, TypeOK, BatchInv, config, slot, registry, link, queue,
            rover, reader, teardown, admin, AGoto
<1>0. a \in Procs
  BY DEF Procs
<1>1. CASE SourceID(a)        BY <1>1 DEF SourceID, AdminPC
<1>2. CASE KickSource(a)
  BY <1>0, <1>2, ZenonT(60) DEF KickSource, ClearSource, Collect, AdminPC
<1>3. CASE KickSourceByUser(a)
  <2>1. apc' \in [Admins -> AdminPC]
    BY <1>3, AdminGoto DEF KickSourceByUser, AdminPC
  <2>2. /\ clientsByID' \subseteq Rovers /\ snapshot' \subseteq Rovers
        /\ clientCount' \in Nat
    BY <1>3, SetClientsTypes DEF KickSourceByUser
  <2>3. /\ stop' \in [Procs -> Sources \cup {None}]
        /\ kicks' \in [Procs -> SUBSET Rovers]
    BY <1>0, <1>3, CollectTypes DEF KickSourceByUser
  <2>4. source' \in Sources \cup {None} /\ sourceOnline' \in BOOLEAN
    BY <1>3 DEF KickSourceByUser
  <2> QED BY <1>3, <2>1, <2>2, <2>3, <2>4 DEF KickSourceByUser
<1>4. CASE KickClientsByUser(a)
  <2>1. ClientsOf(auser[a]) \in SUBSET Rovers
    BY DEF ClientsOf
  <2>2. Cardinality(clientsByID \ ClientsOf(auser[a])) \in Nat
    BY CountType
  <2> QED BY <1>0, <1>4, <2>1, <2>2, ZenonT(60) DEF KickClientsByUser, SetClients,
             Collect, rebuildSnapshotLocked, AdminPC
<1>5. CASE ReadEnabled(a)     BY <1>5 DEF ReadEnabled, AdminPC
<1>6. CASE DisconnectAll(a)   BY <1>0, <1>6 DEF DisconnectAll, Collect, AdminPC
<1>7. ASSUME NEW c \in Rovers, KickClient(a, c) PROVE TypeInv'
  <2>1. apc' \in [Admins -> AdminPC]
    BY <1>7, AdminGoto DEF KickClient, AdminPC
  <2>2. /\ clientsByID' \subseteq Rovers /\ snapshot' \subseteq Rovers
        /\ clientCount' \in Nat
    BY <1>7, SetClientsTypes DEF KickClient
  <2>3. /\ stop' \in [Procs -> Sources \cup {None}]
        /\ kicks' \in [Procs -> SUBSET Rovers]
    BY <1>0, <1>7, CollectTypes DEF KickClient
  <2> QED BY <1>7, <2>1, <2>2, <2>3 DEF KickClient
<1>8. ASSUME NEW en \in BOOLEAN, NEW max \in Limits,
             UpdateMountPoint(a, en, max)
      PROVE  TypeInv'
  BY <1>8 DEF UpdateMountPoint, AdminPC
<1>9. CASE Delete(a)          BY <1>9 DEF Delete, AdminPC
<1>10. ASSUME NEW req \in Requests \ {"delete"}, Find(a, req) PROVE TypeInv'
  <2>1. req \in AdminPC
    BY RequestAssumption DEF AdminPC
  <2> QED BY <1>10, <2>1 DEF Find
<1> QED BY <1>1, <1>2, <1>3, <1>4, <1>5, <1>6, <1>7, <1>8, <1>9, <1>10
        DEF AdminStep, RequestStep

\* The type invariant: every variable of the mountpoint, its connections and
\* its requests keeps its type, and no source exceeds its batch.
THEOREM TypeCorrect == Spec => []TypeInv
<1>1. Init => TypeInv
  <2> SUFFICES ASSUME Init PROVE TypeInv
    OBVIOUS
  <2>1. <<>> \in Seq(Packet)
    OBVIOUS
  <2>2. stream \in [Rovers -> Seq(Packet)]
    BY <2>1 DEF Init
  <2>3. 0 \in 0 .. MaxPackets /\ 0 \in 0 .. MaxBatch
    BY BoundAssumption
  <2>4. TypeOK
    BY <2>2, <2>3 DEF Init, TypeOK, RoverPC, SourcePC, AdminPC
  <2>5. BatchInv
    BY BoundAssumption DEF Init, BatchInv
  <2> QED BY <2>4, <2>5 DEF TypeInv
<1>2. TypeInv /\ [Next]_vars => TypeInv'
  <2> SUFFICES ASSUME TypeInv, [Next]_vars PROVE TypeInv'
    OBVIOUS
  <2>1. CASE UNCHANGED vars
    BY <2>1 DEF vars, TypeInv, TypeOK, BatchInv, config, slot, registry, link,
                queue, rover, reader, teardown, admin
  <2>2. CASE Next
    BY <2>2, RoverTypes, SourceTypes, TeardownTypes, AdminTypes DEF Next
  <2> QED BY <2>1, <2>2
<1> QED BY <1>1, <1>2, PTL DEF Spec

\* TypeOK, the invariant the runs check.
THEOREM TypeOKCorrect == Spec => []TypeOK
<1>1. TypeInv => TypeOK
  BY DEF TypeInv
<1> QED BY <1>1, TypeCorrect, PTL

-----------------------------------------------------------------------------
(* Who holds the slot, who is registered, who closes what.                 *)

\* The handler of the source has not been given the slot.
Outside == {"lookup", "setSource", "rejected"}

\* What was collected is past SetSource and out of the slot; only a source
\* that ran its own ClearSource is collecting; only connections that had the
\* slot are closed.
TeardownInv ==
    /\ \A p \in Procs : stop[p] # None =>
          source # stop[p] /\ spc[stop[p]] \notin Outside
    /\ \A s \in Sources : ~Ready(s) => spc[s] = "close"
    /\ \A s \in stopped : spc[s] \notin Outside

LifeInv ==
    /\ RegistrySound
    /\ SlotHolderLive
    /\ NoForgottenConnection
    /\ ClosedWhenGone
    /\ TeardownInv

\* The variables LifeInv speaks of, but for the sources' locations.
lifeVars == <<source, sourceOnline, clientsByID, snapshot, clientCount, rpc,
              done, stopped, stop, kicks>>

\* A source that only moves on within ReadLoop keeps LifeInv.
LEMMA StreamingLife ==
    ASSUME TypeOK, LifeInv, NEW s \in Sources, NEW pc \in Streaming,
           spc[s] \in Streaming, SGoto(s, pc), UNCHANGED lifeVars
    PROVE  LifeInv'
BY DEF TypeOK, LifeInv, RegistrySound, SlotHolderLive, NoForgottenConnection,
       ClosedWhenGone, TeardownInv, WillKick, WillStop, Ready, Streaming,
       Outside, SGoto, lifeVars

\* A source that was not given the slot and only moves on keeps LifeInv.
LEMMA OutsideLife ==
    ASSUME TypeOK, LifeInv, NEW s \in Sources, NEW pc \in Outside,
           spc[s] \in Outside, SGoto(s, pc), UNCHANGED lifeVars
    PROVE  LifeInv'
BY DEF TypeOK, LifeInv, RegistrySound, SlotHolderLive, NoForgottenConnection,
       ClosedWhenGone, TeardownInv, WillKick, WillStop, Ready, Streaming,
       Outside, SGoto, lifeVars

\* A step that leaves all these variables alone keeps LifeInv.
LEMMA LifeStutter ==
    ASSUME LifeInv, UNCHANGED lifeVars, UNCHANGED spc
    PROVE  LifeInv'
BY DEF LifeInv, RegistrySound, SlotHolderLive, NoForgottenConnection,
       ClosedWhenGone, TeardownInv, WillKick, WillStop, Ready, lifeVars

\* A step of a rover connection keeps LifeInv.
LEMMA RoverLife ==
    ASSUME TypeOK, LifeInv, NEW c \in Rovers,
           RoverStep(c) \/ Hangup(c) \/ ReaderKick(c)
    PROVE  LifeInv'
<1> USE DEF TypeOK, LifeInv, RegistrySound, SlotHolderLive,
            NoForgottenConnection, ClosedWhenGone, TeardownInv, WillKick,
            WillStop, Ready, Attached, config, slot, registry, link, queue,
            rover, reader, teardown, admin, At, Goto
<1>1. CASE Lookup(c)          BY <1>1 DEF Lookup
<1>2. CASE HasSource(c)       BY <1>2 DEF HasSource
<1>3. CASE AtCapacity(c)      BY <1>3 DEF AtCapacity
<1>4. CASE RefuseClient(c)    BY <1>4 DEF RefuseClient
<1>5. CASE AddClient(c)
  BY <1>5 DEF AddClient, SetClients, rebuildSnapshotLocked
<1>6. CASE StartWriteLoop(c)  BY <1>6 DEF StartWriteLoop
<1>7. CASE Take(c)            BY <1>7 DEF Take
<1>8. CASE WriteOK(c)         BY <1>8 DEF WriteOK
<1>9. CASE WriteFails(c)      BY <1>9 DEF WriteFails, KickSlowConsumer
<1>10. CASE ExitLoop(c)       BY <1>10 DEF ExitLoop
<1>11. CASE RemoveClient(c)
  <2>1. CASE c \in clientsByID
    <3>1. /\ clientsByID' = clientsByID \ {c}
          /\ snapshot' = clientsByID'
          /\ clientCount' = Cardinality(clientsByID')
          /\ rpc[c] = "remove" /\ rpc' = [rpc EXCEPT ![c] = "gone"]
          /\ UNCHANGED <<slot, done, spc, stopped, stop, kicks>>
      BY <1>11, <2>1 DEF RemoveClient, SetClients, rebuildSnapshotLocked
    <3> QED BY <3>1
  <2>2. CASE c \notin clientsByID
    <3>1. /\ rpc[c] = "remove" /\ rpc' = [rpc EXCEPT ![c] = "gone"]
          /\ UNCHANGED <<slot, registry, done, spc, stopped, stop, kicks>>
      BY <1>11, <2>2 DEF RemoveClient
    <3> QED BY <2>2, <3>1
  <2> QED BY <2>1, <2>2
<1>12. CASE Hangup(c)         BY <1>12 DEF Hangup
<1>13. CASE ReaderKick(c)     BY <1>13 DEF ReaderKick, KickSlowConsumer
<1> QED BY <1>1, <1>2, <1>3, <1>4, <1>5, <1>6, <1>7, <1>8, <1>9, <1>10,
           <1>11, <1>12, <1>13 DEF RoverStep

\* A step of a source connection keeps LifeInv.
LEMMA SourceLife ==
    ASSUME TypeOK, LifeInv, NEW s \in Sources, SourceStep(s)
    PROVE  LifeInv'
<1> USE DEF config, slot, registry, link, queue, rover, reader, teardown,
            admin, SAt, NextClient, lifeVars
<1>1. CASE SourceLookup(s)
  BY <1>1, OutsideLife DEF SourceLookup, Outside
<1>2. CASE SetSource(s)
  <2>1. CASE source = None
    <3>1. /\ source' = s /\ sourceOnline' = TRUE
          /\ spc[s] = "setSource" /\ spc' = [spc EXCEPT ![s] = "respond"]
          /\ UNCHANGED <<registry, rpc, done, stopped, stop, kicks>>
      BY <1>2, <2>1 DEF SetSource, SGoto
    <3>2. RegistrySound'
      BY <3>1, NoneAssumption DEF LifeInv, RegistrySound
    <3>3. SlotHolderLive'
      BY <3>1 DEF TypeOK, LifeInv, TeardownInv, SlotHolderLive, Streaming,
                  Outside
    <3>4. NoForgottenConnection'
      BY <2>1, <3>1, NoneAssumption
         DEF TypeOK, LifeInv, NoForgottenConnection, WillKick, WillStop,
             Streaming
    <3>5. ClosedWhenGone'
      BY <3>1 DEF TypeOK, LifeInv, ClosedWhenGone
    <3>6. TeardownInv'
      BY <3>1 DEF TypeOK, LifeInv, TeardownInv, Ready, Outside
    <3> QED BY <3>2, <3>3, <3>4, <3>5, <3>6 DEF LifeInv
  <2>2. CASE source # None
    BY <1>2, <2>2, OutsideLife DEF SetSource, Outside
  <2> QED BY <2>1, <2>2
<1>3. CASE StartReadLoop(s)
  BY <1>3, StreamingLife DEF StartReadLoop, Streaming
<1>4. ASSUME NEW n \in 1 .. MaxBatch, ReadPackets(s, n) PROVE LifeInv'
  BY <1>4, StreamingLife DEF ReadPackets, Streaming
<1>5. CASE ReadFails(s)
  BY <1>5, StreamingLife DEF ReadFails, Streaming
<1>6. CASE LoadSnapshot(s)
  BY <1>6, StreamingLife DEF LoadSnapshot, Streaming
<1>7. CASE EndBroadcast(s)
  BY <1>7, StreamingLife DEF EndBroadcast, Streaming
<1>8. ASSUME NEW c \in Rovers, CheckDone(s, c) PROVE LifeInv'
  BY <1>8, StreamingLife, LifeStutter DEF CheckDone, Streaming
<1>9. ASSUME NEW c \in Rovers, Send(s, c) PROVE LifeInv'
  BY <1>9, StreamingLife DEF Send, Streaming
<1>10. ASSUME NEW c \in Rovers, SeeDone(s, c) PROVE LifeInv'
  BY <1>10, StreamingLife DEF SeeDone, Streaming
<1>11. ASSUME NEW c \in Rovers, MarkSlowAndKick(s, c) PROVE LifeInv'
  BY <1>11, StreamingLife DEF MarkSlowAndKick, Streaming
<1> USE DEF TypeOK, LifeInv, RegistrySound, SlotHolderLive,
            NoForgottenConnection, ClosedWhenGone, TeardownInv, WillKick,
            WillStop, Ready, Streaming, Outside, SGoto
<1>12. ASSUME NEW c \in Rovers, KickSlow(s, c) PROVE LifeInv'
  BY <1>12 DEF KickSlow, KickSlowConsumer
<1>13. CASE ClearOwn(s)
  <2>0. s \in Procs /\ Ready(s) /\ spc[s] = "clear"
    BY <1>13 DEF ClearOwn, Procs
  <2>1. CASE source = s
    <3>1. /\ source' = None /\ sourceOnline' = FALSE
          /\ spc' = [spc EXCEPT ![s] = "close"]
          /\ stop' = [stop EXCEPT ![s] = s]
          /\ kicks' = [kicks EXCEPT ![s] = clientsByID]
          /\ UNCHANGED <<registry, rpc, done, stopped>>
      BY <1>13, <2>1, NoneAssumption DEF ClearOwn, ClearSource, Collect
    <3>2. RegistrySound' /\ ClosedWhenGone' /\ SlotHolderLive'
      BY <2>1, <3>1, NoneAssumption
    <3>3. \A c \in Rovers : rpc'[c] \in Attached /\ c \notin clientsByID' =>
             c \in done' \/ \E p \in Procs : WillKick(p, c)'
      BY <2>0, <3>1
    <3>4. \A t \in Sources : spc'[t] \in Streaming /\ source' # t =>
             t \in stopped' \/ \E p \in Procs : WillStop(p, t)'
      BY <2>0, <2>1, <3>1
    <3>5. TeardownInv'
      BY <2>0, <2>1, <3>1, NoneAssumption
    <3> QED BY <3>2, <3>3, <3>4, <3>5
  <2>2. CASE source # s
    <3>1. /\ spc' = [spc EXCEPT ![s] = "close"]
          /\ UNCHANGED <<slot, registry, rpc, done, stopped, stop, kicks>>
      BY <1>13, <2>2 DEF ClearOwn, ClearSource
    <3> QED BY <2>0, <2>2, <3>1
  <2> QED BY <2>1, <2>2
<1>14. CASE CloseOwn(s)       BY <1>14 DEF CloseOwn, Close
<1> QED BY <1>1, <1>2, <1>3, <1>4, <1>5, <1>6, <1>7, <1>8, <1>9, <1>10,
           <1>11, <1>12, <1>13, <1>14 DEF SourceStep, BroadcastStep

\* Stopping a collected source and kicking a collected rover keep LifeInv.
LEMMA TeardownLife ==
    ASSUME TypeOK, LifeInv, NEW p \in Procs, TeardownStep(p)
    PROVE  LifeInv'
<1> USE DEF TypeOK, LifeInv, RegistrySound, SlotHolderLive,
            NoForgottenConnection, ClosedWhenGone, TeardownInv, WillKick,
            WillStop, Ready, config, slot, registry, link, queue, rover,
            reader, teardown, admin
<1>1. CASE StopSource(p)
  BY <1>1 DEF StopSource, Close
<1>2. ASSUME NEW c \in Rovers, KickNext(p, c) PROVE LifeInv'
  BY <1>2 DEF KickNext, KickSlowConsumer
<1> QED BY <1>1, <1>2 DEF TeardownStep

\* A request empties the slot, having nothing else to close: it collects the
\* source and the clients it takes out, and LifeInv is kept.
LEMMA TakeOut ==
    ASSUME TypeOK, LifeInv, NEW a \in Admins, Ready(a),
           source' = None, sourceOnline' = FALSE,
           Collect(a, source, clientsByID),
           UNCHANGED clientsByID \/ clientsByID' = {},
           snapshot' = clientsByID', clientCount' = Cardinality(clientsByID'),
           UNCHANGED <<rpc, done, spc, stopped>>
    PROVE  LifeInv'
<1> USE NoneAssumption, ActorAssumption
    DEF TypeOK, LifeInv, Procs, Ready, Collect
<1>1. RegistrySound' /\ ClosedWhenGone' /\ SlotHolderLive'
  BY DEF RegistrySound, ClosedWhenGone, SlotHolderLive
<1>2. \A c \in Rovers : rpc'[c] \in Attached /\ c \notin clientsByID' =>
         c \in done' \/ \E p \in Procs : WillKick(p, c)'
  BY DEF NoForgottenConnection, WillKick
<1>3. \A s \in Sources : spc'[s] \in Streaming /\ source' # s =>
         s \in stopped' \/ \E p \in Procs : WillStop(p, s)'
  BY DEF NoForgottenConnection, WillStop
<1>4. TeardownInv'
  BY DEF TeardownInv, SlotHolderLive, Streaming, Outside
<1> QED BY <1>1, <1>2, <1>3, <1>4 DEF NoForgottenConnection

\* A request takes some clients out of the registry and collects them.
LEMMA KickOut ==
    ASSUME TypeOK, LifeInv, NEW a \in Admins, Ready(a),
           NEW S \in SUBSET clientsByID, SetClients(clientsByID \ S),
           Collect(a, None, S),
           UNCHANGED <<source, sourceOnline, rpc, done, spc, stopped>>
    PROVE  LifeInv'
<1> USE NoneAssumption, ActorAssumption
    DEF TypeOK, LifeInv, Procs, Ready, Collect, SetClients,
        rebuildSnapshotLocked
<1>1. RegistrySound' /\ ClosedWhenGone' /\ SlotHolderLive'
  BY DEF RegistrySound, ClosedWhenGone, SlotHolderLive
<1>2. \A c \in Rovers : rpc'[c] \in Attached /\ c \notin clientsByID' =>
         c \in done' \/ \E p \in Procs : WillKick(p, c)'
  BY DEF NoForgottenConnection, WillKick
<1>3. \A s \in Sources : spc'[s] \in Streaming /\ source' # s =>
         s \in stopped' \/ \E p \in Procs : WillStop(p, s)'
  BY DEF NoForgottenConnection, WillStop
<1>4. TeardownInv'
  BY DEF TeardownInv
<1> QED BY <1>1, <1>2, <1>3, <1>4 DEF NoForgottenConnection

\* A step of an API request keeps LifeInv.
LEMMA AdminLife ==
    ASSUME TypeOK, LifeInv, NEW a \in Admins, AdminStep(a)
    PROVE  LifeInv'
<1> USE DEF config, slot, registry, link, queue, rover, reader, teardown,
            admin, AAt, lifeVars
<1>0. snapshot = clientsByID /\ clientCount = Cardinality(clientsByID)
  BY DEF LifeInv, RegistrySound
<1>1. CASE SourceID(a)        BY <1>1, LifeStutter DEF SourceID
<1>2. CASE KickSource(a)
  BY <1>0, <1>2, TakeOut, LifeStutter DEF KickSource, ClearSource
<1>3. CASE KickSourceByUser(a)
  <2>1. CASE SourceOf(auser[a])
    BY <1>3, <2>1, TakeOut DEF KickSourceByUser, SetClients,
                               rebuildSnapshotLocked
  <2>2. CASE ~SourceOf(auser[a])
    BY <1>3, <2>2, LifeStutter DEF KickSourceByUser
  <2> QED BY <2>1, <2>2
<1>4. CASE KickClientsByUser(a)
  <2>1. ClientsOf(auser[a]) \in SUBSET clientsByID
    BY DEF ClientsOf
  <2> QED BY <1>4, <2>1, KickOut, LifeStutter DEF KickClientsByUser
<1>5. CASE ReadEnabled(a)     BY <1>5, LifeStutter DEF ReadEnabled
<1>6. CASE DisconnectAll(a)   BY <1>0, <1>6, TakeOut DEF DisconnectAll
<1>7. ASSUME NEW c \in Rovers, KickClient(a, c) PROVE LifeInv'
  BY <1>7, KickOut, LifeStutter DEF KickClient
<1>8. ASSUME NEW en \in BOOLEAN, NEW max \in Limits,
             UpdateMountPoint(a, en, max)
      PROVE  LifeInv'
  BY <1>8, LifeStutter DEF UpdateMountPoint
<1>9. CASE Delete(a)          BY <1>9, LifeStutter DEF Delete
<1>10. ASSUME NEW req \in Requests \ {"delete"}, Find(a, req) PROVE LifeInv'
  BY <1>10, LifeStutter DEF Find
<1> QED BY <1>1, <1>2, <1>3, <1>4, <1>5, <1>6, <1>7, <1>8, <1>9, <1>10
        DEF AdminStep, RequestStep

\* LifeInv is an invariant: nothing that is taken out of the registry or the
\* slot is forgotten open, whatever the interleaving of connections, kicks
\* and requests.
THEOREM LifeCorrect == Spec => []LifeInv
<1>1. Init => LifeInv
  <2> SUFFICES ASSUME Init PROVE LifeInv
    OBVIOUS
  <2>1. Cardinality({}) = 0
    BY FS_EmptySet
  <2> QED BY <2>1, NoneAssumption
          DEF Init, LifeInv, RegistrySound, SlotHolderLive,
              NoForgottenConnection, ClosedWhenGone, TeardownInv, Ready,
              Procs, Attached, Streaming
<1>2. TypeOK /\ LifeInv /\ [Next]_vars => LifeInv'
  <2> SUFFICES ASSUME TypeOK, LifeInv, [Next]_vars PROVE LifeInv'
    OBVIOUS
  <2>1. CASE UNCHANGED vars
    BY <2>1, LifeStutter DEF vars, lifeVars, config, slot, registry, link,
                             queue, rover, reader, teardown, admin
  <2>2. CASE Next
    BY <2>2, RoverLife, SourceLife, TeardownLife, AdminLife DEF Next
  <2> QED BY <2>1, <2>2
<1> QED BY <1>1, <1>2, TypeOKCorrect, PTL DEF Spec

\* The lock-free views agree with the registry.
THEOREM RegistryCorrect == Spec => []RegistrySound
<1>1. LifeInv => RegistrySound
  BY DEF LifeInv
<1> QED BY <1>1, LifeCorrect, PTL

\* The slot is never held by a connection that is closed or finished.
THEOREM SlotCorrect == Spec => []SlotHolderLive
<1>1. LifeInv => SlotHolderLive
  BY DEF LifeInv
<1> QED BY <1>1, LifeCorrect, PTL

\* No connection is taken out of the registry and left open.
THEOREM NothingForgotten == Spec => []NoForgottenConnection
<1>1. LifeInv => NoForgottenConnection
  BY DEF LifeInv
<1> QED BY <1>1, LifeCorrect, PTL

\* A finished goroutine leaves a closed connection.
THEOREM GoneIsClosed == Spec => []ClosedWhenGone
<1>1. LifeInv => ClosedWhenGone
  BY DEF LifeInv
<1> QED BY <1>1, LifeCorrect, PTL

-----------------------------------------------------------------------------
(* What a running Broadcast owes each rover.                               *)

\* The rover has not been registered.
Before == {"lookup", "hasSource", "addClient", "rejected"}

\* A rover that was not registered was given nothing and is not visited.
FreshInv ==
    \A c \in Rovers : rpc[c] \in Before =>
        stream[c] = <<>> /\ \A s \in Sources : ~Visiting(s, c)

\* Nothing is ahead of the source's last packet.
SeenInv ==
    \A c \in Rovers, s \in Sources :
        /\ base[c][s] <= seq[s]
        /\ \A i \in 1 .. Len(stream[c]) :
              stream[c][i][1] = s => stream[c][i][2] <= seq[s]

\* A rover still to visit was not given the current packet.
VisitInv ==
    \A c \in Rovers, s \in Sources : Visiting(s, c) =>
        /\ spc[s] \in {"bcast", "select", "kick"}
        /\ base[c][s] < seq[s]
        /\ \A i \in 1 .. Len(stream[c]) :
              stream[c][i][1] = s => stream[c][i][2] < seq[s]

\* The client being visited is not visited again.
CurInv ==
    \A s \in Sources :
        /\ cur[s] \notin todo[s]
        /\ cur[s] # None => spc[s] \in {"select", "kick"}

\* c has all the packets of s from before number n.
UpTo(c, s, n) == base[c][s] = n - 1 \/ Delivered(c, s, n - 1)

\* A rover that will be sent the current packet was given the one before.
PriorInv ==
    \A c \in Rovers \ slow, s \in Sources :
        cur[s] = c \/ (c \in todo[s] /\ c \notin done) =>
           UpTo(c, s, seq[s])

FeedInv == /\ GapFree /\ InOrder /\ UpToDate
           /\ FreshInv /\ SeenInv /\ VisitInv /\ CurInv /\ PriorInv

\* A step that touches no stream and no running Broadcast, closes, marks or
\* takes out rovers at most, and moves only sources that visit nobody.
LEMMA FeedFrame ==
    ASSUME TypeOK, FeedInv,
           UNCHANGED <<stream, base, seq, todo, cur>>,
           slow \subseteq slow', done \subseteq done',
           clientsByID' \subseteq clientsByID,
           \A c \in Rovers : rpc'[c] \in Before => rpc[c] \in Before,
           \A s \in Sources :
              spc'[s] = spc[s] \/ (todo[s] = {} /\ cur[s] = None)
    PROVE  FeedInv'
<1> USE DEF FeedInv
<1>1. GapFree' /\ InOrder'
  BY DEF GapFree, InOrder, Follows
<1>2. UpToDate'
  BY DEF UpToDate, Visiting, Delivered
<1>3. FreshInv' /\ SeenInv'
  BY DEF FreshInv, SeenInv, Visiting
<1>4. VisitInv'
  BY NoneAssumption DEF VisitInv, Visiting
<1>5. CurInv'
  BY DEF CurInv
<1>6. PriorInv'
  BY ZenonT(60) DEF PriorInv, UpTo, Delivered
<1> QED BY <1>1, <1>2, <1>3, <1>4, <1>5, <1>6

\* A source that is not in a Broadcast visits nobody.
LEMMA Idle ==
    ASSUME TypeOK, FeedInv, NEW s \in Sources,
           spc[s] \notin {"bcast", "select", "kick"}
    PROVE  todo[s] = {} /\ cur[s] = None
<1>1. cur[s] = None
  BY DEF FeedInv, CurInv
<1>2. \A c \in Rovers : c \notin todo[s]
  BY DEF FeedInv, VisitInv, Visiting
<1> QED BY <1>1, <1>2 DEF TypeOK

\* The i-th entry of a stream is a packet.
LEMMA EntryType ==
    ASSUME TypeOK, NEW c \in Rovers, NEW i \in 1 .. Len(stream[c])
    PROVE  /\ stream[c][i][1] \in Sources
           /\ stream[c][i][2] \in 1 .. MaxPackets
<1>1. stream[c] \in Seq(Packet)
  BY DEF TypeOK
<1>2. stream[c][i] \in Packet
  BY <1>1
<1> QED BY <1>2 DEF Packet

\* Registering a rover: its stream starts after the packets already begun.
LEMMA AddFeed ==
    ASSUME TypeOK, LifeInv, FeedInv, NEW c \in Rovers, AddClient(c)
    PROVE  FeedInv'
<1> USE DEF FeedInv
<1>1. /\ rpc[c] = "addClient" /\ rpc' = [rpc EXCEPT ![c] = "respond"]
      /\ clientsByID' = clientsByID \cup {c}
      /\ base' = [base EXCEPT ![c] = seq]
      /\ UNCHANGED <<stream, seq, todo, cur, slow, done, spc>>
  BY DEF AddClient, SetClients, At, Goto, link, queue, reader
<1>2. stream[c] = <<>> /\ \A s \in Sources : ~Visiting(s, c)
  BY <1>1 DEF FreshInv, Before
<1>3. /\ base'[c] = seq
      /\ \A d \in Rovers \ {c} : base'[d] = base[d]
  BY <1>1 DEF TypeOK
<1>4. GapFree' /\ InOrder'
  <2> SUFFICES ASSUME NEW d \in Rovers, NEW i \in 1 .. Len(stream[d])
               PROVE  /\ d \notin slow => Follows(d, i)'
                      /\ stream[d][i][2] > base'[d][stream[d][i][1]]
                      /\ \A j \in 1 .. (i - 1) :
                            stream[d][j][1] = stream[d][i][1] =>
                               stream[d][j][2] < stream[d][i][2]
    BY <1>1 DEF GapFree, InOrder
  <2>1. d # c
    BY <1>2
  <2>2. base'[d] = base[d]
    BY <1>3, <2>1
  <2> QED BY <1>1, <2>2 DEF GapFree, InOrder, Follows
<1>5. UpToDate'
  <2> SUFFICES ASSUME NEW d \in (clientsByID \ (done \cup slow))',
                      NEW s \in Sources
               PROVE  (\/ seq[s] = base[d][s] \/ Visiting(s, d)
                       \/ Delivered(d, s, seq[s]))'
    BY DEF UpToDate
  <2>1. CASE d = c
    BY <1>1, <1>3, <2>1
  <2>2. CASE d # c
    <3>1. Delivered(d, s, seq[s]) <=> Delivered(d, s, seq[s])'
      BY <1>1 DEF Delivered
    <3> QED BY <1>1, <1>3, <2>2, <3>1 DEF UpToDate, TypeOK, Visiting
  <2> QED BY <2>1, <2>2
<1>6. FreshInv'
  BY <1>1 DEF FreshInv, Visiting, Before, TypeOK
<1>7. SeenInv'
  <2>1. \A s \in Sources : seq[s] <= seq[s]
    BY BoundAssumption DEF TypeOK
  <2> QED BY <1>1, <1>2, <1>3, <2>1 DEF SeenInv
<1>8. VisitInv'
  BY <1>1, <1>2, <1>3 DEF VisitInv, Visiting
<1>9. CurInv'
  BY <1>1 DEF CurInv
<1>10. PriorInv'
  <2> SUFFICES ASSUME NEW d \in Rovers \ slow, NEW s \in Sources,
                      cur[s] = d \/ (d \in todo[s] /\ d \notin done)
               PROVE  base'[d][s] = seq[s] - 1 \/ Delivered(d, s, seq[s] - 1)
    BY <1>1, ZenonT(60) DEF PriorInv, UpTo, Delivered
  <2>1. d # c
    BY <1>2 DEF Visiting
  <2> QED BY <1>3, <2>1 DEF PriorInv, UpTo
<1> QED BY <1>4, <1>5, <1>6, <1>7, <1>8, <1>9, <1>10

\* A step of a rover connection keeps FeedInv.
LEMMA RoverFeed ==
    ASSUME TypeOK, LifeInv, FeedInv, NEW c \in Rovers,
           RoverStep(c) \/ Hangup(c) \/ ReaderKick(c)
    PROVE  FeedInv'
<1> USE DEF TypeOK, Before, config, slot, registry, link, queue, rover,
            reader, teardown, admin, At, Goto
<1>1. CASE Lookup(c)          BY <1>1, FeedFrame DEF Lookup
<1>2. CASE HasSource(c)       BY <1>2, FeedFrame DEF HasSource
<1>3. CASE AtCapacity(c)      BY <1>3, FeedFrame DEF AtCapacity
<1>4. CASE RefuseClient(c)    BY <1>4, FeedFrame DEF RefuseClient
<1>5. CASE AddClient(c)       BY <1>5, AddFeed
<1>6. CASE StartWriteLoop(c)  BY <1>6, FeedFrame DEF StartWriteLoop
<1>7. CASE Take(c)            BY <1>7, FeedFrame DEF Take
<1>8. CASE WriteOK(c)         BY <1>8, FeedFrame DEF WriteOK
<1>9. CASE WriteFails(c)      BY <1>9, FeedFrame DEF WriteFails, KickSlowConsumer
<1>10. CASE ExitLoop(c)       BY <1>10, FeedFrame DEF ExitLoop
<1>11. CASE RemoveClient(c)
  BY <1>11, FeedFrame DEF RemoveClient, SetClients
<1>12. CASE Hangup(c)         BY <1>12, FeedFrame DEF Hangup
<1>13. CASE ReaderKick(c)     BY <1>13, FeedFrame DEF ReaderKick, KickSlowConsumer
<1> QED BY <1>1, <1>2, <1>3, <1>4, <1>5, <1>6, <1>7, <1>8, <1>9, <1>10,
           <1>11, <1>12, <1>13 DEF RoverStep

\* A Broadcast begins: it owes the new packet to every registered rover, and
\* each open one that is not slow has the packet before.
LEMMA LoadFeed ==
    ASSUME TypeOK, LifeInv, FeedInv, NEW s \in Sources, LoadSnapshot(s)
    PROVE  FeedInv'
<1> USE DEF FeedInv
<1>1. /\ spc[s] = "load" /\ spc' = [spc EXCEPT ![s] = "bcast"]
      /\ todo' = [todo EXCEPT ![s] = clientsByID]
      /\ seq' = [seq EXCEPT ![s] = @ + 1]
      /\ UNCHANGED <<stream, base, cur, slow, done, clientsByID, rpc>>
  BY DEF LoadSnapshot, LifeInv, RegistrySound, SAt, SGoto, registry, link,
         queue, rover
<1>2. /\ todo'[s] = clientsByID /\ seq'[s] = seq[s] + 1 /\ seq[s] \in Nat
      /\ \A t \in Sources \ {s} : todo'[t] = todo[t] /\ seq'[t] = seq[t]
  BY <1>1 DEF TypeOK
<1>3. todo[s] = {} /\ cur[s] = None
  BY <1>1, Idle
<1>4. \A c \in Rovers : cur[s] # c
  BY <1>3, NoneAssumption
<1>5. \A c \in clientsByID : c \in Rovers /\ rpc[c] \in Attached
  BY DEF LifeInv, RegistrySound, TypeOK
<1>6. GapFree' /\ InOrder'
  BY <1>1 DEF GapFree, InOrder, Follows
<1>7. UpToDate'
  <2> SUFFICES ASSUME NEW c \in (clientsByID \ (done \cup slow))',
                      NEW t \in Sources
               PROVE  (\/ seq[t] = base[c][t] \/ Visiting(t, c)
                       \/ Delivered(c, t, seq[t]))'
    BY DEF UpToDate
  <2>1. CASE t = s
    BY <1>1, <1>2, <2>1 DEF Visiting
  <2>2. CASE t # s
    <3>1. Delivered(c, t, seq[t]) <=> Delivered(c, t, seq[t])'
      BY <1>1, <1>2, <2>2 DEF Delivered
    <3> QED BY <1>1, <1>2, <2>2, <3>1 DEF UpToDate, Visiting
  <2> QED BY <2>1, <2>2
<1>8. FreshInv'
  BY <1>1, <1>2, <1>4, <1>5 DEF FreshInv, Visiting, Before, Attached
<1>9. SeenInv'
  <2> SUFFICES ASSUME NEW c \in Rovers, NEW t \in Sources
               PROVE  /\ base[c][t] <= seq'[t]
                      /\ \A i \in 1 .. Len(stream[c]) :
                            stream[c][i][1] = t => stream[c][i][2] <= seq'[t]
    BY <1>1 DEF SeenInv
  <2>1. seq[t] <= seq'[t] /\ seq[t] \in Int /\ seq'[t] \in Int
    BY <1>2 DEF TypeOK
  <2>2. base[c][t] \in Int
    BY DEF TypeOK
  <2>3. \A i \in 1 .. Len(stream[c]) : stream[c][i][2] \in Int
    BY EntryType, BoundAssumption
  <2> QED BY <2>1, <2>2, <2>3 DEF SeenInv
<1>10. VisitInv'
  <2> SUFFICES ASSUME NEW c \in Rovers, NEW t \in Sources, Visiting(t, c)'
               PROVE  /\ spc'[t] \in {"bcast", "select", "kick"}
                      /\ base[c][t] < seq'[t]
                      /\ \A i \in 1 .. Len(stream[c]) :
                            stream[c][i][1] = t => stream[c][i][2] < seq'[t]
    BY <1>1 DEF VisitInv
  <2>1. CASE t = s
    <3>1. base[c][s] \in Int /\ seq[s] \in Int
      BY DEF TypeOK
    <3>2. \A i \in 1 .. Len(stream[c]) : stream[c][i][2] \in Int
      BY EntryType, BoundAssumption
    <3>3. spc'[s] = "bcast"
      BY <1>1 DEF TypeOK
    <3> QED BY <1>2, <2>1, <3>1, <3>2, <3>3 DEF SeenInv
  <2>2. CASE t # s
    <3>1. spc'[t] = spc[t] /\ Visiting(t, c)
      BY <1>1, <1>2, <2>2 DEF TypeOK, Visiting
    <3> QED BY <1>2, <2>2, <3>1 DEF VisitInv
  <2> QED BY <2>1, <2>2
<1>11. CurInv'
  BY <1>1, <1>2, <1>3, <1>5, NoneAssumption DEF CurInv, TypeOK
<1>12. PriorInv'
  <2> SUFFICES ASSUME NEW c \in (Rovers \ slow)', NEW t \in Sources,
                      (cur[t] = c \/ (c \in todo[t] /\ c \notin done))'
               PROVE  UpTo(c, t, seq[t])'
    BY DEF PriorInv
  <2>1. CASE t = s
    <3>1. c \in clientsByID \ (done \cup slow)
      BY <1>1, <1>2, <1>4, <2>1
    <3>2. seq[s] = base[c][s] \/ Delivered(c, s, seq[s])
      BY <1>3, <1>4, <3>1 DEF UpToDate, Visiting
    <3>3. seq'[s] - 1 = seq[s]
      BY <1>2
    <3> QED BY <1>1, <2>1, <3>2, <3>3 DEF UpTo, Delivered
  <2>2. CASE t # s
    <3>1. Delivered(c, t, seq[t] - 1) <=> Delivered(c, t, seq[t] - 1)'
      BY <1>1, <1>2, <2>2 DEF Delivered
    <3>2. UpTo(c, t, seq[t])
      BY <1>1, <1>2, <2>2 DEF PriorInv
    <3> QED BY <1>1, <1>2, <2>2, <3>1, <3>2 DEF UpTo
  <2> QED BY <2>1, <2>2
<1> QED BY <1>6, <1>7, <1>8, <1>9, <1>10, <1>11, <1>12

\* Queueing a packet: it follows what the rover has, and settles the visit.
LEMMA SendFeed ==
    ASSUME TypeOK, FeedInv, NEW s \in Sources, NEW c \in Rovers, Send(s, c)
    PROVE  FeedInv'
<1> DEFINE m == Len(stream[c])
<1>1. /\ spc[s] = "select" /\ spc' = [spc EXCEPT ![s] = "bcast"]
      /\ cur[s] = c /\ cur' = [cur EXCEPT ![s] = None]
      /\ stream' = [stream EXCEPT ![c] = Append(@, <<s, seq[s]>>)]
      /\ UNCHANGED <<base, seq, todo, slow, done, clientsByID, rpc>>
  BY DEF Send, NextClient, SAt, SGoto, registry, link, rover
<1>2. /\ \A d \in Rovers \ {c} : stream'[d] = stream[d]
      /\ m \in Nat /\ Len(stream'[c]) = m + 1
      /\ \A i \in 1 .. m : stream'[c][i] = stream[c][i]
      /\ stream'[c][m + 1] = <<s, seq[s]>>
  <2>1. stream[c] \in Seq(Packet)
    BY DEF TypeOK
  <2>2. stream'[c] = Append(stream[c], <<s, seq[s]>>)
    BY <1>1 DEF TypeOK
  <2>3. \A d \in Rovers \ {c} : stream'[d] = stream[d]
    BY <1>1 DEF TypeOK
  <2> QED BY <2>1, <2>2, <2>3
<1>3. /\ cur'[s] = None /\ spc'[s] = "bcast" /\ c \notin todo[s]
      /\ \A t \in Sources \ {s} : cur'[t] = cur[t] /\ spc'[t] = spc[t]
  BY <1>1 DEF TypeOK, FeedInv, CurInv
<1>4. /\ base[c][s] < seq[s]
      /\ \A i \in 1 .. m : stream[c][i][1] = s => stream[c][i][2] < seq[s]
  BY <1>1 DEF FeedInv, VisitInv, Visiting
<1>5. c \notin slow => UpTo(c, s, seq[s])
  BY <1>1 DEF FeedInv, PriorInv
<1>6. seq[s] \in Int /\ base[c][s] \in Int
  BY DEF TypeOK
<1> HIDE DEF m
<1>7. GapFree'
  <2> SUFFICES ASSUME NEW d \in Rovers, d \notin slow,
                      NEW i \in 1 .. Len(stream'[d])
               PROVE  Follows(d, i)'
    BY <1>1 DEF GapFree
  <2>1. CASE d # c
    <3>1. Follows(d, i)
      BY <1>2, <2>1 DEF FeedInv, GapFree
    <3> QED BY <1>1, <1>2, <2>1, <3>1 DEF Follows
  <2>2. CASE d = c /\ i \in 1 .. m
    <3>1. Follows(c, i)
      BY <2>2 DEF FeedInv, GapFree, m
    <3>2. \A j \in 1 .. i : stream'[c][j] = stream[c][j]
      BY <1>2, <2>2
    <3>3. stream'[c][i] = stream[c][i]
      BY <1>2, <2>2
    <3>4. \A j \in 1 .. (i - 1) : stream'[c][j] = stream[c][j]
      BY <1>2, <2>2
    <3> QED BY <1>1, <2>2, <3>1, <3>3, <3>4 DEF Follows
  <2>3. CASE d = c /\ i = m + 1
    <3>1. stream'[c][i] = <<s, seq[s]>>
      BY <1>2, <2>3
    <3>2. CASE base[c][s] = seq[s] - 1
      <4>1. seq[s] = base[c][s] + 1
        BY <1>6, <3>2
      <4> QED BY <1>1, <2>3, <3>1, <4>1 DEF Follows
    <3>3. CASE Delivered(c, s, seq[s] - 1)
      <4>1. PICK j \in 1 .. m : stream[c][j] = <<s, seq[s] - 1>>
        BY <3>3 DEF Delivered, m
      <4>2. j \in 1 .. (i - 1) /\ stream'[c][j] = <<s, seq[s] - 1>>
        BY <1>2, <2>3, <4>1
      <4> QED BY <1>1, <2>3, <3>1, <4>2 DEF Follows
    <3> QED BY <1>5, <2>3, <3>2, <3>3 DEF UpTo
  <2> QED BY <1>2, <2>1, <2>2, <2>3
<1>8. InOrder'
  <2> SUFFICES ASSUME NEW d \in Rovers, NEW j \in 1 .. Len(stream'[d])
               PROVE  /\ stream'[d][j][2] > base[d][stream'[d][j][1]]
                      /\ \A i \in 1 .. (j - 1) :
                            stream'[d][i][1] = stream'[d][j][1] =>
                               stream'[d][i][2] < stream'[d][j][2]
    BY <1>1 DEF InOrder
  <2>1. CASE d # c
    BY <1>2, <2>1 DEF FeedInv, InOrder
  <2>2. CASE d = c /\ j \in 1 .. m
    <3>1. /\ stream'[c][j] = stream[c][j]
          /\ \A i \in 1 .. (j - 1) : stream'[c][i] = stream[c][i]
      BY <1>2, <2>2
    <3> QED BY <2>2, <3>1 DEF FeedInv, InOrder, m
  <2>3. CASE d = c /\ j = m + 1
    <3>1. stream'[c][j] = <<s, seq[s]>>
      BY <1>2, <2>3
    <3>2. \A i \in 1 .. (j - 1) : i \in 1 .. m /\ stream'[c][i] = stream[c][i]
      BY <1>2, <2>3
    <3> QED BY <1>4, <1>6, <2>3, <3>1, <3>2
  <2> QED BY <1>2, <2>1, <2>2, <2>3
<1>9. \A d \in Rovers, t \in Sources, n \in Int :
         Delivered(d, t, n) => Delivered(d, t, n)'
  <2> SUFFICES ASSUME NEW d \in Rovers, NEW t \in Sources, NEW n \in Int,
                      Delivered(d, t, n)
               PROVE  Delivered(d, t, n)'
    OBVIOUS
  <2>1. CASE d # c
    BY <1>2, <2>1 DEF Delivered
  <2>2. CASE d = c
    <3>1. PICK i \in 1 .. m : stream[c][i] = <<t, n>>
      BY <2>2 DEF Delivered, m
    <3>2. i \in 1 .. Len(stream'[c]) /\ stream'[c][i] = <<t, n>>
      BY <1>2, <3>1
    <3> QED BY <2>2, <3>2 DEF Delivered
  <2> QED BY <2>1, <2>2
<1>10. Delivered(c, s, seq[s])'
  <2>1. m + 1 \in 1 .. Len(stream'[c])
    BY <1>2
  <2> QED BY <1>1, <1>2, <2>1 DEF Delivered
<1>11. UpToDate'
  <2> SUFFICES ASSUME NEW d \in clientsByID \ (done \cup slow),
                      NEW t \in Sources
               PROVE  (\/ seq[t] = base[d][t] \/ Visiting(t, d)
                       \/ Delivered(d, t, seq[t]))'
    BY <1>1 DEF UpToDate
  <2>1. CASE d = c /\ t = s
    BY <1>10, <2>1
  <2>2. CASE ~(d = c /\ t = s)
    <3>1. d \in Rovers /\ seq[t] \in Int /\ seq'[t] = seq[t]
      BY <1>1 DEF TypeOK
    <3>2. Delivered(d, t, seq[t]) => Delivered(d, t, seq[t])'
      BY <1>1, <1>9, <3>1
    <3>3. Visiting(t, d) => Visiting(t, d)'
      BY <1>1, <1>3, <2>2 DEF Visiting
    <3> QED BY <1>1, <3>2, <3>3 DEF FeedInv, UpToDate
  <2> QED BY <2>1, <2>2
<1>12. \A d \in Rovers, t \in Sources :
          Visiting(t, d)' => Visiting(t, d) /\ ~(d = c /\ t = s)
  BY <1>1, <1>3, NoneAssumption DEF Visiting
<1>13. FreshInv'
  <2>1. rpc[c] \notin Before
    BY <1>1 DEF FeedInv, FreshInv, Visiting
  <2> QED BY <1>1, <1>2, <1>12, <2>1 DEF FeedInv, FreshInv
<1>14. \A d \in Rovers, t \in Sources : \A i \in 1 .. Len(stream'[d]) :
          \/ d = c /\ stream'[d][i] = <<s, seq[s]>>
          \/ i \in 1 .. Len(stream[d]) /\ stream'[d][i] = stream[d][i]
  BY <1>2 DEF m
<1>15. SeenInv'
  BY <1>1, <1>6, <1>14 DEF FeedInv, SeenInv
<1>16. VisitInv'
  <2> SUFFICES ASSUME NEW d \in Rovers, NEW t \in Sources, Visiting(t, d)'
               PROVE  /\ spc'[t] \in {"bcast", "select", "kick"}
                      /\ base[d][t] < seq[t]
                      /\ \A i \in 1 .. Len(stream'[d]) :
                            stream'[d][i][1] = t => stream'[d][i][2] < seq[t]
    BY <1>1 DEF VisitInv
  <2>1. Visiting(t, d) /\ ~(d = c /\ t = s)
    BY <1>12
  <2> QED BY <1>3, <1>14, <2>1 DEF FeedInv, VisitInv
<1>17. CurInv'
  BY <1>1, <1>3, NoneAssumption DEF FeedInv, CurInv, TypeOK
<1>18. PriorInv'
  <2> SUFFICES ASSUME NEW d \in Rovers \ slow, NEW t \in Sources,
                      cur'[t] = d \/ (d \in todo[t] /\ d \notin done)
               PROVE  UpTo(d, t, seq[t])'
    BY <1>1 DEF PriorInv
  <2>1. cur[t] = d \/ (d \in todo[t] /\ d \notin done)
    BY <1>3, NoneAssumption
  <2>2. UpTo(d, t, seq[t])
    BY <2>1 DEF FeedInv, PriorInv
  <2>3. seq[t] - 1 \in Int
    BY DEF TypeOK
  <2>4. Delivered(d, t, seq[t] - 1) => Delivered(d, t, seq[t] - 1)'
    BY <1>1, <1>9, <2>3
  <2> QED BY <1>1, <2>2, <2>4 DEF UpTo
<1> QED BY <1>7, <1>8, <1>11, <1>13, <1>15, <1>16, <1>17, <1>18 DEF FeedInv

\* The visit of a client ends without a packet: it is closed or slow.
LEMMA PassFeed ==
    ASSUME TypeOK, FeedInv, NEW s \in Sources, NEW c \in Rovers,
           cur[s] = c, NextClient(s),
           slow \subseteq slow', done \subseteq done',
           c \in done' \cup slow',
           UNCHANGED <<stream, base, seq, todo, clientsByID, rpc>>
    PROVE  FeedInv'
<1> USE DEF FeedInv
<1>1. /\ cur'[s] = None /\ spc'[s] = "bcast"
      /\ \A t \in Sources \ {s} : cur'[t] = cur[t] /\ spc'[t] = spc[t]
  BY DEF NextClient, SGoto, TypeOK
<1>2. \A d \in Rovers, t \in Sources : Visiting(t, d)' => Visiting(t, d)
  BY <1>1, NoneAssumption DEF Visiting
<1>3. GapFree' /\ InOrder'
  BY DEF GapFree, InOrder, Follows
<1>4. UpToDate'
  <2> SUFFICES ASSUME NEW d \in clientsByID \ (done' \cup slow'),
                      NEW t \in Sources
               PROVE  (\/ seq[t] = base[d][t] \/ Visiting(t, d)
                       \/ Delivered(d, t, seq[t]))'
    BY DEF UpToDate
  <2>1. Visiting(t, d) => Visiting(t, d)'
    BY <1>1 DEF Visiting
  <2>2. Delivered(d, t, seq[t]) <=> Delivered(d, t, seq[t])'
    BY DEF Delivered
  <2> QED BY <2>1, <2>2 DEF UpToDate
<1>5. FreshInv'
  BY <1>2 DEF FreshInv
<1>6. SeenInv'
  BY DEF SeenInv
<1>7. VisitInv'
  BY <1>1, <1>2 DEF VisitInv
<1>8. CurInv'
  BY <1>1, NoneAssumption DEF CurInv, TypeOK
<1>9. PriorInv'
  <2> SUFFICES ASSUME NEW d \in Rovers \ slow', NEW t \in Sources,
                      cur'[t] = d \/ (d \in todo[t] /\ d \notin done')
               PROVE  UpTo(d, t, seq[t])'
    BY DEF PriorInv
  <2>1. UpTo(d, t, seq[t])
    BY <1>1, NoneAssumption DEF PriorInv
  <2>2. Delivered(d, t, seq[t] - 1) <=> Delivered(d, t, seq[t] - 1)'
    BY DEF Delivered
  <2> QED BY <2>1, <2>2 DEF UpTo
<1> QED BY <1>3, <1>4, <1>5, <1>6, <1>7, <1>8, <1>9

\* The first select: a closed client is passed over, an open one is visited.
LEMMA CheckFeed ==
    ASSUME TypeOK, FeedInv, NEW s \in Sources, NEW c \in Rovers,
           CheckDone(s, c)
    PROVE  FeedInv'
<1> USE DEF FeedInv
<1>1. /\ spc[s] = "bcast" /\ c \in todo[s]
      /\ todo'[s] = todo[s] \ {c}
      /\ \A t \in Sources \ {s} :
            todo'[t] = todo[t] /\ cur'[t] = cur[t] /\ spc'[t] = spc[t]
      /\ UNCHANGED <<stream, base, seq, slow, done, clientsByID, rpc>>
  BY DEF CheckDone, SAt, SGoto, registry, link, queue, rover, TypeOK
<1>2. \/ c \in done /\ cur'[s] = cur[s] /\ spc'[s] = spc[s]
      \/ c \notin done /\ cur'[s] = c /\ spc'[s] = "select"
  BY DEF CheckDone, SGoto, TypeOK
<1>3. cur[s] = None
  BY <1>1 DEF CurInv
<1>4. \A d \in Rovers, t \in Sources : Visiting(t, d)' => Visiting(t, d)
  BY <1>1, <1>2 DEF Visiting
<1>5. GapFree' /\ InOrder'
  <2>1. stream' = stream /\ base' = base /\ slow' = slow
    BY <1>1
  <2> QED BY <2>1 DEF GapFree, InOrder, Follows
<1>6. UpToDate'
  <2> SUFFICES ASSUME NEW d \in clientsByID \ (done \cup slow),
                      NEW t \in Sources
               PROVE  (\/ seq[t] = base[d][t] \/ Visiting(t, d)
                       \/ Delivered(d, t, seq[t]))'
    BY <1>1 DEF UpToDate
  <2>1. Visiting(t, d) => Visiting(t, d)'
    <3>1. CASE t = s /\ d = c
      BY <1>2, <3>1 DEF Visiting
    <3>2. CASE t = s /\ d # c
      BY <1>1, <1>3, <3>2, NoneAssumption DEF Visiting, TypeOK
    <3>3. CASE t # s
      BY <1>1, <3>3 DEF Visiting
    <3> QED BY <3>1, <3>2, <3>3
  <2>2. Delivered(d, t, seq[t]) <=> Delivered(d, t, seq[t])'
    BY <1>1 DEF Delivered
  <2> QED BY <1>1, <2>1, <2>2 DEF UpToDate
<1>7. FreshInv'
  BY <1>1, <1>4 DEF FreshInv
<1>8. SeenInv'
  BY <1>1 DEF SeenInv
<1>9. VisitInv'
  BY <1>1, <1>2, <1>4 DEF VisitInv
<1>10. CurInv'
  BY <1>1, <1>2, <1>3, NoneAssumption DEF CurInv, TypeOK
<1>11. PriorInv'
  <2> SUFFICES ASSUME NEW d \in Rovers \ slow, NEW t \in Sources,
                      cur'[t] = d \/ (d \in todo'[t] /\ d \notin done)
               PROVE  UpTo(d, t, seq[t])'
    BY <1>1 DEF PriorInv
  <2>1. UpTo(d, t, seq[t])
    BY <1>1, <1>2, <1>3 DEF PriorInv
  <2>2. Delivered(d, t, seq[t] - 1) <=> Delivered(d, t, seq[t] - 1)'
    BY <1>1 DEF Delivered
  <2> QED BY <1>1, <2>1, <2>2 DEF UpTo
<1> QED BY <1>5, <1>6, <1>7, <1>8, <1>9, <1>10, <1>11

\* A step of a source connection keeps FeedInv.
LEMMA SourceFeed ==
    ASSUME TypeOK, LifeInv, FeedInv, NEW s \in Sources, SourceStep(s)
    PROVE  FeedInv'
<1> USE DEF config, slot, registry, link, queue, rover, reader, teardown,
            admin, SAt
<1>0. ASSUME spc[s] \notin {"select", "kick"},
             \/ spc[s] \notin {"bcast", "select", "kick"}
             \/ todo[s] = {},
             NEW pc, SGoto(s, pc),
             UNCHANGED <<stream, base, seq, todo, cur, slow, done,
                         clientsByID, rpc>>
      PROVE  FeedInv'
  <2>1. todo[s] = {} /\ cur[s] = None
    BY <1>0, Idle DEF FeedInv, CurInv
  <2>2. \A t \in Sources \ {s} : spc'[t] = spc[t]
    BY <1>0 DEF SGoto, TypeOK
  <2> QED BY <1>0, <2>1, <2>2, FeedFrame
<1>1. CASE SourceLookup(s)    BY <1>1, <1>0 DEF SourceLookup
<1>2. CASE SetSource(s)       BY <1>2, <1>0 DEF SetSource
<1>3. CASE StartReadLoop(s)   BY <1>3, <1>0 DEF StartReadLoop
<1>4. ASSUME NEW n \in 1 .. MaxBatch, ReadPackets(s, n) PROVE FeedInv'
  BY <1>4, <1>0 DEF ReadPackets
<1>5. CASE ReadFails(s)       BY <1>5, <1>0 DEF ReadFails
<1>6. CASE LoadSnapshot(s)    BY <1>6, LoadFeed
<1>7. CASE EndBroadcast(s)    BY <1>7, <1>0 DEF EndBroadcast
<1>8. ASSUME NEW c \in Rovers, CheckDone(s, c) PROVE FeedInv'
  BY <1>8, CheckFeed
<1>9. ASSUME NEW c \in Rovers, Send(s, c) PROVE FeedInv'
  BY <1>9, SendFeed
<1>10. ASSUME NEW c \in Rovers, SeeDone(s, c) PROVE FeedInv'
  BY <1>10, PassFeed DEF SeeDone
<1>11. ASSUME NEW c \in Rovers, MarkSlowAndKick(s, c) PROVE FeedInv'
  <2>1. CASE c \in slow
    BY <1>11, <2>1, PassFeed DEF MarkSlowAndKick
  <2>2. CASE c \notin slow
    \* cur[s] stays c, from "select" to "kick".
    <3>1. /\ slow' = slow \cup {c} /\ cur[s] = c
          /\ spc'[s] = "kick"
          /\ \A t \in Sources \ {s} : spc'[t] = spc[t]
          /\ UNCHANGED <<stream, base, seq, todo, cur, done, clientsByID,
                         rpc>>
      BY <1>11, <2>2 DEF MarkSlowAndKick, SGoto, TypeOK
    <3>2. GapFree' /\ InOrder'
      BY <3>1 DEF FeedInv, GapFree, InOrder, Follows
    <3>3. UpToDate'
      <4> SUFFICES ASSUME NEW d \in clientsByID \ (done \cup slow'),
                          NEW t \in Sources
                   PROVE  (\/ seq[t] = base[d][t] \/ Visiting(t, d)
                           \/ Delivered(d, t, seq[t]))'
        BY <3>1 DEF UpToDate
      <4>1. Delivered(d, t, seq[t]) <=> Delivered(d, t, seq[t])'
        BY <3>1 DEF Delivered
      <4>2. Visiting(t, d) <=> Visiting(t, d)'
        BY <3>1 DEF Visiting
      <4> QED BY <3>1, <4>1, <4>2 DEF FeedInv, UpToDate
    <3>4. FreshInv' /\ SeenInv'
      BY <3>1 DEF FeedInv, FreshInv, SeenInv, Visiting
    <3>5. VisitInv' /\ CurInv'
      BY <3>1 DEF FeedInv, VisitInv, CurInv, Visiting
    <3>6. PriorInv'
      <4> SUFFICES ASSUME NEW d \in Rovers \ slow', NEW t \in Sources,
                          cur[t] = d \/ (d \in todo[t] /\ d \notin done)
                   PROVE  UpTo(d, t, seq[t])'
        BY <3>1 DEF PriorInv
      <4>1. Delivered(d, t, seq[t] - 1) <=> Delivered(d, t, seq[t] - 1)'
        BY <3>1 DEF Delivered
      <4>2. UpTo(d, t, seq[t])
        BY <3>1 DEF FeedInv, PriorInv
      <4> QED BY <3>1, <4>1, <4>2 DEF UpTo
    <3> QED BY <3>2, <3>3, <3>4, <3>5, <3>6 DEF FeedInv
  <2> QED BY <2>1, <2>2
<1>12. ASSUME NEW c \in Rovers, KickSlow(s, c) PROVE FeedInv'
  BY <1>12, PassFeed DEF KickSlow, KickSlowConsumer
<1>13. CASE ClearOwn(s)       BY <1>13, <1>0 DEF ClearOwn
<1>14. CASE CloseOwn(s)       BY <1>14, <1>0 DEF CloseOwn
<1> QED BY <1>1, <1>2, <1>3, <1>4, <1>5, <1>6, <1>7, <1>8, <1>9, <1>10,
           <1>11, <1>12, <1>13, <1>14 DEF SourceStep, BroadcastStep

\* Tearing down and the API leave the streams and the Broadcasts alone: they
\* close rovers and take them out.
LEMMA OtherFeed ==
    ASSUME TypeOK, FeedInv,
           \/ \E p \in Procs : TeardownStep(p)
           \/ \E a \in Admins : AdminStep(a)
    PROVE  FeedInv'
<1> USE DEF config, slot, registry, link, queue, rover, reader, teardown,
            admin
<1>0. SUFFICES /\ UNCHANGED <<stream, base, seq, todo, cur, slow, rpc, spc>>
               /\ done \subseteq done'
               /\ clientsByID' \subseteq clientsByID
  BY FeedFrame
<1>1. ASSUME NEW p \in Procs, TeardownStep(p)
      PROVE  /\ UNCHANGED <<stream, base, seq, todo, cur, slow, rpc, spc>>
             /\ done \subseteq done'
             /\ clientsByID' \subseteq clientsByID
  BY <1>1 DEF TeardownStep, StopSource, KickNext, KickSlowConsumer
<1>2. ASSUME NEW a \in Admins, AdminStep(a)
      PROVE  /\ UNCHANGED <<stream, base, seq, todo, cur, slow, rpc, spc>>
             /\ done \subseteq done'
             /\ clientsByID' \subseteq clientsByID
  BY <1>2 DEF AdminStep, RequestStep, SourceID, KickSource, KickSourceByUser,
              KickClientsByUser, ReadEnabled, DisconnectAll, KickClient,
              UpdateMountPoint, Delete, Find, SetClients
<1> QED BY <1>1, <1>2

\* FeedInv is an invariant.
THEOREM FeedCorrect == Spec => []FeedInv
<1>1. Init => FeedInv
  <2> SUFFICES ASSUME Init PROVE FeedInv
    OBVIOUS
  <2>1. \A c \in Rovers : Len(stream[c]) = 0
    BY DEF Init
  <2>2. GapFree /\ InOrder /\ SeenInv
    BY <2>1 DEF Init, GapFree, InOrder, SeenInv
  <2>3. UpToDate
    BY DEF Init, UpToDate
  <2>4. FreshInv /\ VisitInv /\ CurInv /\ PriorInv
    BY NoneAssumption DEF Init, FreshInv, VisitInv, CurInv, PriorInv, Visiting
  <2> QED BY <2>2, <2>3, <2>4 DEF FeedInv
<1>2. TypeOK /\ LifeInv /\ FeedInv /\ [Next]_vars => FeedInv'
  <2> SUFFICES ASSUME TypeOK, LifeInv, FeedInv, [Next]_vars PROVE FeedInv'
    OBVIOUS
  <2>1. CASE UNCHANGED vars
    BY <2>1, FeedFrame DEF vars, config, slot, registry, link, queue, rover,
                           reader, teardown, admin
  <2>2. CASE Next
    BY <2>2, RoverFeed, SourceFeed, OtherFeed DEF Next
  <2> QED BY <2>1, <2>2
<1> QED BY <1>1, <1>2, TypeOKCorrect, LifeCorrect, PTL DEF Spec

\* A rover that is not slow is sent each source's stream without a gap.
THEOREM NoGaps == Spec => []GapFree
<1>1. FeedInv => GapFree
  BY DEF FeedInv
<1> QED BY <1>1, FeedCorrect, PTL

\* Packets of a source are never reordered, repeated or older than the
\* rover's registration.
THEOREM Ordered == Spec => []InOrder
<1>1. FeedInv => InOrder
  BY DEF FeedInv
<1> QED BY <1>1, FeedCorrect, PTL

\* No registered rover is left out of a Broadcast.
THEOREM NobodyLeftOut == Spec => []UpToDate
<1>1. FeedInv => UpToDate
  BY DEF FeedInv
<1> QED BY <1>1, FeedCorrect, PTL

-----------------------------------------------------------------------------

\* A step of a source takes no other source out of the slot.
LEMMA SourceAlone ==
    ASSUME TypeOK, NEW u \in Sources, SourceStep(u),
           NEW s \in Sources, NEW t \in Sources,
           s # t, source = s, spc'[t] # spc[t]
    PROVE  source' = s
<1> USE DEF slot, SGoto, SAt
<1>1. CASE t = u
  <2>1. CASE SetSource(u)   BY <2>1, NoneAssumption DEF SetSource
  <2>2. CASE ClearOwn(u)    BY <1>1, <2>2 DEF ClearOwn, ClearSource
  <2>3. ASSUME ~SetSource(u), ~ClearOwn(u) PROVE UNCHANGED source
    BY <2>3 DEF SourceStep, BroadcastStep, SourceLookup, StartReadLoop,
                ReadFails, CloseOwn, ReadPackets, LoadSnapshot, EndBroadcast,
                CheckDone, Send, SeeDone, NextClient, MarkSlowAndKick,
                KickSlow
  <2> QED BY <2>1, <2>2, <2>3
<1>2. CASE t # u
  <2>1. spc \in [Sources -> SourcePC]
    BY DEF TypeOK
  <2>2. spc'[t] = spc[t]
    BY <1>2, <2>1 DEF SourceStep, BroadcastStep, SourceLookup, SetSource,
                StartReadLoop, ReadFails, ClearOwn, CloseOwn, ReadPackets,
                LoadSnapshot, EndBroadcast, CheckDone, Send, SeeDone,
                NextClient, MarkSlowAndKick, KickSlow
  <2> QED BY <2>2
<1> QED BY <1>1, <1>2

\* A source whose slot was given to another one cannot clear it: the step that
\* moves a source takes no other source out of the slot.
THEOREM OwnSlotOnly == Spec => NoForeignClear
<1> DEFINE Keeps == \A s, t \in Sources :
              s # t /\ source = s /\ spc'[t] # spc[t] => source' = s
<1>1. TypeOK /\ [Next]_vars => [Keeps]_vars
  <2> SUFFICES ASSUME TypeOK, Next,
                      NEW s \in Sources, NEW t \in Sources,
                      s # t, source = s, spc'[t] # spc[t]
               PROVE  source' = s
    BY DEF Keeps
  <2> USE DEF config, slot, registry, link, queue, rover, reader, teardown,
              admin
  <2>1. ASSUME NEW u \in Sources, SourceStep(u) PROVE source' = s
    BY <2>1, SourceAlone
  <2>2. ASSUME NEW c \in Rovers, RoverStep(c) \/ Hangup(c) \/ ReaderKick(c)
        PROVE  UNCHANGED spc
    BY <2>2 DEF RoverStep, Lookup, HasSource, AtCapacity, RefuseClient,
                AddClient, StartWriteLoop, Take, WriteOK, WriteFails,
                ExitLoop, RemoveClient, Hangup, ReaderKick
  <2>3. ASSUME NEW p \in Procs, TeardownStep(p) PROVE UNCHANGED spc
    BY <2>3 DEF TeardownStep, StopSource, KickNext
  <2>4. ASSUME NEW a \in Admins, AdminStep(a) PROVE UNCHANGED spc
    BY <2>4 DEF AdminStep, RequestStep, SourceID, KickSource,
                KickSourceByUser, KickClientsByUser, ReadEnabled,
                DisconnectAll, KickClient, UpdateMountPoint, Delete, Find
  <2> QED BY <2>1, <2>2, <2>3, <2>4 DEF Next
<1>2. [][Keeps]_vars <=> NoForeignClear
  BY PTL DEF NoForeignClear
<1> QED BY <1>1, <1>2, TypeOKCorrect, PTL DEF Spec, NoForeignClear
=============================================================================
