----------------------------- MODULE MountPoint -----------------------------
(***************************************************************************)
(* One mountpoint of the caster and everything that runs on it: the        *)
(* goroutines that serve rovers (handleRover, Client.WriteLoop), the ones  *)
(* that serve base stations (handleSourceRev1/2, Source.ReadLoop and the   *)
(* Broadcast it calls) and the administrator's requests that reach it      *)
(* through Manager.                                                        *)
(*                                                                         *)
(* The registry (source, clientsByID) is only touched under MountPoint.mu, *)
(* so each critical section is one action.  Broadcast takes no lock: it    *)
(* loads the snapshot and then visits the clients one select at a time,    *)
(* and each of those is an action of its own.  Whatever a function does    *)
(* after it unlocks (Stop the source, kick the clients it collected) is a  *)
(* list of things left to do, kept in stop and kicks.                      *)
(*                                                                         *)
(* A Rover or a Source stands for one TCP connection; a station that       *)
(* reconnects is another element, as its UUID is in the code.  Of a packet *)
(* only its source and its number in that source's stream are kept.        *)
(***************************************************************************)
EXTENDS Integers, Sequences, FiniteSets

CONSTANTS
    Rovers,         \* rover connections
    Sources,        \* base station connections
    Admins,         \* concurrent API requests (and the shutdown goroutine)
    Users,          \* accounts the API may disconnect
    UserOf,         \* the account of a connection, None without authentication
    Requests,       \* the API requests that are made
    WriteQueue,     \* capacity of Client.WriteChan
    Limits,         \* the values MaxClients takes; 0 means unlimited
    MaxPackets,     \* bound: packets one source ever sends
    MaxBatch,       \* bound: packets one Conn.Read completes
    None

ASSUME NoneAssumption == /\ None \notin Rovers
                         /\ None \notin Sources
                         /\ None \notin Users
ASSUME ActorAssumption == Sources \cap Admins = {}
ASSUME UserAssumption == UserOf \in [Rovers \cup Sources -> Users \cup {None}]
ASSUME RequestAssumption ==
    Requests \subseteq {"kickSource", "kickClient", "disconnectUser",
                        "update", "disconnectAll", "delete"}
ASSUME RoverAssumption == IsFiniteSet(Rovers)
ASSUME QueueAssumption == WriteQueue \in Nat \ {0}
ASSUME LimitAssumption == Limits \subseteq Nat
ASSUME BoundAssumption == MaxPackets \in Nat /\ MaxBatch \in Nat

VARIABLES
    \* MountPoint and its entry in Manager.mounts
    listed, enabled, maxClients,
    source, sourceOnline,
    clientsByID, snapshot, clientCount,
    slowKicks,      \* Stats.SlowClients and Stats.KickCount, always added to together
    \* rover connections
    rpc,            \* where handleRover / WriteLoop is
    done,           \* connections whose CloseOnce ran: Done closed, Conn closed
    slow,           \* connections whose slow flag is 1
    hung,           \* connections the peer closed
    stream,         \* every packet ever put on WriteChan, in order
    taken,          \* how many of them WriteLoop has received
    base,           \* history: the number of packets each source had sent at AddClient
    \* base station connections
    spc,            \* where handleSource / ReadLoop / Broadcast is
    stopped,        \* connections that ran Source.Close
    pending,        \* packets of the current Read still to broadcast
    seq,            \* number of the last packet whose Broadcast began
    todo,           \* clients of the loaded snapshot still to visit
    cur,            \* the client between the two selects of Broadcast
    \* what a goroutine still has to do after unlocking MountPoint.mu
    stop, kicks,
    \* API requests
    apc, asrc, auser, was

config   == <<listed, enabled, maxClients>>
slot     == <<source, sourceOnline>>
registry == <<clientsByID, snapshot, clientCount>>
link     == <<done, slow, hung>>
queue    == <<stream, taken>>
rover    == <<rpc, base>>
reader   == <<spc, stopped, pending, seq, todo, cur>>
teardown == <<stop, kicks>>
admin    == <<apc, asrc, auser, was>>

vars == <<config, slot, registry, slowKicks, link, queue, rover, reader,
          teardown, admin>>

-----------------------------------------------------------------------------

Procs == Sources \cup Admins

Packet == Sources \X (1 .. MaxPackets)

RoverPC == {"lookup", "hasSource", "addClient", "respond", "loop", "write",
            "remove", "gone", "rejected"}

SourcePC == {"lookup", "setSource", "respond", "read", "load", "bcast",
             "select", "kick", "clear", "close", "gone", "rejected"}

AdminPC == {"idle", "kickSource", "clearSource", "kickClient",
            "disconnectUser", "kickClients", "update", "apply",
            "disconnectAll"}

\* The rover's handler is past AddClient and its goroutine has not finished.
Attached == {"respond", "loop", "write", "remove"}

\* The source's handler is past SetSource and has not reached ClearSource.
Streaming == {"respond", "read", "load", "bcast", "select", "kick", "clear"}

Init ==
    /\ listed = TRUE /\ enabled = TRUE /\ maxClients \in Limits
    /\ source = None /\ sourceOnline = FALSE
    /\ clientsByID = {} /\ snapshot = {} /\ clientCount = 0
    /\ slowKicks = 0
    /\ rpc = [c \in Rovers |-> "lookup"]
    /\ done = {} /\ slow = {} /\ hung = {}
    /\ stream = [c \in Rovers |-> <<>>]
    /\ taken = [c \in Rovers |-> 0]
    /\ base = [c \in Rovers |-> [s \in Sources |-> 0]]
    /\ spc = [s \in Sources |-> "lookup"]
    /\ stopped = {}
    /\ pending = [s \in Sources |-> 0]
    /\ seq = [s \in Sources |-> 0]
    /\ todo = [s \in Sources |-> {}]
    /\ cur = [s \in Sources |-> None]
    /\ stop = [p \in Procs |-> None]
    /\ kicks = [p \in Procs |-> {}]
    /\ apc = [a \in Admins |-> "idle"]
    /\ asrc = [a \in Admins |-> None]
    /\ auser = [a \in Admins |-> None]
    /\ was = [a \in Admins |-> FALSE]

-----------------------------------------------------------------------------
(* Pieces the operations share.                                            *)

\* Mutant: the snapshot only ever shrinks.
SnapshotNeverGrows(S) == snapshot' = snapshot \cap S

rebuildSnapshotLocked(S) == snapshot' = S

\* Every change of clientsByID rebuilds the snapshot and stores the count.
SetClients(S) ==
    /\ clientsByID' = S
    /\ rebuildSnapshotLocked(S)
    /\ clientCount' = Cardinality(S)

\* CloseOnce makes a second call a no-op; the first closes Done, then Conn.
KickSlowConsumer(c) == done' = done \cup {c}

Close(s) == stopped' = stopped \cup {s}

\* p unlocks, having collected the source to Stop and the clients to kick.
Collect(p, s, S) ==
    /\ stop' = [stop EXCEPT ![p] = s]
    /\ kicks' = [kicks EXCEPT ![p] = S]

\* p has done all it collected and may go on.
Ready(p) == stop[p] = None /\ kicks[p] = {}

AtLimit == maxClients > 0 /\ Cardinality(clientsByID) >= maxClients

Room(c) == Len(stream[c]) - taken[c] < WriteQueue

At(c, pc) == rpc[c] = pc
Goto(c, pc) == rpc' = [rpc EXCEPT ![c] = pc]
SAt(s, pc) == spc[s] = pc
SGoto(s, pc) == spc' = [spc EXCEPT ![s] = pc]
AAt(a, pc) == apc[a] = pc /\ Ready(a)
AGoto(a, pc) == apc' = [apc EXCEPT ![a] = pc]

\* Mutant: ClearSource does not compare the ID.
ClearAnySource(p, id) ==
    \/ /\ source # None
       /\ source' = None
       /\ sourceOnline' = FALSE
       /\ Collect(p, source, clientsByID)
    \/ source = None /\ UNCHANGED <<slot, teardown>>

ClearSource(p, id) ==
    \/ /\ source # None
       /\ source = id
       /\ source' = None
       /\ sourceOnline' = FALSE
       /\ Collect(p, source, clientsByID)
    \/ /\ ~(source # None /\ source = id)
       /\ UNCHANGED <<slot, teardown>>

-----------------------------------------------------------------------------
(* A rover connection: handleRover after authentication, then WriteLoop.   *)

\* mgr.Get and IsEnabled; a miss is answered 404.
Lookup(c) ==
    /\ At(c, "lookup")
    /\ Goto(c, IF listed /\ enabled THEN "hasSource" ELSE "rejected")
    /\ UNCHANGED <<config, slot, registry, slowKicks, link, queue, base,
                   reader, teardown, admin>>

HasSource(c) ==
    /\ At(c, "hasSource")
    /\ Goto(c, IF source # None THEN "addClient" ELSE "rejected")
    /\ UNCHANGED <<config, slot, registry, slowKicks, link, queue, base,
                   reader, teardown, admin>>

\* The global limiter may refuse at this point.
AtCapacity(c) ==
    /\ At(c, "addClient")
    /\ Goto(c, "rejected")
    /\ UNCHANGED <<config, slot, registry, slowKicks, link, queue, base,
                   reader, teardown, admin>>

\* AddClient returns ErrClientLimitReached.
RefuseClient(c) ==
    /\ At(c, "addClient")
    /\ AtLimit
    /\ Goto(c, "rejected")
    /\ UNCHANGED <<config, slot, registry, slowKicks, link, queue, base,
                   reader, teardown, admin>>

AddClient(c) ==
    /\ At(c, "addClient")
    /\ ~AtLimit
    /\ SetClients(clientsByID \cup {c})
    /\ Goto(c, "respond")
    /\ base' = [base EXCEPT ![c] = seq]
    /\ UNCHANGED <<config, slot, slowKicks, link, queue, reader, teardown,
                   admin>>

\* ICY 200 OK is written and WriteLoop starts.
StartWriteLoop(c) ==
    /\ At(c, "respond")
    /\ Goto(c, "loop")
    /\ UNCHANGED <<config, slot, registry, slowKicks, link, queue, base,
                   reader, teardown, admin>>

\* select picks WriteChan; when Done is closed too, Go picks either.
Take(c) ==
    /\ At(c, "loop")
    /\ taken[c] < Len(stream[c])
    /\ taken' = [taken EXCEPT ![c] = @ + 1]
    /\ Goto(c, "write")
    /\ UNCHANGED <<config, slot, registry, slowKicks, link, stream, base,
                   reader, teardown, admin>>

WriteOK(c) ==
    /\ At(c, "write")
    /\ c \notin done
    /\ Goto(c, "loop")
    /\ UNCHANGED <<config, slot, registry, slowKicks, link, queue, base,
                   reader, teardown, admin>>

\* Mutant: a failed write puts the packet back and the loop goes on.
WriteRetries(c) ==
    /\ At(c, "write")
    /\ c \notin done
    /\ Len(stream[c]) < MaxPackets + 1
    /\ stream' = [stream EXCEPT ![c] = Append(@, @[taken[c]])]
    /\ Goto(c, "loop")
    /\ UNCHANGED <<config, slot, registry, slowKicks, link, taken, base,
                   reader, teardown, admin>>

\* Mutant: a failed write ends the loop without closing the connection.
WriteFailsOpen(c) ==
    /\ At(c, "write")
    /\ Goto(c, "remove")
    /\ UNCHANGED <<config, slot, registry, slowKicks, link, queue, base,
                   reader, teardown, admin>>

\* The write times out, or the connection is closed at either end.
WriteFails(c) ==
    /\ At(c, "write")
    /\ KickSlowConsumer(c)
    /\ Goto(c, "remove")
    /\ UNCHANGED <<config, slot, registry, slowKicks, slow, hung, queue, base,
                   reader, teardown, admin>>

ExitLoop(c) ==
    /\ At(c, "loop")
    /\ c \in done
    /\ Goto(c, "remove")
    /\ UNCHANGED <<config, slot, registry, slowKicks, link, queue, base,
                   reader, teardown, admin>>

\* removeFromMount, WriteLoop's deferred call.
RemoveClient(c) ==
    /\ At(c, "remove")
    /\ Goto(c, "gone")
    /\ IF c \in clientsByID THEN SetClients(clientsByID \ {c})
                            ELSE UNCHANGED registry
    /\ UNCHANGED <<config, slot, slowKicks, link, queue, base, reader,
                   teardown, admin>>

\* The peer closes its end.
Hangup(c) ==
    /\ rpc[c] \in Attached
    /\ c \notin hung
    /\ hung' = hung \cup {c}
    /\ UNCHANGED <<config, slot, registry, slowKicks, done, slow, queue,
                   rover, reader, teardown, admin>>

\* Mutant: nobody reads the rover's connection.
NoReader(c) == FALSE /\ UNCHANGED vars

\* The reading goroutine that WriteLoop starts sees the end of file.
ReaderKick(c) ==
    /\ rpc[c] \in {"loop", "write"}
    /\ c \in hung
    /\ c \notin done
    /\ KickSlowConsumer(c)
    /\ UNCHANGED <<config, slot, registry, slowKicks, slow, hung, queue,
                   rover, reader, teardown, admin>>

-----------------------------------------------------------------------------
(* A base station connection: handleSourceRev1/2 after authentication,     *)
(* then ReadLoop and the Broadcast of each packet it framed.               *)

SourceLookup(s) ==
    /\ SAt(s, "lookup")
    /\ SGoto(s, IF listed /\ enabled THEN "setSource" ELSE "rejected")
    /\ UNCHANGED <<config, slot, registry, slowKicks, link, queue, rover,
                   stopped, pending, seq, todo, cur, teardown, admin>>

\* SetSource refuses a second source; the handler answers 409.
SetSource(s) ==
    /\ SAt(s, "setSource")
    /\ \/ /\ source = None
          /\ source' = s
          /\ sourceOnline' = TRUE
          /\ SGoto(s, "respond")
       \/ /\ source # None
          /\ SGoto(s, "rejected")
          /\ UNCHANGED slot
    /\ UNCHANGED <<config, registry, slowKicks, link, queue, rover, stopped,
                   pending, seq, todo, cur, teardown, admin>>

StartReadLoop(s) ==
    /\ SAt(s, "respond")
    /\ SGoto(s, "read")
    /\ UNCHANGED <<config, slot, registry, slowKicks, link, queue, rover,
                   stopped, pending, seq, todo, cur, teardown, admin>>

\* One Conn.Read completes n packets.  Done is not looked at again before
\* the whole batch has been broadcast.
ReadPackets(s, n) ==
    /\ SAt(s, "read")
    /\ s \notin stopped
    /\ seq[s] + n <= MaxPackets
    /\ pending' = [pending EXCEPT ![s] = n]
    /\ SGoto(s, "load")
    /\ UNCHANGED <<config, slot, registry, slowKicks, link, queue, rover,
                   stopped, seq, todo, cur, teardown, admin>>

\* Done is closed, or Conn.Read returns an error.
ReadFails(s) ==
    /\ SAt(s, "read")
    /\ SGoto(s, "clear")
    /\ UNCHANGED <<config, slot, registry, slowKicks, link, queue, rover,
                   stopped, pending, seq, todo, cur, teardown, admin>>

\* Broadcast of the next packet begins: snapshot.Load().
LoadSnapshot(s) ==
    /\ SAt(s, "load")
    /\ todo' = [todo EXCEPT ![s] = snapshot]
    /\ seq' = [seq EXCEPT ![s] = @ + 1]
    /\ pending' = [pending EXCEPT ![s] = @ - 1]
    /\ SGoto(s, "bcast")
    /\ UNCHANGED <<config, slot, registry, slowKicks, link, queue, rover,
                   stopped, cur, teardown, admin>>

\* The first select: a client whose Done is closed is skipped.
CheckDone(s, c) ==
    /\ SAt(s, "bcast")
    /\ c \in todo[s]
    /\ todo' = [todo EXCEPT ![s] = @ \ {c}]
    /\ \/ c \in done /\ UNCHANGED <<cur, spc>>
       \/ c \notin done /\ cur' = [cur EXCEPT ![s] = c] /\ SGoto(s, "select")
    /\ UNCHANGED <<config, slot, registry, slowKicks, link, queue, rover,
                   stopped, pending, seq, teardown, admin>>

\* s is done with the client it was visiting.
NextClient(s) ==
    /\ cur' = [cur EXCEPT ![s] = None]
    /\ SGoto(s, "bcast")

\* The second select sends; it may do so although Done was closed meanwhile.
Send(s, c) ==
    /\ SAt(s, "select")
    /\ cur[s] = c
    /\ Room(c)
    /\ stream' = [stream EXCEPT ![c] = Append(@, <<s, seq[s]>>)]
    /\ NextClient(s)
    /\ UNCHANGED <<config, slot, registry, slowKicks, link, taken, rover,
                   stopped, pending, seq, todo, teardown, admin>>

SeeDone(s, c) ==
    /\ SAt(s, "select")
    /\ cur[s] = c
    /\ c \in done
    /\ NextClient(s)
    /\ UNCHANGED <<config, slot, registry, slowKicks, link, queue, rover,
                   stopped, pending, seq, todo, teardown, admin>>

\* Mutant: a full queue drops the packet and keeps the client.
DropPacket(s, c) ==
    /\ SAt(s, "select")
    /\ cur[s] = c
    /\ ~Room(c)
    /\ c \notin done
    /\ slowKicks' = slowKicks + 1
    /\ NextClient(s)
    /\ UNCHANGED <<config, slot, registry, link, queue, rover, stopped,
                   pending, seq, todo, teardown, admin>>

\* The default branch: both counters, then MarkSlowAndKick, whose CAS lets
\* only one caller go on to KickSlowConsumer.
MarkSlowAndKick(s, c) ==
    /\ SAt(s, "select")
    /\ cur[s] = c
    /\ ~Room(c)
    /\ c \notin done
    /\ slowKicks' = slowKicks + 1
    /\ \/ c \in slow /\ NextClient(s) /\ UNCHANGED slow
       \/ c \notin slow /\ slow' = slow \cup {c} /\ SGoto(s, "kick")
                        /\ UNCHANGED cur
    /\ UNCHANGED <<config, slot, registry, done, hung, queue, rover, stopped,
                   pending, seq, todo, teardown, admin>>

KickSlow(s, c) ==
    /\ SAt(s, "kick")
    /\ cur[s] = c
    /\ KickSlowConsumer(c)
    /\ NextClient(s)
    /\ UNCHANGED <<config, slot, registry, slowKicks, slow, hung, queue,
                   rover, stopped, pending, seq, todo, teardown, admin>>

EndBroadcast(s) ==
    /\ SAt(s, "bcast")
    /\ todo[s] = {}
    /\ SGoto(s, IF pending[s] > 0 THEN "load" ELSE "read")
    /\ UNCHANGED <<config, slot, registry, slowKicks, link, queue, rover,
                   stopped, pending, seq, todo, cur, teardown, admin>>

\* Mutant: ReadLoop's deferred function only closes the connection.
CloseOnly(s) ==
    /\ SAt(s, "clear")
    /\ SGoto(s, "close")
    /\ UNCHANGED <<config, slot, registry, slowKicks, link, queue, rover,
                   stopped, pending, seq, todo, cur, teardown, admin>>

\* ReadLoop's deferred function: ClearSource(s.ID), then Close.
ClearOwn(s) ==
    /\ SAt(s, "clear")
    /\ ClearSource(s, s)
    /\ SGoto(s, "close")
    /\ UNCHANGED <<config, registry, slowKicks, link, queue, rover, stopped,
                   pending, seq, todo, cur, admin>>

CloseOwn(s) ==
    /\ SAt(s, "close")
    /\ Ready(s)
    /\ Close(s)
    /\ SGoto(s, "gone")
    /\ UNCHANGED <<config, slot, registry, slowKicks, link, queue, rover,
                   pending, seq, todo, cur, teardown, admin>>

-----------------------------------------------------------------------------
(* After the unlock: Stop the collected source, then kick each client.     *)

\* Mutant: the slot is cleared without calling Stop.
ForgetStop(p) ==
    /\ stop[p] # None
    /\ stop' = [stop EXCEPT ![p] = None]
    /\ UNCHANGED <<config, slot, registry, slowKicks, link, queue, rover,
                   reader, kicks, admin>>

StopSource(p) ==
    /\ stop[p] # None
    /\ Close(stop[p])
    /\ stop' = [stop EXCEPT ![p] = None]
    /\ UNCHANGED <<config, slot, registry, slowKicks, link, queue, rover,
                   spc, pending, seq, todo, cur, kicks, admin>>

KickNext(p, c) ==
    /\ stop[p] = None
    /\ c \in kicks[p]
    /\ KickSlowConsumer(c)
    /\ kicks' = [kicks EXCEPT ![p] = @ \ {c}]
    /\ UNCHANGED <<config, slot, registry, slowKicks, slow, hung, queue,
                   rover, reader, stop, admin>>

-----------------------------------------------------------------------------
(* API requests.                                                           *)

\* The handler finds the mountpoint in Manager.mounts (Get or the list) and
\* keeps the pointer.
Find(a, req) ==
    /\ AAt(a, "idle")
    /\ listed
    /\ AGoto(a, req)
    /\ IF req = "disconnectUser"
       THEN \E u \in Users : auser' = [auser EXCEPT ![a] = u]
       ELSE UNCHANGED auser
    /\ UNCHANGED <<config, slot, registry, slowKicks, link, queue, rover,
                   reader, teardown, asrc, was>>

\* KickSource: SourceID() and ClearSource(id) are two critical sections.
SourceID(a) ==
    /\ AAt(a, "kickSource")
    /\ asrc' = [asrc EXCEPT ![a] = source]
    /\ AGoto(a, "clearSource")
    /\ UNCHANGED <<config, slot, registry, slowKicks, link, queue, rover,
                   reader, teardown, auser, was>>

KickSource(a) ==
    /\ AAt(a, "clearSource")
    /\ ClearSource(a, asrc[a])
    /\ AGoto(a, "idle")
    /\ asrc' = [asrc EXCEPT ![a] = None]
    /\ UNCHANGED <<config, registry, slowKicks, link, queue, rover, reader,
                   auser, was>>

KickClient(a, c) ==
    /\ AAt(a, "kickClient")
    /\ \/ /\ c \in clientsByID
          /\ SetClients(clientsByID \ {c})
          /\ Collect(a, None, {c})
       \/ c \notin clientsByID /\ UNCHANGED <<registry, teardown>>
    /\ AGoto(a, "idle")
    /\ UNCHANGED <<config, slot, slowKicks, link, queue, rover, reader, asrc,
                   auser, was>>

SourceOf(u) == source # None /\ UserOf[source] = u

\* Mutant: the clients are collected after the map was emptied.
CollectTooLate(a) ==
    /\ AAt(a, "disconnectUser")
    /\ \/ /\ SourceOf(auser[a])
          /\ source' = None
          /\ sourceOnline' = FALSE
          /\ SetClients({})
          /\ Collect(a, source, {})
       \/ ~SourceOf(auser[a]) /\ UNCHANGED <<slot, registry, teardown>>
    /\ AGoto(a, "kickClients")
    /\ UNCHANGED <<config, slowKicks, link, queue, rover, reader, asrc, auser,
                   was>>

\* DisconnectUser: the source and everybody with it if it is the user's ...
KickSourceByUser(a) ==
    /\ AAt(a, "disconnectUser")
    /\ \/ /\ SourceOf(auser[a])
          /\ source' = None
          /\ sourceOnline' = FALSE
          /\ SetClients({})
          /\ Collect(a, source, clientsByID)
       \/ ~SourceOf(auser[a]) /\ UNCHANGED <<slot, registry, teardown>>
    /\ AGoto(a, "kickClients")
    /\ UNCHANGED <<config, slowKicks, link, queue, rover, reader, asrc, auser,
                   was>>

ClientsOf(u) == {c \in clientsByID : UserOf[c] = u}

\* Mutant: the clients are deleted from the map, the snapshot not rebuilt.
KickStaleSnapshot(a) ==
    /\ AAt(a, "kickClients")
    /\ clientsByID' = clientsByID \ ClientsOf(auser[a])
    /\ clientCount' = Cardinality(clientsByID')
    /\ Collect(a, None, ClientsOf(auser[a]))
    /\ AGoto(a, "idle")
    /\ auser' = [auser EXCEPT ![a] = None]
    /\ UNCHANGED <<config, slot, snapshot, slowKicks, link, queue, rover,
                   reader, asrc, was>>

\* ... then the user's own clients.
KickClientsByUser(a) ==
    /\ AAt(a, "kickClients")
    /\ \/ /\ ClientsOf(auser[a]) # {}
          /\ SetClients(clientsByID \ ClientsOf(auser[a]))
          /\ Collect(a, None, ClientsOf(auser[a]))
       \/ ClientsOf(auser[a]) = {} /\ UNCHANGED <<registry, teardown>>
    /\ AGoto(a, "idle")
    /\ auser' = [auser EXCEPT ![a] = None]
    /\ UNCHANGED <<config, slot, slowKicks, link, queue, rover, reader, asrc,
                   was>>

\* UpdateMountPoint reads IsEnabled before it locks ...
ReadEnabled(a) ==
    /\ AAt(a, "update")
    /\ was' = [was EXCEPT ![a] = enabled]
    /\ AGoto(a, "apply")
    /\ UNCHANGED <<config, slot, registry, slowKicks, link, queue, rover,
                   reader, teardown, asrc, auser>>

\* ... and disconnects everybody after it unlocked if it disabled the mount.
UpdateMountPoint(a, en, max) ==
    /\ AAt(a, "apply")
    /\ enabled' = en
    /\ maxClients' = max
    /\ AGoto(a, IF was[a] /\ ~en THEN "disconnectAll" ELSE "idle")
    /\ was' = [was EXCEPT ![a] = FALSE]
    /\ UNCHANGED <<listed, slot, registry, slowKicks, link, queue, rover,
                   reader, teardown, asrc, auser>>

\* Manager.Delete takes the entry out of the map before it disconnects.
Delete(a) ==
    /\ AAt(a, "idle")
    /\ "delete" \in Requests
    /\ listed
    /\ listed' = FALSE
    /\ AGoto(a, "disconnectAll")
    /\ UNCHANGED <<enabled, maxClients, slot, registry, slowKicks, link,
                   queue, rover, reader, teardown, asrc, auser, was>>

DisconnectAll(a) ==
    /\ AAt(a, "disconnectAll")
    /\ source' = None
    /\ sourceOnline' = FALSE
    /\ Collect(a, source, clientsByID)
    /\ AGoto(a, "idle")
    /\ UNCHANGED <<config, registry, slowKicks, link, queue, rover, reader,
                   asrc, auser, was>>

-----------------------------------------------------------------------------

\* Steps of the handler and the goroutines of one rover connection.
RoverStep(c) ==
    \/ Lookup(c) \/ HasSource(c) \/ AtCapacity(c) \/ RefuseClient(c)
    \/ AddClient(c) \/ StartWriteLoop(c) \/ Take(c) \/ WriteOK(c)
    \/ WriteFails(c) \/ ExitLoop(c) \/ RemoveClient(c)

BroadcastStep(s) ==
    \/ LoadSnapshot(s) \/ EndBroadcast(s)
    \/ \E c \in Rovers :
          CheckDone(s, c) \/ Send(s, c) \/ SeeDone(s, c)
             \/ MarkSlowAndKick(s, c) \/ KickSlow(s, c)

SourceStep(s) ==
    \/ SourceLookup(s) \/ SetSource(s) \/ StartReadLoop(s)
    \/ ReadFails(s) \/ ClearOwn(s) \/ CloseOwn(s)
    \/ \E n \in 1 .. MaxBatch : ReadPackets(s, n)
    \/ BroadcastStep(s)

TeardownStep(p) == StopSource(p) \/ \E c \in Rovers : KickNext(p, c)

\* A request that has begun goes on.
RequestStep(a) ==
    \/ SourceID(a) \/ KickSource(a) \/ KickSourceByUser(a)
    \/ KickClientsByUser(a) \/ ReadEnabled(a) \/ DisconnectAll(a)
    \/ \E c \in Rovers : KickClient(a, c)
    \/ \E en \in BOOLEAN, max \in Limits : UpdateMountPoint(a, en, max)

AdminStep(a) ==
    \/ Delete(a) \/ RequestStep(a)
    \/ \E req \in Requests \ {"delete"} : Find(a, req)

Next ==
    \/ \E c \in Rovers : RoverStep(c) \/ Hangup(c) \/ ReaderKick(c)
    \/ \E s \in Sources : SourceStep(s)
    \/ \E p \in Procs : TeardownStep(p)
    \/ \E a \in Admins : AdminStep(a)

Spec == Init /\ [][Next]_vars

\* Every goroutine that can go on eventually does: the Go scheduler is fair,
\* writes have a deadline and no lock is held across a blocking call.  The
\* environment owes nothing: a rover need not hang up, a station need not
\* send or fail, no administrator need ever ask for anything.
Fairness ==
    /\ \A c \in Rovers : WF_vars(RoverStep(c)) /\ WF_vars(ReaderKick(c))
    /\ \A s \in Sources :
          /\ WF_vars(BroadcastStep(s))
          /\ WF_vars(SourceLookup(s) \/ SetSource(s) \/ StartReadLoop(s))
          /\ WF_vars(s \in stopped /\ ReadFails(s))
          /\ WF_vars(ClearOwn(s) \/ CloseOwn(s))
    /\ \A p \in Procs : WF_vars(TeardownStep(p))
    /\ \A a \in Admins : WF_vars(RequestStep(a))

FairSpec == Spec /\ Fairness

-----------------------------------------------------------------------------
(* Safety.                                                                 *)

\* Every variable keeps its type; the numbers stay within their bounds.
TypeOK ==
    /\ listed \in BOOLEAN /\ enabled \in BOOLEAN /\ maxClients \in Limits
    /\ source \in Sources \cup {None} /\ sourceOnline \in BOOLEAN
    /\ clientsByID \subseteq Rovers /\ snapshot \subseteq Rovers
    /\ clientCount \in Nat /\ slowKicks \in Nat
    /\ rpc \in [Rovers -> RoverPC]
    /\ done \subseteq Rovers /\ slow \subseteq Rovers /\ hung \subseteq Rovers
    /\ stream \in [Rovers -> Seq(Packet)]
    /\ taken \in [Rovers -> Nat]
    /\ base \in [Rovers -> [Sources -> 0 .. MaxPackets]]
    /\ spc \in [Sources -> SourcePC]
    /\ stopped \subseteq Sources
    /\ pending \in [Sources -> 0 .. MaxBatch]
    /\ seq \in [Sources -> 0 .. MaxPackets]
    /\ todo \in [Sources -> SUBSET Rovers]
    /\ cur \in [Sources -> Rovers \cup {None}]
    /\ stop \in [Procs -> Sources \cup {None}]
    /\ kicks \in [Procs -> SUBSET Rovers]
    /\ apc \in [Admins -> AdminPC]
    /\ asrc \in [Admins -> Sources \cup {None}]
    /\ auser \in [Admins -> Users \cup {None}]
    /\ was \in [Admins -> BOOLEAN]

\* The lock-free views (the snapshot Broadcast loads, the two statistics) say
\* what the locked registry says, and no rover whose WriteLoop has finished
\* is left in the registry, whichever of RemoveClient, KickClient and the
\* kicks by user took it out (AddClient, RemoveClient, KickClient*, Set- and
\* ClearSource).
RegistrySound ==
    /\ snapshot = clientsByID
    /\ clientCount = Cardinality(clientsByID)
    /\ sourceOnline = (source # None)
    /\ \A c \in clientsByID : rpc[c] \in Attached

\* The source slot is never held by a connection that is closed or whose
\* ReadLoop has run its ClearSource: such a holder would lock every other
\* station out with 409 (SetSource, ReadLoop's defer, DisconnectAll).
SlotHolderLive ==
    \A s \in Sources :
        source = s => spc[s] \in Streaming /\ s \notin stopped

\* p still has to close connection x.
WillKick(p, c) == c \in kicks[p]
WillStop(p, s) == stop[p] = s

\* Taking a connection out of the registry never forgets to close it: a
\* served rover that is no longer registered, and a streaming source that no
\* longer holds the slot, is closed or some goroutine is about to close it
\* (the collect-unlock-kick pattern of mountpoint.go).
NoForgottenConnection ==
    /\ \A c \in Rovers :
          rpc[c] \in Attached /\ c \notin clientsByID =>
             c \in done \/ \E p \in Procs : WillKick(p, c)
    /\ \A s \in Sources :
          spc[s] \in Streaming /\ source # s =>
             s \in stopped \/ \E p \in Procs : WillStop(p, s)

\* A finished goroutine leaves no open connection behind: the rover's is
\* closed once WriteLoop returned, the source's once ReadLoop returned.
ClosedWhenGone ==
    /\ \A c \in Rovers : rpc[c] \in {"remove", "gone"} => c \in done
    /\ \A s \in Sources : spc[s] = "gone" => s \in stopped

\* The packet before the i-th entry of c's stream, from the same source.
Follows(c, i) ==
    LET s == stream[c][i][1]
        n == stream[c][i][2]
    IN  \/ n = base[c][s] + 1
        \/ \E j \in 1 .. (i - 1) : stream[c][j] = <<s, n - 1>>

\* What is put on a rover's queue is, source by source, the stream from the
\* first packet after it was registered, without a gap, as long as the rover
\* was not marked slow (Broadcast drops a packet only for a client it kicks).
GapFree ==
    \A c \in Rovers : c \notin slow =>
        \A i \in 1 .. Len(stream[c]) : Follows(c, i)

\* Packets of one source are queued in the order they were read, slow or not,
\* never twice, and never ones from before the rover was registered.
InOrder ==
    \A c \in Rovers : \A j \in 1 .. Len(stream[c]) :
        /\ stream[c][j][2] > base[c][stream[c][j][1]]
        /\ \A i \in 1 .. (j - 1) :
              stream[c][i][1] = stream[c][j][1] =>
                 stream[c][i][2] < stream[c][j][2]

\* c was given the n-th packet of s.
Delivered(c, s, n) == \E i \in 1 .. Len(stream[c]) : stream[c][i] = <<s, n>>

\* The broadcast of s has still to deal with c.
Visiting(s, c) == c \in todo[s] \/ cur[s] = c

\* A registered, open rover that was not marked slow has been given the last
\* packet of every source, or is about to be: joining or leaving rovers
\* rebuild the snapshot under a running Broadcast without costing another
\* rover a packet.
UpToDate ==
    \A c \in clientsByID \ (done \cup slow) : \A s \in Sources :
        \/ seq[s] = base[c][s]
        \/ Visiting(s, c)
        \/ Delivered(c, s, seq[s])

\* A goroutine whose source was replaced cannot clear the new source: no step
\* of one connection takes another connection out of the slot (the ID test
\* of ClearSource).
NoForeignClear ==
    [][\A s, t \in Sources :
          s # t /\ source = s /\ spc'[t] # spc[t] => source' = s]_vars

-----------------------------------------------------------------------------
(* Liveness, under FairSpec.                                               *)

\* A rover that is closed, collected to be closed, or whose peer hung up
\* while it is served leaves: WriteLoop returns and the registry forgets it.
RoverLeaves ==
    \A c \in Rovers :
        (rpc[c] \in Attached
            /\ (c \in done \cup hung \/ \E p \in Procs : WillKick(p, c)))
        ~> (rpc[c] = "gone" /\ c \notin clientsByID)

\* A source that some goroutine decided to stop, or whose read failed, ends
\* its ReadLoop and does not hold the slot.
SourceLeaves ==
    \A s \in Sources :
        (spc[s] = "clear" \/ s \in stopped \/ \E p \in Procs : WillStop(p, s))
        ~> (spc[s] = "gone" /\ source # s)

-----------------------------------------------------------------------------
(* What a comment says, and the code does not do.                          *)

\* mountpoint.go:112, "Disconnect all rover clients since they can no longer
\* receive data": when there is no source, every registered rover is closed
\* or about to be.
NoStrandedRover ==
    source = None =>
        \A c \in clientsByID : c \in done \/ \E p \in Procs : WillKick(p, c)
=============================================================================
