------------------------------- MODULE Server -------------------------------
(***************************************************************************)
(* The NTRIP TCP server: the accept loop with its per-IP limiter, the      *)
(* handler goroutine of each connection up to the point where it hands the *)
(* connection to a WriteLoop or a ReadLoop, the global rover limiter, the  *)
(* wait group those loops are counted in, and Shutdown.                    *)
(*                                                                         *)
(* What happens on a mountpoint is MountPoint's subject.  Here a mountpoint *)
(* is its source slot and its set of clients, a serving loop is one that    *)
(* ends once its connection is closed, and the connections an operation     *)
(* collects are closed in the step that collects them.                      *)
(***************************************************************************)
EXTENDS Integers, FiniteSets

CONSTANTS
    Conns,          \* TCP connections, arriving in any order
    IPs,            \* remote addresses
    IPOf,           \* the address of a connection (extractIP)
    Mounts,         \* mountpoints of the manager, all enabled
    MaxConnPerIP,   \* limits.max_conn_per_ip
    MaxClients,     \* limits.max_clients
    MountLimit,     \* MaxClients of each mountpoint; 0 means unlimited
    None

ASSUME ConnAssumption == IsFiniteSet(Conns) /\ None \notin Conns
ASSUME IPAssumption == IsFiniteSet(IPs) /\ IPOf \in [Conns -> IPs]
ASSUME MountAssumption == None \notin Mounts
ASSUME KindAssumption == None \notin {"rover", "source", "sourcetable"}
ASSUME CapacityAssumption == /\ MaxConnPerIP \in Nat
                             /\ MaxClients \in Nat
                             /\ MountLimit \in Nat

VARIABLES
    listener,       \* Server.listener as Shutdown sees it
    lpc,            \* where ListenAndServe is
    held,           \* the connection Accept returned, not yet handed over
    counts,         \* IPLimiter.counts; an absent key counts 0
    rovers,         \* GlobalLimiter.count
    wg,             \* counter of Server.wg
    hpc,            \* where handle(conn) is
    wpc,            \* where the WriteLoop or ReadLoop goroutine is
    kind,           \* what the connection turned out to be
    mount,          \* the mountpoint it asked for
    closed,         \* connections one end has closed
    source, clients,\* of each mountpoint
    dpc,            \* where Shutdown is
    left,           \* mountpoints DisconnectAll has still to visit
    early           \* history: loops launched when Shutdown called wg.Wait

net   == <<listener, lpc, held>>
limit == <<counts, rovers>>
conn  == <<kind, mount>>
mounts == <<source, clients>>
halt  == <<dpc, left, early>>

vars == <<net, limit, wg, hpc, wpc, conn, closed, mounts, halt>>

-----------------------------------------------------------------------------

Loops == {"rover", "source"}
Kinds == Loops \cup {"sourcetable"}

\* The states of a handler that holds a slot of its address.
Handling == {"parse", "sourcetable", "auth", "hasSource", "capacity",
             "addClient", "count", "setSource", "respond", "return"}

HandlerPC == Handling \cup {"backlog", "dropped", "done"}

LoopPC == {"none", "run", "remove", "release", "wgDone", "gone"}

\* The states of a loop the wait group counts.
Counted == {"run", "remove", "release", "wgDone"}

ShutdownPC == {"serving", "closeListener", "disconnect", "wait", "waited",
               "nil", "timeout"}

Returned == dpc \in {"nil", "timeout"}

Init ==
    /\ listener = "none" /\ lpc = "listen" /\ held = None
    /\ counts = [ip \in IPs |-> 0]
    /\ rovers = 0
    /\ wg = 0
    /\ hpc = [c \in Conns |-> "backlog"]
    /\ wpc = [c \in Conns |-> "none"]
    /\ kind = [c \in Conns |-> None]
    /\ mount = [c \in Conns |-> None]
    /\ closed = {}
    /\ source = [m \in Mounts |-> None]
    /\ clients = [m \in Mounts |-> {}]
    /\ dpc = "serving" /\ left = {} /\ early = {}

HAt(c, pc) == hpc[c] = pc
HGoto(c, pc) == hpc' = [hpc EXCEPT ![c] = pc]
WAt(c, pc) == wpc[c] = pc
WGoto(c, pc) == wpc' = [wpc EXCEPT ![c] = pc]

\* conn.Close() and return: the handler refuses the connection.
Refuse(c) ==
    /\ closed' = closed \cup {c}
    /\ HGoto(c, "return")

-----------------------------------------------------------------------------
(* ListenAndServe.                                                         *)

\* net.Listen succeeds and the listener is stored, or the loop never starts.
Listen ==
    /\ lpc = "listen"
    /\ \/ listener' = "open" /\ lpc' = "accept"
       \/ lpc' = "returned" /\ UNCHANGED listener
    /\ UNCHANGED <<held, limit, wg, hpc, wpc, conn, closed, mounts, halt>>

Accept(c) ==
    /\ lpc = "accept"
    /\ listener = "open"
    /\ HAt(c, "backlog")
    /\ held' = c
    /\ lpc' = "allow"
    /\ UNCHANGED <<listener, limit, wg, hpc, wpc, conn, closed, mounts, halt>>

\* Accept fails on the closed listener and done is closed.
AcceptEnds ==
    /\ lpc = "accept"
    /\ listener = "closed"
    /\ dpc # "serving"
    /\ lpc' = "returned"
    /\ UNCHANGED <<listener, held, limit, wg, hpc, wpc, conn, closed, mounts,
                   halt>>

\* IPLimiter.Allow's test.
BelowLimit(ip) == counts[ip] < MaxConnPerIP

\* IPLimiter.Allow: the handler starts, or the connection is closed unheard.
Allow(c) ==
    /\ lpc = "allow"
    /\ held = c
    /\ \/ /\ BelowLimit(IPOf[c])
          /\ counts' = [counts EXCEPT ![IPOf[c]] = @ + 1]
          /\ HGoto(c, "parse")
          /\ UNCHANGED closed
       \/ /\ ~BelowLimit(IPOf[c])
          /\ HGoto(c, "dropped")
          /\ closed' = closed \cup {c}
          /\ UNCHANGED counts
    /\ held' = None
    /\ lpc' = "accept"
    /\ UNCHANGED <<listener, rovers, wg, wpc, conn, mounts, halt>>

\* Mutant: the slot is given back only by connections that were served.
ReleaseServed(c) ==
    /\ HAt(c, "return")
    /\ counts' = [counts EXCEPT ![IPOf[c]] = IF c \in closed THEN @ ELSE @ - 1]
    /\ HGoto(c, "done")
    /\ UNCHANGED <<net, rovers, wg, wpc, conn, closed, mounts, halt>>

\* The deferred IPLimiter.Release; a count that falls to 0 is deleted.
Release(c) ==
    /\ HAt(c, "return")
    /\ counts' = [counts EXCEPT ![IPOf[c]] = IF @ - 1 <= 0 THEN 0 ELSE @ - 1]
    /\ HGoto(c, "done")
    /\ UNCHANGED <<net, rovers, wg, wpc, conn, closed, mounts, halt>>

-----------------------------------------------------------------------------
(* handle(conn).                                                           *)

ParseRequest(c, k, m) ==
    /\ HAt(c, "parse")
    /\ c \notin closed
    /\ kind' = [kind EXCEPT ![c] = k]
    /\ mount' = [mount EXCEPT ![c] = m]
    /\ HGoto(c, IF k = "sourcetable" THEN "sourcetable" ELSE "auth")
    /\ UNCHANGED <<net, limit, wg, wpc, closed, mounts, halt>>

\* Mutant: a request line that never comes is waited for.
NoDeadline(c) ==
    /\ HAt(c, "parse")
    /\ c \in closed
    /\ Refuse(c)
    /\ UNCHANGED <<net, limit, wg, wpc, conn, mounts, halt>>

\* A malformed request, a closed connection or the 10 s read deadline.
ParseFails(c) ==
    /\ HAt(c, "parse")
    /\ Refuse(c)
    /\ UNCHANGED <<net, limit, wg, wpc, conn, mounts, halt>>

handleSourcetable(c) ==
    /\ HAt(c, "sourcetable")
    /\ Refuse(c)
    /\ UNCHANGED <<net, limit, wg, wpc, conn, mounts, halt>>

\* The credentials, the binding, or the mountpoint's name is not accepted.
Unauthorized(c) ==
    /\ HAt(c, "auth")
    /\ Refuse(c)
    /\ UNCHANGED <<net, limit, wg, wpc, conn, mounts, halt>>

Authorized(c) ==
    /\ HAt(c, "auth")
    /\ HGoto(c, IF kind[c] = "rover" THEN "hasSource" ELSE "setSource")
    /\ UNCHANGED <<net, limit, wg, wpc, conn, closed, mounts, halt>>

HasSource(c) ==
    /\ HAt(c, "hasSource")
    /\ \/ source[mount[c]] # None /\ HGoto(c, "capacity") /\ UNCHANGED closed
       \/ source[mount[c]] = None /\ Refuse(c)
    /\ UNCHANGED <<net, limit, wg, wpc, conn, mounts, halt>>

\* Mutant: the global limit is not looked at.
NeverFull(c) ==
    /\ HAt(c, "capacity")
    /\ HGoto(c, "addClient")
    /\ UNCHANGED <<net, limit, wg, wpc, conn, closed, mounts, halt>>

\* The counter is read here and added to after AddClient: two atomic steps.
AtCapacity(c) ==
    /\ HAt(c, "capacity")
    /\ \/ rovers < MaxClients /\ HGoto(c, "addClient") /\ UNCHANGED closed
       \/ rovers >= MaxClients /\ Refuse(c)
    /\ UNCHANGED <<net, limit, wg, wpc, conn, mounts, halt>>

Full(m) == MountLimit > 0 /\ Cardinality(clients[m]) >= MountLimit

AddClient(c) ==
    /\ HAt(c, "addClient")
    /\ \/ /\ ~Full(mount[c])
          /\ clients' = [clients EXCEPT ![mount[c]] = @ \cup {c}]
          /\ HGoto(c, "count")
          /\ UNCHANGED closed
       \/ Full(mount[c]) /\ Refuse(c) /\ UNCHANGED clients
    /\ UNCHANGED <<net, limit, wg, wpc, conn, source, halt>>

GlobalAdd(c) ==
    /\ HAt(c, "count")
    /\ rovers' = rovers + 1
    /\ HGoto(c, "respond")
    /\ UNCHANGED <<net, counts, wg, wpc, conn, closed, mounts, halt>>

SetSource(c) ==
    /\ HAt(c, "setSource")
    /\ \/ /\ source[mount[c]] = None
          /\ source' = [source EXCEPT ![mount[c]] = c]
          /\ HGoto(c, "respond")
          /\ UNCHANGED closed
       \/ source[mount[c]] # None /\ Refuse(c) /\ UNCHANGED source
    /\ UNCHANGED <<net, limit, wg, wpc, conn, clients, halt>>

\* Mutant: wg.Add(1) is left to the new goroutine.
LaunchUncounted(c) ==
    /\ HAt(c, "respond")
    /\ WGoto(c, "run")
    /\ HGoto(c, "return")
    /\ UNCHANGED <<net, limit, wg, conn, closed, mounts, halt>>

\* 200 is written, wg.Add(1), and the loop's goroutine starts; the handler
\* returns and leaves the connection to it.
Launch(c) ==
    /\ HAt(c, "respond")
    /\ wg' = wg + 1
    /\ WGoto(c, "run")
    /\ HGoto(c, "return")
    /\ UNCHANGED <<net, limit, conn, closed, mounts, halt>>

-----------------------------------------------------------------------------
(* The serving goroutines.                                                 *)

\* The peer hangs up, or the rover is too slow.
Disconnect(c) ==
    /\ c \notin closed
    /\ HAt(c, "parse") \/ WAt(c, "run")
    /\ closed' = closed \cup {c}
    /\ UNCHANGED <<net, limit, wg, hpc, wpc, conn, mounts, halt>>

\* An administrator kicks a rover: it leaves the registry at once.
KickClient(c) ==
    /\ kind[c] = "rover" /\ c \in clients[mount[c]]
    /\ clients' = [clients EXCEPT ![mount[c]] = @ \ {c}]
    /\ closed' = closed \cup {c}
    /\ UNCHANGED <<net, limit, wg, hpc, wpc, conn, source, halt>>

\* Or the source, whose rovers are closed with it.
KickSource(c) ==
    /\ kind[c] = "source" /\ c = source[mount[c]]
    /\ source' = [source EXCEPT ![mount[c]] = None]
    /\ closed' = closed \cup clients[mount[c]] \cup {c}
    /\ UNCHANGED <<net, limit, wg, hpc, wpc, conn, clients, halt>>

\* WriteLoop or ReadLoop sees that its connection is closed.
LoopEnds(c) ==
    /\ WAt(c, "run")
    /\ c \in closed
    /\ WGoto(c, "remove")
    /\ UNCHANGED <<net, limit, wg, hpc, conn, closed, mounts, halt>>

\* WriteLoop's deferred removeFromMount.
RemoveClient(c) ==
    /\ WAt(c, "remove")
    /\ kind[c] = "rover"
    /\ clients' = [clients EXCEPT ![mount[c]] = @ \ {c}]
    /\ WGoto(c, "release")
    /\ UNCHANGED <<net, limit, wg, hpc, conn, closed, source, halt>>

\* ReadLoop's deferred ClearSource: rovers cannot stay without a source.
ClearSource(c) ==
    /\ WAt(c, "remove")
    /\ kind[c] = "source"
    /\ \/ /\ source[mount[c]] = c
          /\ source' = [source EXCEPT ![mount[c]] = None]
          /\ closed' = closed \cup clients[mount[c]]
       \/ source[mount[c]] # c /\ UNCHANGED <<source, closed>>
    /\ WGoto(c, "wgDone")
    /\ UNCHANGED <<net, limit, wg, hpc, conn, clients, halt>>

\* Mutant: both WriteLoop and the handler's goroutine give the counter back.
GlobalReleaseTwice(c) ==
    /\ WAt(c, "release")
    /\ rovers' = rovers - 2
    /\ WGoto(c, "wgDone")
    /\ UNCHANGED <<net, counts, wg, hpc, conn, closed, mounts, halt>>

\* The deferred GlobalLimiter.Release.
GlobalRelease(c) ==
    /\ WAt(c, "release")
    /\ rovers' = rovers - 1
    /\ WGoto(c, "wgDone")
    /\ UNCHANGED <<net, counts, wg, hpc, conn, closed, mounts, halt>>

\* The deferred wg.Done, the last thing the goroutine does.
WgDone(c) ==
    /\ WAt(c, "wgDone")
    /\ wg' = wg - 1
    /\ WGoto(c, "gone")
    /\ UNCHANGED <<net, limit, hpc, conn, closed, mounts, halt>>

-----------------------------------------------------------------------------
(* Shutdown.                                                               *)

\* main received a signal or a server's error; close(done).
Shutdown ==
    /\ dpc = "serving"
    /\ dpc' = "closeListener"
    /\ UNCHANGED <<net, limit, wg, hpc, wpc, conn, closed, mounts, left,
                   early>>

\* A listener that is not there yet is not closed.
CloseListener ==
    /\ dpc = "closeListener"
    /\ listener' = IF listener = "open" THEN "closed" ELSE listener
    /\ dpc' = "disconnect"
    /\ left' = Mounts
    /\ UNCHANGED <<lpc, held, limit, wg, hpc, wpc, conn, closed, mounts,
                   early>>

\* Manager.DisconnectAll visits one mountpoint after the other.
DisconnectAll(m) ==
    /\ dpc = "disconnect"
    /\ m \in left
    /\ left' = left \ {m}
    /\ source' = [source EXCEPT ![m] = None]
    /\ closed' = closed \cup clients[m] \cup ({source[m]} \ {None})
    /\ UNCHANGED <<net, limit, wg, hpc, wpc, conn, clients, dpc, early>>

CallWait ==
    /\ dpc = "disconnect"
    /\ left = {}
    /\ dpc' = "wait"
    /\ early' = {c \in Conns : wpc[c] # "none"}
    /\ UNCHANGED <<net, limit, wg, hpc, wpc, conn, closed, mounts, left>>

\* wg.Wait returns in its goroutine, which closes waitCh ...
Wait ==
    /\ dpc = "wait"
    /\ wg = 0
    /\ dpc' = "waited"
    /\ UNCHANGED <<net, limit, wg, hpc, wpc, conn, closed, mounts, left,
                   early>>

\* ... and Shutdown's select takes that case or ctx.Done().
ReturnNil ==
    /\ dpc = "waited"
    /\ dpc' = "nil"
    /\ UNCHANGED <<net, limit, wg, hpc, wpc, conn, closed, mounts, left,
                   early>>

\* Mutant: Shutdown waits for the loops however long they take.
NoTimeout == FALSE /\ UNCHANGED vars

Timeout ==
    /\ dpc \in {"wait", "waited"}
    /\ dpc' = "timeout"
    /\ UNCHANGED <<net, limit, wg, hpc, wpc, conn, closed, mounts, left,
                   early>>

-----------------------------------------------------------------------------

AcceptStep ==
    Listen \/ AcceptEnds \/ \E c \in Conns : Allow(c)

HandlerStep(c) ==
    \/ ParseFails(c) \/ Unauthorized(c) \/ Authorized(c) \/ HasSource(c)
    \/ AtCapacity(c) \/ AddClient(c) \/ GlobalAdd(c) \/ SetSource(c)
    \/ Launch(c) \/ Release(c)

LoopStep(c) ==
    \/ LoopEnds(c) \/ RemoveClient(c) \/ ClearSource(c)
    \/ GlobalRelease(c) \/ WgDone(c)

ShutdownStep ==
    \/ CloseListener \/ CallWait \/ Wait \/ ReturnNil \/ Timeout
    \/ \E m \in Mounts : DisconnectAll(m)

Next ==
    \/ AcceptStep
    \/ \E c \in Conns :
          \/ Accept(c) \/ HandlerStep(c) \/ LoopStep(c)
          \/ Disconnect(c) \/ KickClient(c) \/ KickSource(c)
          \/ handleSourcetable(c)
          \/ \E k \in Kinds, m \in Mounts : ParseRequest(c, k, m)
    \/ Shutdown \/ ShutdownStep

Spec == Init /\ [][Next]_vars

\* Goroutines that can go on do, the read deadline and the ten seconds of
\* Shutdown's context pass.  Nobody need connect, send a request, hang up or
\* ask for the shutdown, and handleSourcetable writes without a deadline.
Fairness ==
    /\ WF_vars(AcceptStep)
    /\ \A c \in Conns : WF_vars(HandlerStep(c)) /\ WF_vars(LoopStep(c))
    /\ WF_vars(ShutdownStep)

FairSpec == Spec /\ Fairness

-----------------------------------------------------------------------------
(* Safety.                                                                 *)

\* Every variable keeps its type.
TypeOK ==
    /\ listener \in {"none", "open", "closed"}
    /\ lpc \in {"listen", "accept", "allow", "returned"}
    /\ held \in Conns \cup {None}
    /\ counts \in [IPs -> Nat]
    /\ rovers \in Int
    /\ wg \in Int
    /\ hpc \in [Conns -> HandlerPC]
    /\ wpc \in [Conns -> LoopPC]
    /\ kind \in [Conns -> Kinds \cup {None}]
    /\ mount \in [Conns -> Mounts \cup {None}]
    /\ closed \subseteq Conns
    /\ source \in [Mounts -> Conns \cup {None}]
    /\ clients \in [Mounts -> SUBSET Conns]
    /\ dpc \in ShutdownPC
    /\ left \subseteq Mounts
    /\ early \subseteq Conns

\* The handlers that hold a slot of address ip.
HandlersOf(ip) == {c \in Conns : IPOf[c] = ip /\ hpc[c] \in Handling}

\* Every path through handle gives its slot back exactly once: the count of
\* an address is the number of its handlers that run, so an address whose
\* connections all failed is not locked out (Allow, Release).
IPSlotsExact ==
    \A ip \in IPs : counts[ip] = Cardinality(HandlersOf(ip))

\* The rovers the global limiter counts.
CountedRovers ==
    {c \in Conns : kind[c] = "rover" /\ (\/ hpc[c] = "respond"
                                         \/ wpc[c] \in {"run", "remove", "release"})}

\* Every rover that was added to the global counter is taken off it exactly
\* once, on every way its goroutine can end; the counter neither leaks nor
\* goes negative (Add in handleRover, the deferred Release).
GlobalCountExact == rovers = Cardinality(CountedRovers)

\* Rovers that passed AtCapacity and are not counted yet.
Admitted == {c \in Conns : hpc[c] \in {"addClient", "count"}}

\* AtCapacity and Add are not one step, so the global limit can be exceeded,
\* but only by rovers that were being handled at the same time: the excess
\* stays below what the per-IP limiter lets in at once.
OvershootBounded ==
    \/ rovers = 0 /\ Admitted = {}
    \/ rovers + Cardinality(Admitted)
           < MaxClients + MaxConnPerIP * Cardinality(IPs)

\* When Shutdown returns nil, every loop that was launched before it called
\* Wait has finished, its rover taken off the mountpoint and the counter.
ShutdownDrains ==
    dpc = "nil" => \A c \in early : /\ wpc[c] = "gone"
                                    /\ \A m \in Mounts : c \notin clients[m]

-----------------------------------------------------------------------------
(* Liveness, under FairSpec.                                               *)

\* Every connection that got a slot of its address gives it back: no request
\* holds a handler for ever (the read deadline), sourcetables aside.
HandlerEnds ==
    \A c \in Conns :
        hpc[c] = "parse" ~> hpc[c] \in {"done", "sourcetable"}

\* Shutdown returns, at the latest when its context expires.
ShutdownReturns == dpc = "closeListener" ~> Returned

=============================================================================
