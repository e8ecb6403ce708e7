---------------------------- MODULE ServerProofs ----------------------------
(***************************************************************************)
(* Proofs about Server, for any finite set of connections and addresses,   *)
(* any mountpoints and any limits.                                         *)
(*                                                                         *)
(* Each counter of the server is shown to be the size of the set of        *)
(* connections it counts.  That needs to be known of every connection:     *)
(* where it is on the way through handle and its loop determines what it   *)
(* is (PathOK), and what is registered is on its way (RegisteredOK).       *)
(***************************************************************************)
EXTENDS Server, FiniteSetTheorems, TLAPS

\* The connection that Accept returned has no handler yet.
HeldOK == \A c \in Conns : held = c => hpc[c] = "backlog"

\* A loop runs when the handler has returned, and each stage is one of a rover
\* or of a station only.
PathOK ==
    \A c \in Conns :
        /\ wpc[c] # "none" => hpc[c] \in {"return", "done"}
        /\ hpc[c] \in {"auth", "respond"} \/ wpc[c] # "none" => kind[c] \in Loops
        /\ hpc[c] \in {"hasSource", "capacity", "addClient", "count"} \/ wpc[c] = "release"
              => kind[c] = "rover"
        /\ hpc[c] = "setSource" => kind[c] = "source"
        /\ kind[c] \in Loops => mount[c] \in Mounts

\* A registered client is a rover of this mountpoint that has not left.
RegisteredOK ==
    \A m \in Mounts : \A c \in clients[m] :
        /\ mount[c] = m /\ kind[c] = "rover"
        /\ hpc[c] \in {"count", "respond"} \/ wpc[c] \in {"run", "remove"}

\* The loops of the wait group.
CountedLoops == {c \in Conns : wpc[c] \in Counted}
WgOK == wg = Cardinality(CountedLoops)

\* Shutdown waits for loops that were launched.
EarlyOK ==
    /\ \A c \in early : wpc[c] # "none"
    /\ dpc \in {"waited", "nil"} => \A c \in early : wpc[c] = "gone"

LimitOK == \A ip \in IPs : counts[ip] <= MaxConnPerIP

Shape == TypeOK /\ HeldOK /\ PathOK /\ RegisteredOK /\ EarlyOK
Counters == IPSlotsExact /\ LimitOK /\ GlobalCountExact /\ WgOK /\ OvershootBounded
IInv == Shape /\ Counters

-----------------------------------------------------------------------------
(* Every step keeps the shape.                                             *)

LEMMA AcceptShape ==
    ASSUME Shape, AcceptStep \/ \E c \in Conns : Accept(c)
    PROVE  Shape'
<1> USE ConnAssumption, IPAssumption, MountAssumption, CapacityAssumption
        DEF Shape, TypeOK, HeldOK, PathOK, RegisteredOK, EarlyOK, HandlerPC, Handling, LoopPC,
            net, limit, conn, mounts, halt, HAt, HGoto
<1>1. CASE Listen
  BY <1>1 DEF Listen
<1>2. CASE AcceptEnds
  BY <1>2 DEF AcceptEnds
<1>3. ASSUME NEW c \in Conns, Allow(c) PROVE Shape'
  BY <1>3 DEF Allow
<1>4. ASSUME NEW c \in Conns, Accept(c) PROVE Shape'
  BY <1>4 DEF Accept
<1> QED BY <1>1, <1>2, <1>3, <1>4 DEF AcceptStep

LEMMA HandlerShape ==
    ASSUME Shape, NEW c \in Conns,
           HandlerStep(c) \/ handleSourcetable(c)
             \/ \E k \in Kinds, m \in Mounts : ParseRequest(c, k, m)
    PROVE  Shape'
<1> USE MountAssumption, CapacityAssumption
        DEF Shape, TypeOK, HeldOK, PathOK, RegisteredOK, EarlyOK, HandlerPC, Handling, LoopPC,
            Loops, Kinds, net, limit, conn, mounts, halt, HAt, HGoto, WGoto, Refuse
<1>1. CASE ParseFails(c) \/ handleSourcetable(c) \/ Unauthorized(c)
  BY <1>1 DEF ParseFails, handleSourcetable, Unauthorized
<1>2. CASE Authorized(c)
  BY <1>2 DEF Authorized
<1>3. CASE HasSource(c)
  BY <1>3 DEF HasSource
<1>4. CASE AtCapacity(c)
  BY <1>4 DEF AtCapacity
<1>5. CASE AddClient(c)
  BY <1>5 DEF AddClient
<1>6. CASE GlobalAdd(c)
  BY <1>6 DEF GlobalAdd
<1>7. CASE SetSource(c)
  BY <1>7 DEF SetSource
<1>8. CASE Launch(c)
  BY <1>8 DEF Launch
<1>9. CASE Release(c)
  <2> DEFINE n == IF counts[IPOf[c]] - 1 <= 0 THEN 0 ELSE counts[IPOf[c]] - 1
  <2>1. counts[IPOf[c]] \in Nat /\ n \in Nat
    BY IPAssumption
  <2>2. counts' = [counts EXCEPT ![IPOf[c]] = n]
    BY <1>9 DEF Release
  <2> HIDE DEF n
  <2>4. counts' \in [IPs -> Nat]
    BY <2>1, <2>2
  <2>3. /\ hpc' = [hpc EXCEPT ![c] = "done"] /\ HAt(c, "return")
        /\ UNCHANGED <<net, rovers, wg, wpc, conn, closed, mounts, halt>>
    BY <1>9 DEF Release
  <2> QED BY <2>3, <2>4
<1>10. ASSUME NEW k \in Kinds, NEW m \in Mounts, ParseRequest(c, k, m) PROVE Shape'
  BY <1>10 DEF ParseRequest
<1> HIDE DEF Shape
<1> QED BY <1>1, <1>2, <1>3, <1>4, <1>5, <1>6, <1>7, <1>8, <1>9, <1>10 DEF HandlerStep

LEMMA LoopShape ==
    ASSUME Shape, NEW c \in Conns,
           LoopStep(c) \/ Disconnect(c) \/ KickClient(c) \/ KickSource(c)
    PROVE  Shape'
<1> USE MountAssumption
        DEF Shape, TypeOK, HeldOK, PathOK, RegisteredOK, EarlyOK, LoopPC,
            Loops, net, limit, conn, mounts, halt, HAt, WAt, WGoto
<1>1. CASE LoopEnds(c)
  BY <1>1 DEF LoopEnds
<1>2. CASE RemoveClient(c)
  BY <1>2 DEF RemoveClient
<1>3. CASE ClearSource(c)
  BY <1>3 DEF ClearSource
<1>4. CASE GlobalRelease(c)
  BY <1>4 DEF GlobalRelease
<1>5. CASE WgDone(c)
  BY <1>5 DEF WgDone
<1>6. CASE Disconnect(c)
  BY <1>6 DEF Disconnect
<1>7. CASE KickClient(c)
  BY <1>7 DEF KickClient
<1>8. CASE KickSource(c)
  BY <1>8 DEF KickSource
<1> QED BY <1>1, <1>2, <1>3, <1>4, <1>5, <1>6, <1>7, <1>8 DEF LoopStep

\* When Wait returns the wait group counts no loop, so every loop that was
\* launched is gone.
LEMMA ShutdownShape ==
    ASSUME Shape, WgOK, Shutdown \/ ShutdownStep
    PROVE  Shape'
<1> USE DEF Shape, TypeOK, HeldOK, PathOK, RegisteredOK, EarlyOK, LoopPC, ShutdownPC,
            net, limit, conn, mounts, halt
<1>1. CASE Shutdown
  BY <1>1 DEF Shutdown
<1>2. CASE CloseListener
  BY <1>2 DEF CloseListener
<1>3. ASSUME NEW m \in Mounts, DisconnectAll(m) PROVE Shape'
  BY <1>3 DEF DisconnectAll
<1>4. CASE CallWait
  BY <1>4 DEF CallWait
<1>5. CASE Wait
  <2>1. IsFiniteSet(CountedLoops)
    BY ConnAssumption, FS_Subset DEF CountedLoops
  <2>2. CountedLoops = {}
    BY <1>5, <2>1, FS_EmptySet DEF WgOK, Wait
  <2>3. \A c \in Conns : wpc[c] \in {"none", "gone"}
    BY <2>2 DEF CountedLoops, Counted
  <2> QED BY <1>5, <2>3 DEF Wait
<1>6. CASE ReturnNil
  BY <1>6 DEF ReturnNil
<1>7. CASE Timeout
  BY <1>7 DEF Timeout
<1> QED BY <1>1, <1>2, <1>3, <1>4, <1>5, <1>6, <1>7 DEF ShutdownStep

LEMMA NextShape ==
    ASSUME Shape, WgOK, Next
    PROVE  Shape'
BY AcceptShape, HandlerShape, LoopShape, ShutdownShape DEF Next

-----------------------------------------------------------------------------
(* Counting.                                                               *)

LEMMA CardGain ==
    ASSUME NEW S \in SUBSET Conns, NEW x \in Conns \ S
    PROVE  /\ Cardinality(S) \in Nat
           /\ Cardinality(S \cup {x}) = Cardinality(S) + 1
<1>1. IsFiniteSet(S)
  BY ConnAssumption, FS_Subset
<1> QED BY <1>1, FS_CardinalityType, FS_AddElement

LEMMA CardLoss ==
    ASSUME NEW S \in SUBSET Conns, NEW x \in S
    PROVE  /\ Cardinality(S) \in Nat /\ Cardinality(S) >= 1
           /\ Cardinality(S \ {x}) = Cardinality(S) - 1
<1>1. IsFiniteSet(S)
  BY ConnAssumption, FS_Subset
<1>2. IsFiniteSet(S \ {x}) /\ Cardinality(S \ {x}) = Cardinality(S) - 1
  BY <1>1, FS_RemoveElement
<1> QED BY <1>1, <1>2, FS_CardinalityType

\* The slots of every address stay with the handlers that hold them.
SlotsKept ==
    /\ counts' = counts
    /\ \A d \in Conns : hpc'[d] \in Handling <=> hpc[d] \in Handling

LEMMA SlotsKeptExact ==
    ASSUME SlotsKept, IPSlotsExact, LimitOK
    PROVE  (IPSlotsExact /\ LimitOK)'
<1>1. \A ip \in IPs : HandlersOf(ip)' = HandlersOf(ip)
  BY DEF SlotsKept, HandlersOf
<1> QED BY <1>1 DEF SlotsKept, IPSlotsExact, LimitOK

LEMMA AllowSlots ==
    ASSUME Shape, IPSlotsExact, LimitOK, NEW c \in Conns, Allow(c)
    PROVE  (IPSlotsExact /\ LimitOK)'
<1> USE DEF Shape, TypeOK, HeldOK
<1> DEFINE i == IPOf[c]
<1>0. i \in IPs /\ hpc[c] = "backlog"
  BY IPAssumption DEF Allow
<1>1. CASE BelowLimit(i)
  <2>1. /\ hpc' = [hpc EXCEPT ![c] = "parse"]
        /\ counts' = [counts EXCEPT ![i] = @ + 1]
    BY <1>1 DEF Allow, HGoto
  <2>2. \A ip \in IPs \ {i} : HandlersOf(ip)' = HandlersOf(ip)
    BY <1>0, <2>1 DEF HandlersOf, Handling
  <2>3. HandlersOf(i)' = HandlersOf(i) \cup {c} /\ c \notin HandlersOf(i)
    BY <1>0, <2>1 DEF HandlersOf, Handling
  <2>4. Cardinality(HandlersOf(i)') = Cardinality(HandlersOf(i)) + 1
    BY <2>3, CardGain DEF HandlersOf
  <2>5. counts'[i] = counts[i] + 1 /\ \A ip \in IPs \ {i} : counts'[ip] = counts[ip]
    BY <1>0, <2>1
  <2>6. counts'[i] <= MaxConnPerIP
    BY <1>0, <1>1, <2>5, CapacityAssumption DEF BelowLimit
  <2>7. IPSlotsExact'
    BY <1>0, <2>2, <2>4, <2>5 DEF IPSlotsExact
  <2> QED BY <1>0, <2>5, <2>6, <2>7 DEF LimitOK
<1>2. CASE ~BelowLimit(i)
  <2>1. SlotsKept
    BY <1>0, <1>2 DEF Allow, HGoto, SlotsKept, Handling
  <2> QED BY <2>1, SlotsKeptExact
<1> QED BY <1>1, <1>2

LEMMA ReleaseSlots ==
    ASSUME Shape, IPSlotsExact, LimitOK, NEW c \in Conns, Release(c)
    PROVE  (IPSlotsExact /\ LimitOK)'
<1> USE DEF Shape, TypeOK
<1> DEFINE i == IPOf[c]
<1>0. i \in IPs /\ hpc[c] = "return"
  BY IPAssumption DEF Release, HAt
<1>1. /\ hpc' = [hpc EXCEPT ![c] = "done"]
      /\ counts' = [counts EXCEPT ![i] = IF @ - 1 <= 0 THEN 0 ELSE @ - 1]
  BY DEF Release, HGoto
<1>2. \A ip \in IPs \ {i} : HandlersOf(ip)' = HandlersOf(ip)
  BY <1>0, <1>1 DEF HandlersOf, Handling
<1>3. HandlersOf(i)' = HandlersOf(i) \ {c} /\ c \in HandlersOf(i)
  BY <1>0, <1>1 DEF HandlersOf, Handling
<1>4. /\ Cardinality(HandlersOf(i)') = Cardinality(HandlersOf(i)) - 1
      /\ Cardinality(HandlersOf(i)) \in Nat /\ Cardinality(HandlersOf(i)) >= 1
  BY <1>3, CardLoss DEF HandlersOf
<1>5. counts[i] \in Nat /\ counts[i] >= 1
  BY <1>0, <1>4 DEF IPSlotsExact
<1>6. counts'[i] = counts[i] - 1 /\ \A ip \in IPs \ {i} : counts'[ip] = counts[ip]
  BY <1>0, <1>1, <1>5
<1>7. IPSlotsExact'
  BY <1>0, <1>2, <1>4, <1>6 DEF IPSlotsExact
<1> QED BY <1>0, <1>5, <1>6, <1>7, CapacityAssumption DEF LimitOK

LEMMA NextSlots ==
    ASSUME Shape, IPSlotsExact, LimitOK, Next
    PROVE  (IPSlotsExact /\ LimitOK)'
<1> USE DEF Shape, TypeOK, SlotsKept, Handling, HGoto, HAt, WGoto, limit, conn, net, mounts,
            halt, Refuse
<1>1. CASE Listen \/ AcceptEnds \/ Shutdown \/ \E c \in Conns : Accept(c)
  BY <1>1, SlotsKeptExact DEF Listen, AcceptEnds, Shutdown, Accept
<1>2. CASE ShutdownStep
  BY <1>2, SlotsKeptExact
     DEF ShutdownStep, CloseListener, CallWait, Wait, ReturnNil, Timeout, DisconnectAll
<1>3. ASSUME NEW c \in Conns,
             LoopStep(c) \/ Disconnect(c) \/ KickClient(c) \/ KickSource(c)
      PROVE (IPSlotsExact /\ LimitOK)'
  BY <1>3, SlotsKeptExact
     DEF LoopStep, LoopEnds, RemoveClient, ClearSource, GlobalRelease, WgDone, Disconnect,
         KickClient, KickSource
<1>4. ASSUME NEW c \in Conns, HandlerStep(c), ~Release(c)
      PROVE (IPSlotsExact /\ LimitOK)'
  <2>1. SlotsKept
    BY <1>4
       DEF HandlerStep, ParseFails, Unauthorized, Authorized, HasSource, AtCapacity, AddClient,
           GlobalAdd, SetSource, Launch
  <2> QED BY <2>1, SlotsKeptExact
<1>5. ASSUME NEW c \in Conns, handleSourcetable(c) \/ \E k \in Kinds, m \in Mounts : ParseRequest(c, k, m)
      PROVE (IPSlotsExact /\ LimitOK)'
  <2>1. SlotsKept
    BY <1>5 DEF handleSourcetable, ParseRequest
  <2> QED BY <2>1, SlotsKeptExact
<1> HIDE DEF Shape
<1> QED BY <1>1, <1>2, <1>3, <1>4, <1>5, AllowSlots, ReleaseSlots DEF Next, AcceptStep

\* Each address has its handlers numbered within its limit, so there are at
\* most as many handlers as addresses times the limit.
LEMMA HandlersBounded ==
    ASSUME Shape, IPSlotsExact, LimitOK,
           NEW S \in SUBSET {c \in Conns : hpc[c] \in Handling}
    PROVE  /\ IsFiniteSet(S)
           /\ Cardinality(S) <= MaxConnPerIP * Cardinality(IPs)
<1> DEFINE Numbering(ip) == CHOOSE f : f \in Bijection(1..counts[ip], HandlersOf(ip))
           Number(c) == CHOOSE k \in 1..counts[IPOf[c]] : Numbering(IPOf[c])[k] = c
           slot == [c \in S |-> <<IPOf[c], Number(c)>>]
<1>0. \A ip \in IPs : counts[ip] \in Nat /\ counts[ip] <= MaxConnPerIP
  BY DEF Shape, TypeOK, LimitOK
<1>1. ASSUME NEW ip \in IPs
      PROVE  Numbering(ip) \in Bijection(1..counts[ip], HandlersOf(ip))
  <2>1. IsFiniteSet(HandlersOf(ip))
    BY ConnAssumption, FS_Subset DEF HandlersOf
  <2>2. ExistsBijection(1..counts[ip], HandlersOf(ip))
    BY <2>1, FS_CardinalityType DEF IPSlotsExact
  <2> QED BY <2>2 DEF ExistsBijection
<1>2. ASSUME NEW c \in S
      PROVE  /\ IPOf[c] \in IPs
             /\ Number(c) \in 1..counts[IPOf[c]]
             /\ Numbering(IPOf[c])[Number(c)] = c
  <2>1. IPOf[c] \in IPs /\ c \in HandlersOf(IPOf[c])
    BY IPAssumption DEF HandlersOf
  <2> HIDE DEF Numbering
  <2>2. \E k \in 1..counts[IPOf[c]] : Numbering(IPOf[c])[k] = c
    BY <1>1, <2>1 DEF Bijection, Surjection
  <2> QED BY <2>1, <2>2
<1> HIDE DEF Numbering, Number
<1>3. slot \in [S -> IPs \X (1..MaxConnPerIP)]
  <2>1. ASSUME NEW c \in S PROVE Number(c) \in 1..MaxConnPerIP
    BY <1>0, <1>2, CapacityAssumption
  <2> QED BY <1>2, <2>1
<1>4. ASSUME NEW a \in S, NEW b \in S, slot[a] = slot[b] PROVE a = b
  <2>1. IPOf[a] = IPOf[b] /\ Number(a) = Number(b)
    BY <1>4
  <2> QED BY <1>2, <2>1
<1> HIDE DEF slot
<1>5. slot \in Injection(S, IPs \X (1..MaxConnPerIP))
  BY <1>3, <1>4 DEF Injection, IsInjective
<1>6. IsFiniteSet(1..MaxConnPerIP) /\ Cardinality(1..MaxConnPerIP) = MaxConnPerIP
  BY CapacityAssumption, FS_Interval
<1>7. /\ IsFiniteSet(IPs \X (1..MaxConnPerIP))
      /\ Cardinality(IPs \X (1..MaxConnPerIP)) = Cardinality(IPs) * MaxConnPerIP
  BY <1>6, IPAssumption, FS_Product
<1>8. Cardinality(IPs) \in Nat
  BY IPAssumption, FS_CardinalityType
<1>9. IsFiniteSet(S) /\ Cardinality(S) <= Cardinality(IPs) * MaxConnPerIP
  BY <1>5, <1>7, FS_Injection
<1> QED BY <1>8, <1>9, CapacityAssumption

-----------------------------------------------------------------------------
(* The global counter and the wait group.                                  *)

\* Every step but AtCapacity, GlobalAdd and GlobalRelease keeps the counter
\* and the set it counts, and lets nobody past AtCapacity.
RoversKept ==
    /\ rovers' = rovers
    /\ CountedRovers' = CountedRovers
    /\ Admitted' \subseteq Admitted

RoversOK == GlobalCountExact /\ OvershootBounded

LEMMA RoversKeptOK ==
    ASSUME Shape, RoversOK, RoversKept
    PROVE  RoversOK'
<1>1. Admitted \subseteq Conns
  BY DEF Admitted
<1>2. /\ IsFiniteSet(Admitted) /\ IsFiniteSet(Admitted')
      /\ Cardinality(Admitted') <= Cardinality(Admitted)
  BY <1>1, ConnAssumption, FS_Subset DEF RoversKept
<1>3. Cardinality(Admitted) \in Nat /\ Cardinality(Admitted') \in Nat
  BY <1>2, FS_CardinalityType
<1>4. GlobalCountExact'
  BY DEF RoversOK, GlobalCountExact, RoversKept
<1>5. CASE Admitted = {} /\ rovers = 0
  BY <1>4, <1>5 DEF RoversKept, RoversOK, OvershootBounded
<1>6. CASE rovers + Cardinality(Admitted) < MaxClients + MaxConnPerIP * Cardinality(IPs)
  <2> DEFINE bound == MaxConnPerIP * Cardinality(IPs)
  <2>1. bound \in Int
    BY CapacityAssumption, IPAssumption, FS_CardinalityType
  <2> HIDE DEF bound
  <2>2. rovers' + Cardinality(Admitted') < MaxClients + bound
    BY <1>2, <1>3, <1>6, <2>1, CapacityAssumption DEF RoversKept, Shape, TypeOK, bound
  <2> QED BY <1>4, <2>2 DEF RoversOK, OvershootBounded, bound
<1> QED BY <1>5, <1>6 DEF RoversOK, OvershootBounded

\* The counter read at AtCapacity is below the limit, and the rovers on their
\* way to Add are all being handled.
LEMMA AtCapacityRovers ==
    ASSUME Shape, IPSlotsExact, LimitOK, RoversOK, NEW c \in Conns, AtCapacity(c)
    PROVE  RoversOK'
<1> USE DEF Shape, TypeOK, PathOK
<1>0. hpc[c] = "capacity"
  BY DEF AtCapacity, HAt
<1>1. CASE rovers < MaxClients
  <2>1. hpc' = [hpc EXCEPT ![c] = "addClient"] /\ UNCHANGED <<rovers, wpc, kind>>
    BY <1>1, CapacityAssumption DEF AtCapacity, HGoto, Refuse, limit, conn
  <2>2. CountedRovers' = CountedRovers
    BY <1>0, <2>1 DEF CountedRovers
  <2>3. Admitted' \subseteq {d \in Conns : hpc[d] \in Handling}
    BY <1>0, <2>1 DEF Admitted, Handling
  <2> DEFINE bound == MaxConnPerIP * Cardinality(IPs)
  <2>4. bound \in Int
    BY CapacityAssumption, IPAssumption, FS_CardinalityType
  <2>5. IsFiniteSet(Admitted') /\ Cardinality(Admitted') <= bound
    BY <2>3, HandlersBounded
  <2> HIDE DEF bound
  <2>6. Cardinality(Admitted') \in Nat
    BY <2>5, FS_CardinalityType
  <2>7. rovers' + Cardinality(Admitted') < MaxClients + bound
    BY <1>1, <2>1, <2>4, <2>5, <2>6, CapacityAssumption
  <2> QED BY <2>1, <2>2, <2>7 DEF RoversOK, GlobalCountExact, OvershootBounded, bound
<1>2. CASE ~(rovers < MaxClients)
  <2>1. hpc' = [hpc EXCEPT ![c] = "return"] /\ UNCHANGED <<rovers, wpc, kind>>
    BY <1>2 DEF AtCapacity, HGoto, Refuse, limit, conn
  <2>2. RoversKept
    BY <1>0, <2>1 DEF RoversKept, CountedRovers, Admitted
  <2> QED BY <2>2, RoversKeptOK
<1> QED BY <1>1, <1>2

LEMMA GlobalAddRovers ==
    ASSUME Shape, RoversOK, NEW c \in Conns, GlobalAdd(c)
    PROVE  RoversOK'
<1> USE DEF Shape, TypeOK, PathOK
<1>0. /\ hpc[c] = "count" /\ kind[c] = "rover" /\ wpc[c] = "none"
      /\ hpc' = [hpc EXCEPT ![c] = "respond"]
      /\ rovers' = rovers + 1 /\ UNCHANGED <<wpc, kind>>
  BY DEF GlobalAdd, HAt, HGoto, conn
<1>1. /\ CountedRovers' = CountedRovers \cup {c} /\ c \notin CountedRovers
      /\ CountedRovers \in SUBSET Conns
  BY <1>0 DEF CountedRovers
<1>2. Admitted' = Admitted \ {c} /\ c \in Admitted
  BY <1>0 DEF Admitted
<1>3. Cardinality(CountedRovers') = Cardinality(CountedRovers) + 1
  BY <1>1, CardGain
<1>4. Cardinality(Admitted') = Cardinality(Admitted) - 1 /\ Cardinality(Admitted) \in Nat
  BY <1>2, CardLoss DEF Admitted
<1>5. GlobalCountExact'
  BY <1>0, <1>3 DEF RoversOK, GlobalCountExact
<1>6. rovers' + Cardinality(Admitted') = rovers + Cardinality(Admitted)
  BY <1>0, <1>4
<1> QED BY <1>2, <1>5, <1>6 DEF RoversOK, OvershootBounded

LEMMA GlobalReleaseRovers ==
    ASSUME Shape, RoversOK, NEW c \in Conns, GlobalRelease(c)
    PROVE  RoversOK'
<1> USE DEF Shape, TypeOK, PathOK
<1>0. /\ wpc[c] = "release" /\ kind[c] = "rover" /\ hpc[c] \in {"return", "done"}
      /\ wpc' = [wpc EXCEPT ![c] = "wgDone"]
      /\ rovers' = rovers - 1 /\ UNCHANGED <<hpc, kind>>
  BY DEF GlobalRelease, WAt, WGoto, conn
<1>1. CountedRovers' = CountedRovers \ {c} /\ c \in CountedRovers
  BY <1>0 DEF CountedRovers
<1>2. Admitted' = Admitted
  BY <1>0 DEF Admitted
<1>3. /\ Cardinality(CountedRovers') = Cardinality(CountedRovers) - 1
      /\ Cardinality(CountedRovers) >= 1 /\ Cardinality(CountedRovers) \in Nat
  BY <1>1, CardLoss DEF CountedRovers
<1>4. GlobalCountExact' /\ rovers >= 1
  BY <1>0, <1>3 DEF RoversOK, GlobalCountExact
<1>5. IsFiniteSet(Admitted)
  BY ConnAssumption, FS_Subset DEF Admitted
<1>6. Cardinality(Admitted) \in Nat
  BY <1>5, FS_CardinalityType
<1> DEFINE bound == MaxClients + MaxConnPerIP * Cardinality(IPs)
<1>7. bound \in Int
  BY CapacityAssumption, IPAssumption, FS_CardinalityType
<1> HIDE DEF bound
<1>8. rovers + Cardinality(Admitted) < bound
  BY <1>4 DEF RoversOK, OvershootBounded, bound
<1>9. rovers' + Cardinality(Admitted') < bound
  BY <1>0, <1>2, <1>6, <1>7, <1>8
<1> QED BY <1>4, <1>9 DEF RoversOK, OvershootBounded, bound

LEMMA NextRovers ==
    ASSUME Shape, IPSlotsExact, LimitOK, RoversOK, Next
    PROVE  RoversOK'
<1> USE DEF Shape, TypeOK, HeldOK, PathOK, RoversKept, CountedRovers, Admitted, HGoto, HAt, WGoto, WAt,
            limit, conn, net, mounts, halt, Refuse
<1>1. CASE Listen \/ AcceptEnds \/ Shutdown \/ \E c \in Conns : Accept(c)
  <2>1. RoversKept
    BY <1>1 DEF Listen, AcceptEnds, Shutdown, Accept
  <2> QED BY <2>1, RoversKeptOK
<1>2. CASE ShutdownStep
  <2>1. RoversKept
    BY <1>2
     DEF ShutdownStep, CloseListener, CallWait, Wait, ReturnNil, Timeout, DisconnectAll
  <2> QED BY <2>1, RoversKeptOK
<1>3. ASSUME NEW c \in Conns, Allow(c)
      PROVE RoversOK'
  <2>1. RoversKept
    BY <1>3 DEF Allow
  <2> QED BY <2>1, RoversKeptOK
<1>4. ASSUME NEW c \in Conns,
             LoopStep(c) \/ Disconnect(c) \/ KickClient(c) \/ KickSource(c),
             ~GlobalRelease(c)
      PROVE RoversOK'
  <2>1. RoversKept
    BY <1>4
     DEF LoopStep, LoopEnds, RemoveClient, ClearSource, WgDone, Disconnect,
         KickClient, KickSource
  <2> QED BY <2>1, RoversKeptOK
<1>5. ASSUME NEW c \in Conns, HandlerStep(c), ~GlobalAdd(c), ~AtCapacity(c)
      PROVE RoversOK'
  <2>1. RoversKept
    BY <1>5
       DEF HandlerStep, ParseFails, Unauthorized, Authorized, HasSource, AddClient,
           SetSource, Launch, Release
  <2> QED BY <2>1, RoversKeptOK
<1>6. ASSUME NEW c \in Conns, handleSourcetable(c) \/ \E k \in Kinds, m \in Mounts : ParseRequest(c, k, m)
      PROVE RoversOK'
  <2>1. RoversKept
    BY <1>6 DEF handleSourcetable, ParseRequest
  <2> QED BY <2>1, RoversKeptOK
<1> HIDE DEF Shape
<1>7. ASSUME NEW c \in Conns, HandlerStep(c) PROVE RoversOK'
  BY <1>5, <1>7, GlobalAddRovers, AtCapacityRovers
<1>8. ASSUME NEW c \in Conns, LoopStep(c) PROVE RoversOK'
  BY <1>4, <1>8, GlobalReleaseRovers DEF LoopStep
<1>9. ASSUME NEW c \in Conns, Disconnect(c) \/ KickClient(c) \/ KickSource(c)
      PROVE RoversOK'
  <2>1. ~GlobalRelease(c)
    BY <1>9 DEF Disconnect, KickClient, KickSource, GlobalRelease, Shape
  <2> QED BY <1>4, <1>9, <2>1
<1> QED BY <1>1, <1>2, <1>3, <1>6, <1>7, <1>8, <1>9 DEF Next, AcceptStep

\* The wait group counts the loops that were launched and have not ended.
LEMMA NextWg ==
    ASSUME Shape, WgOK, Next
    PROVE  WgOK'
<1> USE DEF Shape, TypeOK, PathOK, HGoto, HAt, WGoto, WAt, limit, conn, net, mounts, halt,
            Refuse, Counted
<1> DEFINE Kept == wg' = wg /\ CountedLoops' = CountedLoops
<1>0. Kept => WgOK'
  BY DEF WgOK
<1>1. CASE AcceptStep \/ Shutdown \/ \E c \in Conns : Accept(c)
  BY <1>0, <1>1 DEF AcceptStep, Listen, AcceptEnds, Shutdown, Accept, Allow, CountedLoops
<1>2. CASE ShutdownStep
  BY <1>0, <1>2 DEF ShutdownStep, CloseListener, CallWait, Wait, ReturnNil, Timeout,
                    DisconnectAll, CountedLoops
<1>3. ASSUME NEW c \in Conns, Launch(c) PROVE WgOK'
  <2>1. /\ wpc[c] = "none" /\ wpc' = [wpc EXCEPT ![c] = "run"] /\ wg' = wg + 1
    BY <1>3 DEF Launch, LoopPC
  <2>2. /\ CountedLoops' = CountedLoops \cup {c} /\ c \notin CountedLoops
        /\ CountedLoops \in SUBSET Conns
    BY <2>1 DEF CountedLoops
  <2>3. Cardinality(CountedLoops') = Cardinality(CountedLoops) + 1
    BY <2>2, CardGain
  <2> QED BY <2>1, <2>3 DEF WgOK
<1>4. ASSUME NEW c \in Conns, WgDone(c) PROVE WgOK'
  <2>1. /\ wpc[c] = "wgDone" /\ wpc' = [wpc EXCEPT ![c] = "gone"] /\ wg' = wg - 1
    BY <1>4 DEF WgDone
  <2>2. CountedLoops' = CountedLoops \ {c} /\ c \in CountedLoops
    BY <2>1 DEF CountedLoops
  <2>3. Cardinality(CountedLoops') = Cardinality(CountedLoops) - 1
    BY <2>2, CardLoss DEF CountedLoops
  <2> QED BY <2>1, <2>3 DEF WgOK
<1>5. ASSUME NEW c \in Conns,
             LoopEnds(c) \/ RemoveClient(c) \/ ClearSource(c) \/ GlobalRelease(c)
      PROVE WgOK'
  <2>1. Kept
    BY <1>5 DEF LoopEnds, RemoveClient, ClearSource, GlobalRelease, CountedLoops
  <2> QED BY <1>0, <2>1
<1>6. ASSUME NEW c \in Conns,
             \/ Disconnect(c) \/ KickClient(c) \/ KickSource(c) \/ handleSourcetable(c)
             \/ \E k \in Kinds, m \in Mounts : ParseRequest(c, k, m)
             \/ HandlerStep(c) /\ ~Launch(c)
      PROVE WgOK'
  <2>1. Kept
    BY <1>6
     DEF Disconnect, KickClient, KickSource, handleSourcetable, ParseRequest, HandlerStep,
         ParseFails, Unauthorized, Authorized, HasSource, AtCapacity, AddClient, GlobalAdd,
         SetSource, Release, CountedLoops
  <2> QED BY <1>0, <2>1
<1> QED BY <1>1, <1>2, <1>3, <1>4, <1>5, <1>6 DEF Next, LoopStep

-----------------------------------------------------------------------------
(* The theorems.                                                           *)

LEMMA InitIInv == Init => IInv
<1> SUFFICES ASSUME Init PROVE IInv
  OBVIOUS
<1>0. TypeOK
  BY ConnAssumption, IPAssumption DEF Init, TypeOK, HandlerPC, LoopPC, ShutdownPC
<1>1. Shape
  <2>1. HeldOK /\ EarlyOK /\ RegisteredOK
    BY ConnAssumption DEF Init, HeldOK, EarlyOK, RegisteredOK
  <2> QED BY <1>0, <2>1, KindAssumption DEF Shape, Init, PathOK, Loops
<1>2. (\A ip \in IPs : HandlersOf(ip) = {}) /\ CountedRovers = {} /\ Admitted = {} /\ CountedLoops = {}
  BY ConnAssumption DEF Init, HandlersOf, CountedRovers, Admitted, CountedLoops, Handling, Counted
<1>3. IPSlotsExact /\ GlobalCountExact /\ WgOK
  BY <1>2, FS_EmptySet DEF Init, IPSlotsExact, GlobalCountExact, WgOK
<1>4. LimitOK /\ OvershootBounded
  BY <1>2, CapacityAssumption DEF Init, LimitOK, OvershootBounded
<1> QED BY <1>1, <1>3, <1>4 DEF IInv, Counters

LEMMA NextIInv == IInv /\ [Next]_vars => IInv'
<1> SUFFICES ASSUME IInv, [Next]_vars PROVE IInv'
  OBVIOUS
<1>1. CASE Next
  BY <1>1, NextShape, NextSlots, NextRovers, NextWg DEF IInv, Counters, RoversOK
<1>2. CASE UNCHANGED vars
  BY <1>2 DEF vars, net, limit, conn, mounts, halt, IInv, Shape, Counters, TypeOK, HeldOK, PathOK,
     RegisteredOK, EarlyOK, IPSlotsExact, HandlersOf, LimitOK, GlobalCountExact, CountedRovers,
     WgOK, CountedLoops, OvershootBounded, Admitted
<1> QED BY <1>1, <1>2

\* IInv is an invariant of the server.
THEOREM ServerInvariant == Spec => []IInv
BY InitIInv, NextIInv, PTL DEF Spec

\* Every variable keeps its type on every path of ListenAndServe, handle, the
\* serving loops and Shutdown.
THEOREM ServerTypeCorrect == Spec => []TypeOK
<1>1. IInv => TypeOK
  BY DEF IInv, Shape
<1> QED BY <1>1, ServerInvariant, PTL

\* The per-IP limiter leaks no slot: for any number of connections and
\* addresses the count of an address is the number of its running handlers.
THEOREM IPSlotsExactHolds == Spec => []IPSlotsExact
<1>1. IInv => IPSlotsExact
  BY DEF IInv, Counters
<1> QED BY <1>1, ServerInvariant, PTL

\* The global limiter counts exactly the rovers between Add and Release.
THEOREM GlobalCountExactHolds == Spec => []GlobalCountExact
<1>1. IInv => GlobalCountExact
  BY DEF IInv, Counters
<1> QED BY <1>1, ServerInvariant, PTL

\* However AtCapacity and Add interleave, the rovers stay below the global
\* limit plus what the per-IP limiter lets in at once.
THEOREM OvershootBoundedHolds == Spec => []OvershootBounded
<1>1. IInv => OvershootBounded
  BY DEF IInv, Counters
<1> QED BY <1>1, ServerInvariant, PTL

\* When Shutdown returns nil, the loops launched before Wait have ended and
\* their rovers are registered nowhere.
THEOREM ShutdownDrainsHolds == Spec => []ShutdownDrains
<1>1. IInv => ShutdownDrains
  BY DEF IInv, Shape, EarlyOK, RegisteredOK, PathOK, TypeOK, ShutdownDrains
<1> QED BY <1>1, ServerInvariant, PTL

=============================================================================
