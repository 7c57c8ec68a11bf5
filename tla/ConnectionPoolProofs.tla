------------------------ MODULE ConnectionPoolProofs ------------------------
(***************************************************************************)
(* The connection pool keeps its limit, leases each connection to one      *)
(* client, hands it out clean and loses no notification, for any number of *)
(* clients and connections.  The invariant adds what the code relies on:   *)
(* identifiers are fresh (Fresh, Held), m_active_count counts the leases   *)
(* until the shutdown (Counted), and only a leased connection is cancelled *)
(* until the manager cancels all (Tokens).                                 *)
(***************************************************************************)
EXTENDS ConnectionPool, FiniteSetTheorems, TLAPS

Fresh ==
    /\ \A c \in Holders : lease[c] < nextConn
    /\ \A i \in DOMAIN idle : idle[i] < nextConn
Held == \A c \in Holders : lease[c] # NoConnection
Counted == poolShut \/ active = Cardinality(Holders)
Tokens == managerShut \/ \A x \in cancelled : \E c \in At("leased") : lease[c] = x

PoolInv ==
    /\ PoolTypeOK
    /\ managerShut => poolShut
    /\ Fresh
    /\ Held
    /\ LeasesExclusive
    /\ Counted
    /\ Tokens
    /\ PoolBounded
    /\ FreeSlotsHaveTakers

\* The ways a client leaves a wait or a call with a connection.
Gets(c) == ~poolShut /\ Available /\ (TakeIdle(c) \/ TakeNew(c))
NotHolding(c) == cpc[c] \in {"out", "woken", "expired"}

-----------------------------------------------------------------------------
\* The clients at a place are finitely many.
LEMMA AtFinite ==
    ASSUME PoolTypeOK
    PROVE  /\ \A label : IsFiniteSet(At(label)) /\ Cardinality(At(label)) \in Nat
           /\ IsFiniteSet(Holders) /\ Cardinality(Holders) \in Nat
<1>1. ASSUME NEW label PROVE IsFiniteSet(At(label))
    <2>1. At(label) \in SUBSET Clients
        BY DEF At
    <2>2. QED BY <2>1, ClientsAssumption, FS_Subset
<1>2. IsFiniteSet(Holders)
    <2>1. Holders \in SUBSET Clients
        BY DEF Holders, At
    <2>2. QED BY <2>1, ClientsAssumption, FS_Subset
<1>3. QED BY <1>1, <1>2, FS_CardinalityType

\* A client that holds a connection is counted.
LEMMA HolderCounted ==
    ASSUME PoolInv, ~poolShut, NEW c \in Holders
    PROVE  active >= 1
<1>1. Cardinality(Holders) \in Nat /\ IsFiniteSet(Holders)
    BY AtFinite DEF PoolInv
<1>2. Cardinality(Holders) # 0
    BY <1>1, FS_EmptySet
<1>3. QED BY <1>1, <1>2 DEF PoolInv, Counted

-----------------------------------------------------------------------------
\* acquire that hands out a connection keeps the invariant; the connection
\* is clean.
LEMMA GetsKeeps ==
    ASSUME PoolInv, NEW c \in Clients, NotHolding(c), Gets(c)
    PROVE  PoolInv' /\ lease'[c] \notin cancelled'
<1> DEFINE conn == lease'[c]
<1> USE DEF PoolInv, PoolTypeOK, Gets, NoConnection
<1>1. /\ cpc' = [cpc EXCEPT ![c] = "leased"]
      /\ lease' = [lease EXCEPT ![c] = conn]
      /\ active' = active + 1
      /\ timed' = [timed EXCEPT ![c] = FALSE]
      /\ UNCHANGED <<poolShut, managerShut, cancelled>>
    BY DEF TakeIdle, TakeNew, GiveLease, Goto
<1>2. \/ /\ idle # <<>> /\ idle' = Tail(idle) /\ conn = Head(idle)
         /\ UNCHANGED <<nextConn, connections>>
      \/ /\ idle = <<>> /\ idle' = idle /\ conn = nextConn /\ nextConn' = nextConn + 1
         /\ connections' = connections \cup {nextConn} /\ active < MaxConnections
    BY DEF TakeIdle, TakeNew, GiveLease, Available
<1>3. PoolTypeOK'
    <2>1. idle' \in Seq(Nat \ {NoConnection}) /\ conn \in Nat
        <3>1. CASE idle # <<>>
            <4>1. Tail(idle) \in Seq(Nat \ {0}) /\ Head(idle) \in Nat \ {0}
                BY <3>1
            <4>2. QED BY <3>1, <4>1, <1>2, Zenon
        <3>2. CASE idle = <<>>
            BY <3>2, <1>2
        <3>3. QED BY <3>1, <3>2
    <2>2. nextConn' \in Nat \ {NoConnection} /\ connections' \subseteq Nat
        <3>1. CASE idle # <<>>
            BY <3>1, <1>2, Zenon
        <3>2. CASE idle = <<>>
            <4>1. nextConn' = nextConn + 1 /\ connections' = connections \cup {nextConn}
                BY <3>2, <1>2
            <4>2. QED BY <4>1
        <3>3. QED BY <3>1, <3>2
    <2>3. cpc' \in [Clients -> {"out", "sleeping", "woken", "expired", "leased", "returning"}]
        BY <1>1
    <2>4. timed' \in [Clients -> BOOLEAN] /\ lease' \in [Clients -> Nat]
        BY <1>1, <2>1
    <2>5. active' \in Nat
        BY <1>1
    <2>6. QED BY <1>1, <2>1, <2>2, <2>3, <2>4, <2>5
<1>4. Holders' = Holders \cup {c} /\ c \notin Holders
    BY <1>1 DEF Holders, At, NotHolding
<1>5. \A d \in Holders : lease'[d] = lease[d]
    BY <1>1, <1>4 DEF Holders, At
<1>6. /\ \A i \in DOMAIN idle' : i + 1 \in DOMAIN idle /\ idle'[i] = idle[i + 1]
      /\ nextConn <= nextConn'
      /\ conn < nextConn'
    <2>1. CASE idle # <<>>
        <3>1. idle' = Tail(idle) /\ conn = idle[1] /\ nextConn' = nextConn
            BY <2>1, <1>2
        <3>2. 1 \in DOMAIN idle
            BY <2>1
        <3>3. \A i \in DOMAIN Tail(idle) : i + 1 \in DOMAIN idle /\ Tail(idle)[i] = idle[i + 1]
            BY <2>1
        <3>4. QED BY <3>1, <3>2, <3>3 DEF Fresh
    <2>2. CASE idle = <<>>
        BY <2>2, <1>2
    <2>3. QED BY <2>1, <2>2
<1>7. /\ \A d \in Holders : lease[d] # conn
      /\ \A i \in DOMAIN idle' : idle'[i] # conn
    <2>1. CASE idle # <<>>
        <3>1. 1 \in DOMAIN idle /\ conn = idle[1]
            BY <2>1, <1>2
        <3>2. \A i \in DOMAIN idle' : i + 1 # 1
            BY <1>3
        <3>3. QED BY <3>1, <3>2, <1>6 DEF LeasesExclusive
    <2>2. CASE idle = <<>>
        BY <2>2, <1>2 DEF Fresh
    <2>3. QED BY <2>1, <2>2
<1>8. Fresh'
    <2>1. \A d \in Holders' : lease'[d] < nextConn'
        <3>1. lease'[c] < nextConn'
            BY <1>6
        <3>2. ASSUME NEW d \in Holders PROVE lease'[d] < nextConn'
            <4>1. lease[d] < nextConn /\ lease[d] \in Nat
                BY DEF Fresh, Holders, At
            <4>2. QED BY <4>1, <1>5, <1>6, <1>3
        <3>3. QED BY <3>1, <3>2, <1>4
    <2>2. ASSUME NEW i \in DOMAIN idle' PROVE idle'[i] < nextConn'
        <3>1. i + 1 \in DOMAIN idle /\ idle'[i] = idle[i + 1]
            BY <1>6
        <3>2. idle[i + 1] < nextConn /\ idle[i + 1] \in Nat
            BY <3>1 DEF Fresh
        <3>3. QED BY <3>1, <3>2, <1>6, <1>3
    <2>3. QED BY <2>1, <2>2 DEF Fresh
<1>16. Held'
    <2>1. conn # NoConnection
        <3>1. CASE idle # <<>>
            <4>1. Head(idle) \in Nat \ {0}
                BY <3>1
            <4>2. QED BY <3>1, <4>1, <1>2
        <3>2. CASE idle = <<>>
            BY <3>2, <1>2
        <3>3. QED BY <3>1, <3>2
    <2>2. QED BY <2>1, <1>4, <1>5 DEF Held
<1>9. LeasesExclusive'
    <2>1. \A d, e \in Holders' : d # e => lease'[d] # lease'[e]
        BY <1>4, <1>5, <1>7 DEF LeasesExclusive
    <2>2. ASSUME NEW i \in DOMAIN idle', NEW j \in DOMAIN idle', i # j
          PROVE  idle'[i] # idle'[j]
        <3>1. i + 1 # j + 1
            <4>1. i \in Nat /\ j \in Nat
                <5>1. idle' \in Seq(Nat \ {0})
                    BY <1>3
                <5>2. DOMAIN idle' = 1..Len(idle') /\ Len(idle') \in Nat
                    BY <5>1
                <5>3. QED BY <5>2
            <4>2. QED BY <4>1, <2>2
        <3>2. i + 1 \in DOMAIN idle /\ j + 1 \in DOMAIN idle
            BY <1>6
        <3>3. idle[i + 1] # idle[j + 1]
            BY <3>1, <3>2 DEF LeasesExclusive
        <3>4. QED BY <3>3, <1>6
    <2>3. \A d \in Holders', i \in DOMAIN idle' : lease'[d] # idle'[i]
        BY <1>4, <1>5, <1>6, <1>7, SMTT(30) DEF LeasesExclusive
    <2>4. QED BY <2>1, <2>2, <2>3 DEF LeasesExclusive
<1>10. Counted'
    <2>1. IsFiniteSet(Holders)
        BY AtFinite
    <2>2. Cardinality(Holders \cup {c}) = Cardinality(Holders) + 1
        BY <2>1, <1>4, FS_AddElement, Zenon
    <2>3. QED BY <2>2, <1>1, <1>4 DEF Counted
<1>11. conn \notin cancelled'
    <2>1. ASSUME conn \in cancelled PROVE FALSE
        <3>1. PICK d \in At("leased") : lease[d] = conn
            BY <2>1, Zenon DEF Tokens
        <3>2. QED BY <3>1, <1>7 DEF Holders
    <2>2. QED BY <2>1, <1>1
<1>12. Tokens'
    <2>1. ASSUME NEW x \in cancelled' PROVE \E d \in At("leased")' : lease'[d] = x
        <3>1. PICK d \in At("leased") : lease[d] = x
            BY <2>1, <1>1 DEF Tokens
        <3>2. d \in At("leased")' /\ lease'[d] = x
            BY <3>1, <1>1, <1>5 DEF At, Holders
        <3>3. QED BY <3>2
    <2>2. QED BY <2>1 DEF Tokens
<1>13. PoolBounded'
    <2>1. CASE idle # <<>>
        <3>1. Len(idle') = Len(idle) - 1
            BY <2>1, <1>2
        <3>2. QED BY <3>1, <1>1, MaxConnectionsAssumption DEF PoolBounded
    <2>2. CASE idle = <<>>
        BY <2>2, <1>1, <1>2, MaxConnectionsAssumption DEF PoolBounded
    <2>3. QED BY <2>1, <2>2
<1>14. FreeSlotsHaveTakers'
    <2>1. At("sleeping")' = At("sleeping") /\ At("woken")' = At("woken") \ {c}
        BY <1>1 DEF At, NotHolding
    <2>2. IsFiniteSet(At("woken")) /\ Cardinality(At("woken")) \in Nat
        BY AtFinite
    <2> DEFINE W == At("woken")
    <2>3. /\ IsFiniteSet(W \ {c})
          /\ Cardinality(W \ {c}) = IF c \in W THEN Cardinality(W) - 1 ELSE Cardinality(W)
        BY <2>2, FS_RemoveElement, Zenon
    <2>4. Cardinality(W \ {c}) + 1 >= Cardinality(W) /\ Cardinality(W \ {c}) \in Nat
        <3>1. Cardinality(W \ {c}) \in Nat
            BY <2>3, FS_CardinalityType
        <3> HIDE DEF W
        <3>2. QED BY <2>2, <2>3, <3>1 DEF W
    <2>5. ASSUME At("sleeping")' # {}
          PROVE  MaxConnections <= active' + Cardinality(At("woken")')
        <3>1. MaxConnections <= active + Cardinality(At("woken"))
            BY <2>5, <2>1 DEF FreeSlotsHaveTakers
        <3>2. Cardinality(At("woken")') = Cardinality(W \ {c})
            BY <2>1, Zenon
        <3> DEFINE x == Cardinality(W)
                   y == Cardinality(W \ {c})
        <3>3. x \in Nat /\ y \in Nat /\ y + 1 >= x /\ MaxConnections <= active + x
            BY <3>1, <2>2, <2>4
        <3>4. active \in Nat /\ active' = active + 1
            BY <1>1
        <3> HIDE DEF x, y, PoolInv, Gets
        <3>5. MaxConnections <= active' + y
            BY <3>3, <3>4, MaxConnectionsAssumption
        <3>6. QED BY <3>2, <3>5 DEF y
    <2>6. QED BY <2>5, <1>1 DEF FreeSlotsHaveTakers
<1>15. QED BY <1>1, <1>3, <1>8, <1>16, <1>9, <1>10, <1>11, <1>12, <1>13, <1>14

-----------------------------------------------------------------------------
\* Steps that leave pool, manager, tokens and leases alone keep the invariant
\* when the waiters keep their takers.
LEMMA MoveKeeps ==
    ASSUME PoolInv, NEW c \in Clients,
           NEW label \in {"out", "sleeping", "expired"},
           cpc[c] \in {"out", "sleeping", "woken", "expired"},
           Goto(c, label),
           UNCHANGED <<pool, manager, cancelled, lease>>,
           timed' \in [Clients -> BOOLEAN],
           FreeSlotsHaveTakers'
    PROVE  PoolInv'
<1> USE DEF PoolInv, pool, manager, Goto
<1>1. PoolTypeOK'
    <2>1. cpc' \in [Clients -> {"out", "sleeping", "woken", "expired", "leased", "returning"}]
        BY DEF PoolTypeOK
    <2>2. QED BY <2>1 DEF PoolTypeOK
<1>2. Holders' = Holders /\ At("leased")' = At("leased")
    BY DEF Holders, At, PoolTypeOK
<1>3. Fresh' /\ Held' /\ LeasesExclusive'
    BY <1>2 DEF Fresh, Held, LeasesExclusive
<1>4. Counted' /\ Tokens' /\ PoolBounded'
    BY <1>2 DEF Counted, Tokens, PoolBounded
<1>5. QED BY <1>1, <1>3, <1>4

\* acquire that begins to wait, or waits on.
LEMMA SleepKeeps ==
    ASSUME PoolInv, NEW c \in Clients, NotHolding(c), Sleep(c),
           timed' \in [Clients -> BOOLEAN]
    PROVE  PoolInv'
<1>1. FreeSlotsHaveTakers'
    <2>1. ~poolShut' /\ active' = active /\ active >= MaxConnections
        BY MaxConnectionsAssumption DEF Sleep, Available, pool, PoolInv, PoolTypeOK
    <2>2. Cardinality(At("woken")') \in Nat
        <3>1. At("woken")' \in SUBSET Clients
            BY DEF At
        <3>2. QED BY <3>1, ClientsAssumption, FS_Subset, FS_CardinalityType
    <2>3. active \in Nat
        BY DEF PoolInv, PoolTypeOK
    <2>4. QED BY <2>1, <2>2, <2>3, MaxConnectionsAssumption DEF FreeSlotsHaveTakers
<1>2. QED BY <1>1, MoveKeeps DEF Sleep, NotHolding

\* acquire that returns nullptr, after a shutdown or a timeout.
LEMMA NothingKeeps ==
    ASSUME PoolInv, NEW c \in Clients, NotHolding(c), GiveNothing(c),
           poolShut \/ cpc[c] = "expired"
    PROVE  PoolInv'
<1>1. timed' \in [Clients -> BOOLEAN]
    BY DEF PoolInv, PoolTypeOK, GiveNothing
<1>2. At("sleeping")' = At("sleeping")
    BY DEF At, NotHolding, GiveNothing, Goto, PoolInv, PoolTypeOK
<1>3. cpc[c] = "expired" => At("woken")' = At("woken")
    BY DEF At, GiveNothing, Goto, PoolInv, PoolTypeOK
<1>4. FreeSlotsHaveTakers'
    BY <1>2, <1>3 DEF FreeSlotsHaveTakers, PoolInv, GiveNothing, pool
<1>5. QED BY <1>1, <1>4, MoveKeeps DEF GiveNothing, NotHolding

LEMMA TakeKeeps ==
    ASSUME PoolInv, NEW c \in Clients, NotHolding(c), Take(c)
    PROVE  PoolInv'
BY GetsKeeps, NothingKeeps DEF Take, Gets

LEMMA ExpireKeeps ==
    ASSUME PoolInv, NEW c \in Clients, Expire(c)
    PROVE  PoolInv'
<1>1. At("sleeping")' \subseteq At("sleeping") /\ At("woken")' = At("woken")
    BY DEF At, Expire, Goto, PoolInv, PoolTypeOK
<1>2. FreeSlotsHaveTakers'
    BY <1>1 DEF FreeSlotsHaveTakers, PoolInv, Expire, pool
<1>3. timed' \in [Clients -> BOOLEAN]
    BY DEF PoolInv, PoolTypeOK, Expire
<1>4. QED BY <1>2, <1>3, MoveKeeps DEF Expire

-----------------------------------------------------------------------------
LEMMA CancelKeeps ==
    ASSUME PoolInv, NEW c \in Clients, Cancel(c)
    PROVE  PoolInv'
<1> USE DEF PoolInv, Cancel, pool, manager
<1>1. PoolTypeOK'
    BY Zenon DEF PoolTypeOK
<1>2. /\ Holders' = Holders
      /\ \A label : At(label)' = At(label)
    BY DEF Holders, At
<1>3. Fresh' /\ Held' /\ LeasesExclusive' /\ Counted' /\ PoolBounded' /\ FreeSlotsHaveTakers'
    BY <1>2 DEF Fresh, Held, LeasesExclusive, Counted, PoolBounded, FreeSlotsHaveTakers
<1>4. Tokens'
    <2>1. c \in At("leased")
        BY DEF At
    <2>2. QED BY <1>2, <2>1 DEF Tokens
<1>5. QED BY <1>1, <1>3, <1>4

LEMMA ResetKeeps ==
    ASSUME PoolInv, NEW c \in Clients, ResetForPool(c)
    PROVE  PoolInv'
<1> USE DEF PoolInv, ResetForPool, pool, manager, Goto
<1>1. PoolTypeOK'
    BY Zenon DEF PoolTypeOK
<1>2. /\ Holders' = Holders
      /\ At("leased")' = At("leased") \ {c}
      /\ At("sleeping")' = At("sleeping") /\ At("woken")' = At("woken")
    BY DEF Holders, At, PoolTypeOK
<1>3. Fresh' /\ Held' /\ LeasesExclusive' /\ Counted' /\ PoolBounded' /\ FreeSlotsHaveTakers'
    BY <1>2 DEF Fresh, Held, LeasesExclusive, Counted, PoolBounded, FreeSlotsHaveTakers
<1>4. Tokens'
    <2>1. ASSUME ~managerShut, NEW x \in cancelled'
          PROVE  \E d \in At("leased")' : lease'[d] = x
        <3>1. x \in cancelled /\ x # lease[c]
            OBVIOUS
        <3>2. PICK d \in At("leased") : lease[d] = x
            BY <2>1, <3>1 DEF Tokens
        <3>3. QED BY <3>1, <3>2, <1>2
    <2>2. QED BY <2>1 DEF Tokens
<1>5. QED BY <1>1, <1>3, <1>4

-----------------------------------------------------------------------------
\* A connection that comes back after the shutdown is closed.
LEMMA ReleaseClosedKeeps ==
    ASSUME PoolInv, NEW c \in Clients, Release(c), ReleaseClosed(c)
    PROVE  PoolInv'
<1> USE DEF PoolInv, Release, ReleaseClosed, pool, Goto, NoConnection
<1>1. PoolTypeOK'
    BY Zenon DEF PoolTypeOK
<1>2. /\ Holders' = Holders \ {c}
      /\ At("leased")' = At("leased") /\ c \notin At("leased")
      /\ At("sleeping")' = At("sleeping")
    BY DEF Holders, At, PoolTypeOK
<1>3. \A d \in Holders' : lease'[d] = lease[d] /\ d \in Holders
    BY <1>2 DEF Holders, At, PoolTypeOK
<1>4. Fresh' /\ Held' /\ LeasesExclusive'
    BY <1>3 DEF Fresh, Held, LeasesExclusive
<1>5. Counted' /\ PoolBounded' /\ FreeSlotsHaveTakers'
    BY <1>2 DEF Counted, PoolBounded, FreeSlotsHaveTakers
<1>6. Tokens'
    <2>1. \A d \in At("leased") : lease'[d] = lease[d]
        BY <1>2 DEF At, PoolTypeOK
    <2>2. QED BY <2>1, <1>2 DEF Tokens
<1>7. QED BY <1>1, <1>4, <1>5, <1>6

\* A connection that comes back before it goes to the end of the idle ones,
\* and its slot to a sleeping waiter.
LEMMA ReleaseIdleKeeps ==
    ASSUME PoolInv, NEW c \in Clients, Release(c), ReleaseIdle(c)
    PROVE  PoolInv'
<1> USE DEF PoolInv, Release, ReleaseIdle, NoConnection
<1>1. c \in Holders /\ c \notin At("leased")
    BY DEF Holders, At
<1>2. active \in Nat /\ active' = active - 1 /\ active >= 1
    BY <1>1, HolderCounted DEF PoolTypeOK
<1>3. /\ cpc'[c] = "out"
      /\ \A d \in Clients \ {c} :
            cpc'[d] = cpc[d] \/ (cpc[d] = "sleeping" /\ cpc'[d] = "woken")
      /\ cpc' \in [Clients -> {"out", "sleeping", "woken", "expired", "leased", "returning"}]
    BY Zenon DEF NotifyOne, Goto, At, PoolTypeOK
<1>4. /\ lease'= [lease EXCEPT ![c] = 0] /\ lease \in [Clients -> Nat]
      /\ idle \in Seq(Nat \ {0}) /\ idle' = Append(idle, lease[c])
    BY DEF PoolTypeOK
<1>5. lease[c] # 0
    BY <1>1 DEF Held
<1>6. PoolTypeOK'
    <2>1. idle' \in Seq(Nat \ {0}) /\ lease' \in [Clients -> Nat]
        BY <1>4, <1>5
    <2>2. QED BY <2>1, <1>2, <1>3 DEF PoolTypeOK, manager
<1>7. Holders' = Holders \ {c} /\ At("leased")' = At("leased")
    BY <1>1, <1>3 DEF Holders, At
<1>8. /\ DOMAIN idle' = DOMAIN idle \cup {Len(idle) + 1}
      /\ \A i \in DOMAIN idle : idle'[i] = idle[i] /\ i # Len(idle) + 1
      /\ idle'[Len(idle) + 1] = lease[c]
      /\ Len(idle') = Len(idle) + 1 /\ Len(idle) \in Nat
    BY <1>4, <1>5
<1>9. \A d \in Holders' : lease'[d] = lease[d] /\ d \in Holders /\ d # c
    BY <1>4, <1>7 DEF Holders, At
<1>10. Fresh' /\ Held'
    BY <1>1, <1>8, <1>9 DEF Fresh, manager, Held
<1>11. LeasesExclusive'
    <2>1. \A d, e \in Holders' : d # e => lease'[d] # lease'[e]
        BY <1>9 DEF LeasesExclusive
    <2>2. \A i, j \in DOMAIN idle' : i # j => idle'[i] # idle'[j]
        BY <1>1, <1>8 DEF LeasesExclusive
    <2>3. \A d \in Holders', i \in DOMAIN idle' : lease'[d] # idle'[i]
        BY <1>1, <1>8, <1>9 DEF LeasesExclusive
    <2>4. QED BY <2>1, <2>2, <2>3 DEF LeasesExclusive
<1>12. Counted'
    <2>1. IsFiniteSet(Holders)
        BY AtFinite
    <2>2. Cardinality(Holders \ {c}) = Cardinality(Holders) - 1
        BY <2>1, <1>1, FS_RemoveElement, Zenon
    <2>3. QED BY <2>2, <1>2, <1>7 DEF Counted
<1>13. Tokens'
    <2>1. \A d \in At("leased") : lease'[d] = lease[d]
        BY <1>1, <1>4 DEF At
    <2>2. QED BY <2>1, <1>7 DEF Tokens, manager
<1>14. PoolBounded'
    BY <1>2, <1>8, MaxConnectionsAssumption DEF PoolBounded
<1>15. FreeSlotsHaveTakers'
    <2>1. CASE At("sleeping") = {}
        <3>1. At("sleeping")' = {}
            BY <2>1, <1>3 DEF At
        <3>2. QED BY <3>1 DEF FreeSlotsHaveTakers
    <2>2. CASE At("sleeping") # {}
        <3>1. PICK w \in At("sleeping") : cpc' = [cpc EXCEPT ![c] = "out", ![w] = "woken"]
            BY <2>2 DEF NotifyOne
        <3> DEFINE W == At("woken")
                   x == Cardinality(W)
        <3>2. At("woken")' = W \cup {w} /\ w \notin W
            BY <3>1 DEF At, PoolTypeOK
        <3>3. Cardinality(W \cup {w}) = x + 1 /\ x \in Nat
            BY <3>2, AtFinite, FS_AddElement, Zenon
        <3>4. ~poolShut /\ MaxConnections <= active + x
            BY <2>2 DEF FreeSlotsHaveTakers
        <3> HIDE DEF x, W
        <3>5. MaxConnections <= active' + (x + 1)
            BY <3>3, <3>4, <1>2, MaxConnectionsAssumption
        <3>6. MaxConnections <= active' + Cardinality(At("woken")')
            BY <3>2, <3>3, <3>5, Zenon
        <3>7. QED BY <3>4, <3>6 DEF FreeSlotsHaveTakers
    <2>3. QED BY <2>1, <2>2
<1>16. QED BY <1>6, <1>10, <1>11, <1>12, <1>13, <1>14, <1>15 DEF manager

-----------------------------------------------------------------------------
LEMMA ShutdownPoolKeeps ==
    ASSUME PoolInv, ShutdownPool
    PROVE  PoolInv'
<1> USE DEF PoolInv, ShutdownPool
<1>1. /\ cpc' \in [Clients -> {"out", "sleeping", "woken", "expired", "leased", "returning"}]
      /\ \A d \in Clients : cpc'[d] # "sleeping"
      /\ \A d \in Clients : cpc'[d] = cpc[d] \/ (cpc[d] = "sleeping" /\ cpc'[d] = "woken")
    <2>1. cpc' = [d \in Clients |-> IF cpc[d] = "sleeping" THEN "woken" ELSE cpc[d]]
        BY DEF WakeAll
    <2>2. cpc \in [Clients -> {"out", "sleeping", "woken", "expired", "leased", "returning"}]
        BY DEF PoolTypeOK
    <2> HIDE DEF PoolInv, ShutdownPool
    <2>3. ASSUME NEW d \in Clients
          PROVE  /\ cpc'[d] \in {"out", "woken", "expired", "leased", "returning"}
                 /\ cpc'[d] = cpc[d] \/ (cpc[d] = "sleeping" /\ cpc'[d] = "woken")
        <3>1. cpc'[d] = IF cpc[d] = "sleeping" THEN "woken" ELSE cpc[d]
            BY <2>1
        <3>2. cpc[d] \in {"out", "sleeping", "woken", "expired", "leased", "returning"}
            BY <2>2
        <3>3. QED BY <3>1, <3>2
    <2>4. cpc' \in [Clients -> {"out", "sleeping", "woken", "expired", "leased", "returning"}]
        BY <2>1, <2>3
    <2>5. QED BY <2>3, <2>4
<1>2. idle' = <<>> /\ Len(idle') = 0 /\ Len(idle) \in Nat /\ DOMAIN idle' = {}
    BY DEF PoolTypeOK
<1>3. PoolTypeOK'
    <2>1. poolShut' \in BOOLEAN /\ managerShut' \in BOOLEAN /\ timed' \in [Clients -> BOOLEAN]
        BY DEF PoolTypeOK
    <2>2. idle' \in Seq(Nat \ {NoConnection}) /\ connections' \subseteq Nat
        <3>1. connections' \subseteq connections
            OBVIOUS
        <3>2. <<>> \in Seq(Nat \ {NoConnection})
            OBVIOUS
        <3>3. QED BY <1>2, <3>1, <3>2, Zenon DEF PoolTypeOK
    <2>3. /\ active' \in Nat /\ nextConn' \in Nat \ {NoConnection}
          /\ cancelled' \subseteq Nat /\ lease' \in [Clients -> Nat]
        BY DEF PoolTypeOK
    <2>4. QED BY <1>1, <2>1, <2>2, <2>3 DEF PoolTypeOK
<1>4. Holders' = Holders /\ At("leased")' = At("leased") /\ At("sleeping")' = {}
    BY <1>1 DEF Holders, At
<1>5. Fresh' /\ Held' /\ LeasesExclusive'
    BY <1>2, <1>4 DEF Fresh, Held, LeasesExclusive
<1>6. Counted' /\ Tokens' /\ FreeSlotsHaveTakers'
    BY <1>4 DEF Counted, Tokens, FreeSlotsHaveTakers
<1>7. PoolBounded'
    BY <1>2, MaxConnectionsAssumption DEF PoolBounded, PoolTypeOK
<1>8. QED BY <1>3, <1>5, <1>6, <1>7

LEMMA ShutdownManagerKeeps ==
    ASSUME PoolInv, ShutdownManager
    PROVE  PoolInv'
<1> USE DEF PoolInv, ShutdownManager, pool
<1>1. PoolTypeOK'
    BY DEF PoolTypeOK
<1>2. Holders' = Holders /\ \A label : At(label)' = At(label)
    BY DEF Holders, At
<1>3. Fresh' /\ Held' /\ LeasesExclusive' /\ Counted' /\ PoolBounded' /\ FreeSlotsHaveTakers'
    BY <1>2 DEF Fresh, Held, LeasesExclusive, Counted, PoolBounded, FreeSlotsHaveTakers
<1>4. Tokens'
    BY DEF Tokens
<1>5. QED BY <1>1, <1>3, <1>4

-----------------------------------------------------------------------------
LEMMA PoolInvInit == ASSUME PoolInit PROVE PoolInv
<1> USE DEF PoolInit, NoConnection
<1>1. PoolTypeOK
    <2>1. timed \in [Clients -> BOOLEAN] /\ poolShut \in BOOLEAN /\ managerShut \in BOOLEAN
        BY Zenon
    <2>2. QED BY <2>1 DEF PoolTypeOK
<1>2. Holders = {} /\ At("sleeping") = {}
    BY DEF Holders, At
<1>3. Fresh /\ Held /\ LeasesExclusive /\ Tokens /\ FreeSlotsHaveTakers
    BY <1>2 DEF Fresh, Held, LeasesExclusive, Tokens, FreeSlotsHaveTakers
<1>4. Counted
    BY <1>2, FS_EmptySet DEF Counted
<1>5. PoolBounded
    BY MaxConnectionsAssumption DEF PoolBounded
<1>6. QED BY <1>1, <1>3, <1>4, <1>5 DEF PoolInv

\* Every step keeps the invariant.
LEMMA PoolInvNext == ASSUME PoolInv, [PoolNext]_poolVars PROVE PoolInv'
<1>1. ASSUME NEW c \in Clients, PoolStep(c) PROVE PoolInv'
    <2>1. CASE AcquireNow(c)
        BY <2>1, TakeKeeps DEF AcquireNow, NotHolding
    <2>2. ASSUME NEW withTimeout \in BOOLEAN, AcquireWait(c, withTimeout) PROVE PoolInv'
        <3>1. timed' \in [Clients -> BOOLEAN]
            BY <2>2 DEF AcquireWait, PoolInv, PoolTypeOK
        <3>2. QED BY <2>2, <3>1, SleepKeeps DEF AcquireWait, NotHolding
    <2>3. CASE Woken(c)
        <3>1. CASE Take(c)
            BY <2>3, <3>1, TakeKeeps DEF Woken, NotHolding
        <3>2. CASE Sleep(c) /\ UNCHANGED timed
            <4>1. timed' \in [Clients -> BOOLEAN]
                BY <3>2 DEF PoolInv, PoolTypeOK
            <4>2. QED BY <2>3, <3>2, <4>1, SleepKeeps DEF Woken, NotHolding
        <3>3. QED BY <2>3, <3>1, <3>2 DEF Woken
    <2>4. CASE Expire(c)
        BY <2>4, ExpireKeeps
    <2>5. CASE Expired(c)
        <3>1. CASE Take(c)
            BY <2>5, <3>1, TakeKeeps DEF Expired, NotHolding
        <3>2. CASE GiveNothing(c)
            BY <2>5, <3>2, NothingKeeps DEF Expired, NotHolding
        <3>3. QED BY <2>5, <3>1, <3>2 DEF Expired
    <2>6. CASE Cancel(c)
        BY <2>6, CancelKeeps
    <2>7. CASE ResetForPool(c)
        BY <2>7, ResetKeeps
    <2>8. CASE Release(c)
        BY <2>8, ReleaseClosedKeeps, ReleaseIdleKeeps, Zenon DEF Release
    <2>9. QED BY <1>1, <2>1, <2>2, <2>3, <2>4, <2>5, <2>6, <2>7, <2>8 DEF PoolStep
<1>2. CASE ShutdownPool
    BY <1>2, ShutdownPoolKeeps
<1>3. CASE ShutdownManager
    BY <1>3, ShutdownManagerKeeps
<1>4. CASE UNCHANGED poolVars
    BY <1>4 DEF PoolInv, PoolTypeOK, Fresh, Held, LeasesExclusive, Counted, Tokens,
                PoolBounded, FreeSlotsHaveTakers, Holders, At, poolVars, pool, manager
<1>5. QED BY <1>1, <1>2, <1>3, <1>4 DEF PoolNext

LEMMA PoolInvariant == PoolSpec => []PoolInv
<1>1. PoolInit => PoolInv
    BY PoolInvInit
<1>2. PoolInv /\ [PoolNext]_poolVars => PoolInv'
    BY PoolInvNext
<1>3. QED BY <1>1, <1>2, PTL DEF PoolSpec

\* The state of pool, manager and clients keeps its types; m_active_count in
\* particular never runs below zero.
THEOREM PoolTypes == PoolSpec => []PoolTypeOK
<1>1. PoolInv => PoolTypeOK
    BY DEF PoolInv
<1>2. QED BY <1>1, PoolInvariant, PTL

\* acquire never hands out a connection that another client holds.
THEOREM LeasesAreExclusive == PoolSpec => []LeasesExclusive
<1>1. PoolInv => LeasesExclusive
    BY DEF PoolInv
<1>2. QED BY <1>1, PoolInvariant, PTL

\* Leased and idle connections together stay within m_max_connections.
THEOREM PoolIsBounded == PoolSpec => []PoolBounded
<1>1. PoolInv => PoolBounded
    BY DEF PoolInv
<1>2. QED BY <1>1, PoolInvariant, PTL

\* notify_one after a release is enough: no free slot is left with sleeping
\* waiters and nobody on the way.
THEOREM NotifyOneSuffices == PoolSpec => []FreeSlotsHaveTakers
<1>1. PoolInv => FreeSlotsHaveTakers
    BY DEF PoolInv
<1>2. QED BY <1>1, PoolInvariant, PTL

\* A cancelled connection is clean again when the next client gets it.
THEOREM LeasesAreClean == PoolSpec => LeaseIsClean
<1> DEFINE Clean == \A c \in Clients : cpc[c] # "leased" /\ cpc'[c] = "leased"
                        => lease'[c] \notin cancelled'
<1>1. ASSUME PoolInv, PoolNext, NEW c \in Clients, cpc[c] # "leased", cpc'[c] = "leased"
      PROVE  NotHolding(c) /\ Gets(c)
    <2> USE DEF PoolInv, PoolTypeOK
    <2>1. ASSUME NEW d \in Clients, PoolStep(d) PROVE NotHolding(c) /\ Gets(c)
        <3>1. CASE Take(d) /\ NotHolding(d)
            BY <3>1, <1>1 DEF Take, Gets, TakeIdle, TakeNew, GiveLease, GiveNothing, Goto
        <3>2. CASE ~(Take(d) /\ NotHolding(d))
            BY <2>1, <3>2, <1>1 DEF PoolStep, AcquireNow, AcquireWait, Woken, Expire, Expired,
                Cancel, ResetForPool, Release, ReleaseIdle, ReleaseClosed, NotifyOne, Goto,
                Sleep, GiveNothing, NotHolding, At
        <3>3. QED BY <3>1, <3>2
    <2>2. CASE ShutdownPool
        BY <2>2, <1>1 DEF ShutdownPool, WakeAll
    <2>3. CASE ShutdownManager
        BY <2>3, <1>1 DEF ShutdownManager
    <2>4. QED BY <1>1, <2>1, <2>2, <2>3 DEF PoolNext
<1>2. PoolInv /\ [PoolNext]_poolVars => [Clean]_poolVars
    BY <1>1, GetsKeeps
<1>3. QED BY <1>2, PoolInvariant, PTL DEF PoolSpec, LeaseIsClean
=============================================================================
