--------------------------- MODULE ConnectionPool ---------------------------
(***************************************************************************)
(* src/src/runtime/connection_pool.cpp with the ConnectionManager that     *)
(* creates and closes its connections and the ConnectionLease that gives   *)
(* them back.  Every operation runs under the pool's mutex, so a step is   *)
(* one critical section; a client that waits in acquire sleeps on the      *)
(* condition variable, has been woken, or its timer has expired.  Of a     *)
(* connection's own state only the cancellation token is kept: the rest is *)
(* read by nobody.                                                         *)
(***************************************************************************)
EXTENDS Naturals, Sequences, FiniteSets

CONSTANTS
    Clients,            \* threads that acquire and release connections
    MaxConnections      \* m_max_connections

ASSUME ClientsAssumption == IsFiniteSet(Clients)
ASSUME MaxConnectionsAssumption == MaxConnections \in Nat

VARIABLES
    idle,           \* m_idle_connections
    active,         \* m_active_count
    poolShut,       \* the pool's m_shutdown
    nextConn,       \* the manager's m_next_id
    connections,    \* the manager's m_connections
    managerShut,    \* the manager's m_shutdown
    cancelled,      \* the connections whose cancellation token is set
    cpc,            \* where each client is
    timed,          \* whether the acquire it waits in has a timeout
    lease           \* the connection it holds, or NoConnection

pool == <<idle, active, poolShut>>
manager == <<nextConn, connections, managerShut>>
poolVars == <<pool, manager, cancelled, cpc, timed, lease>>

NoConnection == 0
At(label) == {c \in Clients : cpc[c] = label}
Holders == At("leased") \cup At("returning")
Goto(c, label) == cpc' = [cpc EXCEPT ![c] = label]

-----------------------------------------------------------------------------
PoolInit ==
    /\ idle = <<>> /\ active = 0 /\ poolShut = FALSE
    /\ nextConn = 1 /\ connections = {} /\ managerShut = FALSE
    /\ cancelled = {}
    /\ cpc = [c \in Clients |-> "out"]
    /\ timed = [c \in Clients |-> FALSE]
    /\ lease = [c \in Clients |-> NoConnection]

\* wait_cond
Available == poolShut \/ idle # <<>> \/ active < MaxConnections

\* acquire hands out a connection ...
GiveLease(c, conn) ==
    /\ active' = active + 1
    /\ lease' = [lease EXCEPT ![c] = conn]
    /\ Goto(c, "leased")
    /\ timed' = [timed EXCEPT ![c] = FALSE]
    /\ UNCHANGED <<poolShut, managerShut, cancelled>>

\* ... or returns nullptr.
GiveNothing(c) ==
    /\ Goto(c, "out")
    /\ timed' = [timed EXCEPT ![c] = FALSE]
    /\ UNCHANGED <<pool, manager, cancelled, lease>>

\* Seeded fault: front without pop_front.
TakeIdlePeeks(c) ==
    /\ idle # <<>>
    /\ GiveLease(c, Head(idle))
    /\ UNCHANGED <<idle, nextConn, connections>>

TakeIdle(c) ==
    /\ idle # <<>>
    /\ idle' = Tail(idle)
    /\ GiveLease(c, Head(idle))
    /\ UNCHANGED <<nextConn, connections>>

\* create_connection
TakeNew(c) ==
    /\ idle = <<>>
    /\ ~managerShut
    /\ nextConn' = nextConn + 1
    /\ connections' = connections \cup {nextConn}
    /\ GiveLease(c, nextConn)
    /\ UNCHANGED idle

\* acquire once its wait is over.
Take(c) ==
    /\ Available
    /\ \/ ~poolShut /\ (TakeIdle(c) \/ TakeNew(c))
       \/ poolShut /\ GiveNothing(c)

Sleep(c) ==
    /\ ~Available
    /\ Goto(c, "sleeping")
    /\ UNCHANGED <<pool, manager, cancelled, lease>>

AcquireNow(c) == cpc[c] = "out" /\ Take(c)

AcquireWait(c, withTimeout) ==
    /\ cpc[c] = "out"
    /\ timed' = [timed EXCEPT ![c] = withTimeout]
    /\ Sleep(c)

\* A notified waiter tests the condition again.
Woken(c) ==
    /\ cpc[c] = "woken"
    /\ Take(c) \/ (Sleep(c) /\ UNCHANGED timed)

\* The timer of a waiter expires; it tests the condition a last time.
Expire(c) ==
    /\ cpc[c] = "sleeping"
    /\ timed[c]
    /\ Goto(c, "expired")
    /\ UNCHANGED <<pool, manager, cancelled, timed, lease>>

Expired(c) ==
    /\ cpc[c] = "expired"
    /\ Take(c) \/ (~Available /\ GiveNothing(c))

-----------------------------------------------------------------------------
\* Connection::cancel
Cancel(c) ==
    /\ cpc[c] = "leased"
    /\ cancelled' = cancelled \cup {lease[c]}
    /\ UNCHANGED <<pool, manager, cpc, timed, lease>>

\* Seeded fault: the connection goes back as it was left.
ResetForPoolKeepsToken(c) ==
    /\ cpc[c] = "leased"
    /\ Goto(c, "returning")
    /\ UNCHANGED <<pool, manager, cancelled, timed, lease>>

\* ~ConnectionLease: reset_for_pool, outside the pool's mutex ...
ResetForPool(c) ==
    /\ cpc[c] = "leased"
    /\ cancelled' = cancelled \ {lease[c]}
    /\ Goto(c, "returning")
    /\ UNCHANGED <<pool, manager, timed, lease>>

\* ... and release.  close_connection when the pool is shut down, where
\* m_active_count is left as it is.
ReleaseClosed(c) ==
    /\ poolShut
    /\ connections' = connections \ {lease[c]}
    /\ Goto(c, "out")
    /\ UNCHANGED <<pool, nextConn, managerShut>>

\* Seeded fault: the connection is put back without a notification.
NotifyOneNobody(c) == Goto(c, "out")

\* notify_one by c, which returns: some sleeping waiter, if there is one, wakes.
NotifyOne(c) ==
    \/ At("sleeping") = {} /\ Goto(c, "out")
    \/ \E w \in At("sleeping") : cpc' = [cpc EXCEPT ![c] = "out", ![w] = "woken"]

ReleaseIdle(c) ==
    /\ ~poolShut
    /\ idle' = Append(idle, lease[c])
    /\ active' = active - 1
    /\ NotifyOne(c)
    /\ UNCHANGED <<poolShut, manager>>

Release(c) ==
    /\ cpc[c] = "returning"
    /\ lease' = [lease EXCEPT ![c] = NoConnection]
    /\ ReleaseClosed(c) \/ ReleaseIdle(c)
    /\ UNCHANGED <<cancelled, timed>>

\* notify_all
WakeAll == [c \in Clients |-> IF cpc[c] = "sleeping" THEN "woken" ELSE cpc[c]]

\* ConnectionPool::shutdown
ShutdownPool ==
    /\ ~poolShut
    /\ poolShut' = TRUE
    /\ connections' = connections \ {idle[i] : i \in DOMAIN idle}
    /\ idle' = <<>>
    /\ cpc' = WakeAll
    /\ UNCHANGED <<active, nextConn, managerShut, cancelled, timed, lease>>

\* ConnectionManager::shutdown; Database::close calls it after the pool's.
ShutdownManager ==
    /\ poolShut
    /\ ~managerShut
    /\ managerShut' = TRUE
    /\ cancelled' = cancelled \cup connections
    /\ connections' = {}
    /\ UNCHANGED <<pool, nextConn, cpc, timed, lease>>

PoolStep(c) ==
    \/ AcquireNow(c)
    \/ \E withTimeout \in BOOLEAN : AcquireWait(c, withTimeout)
    \/ Woken(c)
    \/ Expire(c)
    \/ Expired(c)
    \/ Cancel(c)
    \/ ResetForPool(c)
    \/ Release(c)

PoolNext == (\E c \in Clients : PoolStep(c)) \/ ShutdownPool \/ ShutdownManager

PoolSpec == PoolInit /\ [][PoolNext]_poolVars

-----------------------------------------------------------------------------
\* Type invariant.
PoolTypeOK ==
    /\ idle \in Seq(Nat \ {NoConnection})
    /\ active \in Nat
    /\ poolShut \in BOOLEAN
    /\ nextConn \in Nat \ {NoConnection}
    /\ connections \subseteq Nat
    /\ managerShut \in BOOLEAN
    /\ cancelled \subseteq Nat
    /\ cpc \in [Clients -> {"out", "sleeping", "woken", "expired", "leased", "returning"}]
    /\ timed \in [Clients -> BOOLEAN]
    /\ lease \in [Clients -> Nat]

(***************************************************************************)
(* A connection is in one place: two clients never hold the same one, and  *)
(* a connection that waits in m_idle_connections waits there once and is   *)
(* held by nobody.                                                         *)
(***************************************************************************)
LeasesExclusive ==
    /\ \A c, d \in Holders : c # d => lease[c] # lease[d]
    /\ \A i, j \in DOMAIN idle : i # j => idle[i] # idle[j]
    /\ \A c \in Holders, i \in DOMAIN idle : lease[c] # idle[i]

(***************************************************************************)
(* The pool keeps its limit: m_active_count and the idle connections       *)
(* together never exceed m_max_connections, so neither do the connections  *)
(* the manager has open.                                                   *)
(***************************************************************************)
PoolBounded == active + Len(idle) <= MaxConnections

(***************************************************************************)
(* No notification of acquire is lost: while somebody sleeps, every slot   *)
(* that is free has a notified waiter on its way to it, and once the pool  *)
(* is shut down nobody sleeps.                                             *)
(***************************************************************************)
FreeSlotsHaveTakers ==
    At("sleeping") # {} =>
        /\ ~poolShut
        /\ MaxConnections <= active + Cardinality(At("woken"))

(***************************************************************************)
(* A client gets a connection whose cancellation token is clear, whatever  *)
(* the client before it did.                                               *)
(***************************************************************************)
LeaseIsClean ==
    [][\A c \in Clients : cpc[c] # "leased" /\ cpc'[c] = "leased"
            => lease'[c] \notin cancelled']_poolVars
=============================================================================
