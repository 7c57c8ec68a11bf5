---------------------------- MODULE WaitForGraph ----------------------------
(***************************************************************************)
(* The wait-for graph of src/src/concurrency/wait_for_graph.cpp.  m_edges, *)
(* a map from a waiting transaction to the set of transactions it waits    *)
(* for, is the set of pairs <<waiting, holding>>.  Every operation runs    *)
(* under the graph's own mutex, so each operator below is one atomic step. *)
(***************************************************************************)
EXTENDS Naturals, Sequences, FiniteSets

AddEdge(edges, waiting, holding) ==
    IF waiting = holding THEN edges ELSE edges \cup {<<waiting, holding>>}

RemoveTransaction(edges, txn) == {e \in edges : e[1] # txn /\ e[2] # txn}

-----------------------------------------------------------------------------
Nodes(edges) == {e[1] : e \in edges} \cup {e[2] : e \in edges}

\* The paths along the edges that visit no node twice.
SimplePaths(edges) ==
    LET N == Nodes(edges)
        OfLength(n) ==
            {p \in [1..n -> N] :
                /\ \A i \in 1..(n-1) : <<p[i], p[i+1]>> \in edges
                /\ \A i, j \in 1..n : p[i] = p[j] => i = j}
    IN  UNION {OfLength(n) : n \in 1..Cardinality(N)}

\* Seeded fault: meeting any visited node, on the stack or not, is a cycle.
CyclePathsVisited(edges) ==
    {p \in SimplePaths(edges) : \E q \in SimplePaths(edges) :
        /\ q[1] = p[1]
        /\ <<p[Len(p)], q[Len(q)]>> \in edges
        /\ Append(p, q[Len(q)]) # q}

(***************************************************************************)
(* The contents cycle_path can have when dfs_visit meets a node of its     *)
(* stack: a simple path along the edges whose last node has an edge back   *)
(* to a node of the path.  The containers are unordered, so the search may *)
(* start anywhere and visit neighbours in any order.  The path begins at   *)
(* the root of the search, which need not be on the cycle.                 *)
(***************************************************************************)
CyclePaths(edges) ==
    {p \in SimplePaths(edges) : \E i \in DOMAIN p : <<p[Len(p)], p[i]>> \in edges}

\* Victim selection: the largest id on the path.
YoungestOf(p) ==
    CHOOSE v \in {p[i] : i \in DOMAIN p} : \A i \in DOMAIN p : p[i] <= v

\* The victims detect_cycle may return; empty when it returns nullopt.
DetectCycle(edges) == {YoungestOf(p) : p \in CyclePaths(edges)}
=============================================================================
