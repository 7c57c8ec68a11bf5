--------------------------- MODULE CatalogProofs ----------------------------
(***************************************************************************)
(* Proofs about Catalog.  New ids are ahead of all ids in use, so a new    *)
(* entry never replaces one, and the maps change together.  The ids of     *)
(* tables that were reported as created are also behind the next id of the *)
(* root page, which is what a new Catalog starts from.                     *)
(***************************************************************************)
EXTENDS Catalog, TLAPS

Ids == [schema : Nat, table : Nat, column : Nat, index : Nat]

\* The ids in use are behind the next ones.
IdsAhead ==
    /\ next \in Ids
    /\ \A s \in DOMAIN schemas : s \in Nat /\ s < next.schema
    /\ \A t \in DOMAIN tables : t \in Nat /\ t < next.table
    /\ \A i \in DOMAIN indexes : i \in Nat /\ i < next.index

\* The root page is ahead of the tables that were reported as created.
RootAhead ==
    /\ root \in Ids
    /\ issued \subseteq Nat
    /\ \A t \in issued : t < next.table /\ t < root.table

CatInv == MapsAgree /\ IdsAhead /\ RootAhead

LEMMA EmptyMapFacts == DOMAIN EmptyMap = {}
    BY DEF EmptyMap

LEMMA CatInitInv == CatInit => CatInv
<1> SUFFICES ASSUME CatInit PROVE CatInv
    OBVIOUS
<1>1. DOMAIN schemas = {1} /\ schemas[1] = Main
    BY EmptyMapFacts DEF CatInit, With
<1>2. DOMAIN schemaNames = {Main} /\ schemaNames[Main] = 1
    BY EmptyMapFacts DEF CatInit, With
<1>3. MapsAgree
    BY <1>1, <1>2, EmptyMapFacts DEF CatInit, MapsAgree, Valid
<1>4. IdsAhead /\ RootAhead
    BY <1>1, EmptyMapFacts DEF CatInit, IdsAhead, RootAhead, Ids
<1> QED
    BY <1>3, <1>4 DEF CatInv

-----------------------------------------------------------------------------
\* Writing the root page keeps it ahead, as long as the next ids do not go back.
LEMMA PersistAhead ==
    ASSUME RootAhead, next' \in Ids, next.table <= next'.table, next \in Ids,
           UNCHANGED issued, NEW ok \in BOOLEAN, Persist(ok)
    PROVE  RootAhead'
    BY DEF RootAhead, Persist, Ids

LEMMA CreateSchemaInv ==
    ASSUME CatInv, NEW name, CreateSchema(name)
    PROVE  CatInv'
<1>1. next' \in Ids /\ next'.schema = next.schema + 1 /\ next'.table = next.table
      /\ next'.index = next.index /\ next.schema \in Nat /\ next.table \in Nat
    BY DEF CatInv, IdsAhead, Ids, CreateSchema
<1>2. next.schema \notin DOMAIN schemas
    BY <1>1 DEF CatInv, IdsAhead
<1>3. /\ DOMAIN schemas' = DOMAIN schemas \cup {next.schema}
      /\ schemas'[next.schema] = name
      /\ \A s \in DOMAIN schemas : schemas'[s] = schemas[s]
    BY <1>2 DEF CreateSchema, With
<1>4. /\ DOMAIN schemaNames' = DOMAIN schemaNames \cup {name}
      /\ schemaNames'[name] = next.schema
      /\ \A n \in DOMAIN schemaNames : schemaNames'[n] = schemaNames[n]
    BY DEF CreateSchema, With
<1>5. MapsAgree'
    BY <1>2, <1>3, <1>4 DEF CatInv, MapsAgree, Valid, CreateSchema
<1>6. IdsAhead'
    BY <1>1, <1>3 DEF CatInv, IdsAhead, CreateSchema
<1>7. RootAhead'
    <2>1. PICK ok \in BOOLEAN : Persist(ok)
        BY DEF CreateSchema
    <2> QED
        BY <1>1, <2>1, PersistAhead DEF CatInv, IdsAhead, CreateSchema
<1> QED
    BY <1>5, <1>6, <1>7 DEF CatInv

LEMMA CatLoadInv ==
    ASSUME CatInv, CatLoad
    PROVE  CatInv'
    BY EmptyMapFacts DEF CatInv, CatLoad, MapsAgree, Valid, IdsAhead, RootAhead, Ids

LEMMA CatFlushInv ==
    ASSUME CatInv, CatFlush
    PROVE  CatInv'
<1>1. MapsAgree' /\ IdsAhead'
    BY DEF CatInv, CatFlush, maps, MapsAgree, Valid, IdsAhead
<1>2. RootAhead'
    <2>1. PICK ok \in BOOLEAN : Persist(ok)
        BY DEF CatFlush
    <2> QED
        BY <2>1, PersistAhead DEF CatInv, IdsAhead, CatFlush, Ids
<1> QED
    BY <1>1, <1>2 DEF CatInv

\* The next ids after a table has taken its own.
LEMMA NewTableIds ==
    ASSUME CatInv, NEW s, NEW name, NEW columns \in Nat, NewTable(s, name, columns)
    PROVE  /\ next' \in Ids /\ next.table \in Nat /\ next \in Ids
           /\ next'.schema = next.schema /\ next'.index = next.index
           /\ next'.table = next.table + 1
           /\ next.table \notin DOMAIN tables
<1>1. next \in Ids
    BY DEF CatInv, IdsAhead
<1>2. next.table \in Nat /\ next.column \in Nat
    BY <1>1 DEF Ids
<1>3. next' = [next EXCEPT !.table = @ + 1, !.column = @ + columns]
    BY DEF NewTable
<1>4. /\ next' \in Ids
      /\ next'.schema = next.schema /\ next'.index = next.index
      /\ next'.table = next.table + 1
    <2> DEFINE m == next.table + 1
               n == next.column + columns
    <2>1. m \in Nat /\ n \in Nat
        BY <1>2
    <2>2. next' = [next EXCEPT !.table = m, !.column = n]
        BY <1>3
    <2> HIDE DEF m, n
    <2>3. next' \in Ids
        BY <1>1, <2>1, <2>2, Zenon DEF Ids
    <2>4. next'.table = m /\ next'.schema = next.schema /\ next'.index = next.index
        BY <1>1, <2>2 DEF Ids
    <2> QED
        BY <2>3, <2>4 DEF m
<1>5. next.table \notin DOMAIN tables
    BY <1>2 DEF CatInv, IdsAhead
<1> QED
    BY <1>1, <1>2, <1>4, <1>5

LEMMA CreateTableInv ==
    ASSUME CatInv, NEW s, NEW name, NEW columns \in Nat, CreateTable(s, name, columns)
    PROVE  CatInv'
<1> DEFINE t == next.table
           key == <<s, name>>
           table == [schema |-> s, name |-> name,
                     columns |-> next.column .. next.column + columns - 1]
<1>1. /\ next' \in Ids /\ t \in Nat /\ next \in Ids
      /\ next'.schema = next.schema /\ next'.index = next.index
      /\ next'.table = t + 1 /\ t \notin DOMAIN tables
    BY NewTableIds DEF CreateTable
<1>2. /\ DOMAIN tables' = DOMAIN tables \cup {t}
      /\ tables'[t] = table
      /\ \A u \in DOMAIN tables : tables'[u] = tables[u]
    BY <1>1 DEF CreateTable, With
<1>3. key \notin DOMAIN tableNames /\ s \in DOMAIN schemas
    BY DEF CreateTable, NewTable
<1>4. /\ DOMAIN tableNames' = DOMAIN tableNames \cup {key}
      /\ tableNames'[key] = t
      /\ \A k \in DOMAIN tableNames : tableNames'[k] = tableNames[k]
    BY <1>3 DEF CreateTable, With
<1>5. table.schema = s /\ table.name = name
    OBVIOUS
<1>6. UNCHANGED <<schemas, schemaNames, indexes, tableIndexes>>
    BY DEF CreateTable
<1>7. MapsAgree'
    <2> HIDE DEF t, key, table
    <2>1. \A k \in DOMAIN tableNames' :
            /\ tableNames'[k] \in DOMAIN tables'
            /\ k = <<tables'[tableNames'[k]].schema, tables'[tableNames'[k]].name>>
        BY <1>2, <1>3, <1>4, <1>5 DEF CatInv, MapsAgree, key
    <2>2. \A u \in DOMAIN tables' :
            /\ <<tables'[u].schema, tables'[u].name>> \in DOMAIN tableNames'
            /\ tableNames'[<<tables'[u].schema, tables'[u].name>>] = u
            /\ tables'[u].schema \in DOMAIN schemas
        BY <1>2, <1>3, <1>4, <1>5 DEF CatInv, MapsAgree, key
    <2>3. Valid'
        BY <1>1, <1>2, <1>6 DEF CatInv, MapsAgree, Valid
    <2> QED
        BY <2>1, <2>2, <2>3, <1>6 DEF CatInv, MapsAgree
<1>8. IdsAhead'
    BY <1>1, <1>2, <1>6 DEF CatInv, IdsAhead
<1>9. RootAhead'
    <2>1. PICK ok \in BOOLEAN :
            /\ Persist(ok)
            /\ issued' = IF ok THEN issued \cup {next.table} ELSE issued
        BY DEF CreateTable
    <2>2. /\ root \in Ids /\ issued \subseteq Nat
          /\ \A u \in issued : u < t /\ u < root.table
        BY DEF CatInv, RootAhead
    <2>3. CASE ok
        <3>1. root' = next' /\ issued' = issued \cup {t}
            BY <2>1, <2>3 DEF Persist
        <3>2. \A u \in issued' : u \in Nat /\ u < next'.table
            BY <1>1, <2>2, <3>1
        <3> QED
            BY <1>1, <3>1, <3>2 DEF RootAhead
    <2>4. CASE ~ok
        <3>1. root' = root /\ issued' = issued
            BY <2>1, <2>4 DEF Persist
        <3> QED
            BY <1>1, <2>2, <3>1 DEF RootAhead
    <2> QED
        BY <2>3, <2>4
<1> QED
    BY <1>7, <1>8, <1>9 DEF CatInv

LEMMA CreateTableFailsInv ==
    ASSUME CatInv, NEW s, NEW name, NEW columns \in Nat, CreateTableFails(s, name, columns)
    PROVE  CatInv'
<1>1. /\ next' \in Ids /\ next.table \in Nat /\ next \in Ids
      /\ next'.schema = next.schema /\ next'.index = next.index
      /\ next'.table = next.table + 1
    BY NewTableIds DEF CreateTableFails
<1>2. UNCHANGED <<maps, root, issued>>
    BY DEF CreateTableFails
<1>3. MapsAgree'
    BY <1>2 DEF CatInv, MapsAgree, Valid, maps
<1>4. IdsAhead'
    BY <1>1, <1>2 DEF CatInv, IdsAhead, maps
<1>5. RootAhead'
    BY <1>1, <1>2 DEF CatInv, RootAhead
<1> QED
    BY <1>3, <1>4, <1>5 DEF CatInv

-----------------------------------------------------------------------------
\* A table goes together with its indexes and its list of them.
LEMMA DropTableInv ==
    ASSUME CatInv, NEW t \in DOMAIN tables, DropTable(t)
    PROVE  CatInv'
<1> DEFINE key == <<tables[t].schema, tables[t].name>>
<1>1. /\ DOMAIN tables' = DOMAIN tables \ {t}
      /\ \A u \in DOMAIN tables' : tables'[u] = tables[u]
    BY DEF DropTable, Without
<1>2. /\ DOMAIN tableNames' = DOMAIN tableNames \ {key}
      /\ \A k \in DOMAIN tableNames' : tableNames'[k] = tableNames[k]
    BY DEF DropTable, Without
<1>3. /\ DOMAIN indexes' = DOMAIN indexes \ IndexesOf(t)
      /\ \A i \in DOMAIN indexes' : indexes'[i] = indexes[i]
    BY DEF DropTable, Without
<1>4. /\ DOMAIN tableIndexes' = DOMAIN tableIndexes \ {t}
      /\ \A u \in DOMAIN tableIndexes' : tableIndexes'[u] = tableIndexes[u]
    BY DEF DropTable, Without
<1>5. UNCHANGED <<schemas, schemaNames, issued, next>>
    BY DEF DropTable
<1>6. \A i \in DOMAIN indexes' : indexes'[i].table # t
    BY <1>3 DEF CatInv, MapsAgree, IndexesOf
<1>7. MapsAgree'
    <2>1. \A k \in DOMAIN tableNames' :
            /\ tableNames'[k] \in DOMAIN tables'
            /\ k = <<tables'[tableNames'[k]].schema, tables'[tableNames'[k]].name>>
        BY <1>1, <1>2 DEF CatInv, MapsAgree
    <2>2. \A u \in DOMAIN tables' :
            /\ <<tables'[u].schema, tables'[u].name>> \in DOMAIN tableNames'
            /\ tableNames'[<<tables'[u].schema, tables'[u].name>>] = u
            /\ tables'[u].schema \in DOMAIN schemas
        BY <1>1, <1>2 DEF CatInv, MapsAgree
    <2>3. \A u \in DOMAIN tableIndexes' : \A i \in tableIndexes'[u] :
            i \in DOMAIN indexes' /\ indexes'[i].table = u
        BY <1>3, <1>4 DEF CatInv, MapsAgree, IndexesOf
    <2>4. \A i \in DOMAIN indexes' :
            /\ indexes'[i].table \in DOMAIN tableIndexes'
            /\ i \in tableIndexes'[indexes'[i].table]
        BY <1>3, <1>4, <1>6 DEF CatInv, MapsAgree
    <2>5. Valid'
        BY <1>1, <1>3, <1>6 DEF CatInv, MapsAgree, Valid
    <2> QED
        BY <2>1, <2>2, <2>3, <2>4, <2>5, <1>5 DEF CatInv, MapsAgree
<1>8. IdsAhead'
    BY <1>1, <1>3, <1>5 DEF CatInv, IdsAhead
<1>9. RootAhead'
    <2>1. PICK ok \in BOOLEAN : Persist(ok)
        BY DEF DropTable
    <2> QED
        BY <1>5, <2>1, PersistAhead DEF CatInv, IdsAhead, Ids
<1> QED
    BY <1>7, <1>8, <1>9 DEF CatInv

\* The next ids after an index has taken its own.
LEMMA NewIndexIds ==
    ASSUME CatInv, NEW t, NEW name, NewIndex(t, name)
    PROVE  /\ next' \in Ids /\ next.index \in Nat /\ next \in Ids
           /\ next'.schema = next.schema /\ next'.table = next.table
           /\ next'.index = next.index + 1
           /\ next.index \notin DOMAIN indexes
<1>1. next \in Ids /\ next' = [next EXCEPT !.index = @ + 1]
    BY DEF CatInv, IdsAhead, NewIndex
<1>2. next.index \in Nat
    BY <1>1 DEF Ids
<1>3. /\ next' \in Ids
      /\ next'.schema = next.schema /\ next'.table = next.table
      /\ next'.index = next.index + 1
    BY <1>1, <1>2 DEF Ids
<1>4. next.index \notin DOMAIN indexes
    BY <1>2 DEF CatInv, IdsAhead
<1> QED
    BY <1>1, <1>2, <1>3, <1>4

LEMMA CreateIndexInv ==
    ASSUME CatInv, NEW t \in DOMAIN tables, NEW name, NEW columns,
           CreateIndex(t, name, columns)
    PROVE  CatInv'
<1> DEFINE i == next.index
           index == [schema |-> tables[t].schema, table |-> t, name |-> name,
                     columns |-> columns]
<1>1. /\ next' \in Ids /\ i \in Nat /\ next \in Ids
      /\ next'.schema = next.schema /\ next'.table = next.table
      /\ next'.index = i + 1 /\ i \notin DOMAIN indexes
    BY NewIndexIds DEF CreateIndex
<1>2. /\ DOMAIN indexes' = DOMAIN indexes \cup {i}
      /\ indexes'[i] = index
      /\ \A j \in DOMAIN indexes : indexes'[j] = indexes[j]
    BY <1>1 DEF CreateIndex, With
<1>3. index.table = t /\ index.columns = columns /\ columns \subseteq tables[t].columns
    BY DEF CreateIndex
<1>4. /\ DOMAIN tableIndexes' = DOMAIN tableIndexes \cup {t}
      /\ tableIndexes'[t] = IndexesOf(t) \cup {i}
      /\ \A u \in DOMAIN tableIndexes : u # t => tableIndexes'[u] = tableIndexes[u]
    BY DEF CreateIndex, With
<1>5. UNCHANGED <<schemas, schemaNames, tables, tableNames, issued>>
    BY DEF CreateIndex
<1>6. MapsAgree'
    <2> HIDE DEF i, index
    <2>1. \A u \in DOMAIN tableIndexes' : \A j \in tableIndexes'[u] :
            j \in DOMAIN indexes' /\ indexes'[j].table = u
        BY <1>1, <1>2, <1>3, <1>4 DEF CatInv, MapsAgree, IndexesOf
    <2>2. \A j \in DOMAIN indexes' :
            /\ indexes'[j].table \in DOMAIN tableIndexes'
            /\ j \in tableIndexes'[indexes'[j].table]
        BY <1>1, <1>2, <1>3, <1>4 DEF CatInv, MapsAgree, IndexesOf
    <2>3. Valid'
        BY <1>2, <1>3, <1>5 DEF CatInv, MapsAgree, Valid
    <2> QED
        BY <2>1, <2>2, <2>3, <1>5 DEF CatInv, MapsAgree
<1>7. IdsAhead'
    BY <1>1, <1>2, <1>5 DEF CatInv, IdsAhead
<1>8. RootAhead'
    <2>1. PICK ok \in BOOLEAN : Persist(ok)
        BY DEF CreateIndex
    <2> QED
        BY <1>1, <1>5, <2>1, PersistAhead DEF CatInv, Ids
<1> QED
    BY <1>6, <1>7, <1>8 DEF CatInv

LEMMA CreateIndexThrowsInv ==
    ASSUME CatInv, NEW t, NEW name, NEW columns, CreateIndexThrows(t, name, columns)
    PROVE  CatInv'
<1>1. /\ next' \in Ids /\ next.index \in Nat /\ next \in Ids
      /\ next'.schema = next.schema /\ next'.table = next.table
      /\ next'.index = next.index + 1
    BY NewIndexIds DEF CreateIndexThrows
<1>2. UNCHANGED <<maps, root, issued>>
    BY DEF CreateIndexThrows
<1>3. MapsAgree'
    BY <1>2 DEF CatInv, MapsAgree, Valid, maps
<1>4. IdsAhead'
    BY <1>1, <1>2 DEF CatInv, IdsAhead, maps
<1>5. RootAhead'
    BY <1>1, <1>2 DEF CatInv, RootAhead
<1> QED
    BY <1>3, <1>4, <1>5 DEF CatInv

-----------------------------------------------------------------------------
LEMMA CatNextInv ==
    ASSUME CatInv, [CatNext]_catVars
    PROVE  CatInv'
<1>1. CASE CatLoad
    BY <1>1, CatLoadInv
<1>2. CASE CatFlush
    BY <1>2, CatFlushInv
<1>3. CASE \E name \in Names : CreateSchema(name)
    BY <1>3, CreateSchemaInv
<1>4. ASSUME NEW s \in DOMAIN schemas, NEW name \in Names, NEW n \in 0 .. MaxColumns,
             CreateTable(s, name, n) \/ CreateTableFails(s, name, n)
      PROVE  CatInv'
    BY <1>4, MaxColumnsAssumption, CreateTableInv, CreateTableFailsInv
<1>5. CASE \E t \in DOMAIN tables : DropTable(t)
    BY <1>5, DropTableInv
<1>6. ASSUME NEW t \in DOMAIN tables, NEW name \in Names,
             NEW column \in 0 .. LastIds.column,
             CreateIndex(t, name, {column}) \/ CreateIndexThrows(t, name, {column})
      PROVE  CatInv'
    BY <1>6, CreateIndexInv, CreateIndexThrowsInv
<1>7. CASE UNCHANGED catVars
    BY <1>7 DEF CatInv, MapsAgree, Valid, IdsAhead, RootAhead, catVars, maps
<1> QED
    BY <1>1, <1>2, <1>3, <1>4, <1>5, <1>6, <1>7, Zenon DEF CatNext

(***************************************************************************)
(* The maps of the catalog agree, for any number of names, columns and     *)
(* ids, whichever operations fail after changing them.                     *)
(***************************************************************************)
THEOREM CatalogIsConsistent == CatSpec => []MapsAgree
<1>1. CatInv => MapsAgree
    BY DEF CatInv
<1> QED
    BY <1>1, CatInitInv, CatNextInv, PTL DEF CatSpec

(***************************************************************************)
(* The id of a table that was reported as created is not given away again, *)
(* whether the catalog goes on or is loaded from its root page.            *)
(***************************************************************************)
THEOREM TableIdsAreUnique == CatSpec => IdsNotReissued
<1>1. ASSUME CatInv, CatInv', CatNext, NEW t \in issued
      PROVE  next'.table > t /\ (t \in DOMAIN tables' => t \in DOMAIN tables)
    <2>1. t \in issued'
        BY <1>1, Zenon DEF CatNext, CatLoad, CatFlush, CreateSchema,
                    CreateTable, CreateTableFails, DropTable, CreateIndex,
                    CreateIndexThrows
    <2>2. next'.table > t
        BY <1>1, <2>1 DEF CatInv, RootAhead, Ids
    <2>3. t # next.table
        BY <1>1 DEF CatInv, RootAhead, IdsAhead, Ids
    <2>4. DOMAIN tables' \subseteq DOMAIN tables \cup {next.table}
        BY <1>1, EmptyMapFacts, Zenon
        DEF CatNext, CatLoad, CatFlush, CreateSchema, CreateTable,
            CreateTableFails, DropTable, CreateIndex, CreateIndexThrows, maps, With,
            Without
    <2> QED
        BY <2>2, <2>3, <2>4
<1>2. CatInv /\ CatInv' /\ [CatNext]_catVars
        => [\A t \in issued : next'.table > t
                /\ (t \in DOMAIN tables' => t \in DOMAIN tables)]_catVars
    BY <1>1
<1> QED
    BY <1>2, CatInitInv, CatNextInv, PTL DEF CatSpec, IdsNotReissued
=============================================================================
