------------------------------ MODULE Catalog --------------------------------
(***************************************************************************)
(* The catalog: src/src/catalog/catalog.cpp with catalog_serializer.cpp    *)
(* and the TableSchema of its tables.  Each operation runs under m_mutex,  *)
(* changes the maps, and then writes the root page, which holds the next   *)
(* ids and nothing else.  An operation whose last step fails reports the   *)
(* error and leaves the maps changed.                                      *)
(*                                                                         *)
(* The vectors of m_table_indexes are sets: nothing depends on their       *)
(* order.  A column is its id.                                             *)
(***************************************************************************)
EXTENDS Integers

CONSTANTS
    Names,          \* names of schemas, tables and indexes
    Main,           \* the name of the schema that init_new makes
    MaxColumns,     \* bound on the number of columns of a table
    LastIds         \* bounds on the ids: [schema, table, column, index]

ASSUME MainAssumption == Main \in Names
ASSUME MaxColumnsAssumption == MaxColumns \in Nat

VARIABLES
    schemas,        \* m_schemas: id -> name
    schemaNames,    \* m_schema_names: name -> id
    tables,         \* m_tables: id -> [schema, name, columns]
    tableNames,     \* m_table_names: <<schema, name>> -> id
    indexes,        \* m_indexes: id -> [schema, table, name, columns]
    tableIndexes,   \* m_table_indexes: table -> ids
    next,           \* the next ids: [schema, table, column, index]
    root,           \* the next ids that the root page holds
    issued          \* ids of tables whose creation succeeded

maps == <<schemas, schemaNames, tables, tableNames, indexes, tableIndexes>>
catVars == <<maps, next, root, issued>>

EmptyMap == [x \in {} |-> x]

\* map[key] = value, and map.erase(key).
With(map, key, value) == [x \in DOMAIN map \cup {key} |-> IF x = key THEN value ELSE map[x]]
Without(map, keys) == [x \in DOMAIN map \ keys |-> map[x]]

-----------------------------------------------------------------------------
\* init_new has made the main schema and written the root page; a database for
\* which it fails is not used.
CatInit ==
    /\ schemas = With(EmptyMap, 1, Main) /\ schemaNames = With(EmptyMap, Main, 1)
    /\ tables = EmptyMap /\ tableNames = EmptyMap
    /\ indexes = EmptyMap /\ tableIndexes = EmptyMap
    /\ next = [schema |-> 2, table |-> 1, column |-> 1, index |-> 1]
    /\ root = next
    /\ issued = {}

\* Seeded fault: the ids are written before the new one is taken.
PersistEarly(ok) == root' = IF ok THEN next ELSE root

\* persist_to_disk: CatalogSerializer::save, which fails if the page cannot be fetched.
Persist(ok) == root' = IF ok THEN next' ELSE root

CreateSchema(name) ==
    /\ name \notin DOMAIN schemaNames
    /\ next.schema <= LastIds.schema
    /\ next' = [next EXCEPT !.schema = @ + 1]
    /\ schemas' = With(schemas, next.schema, name)
    /\ schemaNames' = With(schemaNames, name, next.schema)
    /\ \E ok \in BOOLEAN : Persist(ok)
    /\ UNCHANGED <<tables, tableNames, indexes, tableIndexes, issued>>

\* A new Catalog loads the root page: the ids come back, the maps stay empty.
CatLoad ==
    /\ schemas' = EmptyMap /\ schemaNames' = EmptyMap
    /\ tables' = EmptyMap /\ tableNames' = EmptyMap
    /\ indexes' = EmptyMap /\ tableIndexes' = EmptyMap
    /\ next' = root
    /\ UNCHANGED <<root, issued>>

CatFlush ==
    /\ next' = next
    /\ \E ok \in BOOLEAN : Persist(ok)
    /\ UNCHANGED <<maps, issued>>

\* create_table up to the heap: the ids of the table and its columns are taken.
NewTable(s, name, columns) ==
    /\ s \in DOMAIN schemas
    /\ <<s, name>> \notin DOMAIN tableNames
    /\ next.table <= LastIds.table
    /\ next.column + columns <= LastIds.column + 1
    /\ next' = [next EXCEPT !.table = @ + 1, !.column = @ + columns]

CreateTable(s, name, columns) ==
    /\ NewTable(s, name, columns)
    /\ tables' = With(tables, next.table,
                      [schema |-> s, name |-> name,
                       columns |-> next.column .. next.column + columns - 1])
    /\ tableNames' = With(tableNames, <<s, name>>, next.table)
    /\ \E ok \in BOOLEAN :
        /\ Persist(ok)
        /\ issued' = IF ok THEN issued \cup {next.table} ELSE issued
    /\ UNCHANGED <<schemas, schemaNames, indexes, tableIndexes>>

\* TableHeap::create fails.
CreateTableFails(s, name, columns) ==
    /\ NewTable(s, name, columns)
    /\ UNCHANGED <<maps, root, issued>>

IndexesOf(t) == IF t \in DOMAIN tableIndexes THEN tableIndexes[t] ELSE {}

\* Seeded fault: the indexes of a dropped table stay.
DropTableOnly(t) ==
    /\ t \in DOMAIN tables
    /\ tableNames' = Without(tableNames, {<<tables[t].schema, tables[t].name>>})
    /\ tables' = Without(tables, {t})
    /\ next' = next
    /\ \E ok \in BOOLEAN : Persist(ok)
    /\ UNCHANGED <<schemas, schemaNames, indexes, tableIndexes, issued>>

DropTable(t) ==
    /\ t \in DOMAIN tables
    /\ indexes' = Without(indexes, IndexesOf(t))
    /\ tableIndexes' = Without(tableIndexes, {t})
    /\ tableNames' = Without(tableNames, {<<tables[t].schema, tables[t].name>>})
    /\ tables' = Without(tables, {t})
    /\ next' = next
    /\ \E ok \in BOOLEAN : Persist(ok)
    /\ UNCHANGED <<schemas, schemaNames, issued>>

\* create_index: the name is new in the schema, and an id is taken.
NewIndex(t, name) ==
    /\ t \in DOMAIN tables
    /\ \A i \in DOMAIN indexes :
            ~(indexes[i].schema = tables[t].schema /\ indexes[i].name = name)
    /\ next.index <= LastIds.index
    /\ next' = [next EXCEPT !.index = @ + 1]

CreateIndex(t, name, columns) ==
    /\ NewIndex(t, name)
    /\ columns \subseteq tables[t].columns
    /\ indexes' = With(indexes, next.index,
                       [schema |-> tables[t].schema, table |-> t, name |-> name,
                        columns |-> columns])
    /\ tableIndexes' = With(tableIndexes, t, IndexesOf(t) \cup {next.index})
    /\ \E ok \in BOOLEAN : Persist(ok)
    /\ UNCHANGED <<schemas, schemaNames, tables, tableNames, issued>>

\* column_by_id throws.
CreateIndexThrows(t, name, columns) ==
    /\ NewIndex(t, name)
    /\ ~(columns \subseteq tables[t].columns)
    /\ UNCHANGED <<maps, root, issued>>

CatNext ==
    \/ CatLoad
    \/ CatFlush
    \/ \E name \in Names : CreateSchema(name)
    \/ \E s \in DOMAIN schemas, name \in Names, n \in 0 .. MaxColumns :
            CreateTable(s, name, n) \/ CreateTableFails(s, name, n)
    \/ \E t \in DOMAIN tables : DropTable(t)
    \/ \E t \in DOMAIN tables, name \in Names, column \in 0 .. LastIds.column :
            CreateIndex(t, name, {column}) \/ CreateIndexThrows(t, name, {column})

CatSpec == CatInit /\ [][CatNext]_catVars

-----------------------------------------------------------------------------
\* validate().
Valid ==
    \A i \in DOMAIN indexes :
        /\ indexes[i].table \in DOMAIN tables
        /\ indexes[i].columns \subseteq tables[indexes[i].table].columns

(***************************************************************************)
(* The five maps agree, whichever steps have failed: a name leads to the   *)
(* entry that has it, every entry is found by its name, each table lists   *)
(* exactly its own indexes, and validate() finds nothing to complain of.   *)
(***************************************************************************)
MapsAgree ==
    /\ \A n \in DOMAIN schemaNames :
            schemaNames[n] \in DOMAIN schemas /\ schemas[schemaNames[n]] = n
    /\ \A s \in DOMAIN schemas :
            schemas[s] \in DOMAIN schemaNames /\ schemaNames[schemas[s]] = s
    /\ \A k \in DOMAIN tableNames :
            /\ tableNames[k] \in DOMAIN tables
            /\ k = <<tables[tableNames[k]].schema, tables[tableNames[k]].name>>
    /\ \A t \in DOMAIN tables :
            /\ <<tables[t].schema, tables[t].name>> \in DOMAIN tableNames
            /\ tableNames[<<tables[t].schema, tables[t].name>>] = t
            /\ tables[t].schema \in DOMAIN schemas
    /\ \A t \in DOMAIN tableIndexes : \A i \in tableIndexes[t] :
            i \in DOMAIN indexes /\ indexes[i].table = t
    /\ \A i \in DOMAIN indexes :
            indexes[i].table \in DOMAIN tableIndexes /\ i \in tableIndexes[indexes[i].table]
    /\ Valid

(***************************************************************************)
(* The id of a table whose creation succeeded is not given to another one, *)
(* also not after the catalog was loaded again from its root page, which   *)
(* is taken to have reached the file.                                      *)
(***************************************************************************)
IdsNotReissued ==
    [][\A t \in issued : next'.table > t /\ (t \in DOMAIN tables' => t \in DOMAIN tables)]_catVars
=============================================================================
