--------------------------- MODULE Catalog_proofs ----------------------------
(***************************************************************************)
(* What holds of the databases and their tables for any databases, tables, *)
(* columns and records: the types, that manager, engine and directory list *)
(* the same tables, and that every process finds what was answered.        *)
(***************************************************************************)
EXTENDS Catalog, TLAPS

-----------------------------------------------------------------------------
(* Functions of databases and tables. *)

\* One place of a table of tables is changed, and no other.
LEMMA SetPoint ==
    ASSUME NEW S, NEW f \in [Database -> [Table -> S]],
           NEW d \in Database, NEW t \in Table, NEW v
    PROVE  /\ \A e \in Database : \A u \in Table :
                [f EXCEPT ![d][t] = v][e][u] = IF e = d /\ u = t THEN v ELSE f[e][u]
           /\ v \in S => [f EXCEPT ![d][t] = v] \in [Database -> [Table -> S]]
  <1>1. f[d] \in [Table -> S]
    OBVIOUS
  <1>2. \A u \in Table : [f[d] EXCEPT ![t] = v][u] = IF u = t THEN v ELSE f[d][u]
    BY <1>1
  <1>3. v \in S => [f[d] EXCEPT ![t] = v] \in [Table -> S]
    BY <1>1
  <1> DEFINE g == [f EXCEPT ![d] = [f[d] EXCEPT ![t] = v]]
  <1>4. g = [f EXCEPT ![d][t] = v]
    OBVIOUS
  <1>5. \A e \in Database : g[e] = IF e = d THEN [f[d] EXCEPT ![t] = v] ELSE f[e]
    OBVIOUS
  <1>6. v \in S => g \in [Database -> [Table -> S]]
    BY <1>3
  <1> HIDE DEF g
  <1> QED
    BY <1>2, <1>4, <1>5, <1>6

File == {"none", "torn", "whole"}
MaybeContent == Content \cup {Nothing}

LEMMA ContentTypes ==
    /\ NoColumns \in Content
    /\ \A c \in Content : c # Nothing
    /\ \A c \in Content : \A columns \in SUBSET Column : With(c, columns) \in Content
    /\ \A c \in Content : \A rows \in SUBSET Row : WithRows(c, rows) \in Content
  BY CatalogAssumption DEF Content, NoColumns, With, WithRows

LEMMA FoundType ==
    ASSUME TypeOK, NEW t \in Table
    PROVE  Found(t) \in Content /\ Found(t) # Nothing
  BY ContentTypes DEF Found, Filled, TypeOK

\* A list of columns names at least one, and the first can always be added to
\* a table that has none.
LEMMA DdlColumns ==
    ASSUME NEW ddl \in Ddl
    PROVE  /\ Range(ddl) \in SUBSET Column /\ Range(ddl) # {}
           /\ \A have : Addable(ddl, have) \in SUBSET Column
           /\ Addable(ddl, {}) # {}
  <1>1. ddl \in Seq(Column) /\ ddl # <<>>
    BY CatalogAssumption
  <1>2. 1 \in DOMAIN ddl /\ \A i \in DOMAIN ddl : ddl[i] \in Column
    BY <1>1
  <1>3. \A have : Addable(ddl, have) \in SUBSET Column
    BY <1>2 DEF Addable
  <1>4. Addable(ddl, {}) # {}
    <2>1. \A j \in 1..1 : Fits(ddl, j, {})
      <3>1. {ddl[j] : j \in 1..(1 - 1)} = {}
        OBVIOUS
      <3> QED
        BY <3>1 DEF Fits, FitsAmong
    <2> QED
      BY <1>2, <2>1 DEF Addable
  <1> QED
    BY <1>2, <1>3, <1>4 DEF Range

\* The manager and the engine of a database that is loaded list the same tables.
LEMMA LoadedTypes ==
    ASSUME TypeOK, NEW d \in Database, NEW contents \in [Table -> MaybeContent]
    PROVE  /\ Listed(d) \subseteq Table
           /\ Loaded(d, contents) \in [Table -> MaybeContent]
           /\ \A t \in Table : Loaded(d, contents)[t] # Nothing <=> t \in Listed(d)
  <1>1. \A t \in Table : Filled(contents[t]) \in Content /\ Filled(contents[t]) # Nothing
    BY ContentTypes DEF Filled, MaybeContent
  <1> QED
    BY <1>1 DEF Listed, Loaded, MaybeContent

\* What torn files add goes to the tables they name; the others are saved as before.
LEMMA LoadTornShape ==
    ASSUME TypeOK, NEW ds \in SUBSET Database, LoadTorn(ds)
    PROVE  /\ saved' \in [Table -> MaybeContent]
           /\ unsure \subseteq unsure' /\ unsure' \subseteq Table
           /\ \A t \in Table \ unsure' : saved'[t] = saved[t]
  <1>1. PICK garbled \in SUBSET TornIn(ds) : \E content \in [garbled -> Content] :
            /\ saved' = [t \in Table |-> IF t \in garbled THEN content[t] ELSE saved[t]]
            /\ unsure' = unsure \cup garbled
    BY DEF LoadTorn
  <1>2. PICK content \in [garbled -> Content] :
            saved' = [t \in Table |-> IF t \in garbled THEN content[t] ELSE saved[t]]
    BY <1>1
  <1>3. garbled \subseteq Table
    BY DEF TornIn
  <1>4. \A t \in Table : saved[t] \in MaybeContent
    BY DEF TypeOK, MaybeContent
  <1>5. \A t \in Table : (IF t \in garbled THEN content[t] ELSE saved[t]) \in MaybeContent
    BY <1>4 DEF MaybeContent
  <1>6. saved' \in [Table -> MaybeContent]
    BY <1>2, <1>5
  <1>7. \A t \in Table \ unsure' : saved'[t] = saved[t]
    BY <1>1, <1>2
  <1> QED
    BY <1>1, <1>3, <1>6, <1>7 DEF TypeOK

\* What a database is loaded from, before or after a torn file has changed it.
Sources(torn) == [t \in Table |-> IF t \in torn THEN saved[t] ELSE saved'[t]]

LEMMA StartLoads ==
    ASSUME TypeOK, Start
    PROVE  /\ LoadTorn(dirs) /\ saved' \in [Table -> MaybeContent]
           /\ \E before \in [dirs -> SUBSET TornIn(dirs)] :
                tables' = [d \in Database |->
                            IF d \in dirs THEN Loaded(d, Sources(before[d])) ELSE NoTables]
           /\ \A torn : Sources(torn) \in [Table -> MaybeContent]
  <1>1. saved' \in [Table -> MaybeContent] /\ LoadTorn(dirs)
    BY LoadTornShape DEF Start, TypeOK
  <1>2. saved \in [Table -> MaybeContent]
    BY DEF TypeOK, MaybeContent
  <1> QED
    BY <1>1, <1>2 DEF Start, Sources

LEMMA NoTablesType ==
    /\ NoTables \in [Table -> MaybeContent] /\ \A t \in Table : NoTables[t] = Nothing
    /\ NoFiles \in [Table -> File] /\ \A t \in Table : NoFiles[t] = "none"
  BY DEF NoTables, NoFiles, MaybeContent, File

\* What saving the columns of a table does to what is saved.
LEMMA SaveColumnsPoint ==
    ASSUME TypeOK, NEW t \in Table, NEW columns \in SUBSET Column, SaveColumns(t, columns)
    PROVE  /\ saved' \in [Table -> MaybeContent]
           /\ \A u \in Table : u # t => saved'[u] = saved[u]
           /\ columns # {} => saved'[t] = With(Found(t), columns) /\ saved'[t] # Nothing
  <1>1. With(Found(t), columns) \in Content
    BY ContentTypes, FoundType
  <1>2. CASE columns = {}
    BY <1>2 DEF SaveColumns, TypeOK, MaybeContent
  <1>3. CASE columns # {}
    BY <1>1, <1>3, ContentTypes DEF SaveColumns, TypeOK, MaybeContent
  <1> QED
    BY <1>2, <1>3

\* The parts of the types, as the actions change them.
TablesType == tables \in [Database -> [Table -> MaybeContent]]
FilesType == files \in [Database -> [Table -> File]]
ExpectedType == expected \in [Database -> [Table -> MaybeContent]]
EngineType == engine \in [Database -> SUBSET Table]

LEMMA Types == TypeOK => TablesType /\ FilesType /\ ExpectedType /\ EngineType
  BY DEF TypeOK, TablesType, FilesType, ExpectedType, EngineType, MaybeContent, File

\* One table of one database is set, in the manager, on disk, in the history.
LEMMA SetTablePoint ==
    ASSUME TypeOK, NEW d \in Database, NEW t \in Table, NEW c, SetTable(d, t, c)
    PROVE  /\ \A e \in Database : \A u \in Table :
                tables'[e][u] = IF e = d /\ u = t THEN c ELSE tables[e][u]
           /\ c \in MaybeContent => TablesType'
  BY SetPoint, Types DEF SetTable, TablesType

LEMMA SetFilePoint ==
    ASSUME TypeOK, NEW d \in Database, NEW t \in Table, NEW file \in File, SetFile(d, t, file)
    PROVE  /\ \A e \in Database : \A u \in Table :
                files'[e][u] = IF e = d /\ u = t THEN file ELSE files[e][u]
           /\ FilesType'
  BY SetPoint, Types DEF SetFile, FilesType

LEMMA ExpectPoint ==
    ASSUME TypeOK, NEW d \in Database, NEW t \in Table, NEW c, Expect(d, t, c)
    PROVE  /\ \A e \in Database : \A u \in Table :
                expected'[e][u] = IF e = d /\ u = t THEN c ELSE expected[e][u]
           /\ c \in MaybeContent => ExpectedType'
  BY SetPoint, Types DEF Expect, ExpectedType

\* Where nothing is left of the process.
LEMMA DownShape ==
    ASSUME Down
    PROVE  /\ up' = FALSE /\ databases' = {} /\ TablesType' /\ EngineType'
           /\ \A d \in Database : \A t \in Table : tables'[d][t] = Nothing
  BY NoTablesType DEF Down, TablesType, EngineType

-----------------------------------------------------------------------------
(* Types. *)

SavedType == saved \in [Table -> MaybeContent]
SetsType ==
    /\ up \in BOOLEAN /\ databases \subseteq Database /\ dirs \subseteq Database
    /\ made \subseteq Database /\ faulty \subseteq Database /\ unsure \subseteq Table

LEMMA TypeParts ==
    TypeOK <=> TablesType /\ FilesType /\ ExpectedType /\ EngineType /\ SavedType /\ SetsType
  BY DEF TypeOK, TablesType, FilesType, ExpectedType, EngineType, SavedType, SetsType,
         MaybeContent, File

LEMMA NextTypeParts ==
    ASSUME TablesType', FilesType', ExpectedType', EngineType', SavedType', SetsType'
    PROVE  TypeOK'
  BY DEF TypeOK, TablesType, FilesType, ExpectedType, EngineType, SavedType, SetsType,
         MaybeContent, File

LEMMA RemovedTypes ==
    ASSUME TypeOK, NEW d \in Database, Removed(d)
    PROVE  /\ FilesType' /\ dirs' \subseteq Database /\ faulty' \subseteq Database
           /\ \A e \in Database : \A t \in Table :
                files'[e][t] # "none" => files[e][t] # "none" /\ (e # d \/ d \in faulty')
           /\ \A e \in Database : e # d => files'[e] = files[e]
           /\ \/ dirs' = dirs \ {d} /\ faulty' = faulty \ {d}
              \/ dirs' = dirs /\ faulty' = faulty \cup {d}
  <1>1. CASE /\ dirs' = dirs \ {d}
             /\ files' = [files EXCEPT ![d] = NoFiles]
             /\ faulty' = faulty \ {d}
    BY <1>1, NoTablesType, Types DEF FilesType, TypeOK
  <1>2. ASSUME NEW gone \in SUBSET Listed(d),
               files' = [files EXCEPT ![d] =
                            [t \in Table |-> IF t \in gone THEN "none" ELSE files[d][t]]],
               faulty' = faulty \cup {d}, UNCHANGED dirs
        PROVE  /\ FilesType'
               /\ \A e \in Database : \A t \in Table :
                    files'[e][t] # "none" => files[e][t] # "none" /\ (e # d \/ d \in faulty')
               /\ \A e \in Database : e # d => files'[e] = files[e]
    <2> DEFINE left == [t \in Table |-> IF t \in gone THEN "none" ELSE files[d][t]]
    <2>1. left \in [Table -> File] /\ \A t \in Table : left[t] # "none" => files[d][t] # "none"
      BY Types DEF FilesType, File
    <2>2. files' = [files EXCEPT ![d] = left]
      BY <1>2
    <2> HIDE DEF left
    <2> QED
      BY <1>2, <2>1, <2>2, Types DEF FilesType
  <1> QED
    BY <1>1, <1>2 DEF Removed, TypeOK

LEMMA DatabaseTypes ==
    ASSUME TypeOK, NEW d \in Database,
           createDatabase(d) \/ HalfMadeDatabase(d) \/ dropDatabase(d)
    PROVE  TypeOK'
  <1>0. TablesType /\ FilesType /\ ExpectedType /\ EngineType /\ SavedType /\ SetsType
    BY TypeParts
  <1> USE DEF SavedType, SetsType
  <1>1. CASE createDatabase(d)
    <2>1. FilesType' /\ ExpectedType' /\ LoadTorn({d})
      BY <1>0, <1>1 DEF createDatabase, FilesType, ExpectedType
    <2>4. SavedType' /\ unsure' \subseteq Table
      BY <2>1, LoadTornShape
    <2>2. CASE Down
      <3>1. TablesType' /\ EngineType' /\ up' = FALSE /\ databases' = {}
        BY <2>2, DownShape
      <3>2. SetsType'
        BY <1>0, <1>1, <2>4, <3>1 DEF createDatabase
      <3> QED
        BY <2>1, <2>4, <3>1, <3>2, NextTypeParts
    <2>3. CASE /\ databases' = databases \cup {d}
               /\ tables' = [tables EXCEPT ![d] = Loaded(d, saved')]
               /\ engine' = [engine EXCEPT ![d] = Listed(d)]
               /\ made' = made \cup {d}
               /\ UNCHANGED <<up, faulty>>
      <3>1. TablesType' /\ EngineType'
        <4>1. Loaded(d, saved') \in [Table -> MaybeContent] /\ Listed(d) \subseteq Table
          BY <2>4, LoadedTypes
        <4> QED
          BY <1>0, <2>3, <4>1 DEF TablesType, EngineType
      <3>2. SetsType'
        BY <1>0, <1>1, <2>3, <2>4 DEF createDatabase
      <3> QED
        BY <2>1, <2>4, <3>1, <3>2, NextTypeParts
    <2> QED
      BY <1>1, <2>2, <2>3 DEF createDatabase
  <1>2. CASE HalfMadeDatabase(d)
    <2>1. /\ TablesType' /\ EngineType' /\ FilesType' /\ SavedType' /\ ExpectedType'
      BY <1>0, <1>2 DEF HalfMadeDatabase, memory, TablesType, EngineType, FilesType, ExpectedType
    <2>2. SetsType'
      BY <1>0, <1>2 DEF HalfMadeDatabase, memory
    <2> QED
      BY <2>1, <2>2, NextTypeParts
  <1>3. CASE dropDatabase(d)
    <2>1. FilesType' /\ dirs' \subseteq Database /\ faulty' \subseteq Database
      BY <1>3, RemovedTypes DEF dropDatabase
    <2>2. TablesType' /\ EngineType' /\ ExpectedType' /\ SavedType'
      BY <1>0, <1>3, NoTablesType DEF dropDatabase, TablesType, EngineType, ExpectedType
    <2>3. SetsType'
      BY <1>0, <1>3, <2>1 DEF dropDatabase
    <2> QED
      BY <2>1, <2>2, <2>3, NextTypeParts
  <1> QED
    BY <1>1, <1>2, <1>3

LEMMA ProcessTypes ==
    ASSUME TypeOK, Crash \/ Start
    PROVE  TypeOK'
  <1>0. TablesType /\ FilesType /\ ExpectedType /\ EngineType /\ SavedType /\ SetsType
    BY TypeParts
  <1>1. FilesType' /\ ExpectedType' /\ UNCHANGED <<dirs, made, faulty>>
    BY <1>0 DEF Crash, Start, disk, history, FilesType, ExpectedType
  <1>4. SavedType' /\ unsure' \subseteq Table
    <2>1. CASE Crash
      BY <1>0, <2>1 DEF Crash, disk, history, SavedType, SetsType
    <2>2. CASE Start
      <3>1. dirs \in SUBSET Database
        BY DEF TypeOK
      <3> QED
        BY <2>2, <3>1, StartLoads, LoadTornShape DEF SavedType
    <2> QED
      BY <2>1, <2>2
  <1>2. TablesType' /\ EngineType' /\ up' \in BOOLEAN /\ databases' \subseteq Database
    <2>1. CASE Crash
      BY <2>1, DownShape DEF Crash
    <2>2. CASE Start
      <3>1. PICK before \in [dirs -> SUBSET TornIn(dirs)] :
                tables' = [d \in Database |->
                            IF d \in dirs THEN Loaded(d, Sources(before[d])) ELSE NoTables]
        BY <2>2, StartLoads
      <3>2. \A d \in Database : (IF d \in dirs THEN Loaded(d, Sources(before[d])) ELSE NoTables)
                                    \in [Table -> MaybeContent]
        BY <2>2, StartLoads, LoadedTypes, NoTablesType
      <3>3. \A d \in Database : (IF d \in dirs THEN Listed(d) ELSE {}) \in SUBSET Table
        BY DEF Listed
      <3> QED
        BY <1>0, <2>2, <3>1, <3>2, <3>3 DEF Start, TablesType, EngineType, SetsType
    <2> QED
      BY <2>1, <2>2
  <1>3. SetsType'
    BY <1>0, <1>1, <1>2, <1>4 DEF SetsType
  <1> QED
    BY <1>1, <1>2, <1>3, <1>4, NextTypeParts

LEMMA MarkUnsureTypes ==
    ASSUME TypeOK, NEW t \in Table, MarkUnsure(t)
    PROVE  /\ unsure' \subseteq Table /\ unsure \subseteq unsure'
           /\ t \notin unsure' => t \notin unsure /\ saved[t] = Nothing
           /\ \A u \in Table : u # t /\ u \notin unsure' => u \notin unsure
  BY DEF MarkUnsure, TypeOK

LEMMA CreateTableTypes ==
    ASSUME TypeOK, NEW d \in Database, NEW t \in Table, NEW ddl \in Ddl,
           CreateTable(d, t, ddl) \/ CreateTableFails(d, t, ddl) \/ CrashInCreate(d, t, ddl)
    PROVE  TypeOK'
  <1>0. TablesType /\ FilesType /\ ExpectedType /\ EngineType /\ SavedType /\ SetsType
    BY TypeParts
  <1> DEFINE added == Addable(ddl, Found(t).columns)
  <1>1. Range(ddl) \in SUBSET Column /\ added \in SUBSET Column
    BY DdlColumns
  <1>2. Found(t) \in Content
    BY FoundType
  <1>3. With(Found(t), Range(ddl)) \in MaybeContent /\ With(Found(t), added) \in MaybeContent
    BY <1>1, <1>2, ContentTypes DEF MaybeContent
  <1>4. "none" \in File /\ {"torn", "whole"} \subseteq File
    BY DEF File
  <1> HIDE DEF added
  <1>5. CASE CreateTable(d, t, ddl)
    <2>1. TablesType' /\ FilesType'
      BY <1>3, <1>4, <1>5, SetTablePoint, SetFilePoint DEF CreateTable
    <2>2. EngineType' /\ SavedType'
      BY <1>0, <1>1, <1>5, SaveColumnsPoint DEF CreateTable, EngineType, SavedType
    <2>3. ExpectedType'
      <3>1. [columns |-> Range(ddl), rows |-> {}] \in MaybeContent
        BY <1>1 DEF MaybeContent, Content
      <3> QED
        BY <1>5, <3>1, ExpectPoint DEF CreateTable
    <2>4. SetsType'
      BY <1>0, <1>5, MarkUnsureTypes DEF CreateTable, SetsType
    <2> QED
      BY <2>1, <2>2, <2>3, <2>4, NextTypeParts
  <1>6. CASE CreateTableFails(d, t, ddl)
    <2>1. TablesType' /\ FilesType'
      <3>1. CASE SetFile(d, t, "none") /\ UNCHANGED tables
        BY <1>0, <1>4, <3>1, SetFilePoint DEF TablesType
      <3>2. CASE /\ \E file \in {"torn", "whole"} : SetFile(d, t, file)
                 /\ SetTable(d, t, With(Found(t), added))
        BY <1>3, <1>4, <3>2, SetTablePoint, SetFilePoint
      <3> QED
        BY <1>6, <3>1, <3>2 DEF CreateTableFails, added
    <2>2. SavedType'
      BY <1>1, <1>6, SaveColumnsPoint DEF CreateTableFails, SavedType, added
    <2>3. EngineType' /\ ExpectedType'
      BY <1>0, <1>6 DEF CreateTableFails, EngineType, ExpectedType
    <2>4. SetsType'
      BY <1>0, <1>6, MarkUnsureTypes DEF CreateTableFails, SetsType
    <2> QED
      BY <2>1, <2>2, <2>3, <2>4, NextTypeParts
  <1>7. CASE CrashInCreate(d, t, ddl)
    <2>1. Down /\ unsure' = unsure \cup {t} /\ UNCHANGED <<dirs, made, expected, faulty>>
      BY <1>7 DEF CrashInCreate
    <2>2. TablesType' /\ EngineType' /\ up' = FALSE /\ databases' = {}
      BY <2>1, DownShape
    <2>3. FilesType'
      BY <1>4, <1>7, SetFilePoint DEF CrashInCreate
    <2>4. SavedType'
      <3>1. CASE UNCHANGED saved
        BY <1>0, <3>1 DEF SavedType
      <3>2. ASSUME NEW some \in SUBSET added, SaveColumns(t, some)
            PROVE  SavedType'
        BY <1>1, <3>2, SaveColumnsPoint DEF SavedType
      <3> QED
        BY <1>7, <3>1, <3>2 DEF CrashInCreate, added
    <2>5. SetsType' /\ ExpectedType'
      BY <1>0, <2>1, <2>2 DEF SetsType, ExpectedType
    <2> QED
      BY <2>2, <2>3, <2>4, <2>5, NextTypeParts
  <1> QED
    BY <1>5, <1>6, <1>7

LEMMA UseTableTypes ==
    ASSUME TypeOK, NEW d \in Database, NEW t \in Table, NEW rows \in SUBSET Row,
           dropTable(d, t) \/ WriteRows(d, t, rows)
    PROVE  TypeOK'
  <1>0. TablesType /\ FilesType /\ ExpectedType /\ EngineType /\ SavedType /\ SetsType
    BY TypeParts
  <1>1. Nothing \in MaybeContent /\ "none" \in File
    BY DEF MaybeContent, File
  <1>2. CASE dropTable(d, t)
    <2>1. ExpectedType'
      BY <1>1, <1>2, ExpectPoint DEF dropTable
    <2>2. TablesType' /\ FilesType'
      <3>1. CASE SetFile(d, t, "none") /\ SetTable(d, t, Nothing)
        BY <1>1, <3>1, SetTablePoint, SetFilePoint
      <3>2. CASE UNCHANGED <<files, tables>>
        BY <1>0, <3>2 DEF TablesType, FilesType
      <3> QED
        BY <1>2, <3>1, <3>2 DEF dropTable, Unlisted
    <2>3. EngineType' /\ SavedType' /\ SetsType'
      BY <1>0, <1>2 DEF dropTable, Unlisted, EngineType, SavedType, SetsType
    <2> QED
      BY <2>1, <2>2, <2>3, NextTypeParts
  <1>3. CASE WriteRows(d, t, rows)
    <2>1. tables[d][t] \in Content
      BY <1>0, <1>3 DEF WriteRows, TablesType, MaybeContent
    <2>2. WithRows(tables[d][t], rows) \in MaybeContent
      BY <2>1, ContentTypes DEF MaybeContent
    <2>3. TablesType' /\ SavedType'
      BY <1>0, <1>3, <2>2, SetTablePoint DEF WriteRows, SavedType
    <2>4. ExpectedType'
      <3>1. CASE expected[d][t] = Nothing
        BY <1>0, <1>3, <3>1 DEF WriteRows, ExpectedType
      <3>2. CASE expected[d][t] # Nothing
        <4>1. WithRows(expected[d][t], rows) \in MaybeContent
          BY <1>0, <3>2, ContentTypes DEF ExpectedType, MaybeContent
        <4> QED
          BY <1>3, <3>2, <4>1, ExpectPoint DEF WriteRows
      <3> QED
        BY <3>1, <3>2
    <2>5. EngineType' /\ FilesType' /\ SetsType'
      BY <1>0, <1>3 DEF WriteRows, EngineType, FilesType, SetsType
    <2> QED
      BY <2>3, <2>4, <2>5, NextTypeParts
  <1> QED
    BY <1>2, <1>3

LEMMA NextTypes == TypeOK /\ [Next]_vars => TypeOK'
  <1> SUFFICES ASSUME TypeOK, [Next]_vars PROVE TypeOK'
    OBVIOUS
  <1>1. CASE UNCHANGED vars
    BY <1>1 DEF vars, memory, disk, history, TypeOK
  <1> QED
    BY <1>1, DatabaseTypes, ProcessTypes, CreateTableTypes, UseTableTypes DEF Next

LEMMA InitTypes == Init => TypeOK
  <1> SUFFICES ASSUME Init PROVE TypeOK
    OBVIOUS
  <1>1. TablesType /\ FilesType /\ ExpectedType /\ EngineType /\ SavedType /\ SetsType
    BY NoTablesType
       DEF Init, TablesType, FilesType, ExpectedType, EngineType, SavedType, SetsType
  <1> QED
    BY <1>1, TypeParts

\* The catalog has its types, in memory and on disk, whatever the commands are
\* and wherever the process ends.
THEOREM TypeCorrect == Spec => []TypeOK
  BY InitTypes, NextTypes, PTL DEF Spec

-----------------------------------------------------------------------------
(* The invariant, one table at a time. *)

MapsAt(d, t) ==
    /\ t \in engine[d] <=> files[d][t] # "none"
    /\ t \in engine[d] <=> tables[d][t] # Nothing

LEMMA MapsPointwise ==
    ASSUME TypeOK, MapsAgree, NEW d \in databases \ faulty, NEW t \in Table
    PROVE  MapsAt(d, t)
  BY DEF TypeOK, MapsAgree, MapsAt, Listed

LEMMA NextMapsAgree ==
    ASSUME TypeOK', \A d \in databases' \ faulty' : \A t \in Table : MapsAt(d, t)'
    PROVE  MapsAgree'
  <1>1. \A d \in databases' : engine'[d] \subseteq Table
    BY DEF TypeOK
  <1> QED
    BY <1>1 DEF MapsAgree, MapsAt, Listed

NamesAt(t) ==
    /\ \A d \in dirs \ faulty :
            /\ files[d][t] # "none" <=> expected[d][t] # Nothing
            /\ expected[d][t] # Nothing => saved[t] = expected[d][t]
    /\ \A d \in Database : Known(d, t) => saved[t] # Nothing
    /\ \A d, e \in Database : Known(d, t) /\ Known(e, t) => d = e

AnsweredAt(t) ==
    \A d \in databases \ faulty :
        /\ tables[d][t] = expected[d][t]
        /\ tables[d][t] # Nothing => saved[t] = tables[d][t]

LEMMA AtNames ==
    /\ NamesInv <=> \A t \in Table \ unsure : NamesAt(t)
    /\ TablesAsAnswered <=> \A t \in Table \ unsure : AnsweredAt(t)
  BY DEF NamesInv, NamesAt, TablesAsAnswered, AnsweredAt

LEMMA NextAtNames ==
    /\ NamesInv' <=> \A t \in Table \ unsure' : NamesAt(t)'
    /\ TablesAsAnswered' <=> \A t \in Table \ unsure' : AnsweredAt(t)'
  BY DEF NamesInv, NamesAt, TablesAsAnswered, AnsweredAt

\* What speaks of a table only gets less, and what is saved of it stays.
LEMMA NamesKept ==
    ASSUME NEW t \in Table, NamesAt(t), saved'[t] = saved[t], dirs' \subseteq Database,
           \A d \in Database : Known(d, t)' => Known(d, t),
           \A d \in dirs' \ faulty' :
                \/ /\ d \in dirs \ faulty
                   /\ files'[d][t] = files[d][t] /\ expected'[d][t] = expected[d][t]
                \/ files'[d][t] = "none" /\ expected'[d][t] = Nothing
    PROVE  NamesAt(t)'
  <1>1. \A d \in dirs' \ faulty' :
            /\ files'[d][t] # "none" <=> expected'[d][t] # Nothing
            /\ expected'[d][t] # Nothing => saved'[t] = expected'[d][t]
    BY DEF NamesAt
  <1>2. \A d \in Database : Known(d, t)' => saved'[t] # Nothing
    BY DEF NamesAt
  <1>3. \A d, e \in Database : Known(d, t)' /\ Known(e, t)' => d = e
    BY DEF NamesAt
  <1> QED
    BY <1>1, <1>2, <1>3 DEF NamesAt

LEMMA AnsweredKept ==
    ASSUME NEW t \in Table, AnsweredAt(t), saved'[t] = saved[t],
           \A d \in databases' \ faulty' :
                /\ d \in databases \ faulty
                /\ tables'[d][t] = tables[d][t] /\ expected'[d][t] = expected[d][t]
    PROVE  AnsweredAt(t)'
  BY DEF AnsweredAt

\* A whole directory is loaded as it was answered.
LEMMA LoadedAnswered ==
    ASSUME TypeOK, CatalogInv, NEW d \in dirs \ faulty, NEW t \in Table \ unsure,
           NEW contents, contents[t] = saved[t]
    PROVE  /\ Loaded(d, contents)[t] = expected[d][t]
           /\ Loaded(d, contents)[t] # Nothing => saved[t] = Loaded(d, contents)[t]
  <1>1. NamesAt(t)
    BY AtNames DEF CatalogInv
  <1>2. d \in Database
    BY DEF TypeOK
  <1>3. t \in Listed(d) <=> expected[d][t] # Nothing
    BY <1>1 DEF NamesAt, Listed
  <1>4. CASE t \in Listed(d)
    <2>1. saved[t] = expected[d][t] /\ saved[t] # Nothing
      BY <1>1, <1>3, <1>4 DEF NamesAt
    <2>2. Loaded(d, contents)[t] = saved[t]
      BY <1>4, <2>1 DEF Loaded, Filled
    <2> QED
      BY <2>1, <2>2
  <1>5. CASE t \notin Listed(d)
    BY <1>3, <1>5 DEF Loaded
  <1> QED
    BY <1>4, <1>5

\* Where there is no directory nothing is loaded.
LEMMA NothingLoaded ==
    ASSUME TypeOK, CatalogInv, NEW d \in Database \ dirs, NEW t \in Table
    PROVE  /\ \A contents : Loaded(d, contents)[t] = Nothing
           /\ expected[d][t] = Nothing /\ files[d][t] = "none"
  BY DEF CatalogInv, DirectoriesInv, Loaded, Listed

-----------------------------------------------------------------------------
(* The actions on processes and databases. *)

LEMMA ProcessInv ==
    ASSUME TypeOK, TypeOK', CatalogInv, Crash \/ Start
    PROVE  CatalogInv'
  <1>1. UNCHANGED <<dirs, files, made, expected, faulty>>
    BY DEF Crash, Start, disk, history
  <1>2. \A d \in Database : \A t \in Table : Known(d, t)' => Known(d, t)
    <2> SUFFICES ASSUME NEW d \in Database, NEW t \in Table, tables'[d][t] # Nothing
                 PROVE  files[d][t] # "none"
      BY <1>1 DEF Known
    <2>1. Start
      BY DownShape DEF Crash
    <2>2. PICK source \in [Table -> MaybeContent] :
            tables'[d] = IF d \in dirs THEN Loaded(d, source) ELSE NoTables
      BY <2>1, StartLoads
    <2>3. d \in dirs /\ Loaded(d, source)[t] # Nothing
      BY <2>2, NoTablesType
    <2> QED
      BY <2>3, LoadedTypes DEF Listed
  <1>3. DirectoriesInv'
    <2>1. CASE Crash
      BY <1>1, <2>1, DownShape DEF Crash, CatalogInv, DirectoriesInv
    <2>2. CASE Start
      BY <1>1, <2>2 DEF Start, CatalogInv, DirectoriesInv
    <2> QED
      BY <2>1, <2>2
  <1>7. ASSUME NEW t \in Table \ unsure'
        PROVE  t \in Table \ unsure /\ saved'[t] = saved[t]
    <2>1. CASE Crash
      BY <2>1 DEF Crash, disk, history
    <2>2. CASE Start
      <3>1. dirs \in SUBSET Database
        BY DEF TypeOK
      <3> QED
        BY <2>2, <3>1, StartLoads, LoadTornShape
    <2> QED
      BY <2>1, <2>2
  <1>4. NamesInv'
    <2> SUFFICES ASSUME NEW t \in Table \ unsure' PROVE NamesAt(t)'
      BY NextAtNames
    <2>1. t \in Table \ unsure /\ saved'[t] = saved[t] /\ NamesAt(t)
      BY <1>7, AtNames DEF CatalogInv
    <2>2. dirs' \subseteq Database
      BY DEF TypeOK
    <2> QED
      BY <1>1, <1>2, <2>1, <2>2, NamesKept
  <1>5. MapsAgree'
    <2>1. CASE Crash
      BY <2>1, DownShape DEF Crash, MapsAgree
    <2>2. CASE Start
      <3> SUFFICES ASSUME NEW d \in databases' \ faulty', NEW t \in Table
                   PROVE  MapsAt(d, t)'
        BY NextMapsAgree
      <3>1. d \in dirs /\ d \in Database
        BY <2>2 DEF Start, TypeOK
      <3>2. PICK source \in [Table -> MaybeContent] : tables'[d] = Loaded(d, source)
        BY <2>2, <3>1, StartLoads
      <3>3. engine'[d] = Listed(d) /\ files' = files
        BY <1>1, <2>2, <3>1 DEF Start
      <3> QED
        BY <3>1, <3>2, <3>3, LoadedTypes DEF MapsAt, Listed
    <2> QED
      BY <2>1, <2>2
  <1>6. TablesAsAnswered'
    <2>1. CASE Crash
      BY <2>1, DownShape DEF Crash, TablesAsAnswered
    <2>2. CASE Start
      <3> SUFFICES ASSUME NEW t \in Table \ unsure', NEW d \in databases' \ faulty'
                   PROVE  /\ tables'[d][t] = expected'[d][t]
                          /\ tables'[d][t] # Nothing => saved'[t] = tables'[d][t]
        BY DEF TablesAsAnswered
      <3>1. d \in dirs \ faulty /\ d \in Database
        BY <1>1, <2>2 DEF Start, TypeOK
      <3>2. PICK torn : tables'[d] = Loaded(d, Sources(torn))
        BY <2>2, <3>1, StartLoads
      <3>3. t \in Table \ unsure /\ saved'[t] = saved[t]
        BY <1>7
      <3>4. Sources(torn)[t] = saved[t]
        BY <3>3 DEF Sources
      <3> QED
        BY <1>1, <3>1, <3>2, <3>3, <3>4, LoadedAnswered
    <2> QED
      BY <2>1, <2>2
  <1> QED
    BY <1>3, <1>4, <1>5, <1>6 DEF CatalogInv

\* The manager and the engine of d are loaded from what is there.
LEMMA CreateDatabaseInv ==
    ASSUME TypeOK, TypeOK', CatalogInv, NEW d \in Database, createDatabase(d)
    PROVE  CatalogInv'
  <1>1. /\ up /\ d \notin databases /\ dirs' = dirs \cup {d}
        /\ LoadTorn({d}) /\ UNCHANGED <<files, expected>>
    BY DEF createDatabase
  <1>7. /\ saved' \in [Table -> MaybeContent]
        /\ \A t \in Table \ unsure' : t \in Table \ unsure /\ saved'[t] = saved[t]
    BY <1>1, LoadTornShape
  <1>2. d \in dirs => d \in faulty
    BY <1>1 DEF CatalogInv, DirectoriesInv
  <1>3. \A t \in Table : d \notin dirs => files[d][t] = "none" /\ expected[d][t] = Nothing
    BY NothingLoaded
  <1>4. ASSUME NEW t \in Table, \A e \in Database : Known(e, t)' => Known(e, t),
               faulty \subseteq faulty', t \notin unsure'
        PROVE  NamesAt(t)'
    <2>1. NamesAt(t) /\ saved'[t] = saved[t]
      BY <1>4, <1>7, AtNames DEF CatalogInv
    <2>2. \A e \in dirs' \ faulty' :
            e \in dirs \ faulty \/ (files'[e][t] = "none" /\ expected'[e][t] = Nothing)
      BY <1>1, <1>2, <1>3, <1>4
    <2>3. dirs' \subseteq Database
      BY DEF TypeOK
    <2> QED
      BY <1>1, <1>4, <2>1, <2>2, <2>3, NamesKept
  <1>5. CASE Down /\ faulty' = faulty \cup {d} /\ UNCHANGED made
    <2>1. up' = FALSE /\ databases' = {} /\ \A e \in Database : \A t \in Table : tables'[e][t] = Nothing
      BY <1>5, DownShape
    <2>2. DirectoriesInv'
      BY <1>1, <1>5, <2>1 DEF CatalogInv, DirectoriesInv
    <2>3. NamesInv'
      BY <1>1, <1>4, <1>5, <2>1, NextAtNames DEF Known
    <2> QED
      BY <2>1, <2>2, <2>3 DEF CatalogInv, MapsAgree, TablesAsAnswered
  <1>6. CASE /\ databases' = databases \cup {d}
             /\ tables' = [tables EXCEPT ![d] = Loaded(d, saved')]
             /\ engine' = [engine EXCEPT ![d] = Listed(d)]
             /\ made' = made \cup {d}
             /\ UNCHANGED <<up, faulty>>
    <2>1. \A e \in Database : /\ tables'[e] = IF e = d THEN Loaded(d, saved') ELSE tables[e]
                              /\ engine'[e] = IF e = d THEN Listed(d) ELSE engine[e]
      BY <1>6 DEF TypeOK
    <2>2. DirectoriesInv'
      BY <1>1, <1>3, <1>6 DEF CatalogInv, DirectoriesInv
    <2>3. NamesInv'
      <3> SUFFICES ASSUME NEW t \in Table \ unsure' PROVE NamesAt(t)'
        BY NextAtNames
      <3>1. \A e \in Database : Known(e, t)' => Known(e, t)
        <4>1. Loaded(d, saved')[t] # Nothing => files[d][t] # "none"
          BY <1>7, LoadedTypes DEF Listed
        <4> QED
          BY <1>1, <2>1, <4>1 DEF Known
      <3> QED
        BY <1>4, <1>6, <3>1
    <2>4. MapsAgree'
      <3> SUFFICES ASSUME NEW e \in databases' \ faulty', NEW t \in Table
                   PROVE  MapsAt(e, t)'
        BY NextMapsAgree
      <3>1. e \in Database /\ files' = files
        BY <1>1 DEF TypeOK
      <3>2. CASE e = d
        <4>1. Loaded(d, saved')[t] # Nothing <=> t \in Listed(d)
          BY <1>7, LoadedTypes
        <4>2. tables'[e] = Loaded(d, saved') /\ engine'[e] = Listed(d)
          BY <2>1, <3>2
        <4> QED
          BY <3>1, <3>2, <4>1, <4>2 DEF MapsAt, Listed
      <3>3. CASE e # d
        <4>1. e \in databases \ faulty
          BY <1>6, <3>3
        <4> QED
          BY <2>1, <3>1, <3>3, <4>1, MapsPointwise DEF MapsAt, CatalogInv
      <3> QED
        BY <3>2, <3>3
    <2>5. TablesAsAnswered'
      <3> SUFFICES ASSUME NEW t \in Table \ unsure', NEW e \in databases' \ faulty'
                   PROVE  /\ tables'[e][t] = expected'[e][t]
                          /\ tables'[e][t] # Nothing => saved'[t] = tables'[e][t]
        BY DEF TablesAsAnswered
      <3>1. e \in Database
        BY DEF TypeOK
      <3>2. CASE e = d
        <4>1. d \notin dirs
          BY <1>2, <1>6, <3>2
        <4> QED
          BY <1>1, <2>1, <3>2, <4>1, NothingLoaded
      <3>3. CASE e # d
        BY <1>1, <1>6, <1>7, <2>1, <3>1, <3>3 DEF CatalogInv, TablesAsAnswered
      <3> QED
        BY <3>2, <3>3
    <2> QED
      BY <2>2, <2>3, <2>4, <2>5 DEF CatalogInv
  <1> QED
    BY <1>5, <1>6 DEF createDatabase

LEMMA HalfMadeInv ==
    ASSUME TypeOK, TypeOK', CatalogInv, NEW d \in Database, HalfMadeDatabase(d)
    PROVE  CatalogInv'
  <1>1. /\ dirs' = dirs \cup {d} /\ faulty' = faulty \cup {d}
        /\ UNCHANGED <<up, databases, tables, engine, files, saved, made, expected, unsure>>
    BY DEF HalfMadeDatabase, memory
  <1>2. DirectoriesInv'
    BY <1>1 DEF CatalogInv, DirectoriesInv
  <1>3. NamesInv'
    BY <1>1 DEF CatalogInv, NamesInv, Known
  <1>4. MapsAgree' /\ TablesAsAnswered'
    BY <1>1 DEF CatalogInv, MapsAgree, TablesAsAnswered, Listed
  <1> QED
    BY <1>2, <1>3, <1>4 DEF CatalogInv

LEMMA DropDatabaseInv ==
    ASSUME TypeOK, TypeOK', CatalogInv, NEW d \in Database, dropDatabase(d)
    PROVE  CatalogInv'
  <1>1. /\ d \in databases /\ databases' = databases \ {d} /\ made' = made \ {d}
        /\ UNCHANGED <<up, saved, unsure>>
    BY DEF dropDatabase
  <1>2. /\ \A e \in Database : \A t \in Table :
            files'[e][t] # "none" => files[e][t] # "none" /\ (e # d \/ d \in faulty')
        /\ \A e \in Database : e # d => files'[e] = files[e]
        /\ \/ dirs' = dirs \ {d} /\ faulty' = faulty \ {d}
           \/ dirs' = dirs /\ faulty' = faulty \cup {d}
    BY RemovedTypes DEF dropDatabase
  <1>3. \A e \in Database : /\ tables'[e] = IF e = d THEN NoTables ELSE tables[e]
                            /\ engine'[e] = IF e = d THEN {} ELSE engine[e]
                            /\ expected'[e] = IF e = d THEN NoTables ELSE expected[e]
    BY DEF dropDatabase, TypeOK
  <1>4. DirectoriesInv'
    <2>1. /\ databases' \cup faulty' \subseteq dirs'
          /\ up' => dirs' \ faulty' \subseteq databases'
          /\ made' \ faulty' = dirs' \ faulty'
      BY <1>1, <1>2 DEF CatalogInv, DirectoriesInv
    <2>2. ASSUME NEW e \in Database \ dirs', NEW t \in Table
          PROVE  files'[e][t] = "none" /\ expected'[e][t] = Nothing
      <3>1. CASE e = d
        <4>1. d \notin faulty'
          BY <2>1, <2>2, <3>1
        <4> QED
          BY <1>2, <1>3, <3>1, <4>1, NoTablesType
      <3>2. CASE e # d
        BY <1>2, <1>3, <2>2, <3>2 DEF CatalogInv, DirectoriesInv
      <3> QED
        BY <3>1, <3>2
    <2> QED
      BY <2>1, <2>2 DEF DirectoriesInv
  <1>5. \A e \in (dirs' \ faulty') \cup (databases' \ faulty') : e # d
    BY <1>1, <1>2
  <1>6. NamesInv'
    <2> SUFFICES ASSUME NEW t \in Table \ unsure' PROVE NamesAt(t)'
      BY NextAtNames
    <2>1. t \in Table \ unsure /\ NamesAt(t)
      BY <1>1, AtNames DEF CatalogInv
    <2>2. \A e \in Database : Known(e, t)' => Known(e, t)
      BY <1>2, <1>3, NoTablesType DEF Known
    <2>3. dirs' \subseteq Database
      BY DEF TypeOK
    <2>4. \A e \in dirs' \ faulty' :
            /\ e \in dirs \ faulty
            /\ files'[e][t] = files[e][t] /\ expected'[e][t] = expected[e][t]
      BY <1>2, <1>3, <1>5, <2>3
    <2> QED
      BY <1>1, <2>1, <2>2, <2>3, <2>4, NamesKept
  <1>7. \A e \in databases' \ faulty' :
            e \in databases \ faulty /\ e \in Database /\ e # d
    BY <1>1, <1>2, <1>5 DEF TypeOK
  <1>8. MapsAgree'
    <2> SUFFICES ASSUME NEW e \in databases' \ faulty', NEW t \in Table
                 PROVE  MapsAt(e, t)'
      BY NextMapsAgree
    <2>1. MapsAt(e, t)
      BY <1>7, MapsPointwise DEF CatalogInv
    <2> QED
      BY <1>2, <1>3, <1>7, <2>1 DEF MapsAt
  <1>9. TablesAsAnswered'
    <2> SUFFICES ASSUME NEW t \in Table \ unsure' PROVE AnsweredAt(t)'
      BY NextAtNames
    <2>1. AnsweredAt(t)
      BY <1>1, AtNames DEF CatalogInv
    <2> QED
      BY <1>1, <1>3, <1>7, <2>1, AnsweredKept
  <1> QED
    BY <1>4, <1>6, <1>8, <1>9 DEF CatalogInv
-----------------------------------------------------------------------------
(* The actions on tables. *)

\* An action on the one table t leaves what is said of every other.
LEMMA OtherTables ==
    ASSUME CatalogInv, TypeOK, TypeOK', NEW t \in Table, NEW u \in Table, u # t,
           u \notin unsure, saved'[u] = saved[u],
           dirs' = dirs, databases' \subseteq databases, faulty \subseteq faulty',
           \A e \in Database :
                /\ tables'[e][u] = tables[e][u] \/ tables'[e][u] = Nothing
                /\ e \in databases' => tables'[e][u] = tables[e][u]
                /\ files'[e][u] = files[e][u]
                /\ expected'[e][u] = expected[e][u]
    PROVE  NamesAt(u)' /\ AnsweredAt(u)'
  <1>1. NamesAt(u) /\ AnsweredAt(u)
    BY AtNames DEF CatalogInv
  <1>2. dirs' \subseteq Database /\ databases' \subseteq Database
    BY DEF TypeOK
  <1>3. \A e \in Database : Known(e, u)' => Known(e, u)
    BY DEF Known
  <1>4. NamesAt(u)'
    BY <1>1, <1>2, <1>3, NamesKept
  <1>5. AnsweredAt(u)'
    BY <1>1, <1>2, AnsweredKept
  <1> QED
    BY <1>4, <1>5

\* What is said of t once d alone knows it, and its columns are saved.
LEMMA SoleOwner ==
    ASSUME CatalogInv, TypeOK, TypeOK', NEW d \in Database, NEW t \in Table,
           t \notin unsure, saved[t] = Nothing, saved'[t] # Nothing,
           dirs' = dirs, databases' = databases, faulty \subseteq faulty',
           \A e \in Database : e # d =>
                /\ tables'[e][t] = tables[e][t]
                /\ files'[e][t] = files[e][t]
                /\ expected'[e][t] = expected[e][t],
           d \in faulty' \/ (/\ files'[d][t] # "none"
                            /\ tables'[d][t] = expected'[d][t]
                            /\ tables'[d][t] = saved'[t])
                         \/ (/\ files'[d][t] = "none" /\ expected'[d][t] = Nothing
                            /\ tables'[d][t] = Nothing)
    PROVE  NamesAt(t)' /\ AnsweredAt(t)'
  <1>1. \A e \in Database : ~Known(e, t)
    BY DEF CatalogInv, NamesInv
  <1>2. \A e \in Database : e # d => ~Known(e, t)'
    BY <1>1 DEF Known
  <1>3. dirs' \subseteq Database /\ databases' \subseteq Database
    BY DEF TypeOK
  <1>4. \A e \in dirs' \ faulty' :
            /\ files'[e][t] # "none" <=> expected'[e][t] # Nothing
            /\ expected'[e][t] # Nothing => saved'[t] = expected'[e][t]
    BY <1>2, <1>3 DEF Known
  <1>5. \A e, f \in Database : Known(e, t)' /\ Known(f, t)' => e = f
    BY <1>2
  <1>6. NamesAt(t)'
    BY <1>4, <1>5 DEF NamesAt
  <1>7. AnsweredAt(t)'
    BY <1>2, <1>3 DEF AnsweredAt, Known
  <1> QED
    BY <1>6, <1>7

LEMMA FoundNothing ==
    ASSUME NEW t, saved[t] = Nothing
    PROVE  /\ Found(t) = NoColumns /\ Found(t).columns = {}
           /\ \A columns : With(Found(t), columns) = [columns |-> columns, rows |-> {}]
  BY DEF Found, Filled, NoColumns, With

LEMMA CreateTableInv ==
    ASSUME TypeOK, TypeOK', CatalogInv, NEW d \in Database, NEW t \in Table, NEW ddl \in Ddl,
           CreateTable(d, t, ddl)
    PROVE  CatalogInv'
  <1> DEFINE new == With(Found(t), Range(ddl))
  <1>1. /\ up /\ d \in databases /\ t \notin engine[d]
        /\ UNCHANGED <<up, databases, dirs, made, faulty>>
        /\ engine' = [engine EXCEPT ![d] = engine[d] \cup {t}]
        /\ MarkUnsure(t) /\ SaveColumns(t, Range(ddl))
    BY DEF CreateTable
  <1>2. PICK file \in {"torn", "whole"} : SetFile(d, t, file)
    BY DEF CreateTable
  <1>3. \A e \in Database : \A u \in Table :
            files'[e][u] = IF e = d /\ u = t THEN file ELSE files[e][u]
    BY <1>2, SetFilePoint DEF File
  <1>4. \A e \in Database : \A u \in Table :
            /\ tables'[e][u] = IF e = d /\ u = t THEN new ELSE tables[e][u]
            /\ expected'[e][u] = IF e = d /\ u = t THEN [columns |-> Range(ddl), rows |-> {}]
                                 ELSE expected[e][u]
    BY SetTablePoint, ExpectPoint DEF CreateTable
  <1>5. Range(ddl) \in SUBSET Column /\ Range(ddl) # {}
    BY DdlColumns
  <1>6. new # Nothing
    BY <1>5, FoundType, ContentTypes
  <1>7. saved'[t] = new /\ \A u \in Table : u # t => saved'[u] = saved[u]
    BY <1>1, <1>5, SaveColumnsPoint
  <1>8. \A e \in Database : engine'[e] = IF e = d THEN engine[d] \cup {t} ELSE engine[e]
    BY <1>1 DEF TypeOK
  <1> HIDE DEF new
  <1>9. ASSUME NEW u \in Table \ unsure'
        PROVE  NamesAt(u)' /\ AnsweredAt(u)'
    <2>1. CASE u = t
      <3>1. t \notin unsure /\ saved[t] = Nothing
        BY <1>1, <2>1, MarkUnsureTypes
      <3>2. new = [columns |-> Range(ddl), rows |-> {}]
        BY <3>1, FoundNothing DEF new
      <3> QED
        BY <1>1, <1>2, <1>3, <1>4, <1>6, <1>7, <2>1, <3>1, <3>2, SoleOwner
    <2>2. CASE u # t
      <3>1. u \notin unsure
        BY <1>1, <2>2, MarkUnsureTypes
      <3> QED
        BY <1>1, <1>3, <1>4, <1>7, <2>2, <3>1, OtherTables
    <2> QED
      BY <2>1, <2>2
  <1>10. MapsAgree'
    <2> SUFFICES ASSUME NEW e \in databases' \ faulty', NEW u \in Table
                 PROVE  MapsAt(e, u)'
      BY NextMapsAgree
    <2>1. MapsAt(e, u) /\ e \in Database
      BY <1>1, MapsPointwise DEF CatalogInv, TypeOK
    <2> QED
      BY <1>2, <1>3, <1>4, <1>6, <1>8, <2>1 DEF MapsAt
  <1>11. DirectoriesInv'
    <2>1. d \in dirs
      BY <1>1 DEF CatalogInv, DirectoriesInv
    <2> QED
      BY <1>1, <1>3, <1>4, <2>1 DEF CatalogInv, DirectoriesInv
  <1> QED
    BY <1>9, <1>10, <1>11, NextAtNames DEF CatalogInv

LEMMA CreateTableFailsInv ==
    ASSUME TypeOK, TypeOK', CatalogInv, NEW d \in Database, NEW t \in Table, NEW ddl \in Ddl,
           CreateTableFails(d, t, ddl)
    PROVE  CatalogInv'
  <1> DEFINE added == Addable(ddl, Found(t).columns)
  <1>1. /\ d \in databases /\ tables[d][t] = Nothing /\ t \notin engine[d]
        /\ UNCHANGED <<up, databases, dirs, made, expected, engine>>
        /\ MarkUnsure(t) /\ SaveColumns(t, added) /\ faulty \subseteq faulty'
    BY DEF CreateTableFails
  <1>2. \/ SetFile(d, t, "none") /\ UNCHANGED <<tables, faulty>>
        \/ /\ \E file \in {"torn", "whole"} : SetFile(d, t, file)
           /\ SetTable(d, t, With(Found(t), added))
           /\ faulty' = faulty \cup {d}
    BY DEF CreateTableFails
  <1>3. \A e \in Database : \A u \in Table : e # d \/ u # t =>
            files'[e][u] = files[e][u] /\ tables'[e][u] = tables[e][u]
    <2>1. CASE SetFile(d, t, "none") /\ UNCHANGED tables
      BY <2>1, SetFilePoint DEF File
    <2>2. CASE /\ \E file \in {"torn", "whole"} : SetFile(d, t, file)
               /\ SetTable(d, t, With(Found(t), added))
      BY <2>2, SetFilePoint, SetTablePoint DEF File
    <2> QED
      BY <1>2, <2>1, <2>2
  <1>4. d \notin faulty' => /\ files'[d][t] = "none" /\ tables' = tables
                           /\ files[d][t] = "none" /\ d \notin faulty /\ faulty' = faulty
    <2> SUFFICES ASSUME d \notin faulty' PROVE /\ files'[d][t] = "none" /\ tables' = tables
                           /\ files[d][t] = "none" /\ d \notin faulty /\ faulty' = faulty
      OBVIOUS
    <2>1. SetFile(d, t, "none") /\ UNCHANGED <<tables, faulty>>
      BY <1>2
    <2>2. MapsAt(d, t)
      BY <1>1, <2>1, MapsPointwise DEF CatalogInv
    <2> QED
      BY <1>1, <2>1, <2>2, SetFilePoint DEF File, MapsAt
  <1>5. added \in SUBSET Column
    BY DdlColumns
  <1>6. \A u \in Table : u # t => saved'[u] = saved[u]
    BY <1>1, <1>5, SaveColumnsPoint
  <1>7. saved[t] = Nothing => saved'[t] # Nothing
    <2> SUFFICES ASSUME saved[t] = Nothing PROVE saved'[t] # Nothing
      OBVIOUS
    <2>1. added # {}
      BY FoundNothing, DdlColumns
    <2> QED
      BY <1>1, <1>5, <2>1, SaveColumnsPoint
  <1> HIDE DEF added
  <1>8. ASSUME NEW u \in Table \ unsure'
        PROVE  NamesAt(u)' /\ AnsweredAt(u)'
    <2>1. CASE u = t
      <3>1. t \notin unsure /\ saved[t] = Nothing
        BY <1>1, <2>1, MarkUnsureTypes
      <3>2. ~Known(d, t)
        BY <3>1 DEF CatalogInv, NamesInv
      <3> QED
        BY <1>1, <1>3, <1>4, <1>7, <2>1, <3>1, <3>2, SoleOwner DEF Known
    <2>2. CASE u # t
      <3>1. u \notin unsure
        BY <1>1, <2>2, MarkUnsureTypes
      <3> QED
        BY <1>1, <1>3, <1>6, <2>2, <3>1, OtherTables
    <2> QED
      BY <2>1, <2>2
  <1>9. MapsAgree'
    <2> SUFFICES ASSUME NEW e \in databases' \ faulty', NEW u \in Table
                 PROVE  MapsAt(e, u)'
      BY NextMapsAgree
    <2>1. MapsAt(e, u) /\ e \in Database
      BY <1>1, MapsPointwise DEF CatalogInv, TypeOK
    <2>2. CASE e = d /\ u = t
      BY <1>1, <1>4, <2>1, <2>2 DEF MapsAt
    <2>3. CASE e # d \/ u # t
      BY <1>1, <1>3, <2>1, <2>3 DEF MapsAt
    <2> QED
      BY <2>2, <2>3
  <1>10. DirectoriesInv'
    <2>1. d \in dirs
      BY <1>1 DEF CatalogInv, DirectoriesInv
    <2>2. faulty' = faulty \/ faulty' = faulty \cup {d}
      BY <1>2
    <2>3. \A e \in Database \ dirs : \A u \in Table :
            files'[e][u] = "none" /\ expected'[e][u] = Nothing
      BY <1>1, <1>3, <2>1 DEF CatalogInv, DirectoriesInv
    <2> QED
      BY <1>1, <2>1, <2>2, <2>3 DEF CatalogInv, DirectoriesInv
  <1> QED
    BY <1>8, <1>9, <1>10, NextAtNames DEF CatalogInv
LEMMA CrashInCreateInv ==
    ASSUME TypeOK, TypeOK', CatalogInv, NEW d \in Database, NEW t \in Table, NEW ddl \in Ddl,
           CrashInCreate(d, t, ddl)
    PROVE  CatalogInv'
  <1>1. /\ d \in databases /\ unsure' = unsure \cup {t}
        /\ UNCHANGED <<dirs, made, expected, faulty>>
    BY DEF CrashInCreate
  <1>2. /\ up' = FALSE /\ databases' = {}
        /\ \A e \in Database : \A u \in Table : tables'[e][u] = Nothing
    BY DownShape DEF CrashInCreate
  <1>3. \A e \in Database : \A u \in Table : e # d \/ u # t => files'[e][u] = files[e][u]
    BY SetFilePoint DEF CrashInCreate, File
  <1>4. \A u \in Table : u # t => saved'[u] = saved[u]
    <2>1. ASSUME NEW some \in SUBSET Addable(ddl, Found(t).columns), SaveColumns(t, some)
          PROVE  \A u \in Table : u # t => saved'[u] = saved[u]
      BY <2>1, DdlColumns, SaveColumnsPoint
    <2> QED
      BY <2>1 DEF CrashInCreate
  <1>5. ASSUME NEW u \in Table \ unsure'
        PROVE  NamesAt(u)' /\ AnsweredAt(u)'
    <2>1. u # t /\ u \notin unsure
      BY <1>1
    <2> QED
      BY <1>1, <1>2, <1>3, <1>4, <2>1, OtherTables
  <1>6. DirectoriesInv'
    <2>1. d \in dirs
      BY <1>1 DEF CatalogInv, DirectoriesInv
    <2> QED
      BY <1>1, <1>2, <1>3, <2>1 DEF CatalogInv, DirectoriesInv
  <1> QED
    BY <1>2, <1>5, <1>6, NextAtNames DEF CatalogInv, MapsAgree

LEMMA DropTableInv ==
    ASSUME TypeOK, TypeOK', CatalogInv, NEW d \in Database, NEW t \in Table, dropTable(d, t)
    PROVE  CatalogInv'
  <1>1. /\ d \in databases /\ engine' = [engine EXCEPT ![d] = engine[d] \ {t}]
        /\ UNCHANGED <<up, databases, dirs, saved, made, unsure>>
    BY DEF dropTable, Unlisted
  <1>2. \/ SetFile(d, t, "none") /\ SetTable(d, t, Nothing) /\ UNCHANGED faulty
        \/ faulty' = faulty \cup {d} /\ UNCHANGED <<files, tables>>
    BY DEF dropTable, Unlisted
  <1>3. \A e \in Database : \A u \in Table :
            expected'[e][u] = IF e = d /\ u = t THEN Nothing ELSE expected[e][u]
    BY ExpectPoint DEF dropTable
  <1>4. /\ \A e \in Database : \A u \in Table : e # d \/ u # t =>
                files'[e][u] = files[e][u] /\ tables'[e][u] = tables[e][u]
        /\ \/ files'[d][t] = "none" /\ tables'[d][t] = Nothing
           \/ d \in faulty' /\ files' = files /\ tables' = tables
    <2>1. CASE SetFile(d, t, "none") /\ SetTable(d, t, Nothing)
      BY <2>1, SetFilePoint, SetTablePoint DEF File
    <2>2. CASE faulty' = faulty \cup {d} /\ UNCHANGED <<files, tables>>
      BY <2>2
    <2> QED
      BY <1>2, <2>1, <2>2
  <1>5. \A e \in Database : engine'[e] = IF e = d THEN engine[d] \ {t} ELSE engine[e]
    BY <1>1 DEF TypeOK
  <1>6. faulty \subseteq faulty' /\ faulty' \subseteq faulty \cup {d}
    BY <1>2
  <1>7. dirs' \subseteq Database /\ databases' \subseteq Database
    BY DEF TypeOK
  <1>8. ASSUME NEW u \in Table \ unsure'
        PROVE  NamesAt(u)' /\ AnsweredAt(u)'
    <2>1. u \notin unsure
      BY <1>1
    <2>2. NamesAt(u) /\ AnsweredAt(u)
      BY <2>1, AtNames DEF CatalogInv
    <2>3. CASE u = t
      <3>1. \A e \in Database : Known(e, t)' => Known(e, t)
        BY <1>3, <1>4 DEF Known
      <3>2. NamesAt(t)'
        BY <1>1, <1>3, <1>4, <1>6, <1>7, <2>2, <2>3, <3>1, NamesKept
      <3>3. AnsweredAt(t)'
        BY <1>1, <1>3, <1>4, <1>6, <1>7, <2>2, <2>3 DEF AnsweredAt
      <3> QED
        BY <2>3, <3>2, <3>3
    <2>4. CASE u # t
      BY <1>1, <1>3, <1>4, <1>6, <2>1, <2>4, OtherTables
    <2> QED
      BY <2>3, <2>4
  <1>9. MapsAgree'
    <2> SUFFICES ASSUME NEW e \in databases' \ faulty', NEW u \in Table
                 PROVE  MapsAt(e, u)'
      BY NextMapsAgree
    <2>1. MapsAt(e, u) /\ e \in Database
      BY <1>1, <1>6, MapsPointwise DEF CatalogInv, TypeOK
    <2>2. CASE e = d /\ u = t
      BY <1>4, <1>5, <2>2 DEF MapsAt
    <2>3. CASE e # d \/ u # t
      BY <1>4, <1>5, <2>1, <2>3 DEF MapsAt
    <2> QED
      BY <2>2, <2>3
  <1>10. DirectoriesInv'
    <2>1. d \in dirs
      BY <1>1 DEF CatalogInv, DirectoriesInv
    <2> QED
      BY <1>1, <1>3, <1>4, <1>6, <2>1 DEF CatalogInv, DirectoriesInv
  <1> QED
    BY <1>8, <1>9, <1>10, NextAtNames DEF CatalogInv

LEMMA WriteRowsInv ==
    ASSUME TypeOK, TypeOK', CatalogInv, NEW d \in Database, NEW t \in Table,
           NEW rows \in SUBSET Row, WriteRows(d, t, rows)
    PROVE  CatalogInv'
  <1> DEFINE new == WithRows(tables[d][t], rows)
  <1>1. /\ d \in databases /\ tables[d][t] # Nothing
        /\ saved' = [saved EXCEPT ![t] = new]
        /\ UNCHANGED <<up, databases, engine, dirs, files, made, unsure, faulty>>
    BY DEF WriteRows
  <1>2. new # Nothing
    <2>1. tables[d][t] \in Content
      BY <1>1 DEF TypeOK
    <2> QED
      BY <2>1, ContentTypes
  <1>3. \A e \in Database : \A u \in Table :
            tables'[e][u] = IF e = d /\ u = t THEN new ELSE tables[e][u]
    BY SetTablePoint DEF WriteRows
  <1>4. \A e \in Database : \A u \in Table :
            expected'[e][u] = IF e = d /\ u = t /\ expected[d][t] # Nothing
                              THEN WithRows(expected[d][t], rows) ELSE expected[e][u]
    <2>1. CASE expected[d][t] = Nothing
      BY <2>1 DEF WriteRows
    <2>2. CASE expected[d][t] # Nothing
      BY <2>2, ExpectPoint DEF WriteRows
    <2> QED
      BY <2>1, <2>2
  <1>5. \A u \in Table : saved'[u] = IF u = t THEN new ELSE saved[u]
    BY <1>1 DEF TypeOK
  <1>6. expected[d][t] # Nothing => expected'[d][t] # Nothing
    <2>1. expected[d][t] # Nothing => expected[d][t] \in Content
      BY DEF TypeOK
    <2> QED
      BY <1>4, <2>1, ContentTypes
  <1>7. dirs' \subseteq Database /\ databases' \subseteq Database
    BY DEF TypeOK
  <1>8. ASSUME NEW u \in Table \ unsure'
        PROVE  NamesAt(u)' /\ AnsweredAt(u)'
    <2>1. u \notin unsure /\ NamesAt(u) /\ AnsweredAt(u)
      BY <1>1, AtNames DEF CatalogInv
    <2>2. CASE u = t
      <3>1. \A e \in Database : e # d => ~Known(e, t)
        BY <1>1, <2>1, <2>2 DEF NamesAt, Known
      <3>2. d \notin faulty => tables[d][t] = expected[d][t]
        BY <1>1, <2>1, <2>2 DEF AnsweredAt
      <3>3. d \notin faulty => expected'[d][t] = new
        BY <1>1, <1>4, <3>2
      <3>4. d \notin faulty => files[d][t] # "none"
        BY <1>1, <2>1, <2>2, <3>2 DEF NamesAt, CatalogInv, DirectoriesInv
      <3>5. \A e \in Database : e # d => ~Known(e, t)'
        BY <1>1, <1>3, <1>4, <3>1 DEF Known
      <3> HIDE DEF new
      <3>6. \A e \in dirs' \ faulty' :
                /\ files'[e][t] # "none" <=> expected'[e][t] # Nothing
                /\ expected'[e][t] # Nothing => saved'[t] = expected'[e][t]
        BY <1>1, <1>2, <1>5, <1>7, <3>3, <3>4, <3>5 DEF Known
      <3>7. saved'[t] # Nothing
        BY <1>2, <1>5
      <3>8. \A e, f \in Database : Known(e, t)' /\ Known(f, t)' => e = f
        BY <3>5
      <3>9. NamesAt(t)'
        BY <3>6, <3>7, <3>8 DEF NamesAt
      <3>10. AnsweredAt(t)'
        BY <1>1, <1>3, <1>5, <1>7, <3>3, <3>5 DEF AnsweredAt, Known
      <3> QED
        BY <2>2, <3>9, <3>10
    <2>3. CASE u # t
      BY <1>1, <1>3, <1>4, <1>5, <2>1, <2>3, OtherTables
    <2> QED
      BY <2>2, <2>3
  <1>9. MapsAgree'
    <2> SUFFICES ASSUME NEW e \in databases' \ faulty', NEW u \in Table
                 PROVE  MapsAt(e, u)'
      BY NextMapsAgree
    <2>1. MapsAt(e, u) /\ e \in Database
      BY <1>1, MapsPointwise DEF CatalogInv, TypeOK
    <2> QED
      BY <1>1, <1>2, <1>3, <2>1 DEF MapsAt
  <1>10. DirectoriesInv'
    <2>1. d \in dirs
      BY <1>1 DEF CatalogInv, DirectoriesInv
    <2> QED
      BY <1>1, <1>4, <2>1 DEF CatalogInv, DirectoriesInv
  <1> QED
    BY <1>8, <1>9, <1>10, NextAtNames DEF CatalogInv

-----------------------------------------------------------------------------
(* The theorems. *)

LEMMA NextInv == TypeOK /\ TypeOK' /\ CatalogInv /\ [Next]_vars => CatalogInv'
  <1> SUFFICES ASSUME TypeOK, TypeOK', CatalogInv, [Next]_vars PROVE CatalogInv'
    OBVIOUS
  <1>1. CASE UNCHANGED vars
    BY <1>1 DEF vars, memory, disk, history, CatalogInv, DirectoriesInv, NamesInv, Known,
                MapsAgree, TablesAsAnswered, Listed
  <1>2. ASSUME NEW d \in Database, createDatabase(d) \/ HalfMadeDatabase(d) \/ dropDatabase(d)
        PROVE  CatalogInv'
    BY <1>2, CreateDatabaseInv, HalfMadeInv, DropDatabaseInv
  <1>3. ASSUME NEW d \in Database, NEW t \in Table, NEW ddl \in Ddl,
               CreateTable(d, t, ddl) \/ CreateTableFails(d, t, ddl) \/ CrashInCreate(d, t, ddl)
        PROVE  CatalogInv'
    BY <1>3, CreateTableInv, CreateTableFailsInv, CrashInCreateInv
  <1>4. ASSUME NEW d \in Database, NEW t \in Table, dropTable(d, t)
        PROVE  CatalogInv'
    BY <1>4, DropTableInv
  <1>5. ASSUME NEW d \in Database, NEW t \in Table, NEW rows \in SUBSET Row,
               WriteRows(d, t, rows)
        PROVE  CatalogInv'
    BY <1>5, WriteRowsInv
  <1>6. CASE Crash \/ Start
    BY <1>6, ProcessInv
  <1> QED
    BY <1>1, <1>2, <1>3, <1>4, <1>5, <1>6 DEF Next

LEMMA InitInv == Init => CatalogInv
  <1> SUFFICES ASSUME Init PROVE CatalogInv
    OBVIOUS
  <1>1. DirectoriesInv
    BY NoTablesType DEF Init, DirectoriesInv
  <1>2. \A d \in Database : \A t \in Table : ~Known(d, t)
    BY NoTablesType DEF Init, Known
  <1>3. NamesInv
    BY <1>2 DEF Init, NamesInv
  <1> QED
    BY <1>1, <1>3 DEF Init, CatalogInv, MapsAgree, TablesAsAnswered

LEMMA AlwaysInv == Spec => []CatalogInv
  BY InitInv, NextInv, TypeCorrect, PTL DEF Spec

\* Manager, engine and directory of a whole database list the same tables,
\* after every command, refusal, crash and restart.
THEOREM MapsAlwaysAgree == Spec => []MapsAgree
  <1>1. CatalogInv => MapsAgree
    BY DEF CatalogInv
  <1> QED
    BY <1>1, AlwaysInv, PTL

\* Every process has the databases that were created and not dropped.
THEOREM DatabasesFound == Spec => []DatabasesAsAnswered
  <1>1. CatalogInv => DatabasesAsAnswered
    BY DEF CatalogInv, DirectoriesInv, DatabasesAsAnswered
  <1> QED
    BY <1>1, AlwaysInv, PTL

\* A table whose name was used once has, in every process, the columns and the
\* records its commands answered.
THEOREM TablesFound == Spec => []TablesAsAnswered
  <1>1. CatalogInv => TablesAsAnswered
    BY DEF CatalogInv
  <1> QED
    BY <1>1, AlwaysInv, PTL
=============================================================================
