------------------------------ MODULE Catalog -------------------------------
(***************************************************************************)
(* Databases and their tables: DatabaseSystem with one DatabaseManager per  *)
(* database, the StorageEngine under each, and the files from which a       *)
(* restarted process finds them again.                                      *)
(*                                                                         *)
(* A table is known in three places: the map of the manager, the map of    *)
(* the engine, and a file <name>.table in the directory of its database.   *)
(* That file never has a column or a record: the columns and records are   *)
(* in <name>.meta and <name>.data, in one directory for all databases.     *)
(*                                                                         *)
(* A command is one action; a command that is refused and changes nothing  *)
(* is a stuttering step.  The columns and records of a table are two sets, *)
(* and the two files that hold them one value that a save replaces: module *)
(* Table has the statements, the format, and the saves that fail.  A       *)
(* .table file without contents ("torn") is read as a number of columns    *)
(* and a number of records that nobody set: it may end the process, and    *)
(* add columns and records that nobody wrote to the table, which are saved.*)
(*                                                                         *)
(* History variables: made and expected have the databases and tables as   *)
(* the commands that answered true make them; unsure the names that were   *)
(* made when files of that name existed, or in a CREATE TABLE that a crash *)
(* cut short, or to which a torn file added something; faulty the          *)
(* databases of which a directory could not be made whole, or something    *)
(* could not be removed.                                                   *)
(***************************************************************************)
EXTENDS Naturals, Sequences, Functions

CONSTANTS
    Database, Table,
    Column, Row,
    PrimaryKey,   \* the columns that are declared as primary keys
    Ddl,          \* the column lists of CREATE TABLE
    Nothing       \* no such table, no such file

Content == [columns : SUBSET Column, rows : SUBSET Row]
NoColumns == [columns |-> {}, rows |-> {}]

ASSUME CatalogAssumption ==
    /\ Ddl \subseteq Seq(Column) \ {<<>>}
    /\ \A ddl \in Ddl : \A i, j \in DOMAIN ddl : {ddl[i], ddl[j]} \subseteq PrimaryKey => i = j
    /\ Nothing \notin Content

VARIABLES
    up,         \* is there a process?
    databases,  \* the map of databases
    tables,     \* for each database, the map of its manager
    engine,     \* for each database, the names in the map of its engine
    dirs,       \* the directories of databases
    files,      \* for each database, its .table files: "none", "torn" or "whole"
    saved,      \* for each name, what .meta and .data hold
    made,       \* history
    expected,   \* history
    unsure,     \* history
    faulty      \* history

memory == <<up, databases, tables, engine>>
disk == <<dirs, files, saved>>
history == <<made, expected, unsure, faulty>>
vars == <<memory, disk, history>>

TypeOK ==
    /\ up \in BOOLEAN
    /\ databases \subseteq Database
    /\ tables \in [Database -> [Table -> Content \cup {Nothing}]]
    /\ engine \in [Database -> SUBSET Table]
    /\ dirs \subseteq Database
    /\ files \in [Database -> [Table -> {"none", "torn", "whole"}]]
    /\ saved \in [Table -> Content \cup {Nothing}]
    /\ made \subseteq Database
    /\ expected \in [Database -> [Table -> Content \cup {Nothing}]]
    /\ unsure \subseteq Table
    /\ faulty \subseteq Database

NoTables == [t \in Table |-> Nothing]
NoFiles == [t \in Table |-> "none"]

Init ==
    /\ up = TRUE
    /\ databases = {} /\ dirs = {}
    /\ tables = [d \in Database |-> NoTables]
    /\ engine = [d \in Database |-> {}]
    /\ files = [d \in Database |-> NoFiles]
    /\ saved = NoTables
    /\ made = {}
    /\ expected = [d \in Database |-> NoTables]
    /\ unsure = {} /\ faulty = {}

-----------------------------------------------------------------------------
(* Loading. *)

\* The table a constructor makes of a name, from what .meta and .data hold.
Filled(content) == IF content = Nothing THEN NoColumns ELSE content

Found(t) == Filled(saved[t])

Listed(d) == {t \in Table : files[d][t] # "none"}

\* Mutant of Loaded: nothing is known of a table without a file.
LoadedListed(d, contents) == [t \in Listed(d) |-> Filled(contents[t])]

\* The manager and the engine of a database that is loaded from its directory.
Loaded(d, contents) ==
    [t \in Table |-> IF t \in Listed(d) THEN Filled(contents[t]) ELSE Nothing]

TornIn(ds) == {t \in Table : \E d \in ds : files[d][t] = "torn"}

\* A column can be added to others when it is not among them, nor a second
\* primary key.
FitsAmong(c, columns) ==
    /\ c \notin columns
    /\ c \in PrimaryKey => columns \cap PrimaryKey = {}

\* A table with some columns and records more; one without columns gets no records.
Grown(t, content) ==
    LET columns == Found(t).columns
    IN  /\ columns \subseteq content.columns /\ Found(t).rows \subseteq content.rows
        /\ \A c \in content.columns \ columns : FitsAmong(c, content.columns \ {c})
        /\ content.rows # Found(t).rows => content.columns # {}

\* What loading these databases does to the files: a torn file of theirs may add to
\* the table it names what nobody wrote.
LoadTorn(ds) ==
    \E garbled \in SUBSET TornIn(ds) : \E content \in [garbled -> Content] :
        /\ \A t \in garbled : Grown(t, content[t])
        /\ saved' = [t \in Table |-> IF t \in garbled THEN content[t] ELSE saved[t]]
        /\ unsure' = unsure \cup garbled

\* The process ends, by a crash or not.
Down ==
    /\ up' = FALSE
    /\ databases' = {}
    /\ tables' = [d \in Database |-> NoTables]
    /\ engine' = [d \in Database |-> {}]

Crash ==
    /\ up
    /\ Down
    /\ UNCHANGED <<disk, history>>

\* Mutant of Start: the tables are what the .table files say, without columns.
StartEmpty ==
    /\ ~up
    /\ up' = TRUE
    /\ databases' = dirs
    /\ tables' = [d \in Database |->
                    IF d \in dirs
                    THEN [t \in Table |-> IF t \in Listed(d) THEN NoColumns ELSE Nothing]
                    ELSE NoTables]
    /\ engine' = [d \in Database |-> IF d \in dirs THEN Listed(d) ELSE {}]
    /\ UNCHANGED <<disk, history>>

\* A new process loads every directory it finds, and every table of each; some
\* of them before a torn file of another directory has changed what is saved.
Start ==
    /\ ~up
    /\ up' = TRUE
    /\ databases' = dirs
    /\ LoadTorn(dirs)
    /\ \E before \in [dirs -> SUBSET TornIn(dirs)] :
            tables' = [d \in Database |->
                IF d \in dirs
                THEN Loaded(d, [t \in Table |-> IF t \in before[d] THEN saved[t] ELSE saved'[t]])
                ELSE NoTables]
    /\ engine' = [d \in Database |-> IF d \in dirs THEN Listed(d) ELSE {}]
    /\ UNCHANGED <<dirs, files, made, expected, faulty>>

-----------------------------------------------------------------------------
(* Databases. *)

\* A directory that is there already is taken over with its tables; a torn file
\* in it may end the process.
createDatabase(d) ==
    /\ up
    /\ d \notin databases
    /\ dirs' = dirs \cup {d}
    /\ LoadTorn({d})
    /\ \/ /\ databases' = databases \cup {d}
          /\ tables' = [tables EXCEPT ![d] = Loaded(d, saved')]
          /\ engine' = [engine EXCEPT ![d] = Listed(d)]
          /\ made' = made \cup {d}
          /\ UNCHANGED <<up, faulty>>
       \/ /\ TornIn({d}) # {}
          /\ Down
          /\ faulty' = faulty \cup {d}
          /\ UNCHANGED made
    /\ UNCHANGED <<files, expected>>

\* The directory is made, the data directory in it is not: the command is
\* refused, and the next process finds a database.
HalfMadeDatabase(d) ==
    /\ up
    /\ d \notin databases
    /\ dirs' = dirs \cup {d}
    /\ faulty' = faulty \cup {d}
    /\ UNCHANGED <<memory, files, saved, made, expected, unsure>>

\* Mutant of Removed: the files go, the directory stays.
RemovedFiles(d) ==
    /\ UNCHANGED <<dirs, faulty>>
    /\ files' = [files EXCEPT ![d] = NoFiles]

\* The directory is removed, or as much of it as can be.
Removed(d) ==
    \/ /\ dirs' = dirs \ {d}
       /\ files' = [files EXCEPT ![d] = NoFiles]
       /\ faulty' = faulty \ {d}
    \/ /\ \E gone \in SUBSET Listed(d) :
            files' = [files EXCEPT ![d] =
                        [t \in Table |-> IF t \in gone THEN "none" ELSE files[d][t]]]
       /\ faulty' = faulty \cup {d}
       /\ UNCHANGED dirs

\* The command answers that the database was dropped, whatever was removed.
dropDatabase(d) ==
    /\ up
    /\ d \in databases
    /\ databases' = databases \ {d}
    /\ tables' = [tables EXCEPT ![d] = NoTables]
    /\ engine' = [engine EXCEPT ![d] = {}]
    /\ made' = made \ {d}
    /\ expected' = [expected EXCEPT ![d] = NoTables]
    /\ Removed(d)
    /\ UNCHANGED <<up, saved, unsure>>

-----------------------------------------------------------------------------
(* Tables. *)

SetTable(d, t, content) == tables' = [tables EXCEPT ![d][t] = content]
SetFile(d, t, file) == files' = [files EXCEPT ![d][t] = file]
Expect(d, t, content) == expected' = [expected EXCEPT ![d][t] = content]

\* The columns of the list that can be added, one after the other, to those of
\* a table: up to the first that does not fit.
Fits(ddl, i, have) == FitsAmong(ddl[i], have \cup {ddl[j] : j \in 1..(i - 1)})
Addable(ddl, have) ==
    {ddl[i] : i \in {k \in DOMAIN ddl : \A j \in 1..k : Fits(ddl, j, have)}}
AllFit(ddl, have) == \A i \in DOMAIN ddl : Fits(ddl, i, have)

With(content, columns) == [content EXCEPT !.columns = content.columns \cup columns]

\* A table that is made saves itself with each column it gets.
SaveColumns(t, columns) ==
    saved' = IF columns = {} THEN saved ELSE [saved EXCEPT ![t] = With(Found(t), columns)]

MarkUnsure(t) == unsure' = IF saved[t] = Nothing THEN unsure ELSE unsure \cup {t}

\* CREATE TABLE that answers true.  Nobody looks whether the .table file got
\* its contents.
CreateTable(d, t, ddl) ==
    /\ up
    /\ d \in databases
    /\ tables[d][t] = Nothing /\ t \notin engine[d]
    /\ AllFit(ddl, Found(t).columns)
    /\ SetTable(d, t, With(Found(t), Range(ddl)))
    /\ engine' = [engine EXCEPT ![d] = @ \cup {t}]
    /\ \E file \in {"torn", "whole"} : SetFile(d, t, file)
    /\ SaveColumns(t, Range(ddl))
    /\ Expect(d, t, [columns |-> Range(ddl), rows |-> {}])
    /\ MarkUnsure(t)
    /\ UNCHANGED <<up, databases, dirs, made, faulty>>

\* Mutant of Unlisted: the engine keeps its entry.
KeptInEngine(d, t) ==
    /\ SetFile(d, t, "none")
    /\ SetTable(d, t, Nothing)
    /\ UNCHANGED <<engine, faulty>>

\* The engine forgets the table before it removes the file; when that throws,
\* the manager keeps the table.
Unlisted(d, t) ==
    /\ engine' = [engine EXCEPT ![d] = @ \ {t}]
    /\ \/ SetFile(d, t, "none") /\ SetTable(d, t, Nothing) /\ UNCHANGED faulty
       \/ faulty' = faulty \cup {d} /\ UNCHANGED <<files, tables>>

\* CREATE TABLE that meets a column it cannot add drops the table again.
CreateTableFails(d, t, ddl) ==
    LET added == Addable(ddl, Found(t).columns)
    IN  /\ up
        /\ d \in databases
        /\ tables[d][t] = Nothing /\ t \notin engine[d]
        /\ ~AllFit(ddl, Found(t).columns)
        /\ SaveColumns(t, added)
        /\ \/ SetFile(d, t, "none") /\ UNCHANGED <<tables, engine, faulty>>
           \/ /\ \E file \in {"torn", "whole"} : SetFile(d, t, file)
              /\ SetTable(d, t, With(Found(t), added))
              /\ faulty' = faulty \cup {d}
              /\ UNCHANGED engine
        /\ MarkUnsure(t)
        /\ UNCHANGED <<up, databases, dirs, made, expected>>

\* The process ends in the middle of CREATE TABLE.
CrashInCreate(d, t, ddl) ==
    LET addable == Addable(ddl, Found(t).columns)
    IN  /\ up
        /\ d \in databases
        /\ tables[d][t] = Nothing /\ t \notin engine[d]
        /\ \/ SetFile(d, t, "torn") /\ UNCHANGED saved
           \/ /\ SetFile(d, t, "whole")
              /\ \E added \in SUBSET addable : SaveColumns(t, added)
        /\ unsure' = unsure \cup {t}
        /\ Down
        /\ UNCHANGED <<dirs, made, expected, faulty>>

dropTable(d, t) ==
    /\ up
    /\ d \in databases
    /\ tables[d][t] # Nothing /\ t \in engine[d]
    /\ Unlisted(d, t)
    /\ Expect(d, t, Nothing)
    /\ UNCHANGED <<up, databases, dirs, saved, made, unsure>>

WithRows(content, rows) == [content EXCEPT !.rows = rows]

\* A statement that changes the records of a table writes all of its copy; a table
\* without columns takes no record, so it has none that could be changed.
WriteRows(d, t, rows) ==
    /\ up
    /\ d \in databases
    /\ tables[d][t] # Nothing /\ tables[d][t].columns # {}
    /\ SetTable(d, t, WithRows(tables[d][t], rows))
    /\ saved' = [saved EXCEPT ![t] = WithRows(tables[d][t], rows)]
    /\ IF expected[d][t] = Nothing THEN UNCHANGED expected
       ELSE Expect(d, t, WithRows(expected[d][t], rows))
    /\ UNCHANGED <<up, databases, engine, dirs, files, made, unsure, faulty>>

Next ==
    \/ \E d \in Database : createDatabase(d) \/ HalfMadeDatabase(d) \/ dropDatabase(d)
    \/ \E d \in Database : \E t \in Table : \E ddl \in Ddl :
            CreateTable(d, t, ddl) \/ CreateTableFails(d, t, ddl) \/ CrashInCreate(d, t, ddl)
    \/ \E d \in Database : \E t \in Table : dropTable(d, t)
    \/ \E d \in Database : \E t \in Table : \E rows \in SUBSET Row : WriteRows(d, t, rows)
    \/ Crash
    \/ Start

Spec == Init /\ [][Next]_vars

-----------------------------------------------------------------------------
(* Safety. *)

\* Manager, engine and directory list the same tables, whatever was created,
\* dropped, refused, cut short or loaded again; only a file that could not be
\* removed drives them apart.
MapsAgree ==
    \A d \in databases \ faulty :
        /\ engine[d] = Listed(d)
        /\ engine[d] = {t \in Table : tables[d][t] # Nothing}

\* The databases there are, now and after every restart, are those that were
\* created and not dropped, as the commands answered.
DatabasesAsAnswered == up => databases \ faulty = made \ faulty

\* A table whose name was only used once, in whatever database, is in every
\* process what the commands answered made of it, and its files say the same.
\* Of the others nothing of the kind holds: their files are shared by name.
TablesAsAnswered ==
    \A d \in databases \ faulty : \A t \in Table \ unsure :
        /\ tables[d][t] = expected[d][t]
        /\ tables[d][t] # Nothing => saved[t] = tables[d][t]

-----------------------------------------------------------------------------
(* The strengthenings that make the properties inductive. *)

\* Process or no process, the whole directories are the databases as answered,
\* and a running process knows them all; where there is no directory there is
\* nothing to find.
DirectoriesInv ==
    /\ databases \cup faulty \subseteq dirs
    /\ up => dirs \ faulty \subseteq databases
    /\ made \ faulty = dirs \ faulty
    /\ \A d \in Database \ dirs : \A t \in Table :
            files[d][t] = "none" /\ expected[d][t] = Nothing

\* Does anything in or about database d speak of table t?
Known(d, t) == files[d][t] # "none" \/ tables[d][t] # Nothing \/ expected[d][t] # Nothing

\* The files of a name that was used once belong to one database, and have what
\* its commands answered; they are there before anything speaks of the table.
NamesInv ==
    \A t \in Table \ unsure :
        /\ \A d \in dirs \ faulty :
                /\ files[d][t] # "none" <=> expected[d][t] # Nothing
                /\ expected[d][t] # Nothing => saved[t] = expected[d][t]
        /\ \A d \in Database : Known(d, t) => saved[t] # Nothing
        /\ \A d, e \in Database : Known(d, t) /\ Known(e, t) => d = e

CatalogInv ==
    /\ DirectoriesInv
    /\ NamesInv
    /\ MapsAgree
    /\ TablesAsAnswered

-----------------------------------------------------------------------------
(* What a document of the repository says, and the code does not do. *)

\* DROP TABLE deletes the table, and a table that is made has no records: those
\* of a dropped table, or of another database, do not come back.
NewTableIsEmpty ==
    [][\A d \in Database : \A t \in Table : \A ddl \in Ddl :
          CreateTable(d, t, ddl) => tables'[d][t].rows = {}]_vars
=============================================================================
