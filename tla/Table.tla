------------------------------- MODULE Table -------------------------------
(***************************************************************************)
(* One table: its columns, the set of values each UNIQUE column keeps to    *)
(* recognise a duplicate, its records, and the two files (.meta and .data)  *)
(* that every statement rewrites as a whole.                                *)
(*                                                                         *)
(* A value is the nonempty sequence of the pieces that commas cut it into;  *)
(* "" is the one piece <<"">>.  A line of the data file is the sequence of  *)
(* its comma-separated fields: the pieces of all its values, with nothing   *)
(* to tell where one value ends.  Lines are flushed one at a time, so what  *)
(* an interrupted save leaves of a file is a prefix of its lines.           *)
(*                                                                         *)
(* A statement is one action, with the save at its end.  A statement that   *)
(* answers false or throws before it changed anything is a stuttering step, *)
(* and so is a query.                                                       *)
(*                                                                         *)
(* The history variable faults says what went wrong so far:                 *)
(*   "save"    the last save was cut short or could not open a file         *)
(*   "torn"    the table was loaded from what such a save left              *)
(*   "update"  an UPDATE threw after it changed something                   *)
(*   "delete"  a DELETE threw after it changed something                    *)
(*   "insert"  a refused INSERT left a value in a UNIQUE set                *)
(*   "late"    a NOT NULL column was added to a table with records          *)
(*   "comma"   a value with a comma was stored                              *)
(***************************************************************************)
EXTENDS Naturals, SequencesExt

CONSTANTS
    ColumnDef,   \* the columns that may be added
    Value,       \* the values clients write
    Number,      \* the values an INT column accepts
    MaxColumns,  \* bound: columns of the table
    MaxRecords,  \* bound: records of the table
    MaxSet,      \* bound: assignments of one UPDATE
    MaxFields,   \* bound: fields of a line of the data file
    MaxFaults    \* bound: kinds of faults one behaviour has met and not repaired

Empty == <<"">>

ASSUME TableAssumption ==
    /\ \A c \in ColumnDef : c.type \in {"INT", "STRING"}
    /\ \A c \in ColumnDef : c.pk => c.unique /\ c.notNull
    /\ Empty \in Value /\ Number \subseteq Value
    /\ \A v \in Value : v # <<>> /\ v \in Seq(ToSet(v))
    /\ MaxColumns \in Nat /\ MaxRecords \in Nat /\ MaxSet \in Nat
    /\ MaxFields \in Nat /\ MaxFaults \in Nat

Fault == {"save", "torn", "update", "delete", "insert", "late", "comma"}

VARIABLES
    columns,       \* the columns, in order
    uniqueValues,  \* for each column, the values its uniqueness check knows
    records,       \* the records, each a sequence of values
    meta,          \* the lines of the .meta file: a missing file has none
    data,          \* the lines of the .data file
    faults         \* history

vars == <<columns, uniqueValues, records, meta, data, faults>>

Pieces == UNION {ToSet(v) : v \in Value}

TypeOK ==
    /\ ToSet(columns) \subseteq ColumnDef
    /\ Len(columns) <= MaxColumns
    /\ Len(uniqueValues) = Len(columns)
    /\ \A i \in DOMAIN records : Len(records[i]) = Len(columns)
    /\ \A i \in DOMAIN records : \A c \in DOMAIN columns :
            Len(records[i][c]) > 0 /\ ToSet(records[i][c]) \subseteq Pieces
    /\ ToSet(meta) \subseteq ColumnDef
    /\ \A k \in DOMAIN data : data[k] # <<>>
    /\ faults \subseteq Fault

-----------------------------------------------------------------------------
(* Column: the check of a value and the UNIQUE set. *)

validType(col, v) == v = Empty \/ col.type = "STRING" \/ v \in Number

\* Is v one that the UNIQUE set of col does not look at?
Exempt(col, v) == ~col.unique \/ (v = Empty /\ ~col.notNull)

checkUniqueValue(col, known, v) == Exempt(col, v) \/ v \notin known
addUniqueValue(col, known, v) == IF Exempt(col, v) THEN known ELSE known \cup {v}
removeUniqueValue(col, known, v) ==
    IF col.unique /\ v # Empty THEN known \ {v} ELSE known

-----------------------------------------------------------------------------
(* The files. *)

\* Mutant of Line: an empty value leaves no field.
SkipEmpty(record) ==
    LET shown == SelectSeq(record, LAMBDA v : v # Empty)
    IN  IF shown = <<>> THEN Empty ELSE FlattenSeq(shown)

\* The fields of the line a record is saved as.
Line(record) == IF record = <<>> THEN Empty ELSE FlattenSeq(record)

Lines(recs) == [k \in DOMAIN recs |-> Line(recs[k])]

\* The record read from a line, by a table of n columns.  The last column takes
\* the rest of the line; a column the line has no field for gets the value that
\* was read before it, for getline leaves its argument alone at the end.
Parse(n, line) ==
    [c \in 1..n |->
        IF c > Len(line) THEN <<line[Len(line)]>>
        ELSE IF c < n THEN <<line[c]>> ELSE SubSeq(line, n, Len(line))]

Loaded == [k \in DOMAIN data |-> Parse(Len(meta), data[k])]

HasComma(recs) == \E k \in DOMAIN recs : \E c \in DOMAIN recs[k] : Len(recs[k][c]) > 1

CommaFault(recs) == IF HasComma(recs) THEN {"comma"} ELSE {}

\* saveToFile: the meta file is rewritten, then the data file.  A file that
\* cannot be opened ends the save; a write that fails is not noticed.
Save(cols, recs, newFaults) ==
    LET known == faults \cup newFaults \cup CommaFault(recs)
    IN  \/ /\ meta' = cols
           /\ data' = Lines(recs)
           /\ faults' = known \ {"save"}
        \/ /\ Cardinality(known \cup {"save"}) <= MaxFaults
           /\ \/ UNCHANGED <<meta, data>>
              \/ /\ meta' \in Prefixes(cols)
                 /\ data' \in Prefixes(Lines(recs)) \cup {data}
           /\ faults' = known \cup {"save"}

-----------------------------------------------------------------------------
(* Statements that change the columns. *)

HasColumn(name) == \E c \in DOMAIN columns : columns[c].name = name
HasPrimaryKey == \E c \in DOMAIN columns : columns[c].pk

\* Mutant of addColumn: the records keep their length.
NoPadding(col) ==
    /\ Len(columns) < MaxColumns
    /\ ~HasColumn(col.name)
    /\ columns' = Append(columns, col)
    /\ uniqueValues' = Append(uniqueValues, {})
    /\ UNCHANGED records
    /\ Save(columns', records', {})

addColumn(col) ==
    /\ Len(columns) < MaxColumns
    /\ ~HasColumn(col.name)
    /\ ~(col.pk /\ HasPrimaryKey)
    /\ columns' = Append(columns, col)
    /\ uniqueValues' = Append(uniqueValues, {})
    /\ records' = [k \in DOMAIN records |-> Append(records[k], Empty)]
    /\ Save(columns', records',
            IF col.notNull /\ records # <<>> THEN {"late"} ELSE {})

\* Mutant of removeColumn: the UNIQUE sets keep their places.
KeepSets(c) ==
    /\ c \in DOMAIN columns
    /\ ~columns[c].pk
    /\ columns' = RemoveAt(columns, c)
    /\ uniqueValues' = SubSeq(uniqueValues, 1, Len(columns) - 1)
    /\ records' = [k \in DOMAIN records |-> RemoveAt(records[k], c)]
    /\ Save(columns', records', {})

removeColumn(c) ==
    /\ c \in DOMAIN columns
    /\ ~columns[c].pk
    /\ columns' = RemoveAt(columns, c)
    /\ uniqueValues' = RemoveAt(uniqueValues, c)
    /\ records' = [k \in DOMAIN records |-> RemoveAt(records[k], c)]
    /\ Save(columns', records', {})

-----------------------------------------------------------------------------
(* INSERT. *)

\* The columns at which the constraints refuse the record.
Refusals(record) ==
    {c \in DOMAIN columns :
        \/ columns[c].notNull /\ record[c] = Empty
        \/ ~checkUniqueValue(columns[c], uniqueValues[c], record[c])}

\* The UNIQUE sets once the columns before c have taken the record's values.
AddedBefore(c, record) ==
    [d \in DOMAIN columns |->
        IF d < c THEN addUniqueValue(columns[d], uniqueValues[d], record[d])
        ELSE uniqueValues[d]]

InsertAccepted(record) ==
    /\ Len(records) < MaxRecords
    /\ Refusals(record) = {}
    /\ uniqueValues' = AddedBefore(Len(columns) + 1, record)
    /\ records' = Append(records, record)
    /\ UNCHANGED columns
    /\ Save(columns, records', {})

\* Only a duplicate takes the values added so far out of the UNIQUE sets; a
\* missing NOT NULL value leaves them.
InsertRefused(record) ==
    \E c \in Refusals(record) :
        /\ \A d \in Refusals(record) : c <= d
        /\ columns[c].notNull /\ record[c] = Empty
        /\ uniqueValues' = AddedBefore(c, record)
        /\ faults' = faults \cup (IF uniqueValues' # uniqueValues THEN {"insert"} ELSE {})
        /\ UNCHANGED <<columns, records, meta, data>>

\* insertRecord with values of the right types; a column not named in the
\* statement gets "".
insertRecord(record) ==
    /\ columns # <<>>
    /\ \A c \in DOMAIN columns : validType(columns[c], record[c])
    /\ InsertAccepted(record) \/ InsertRefused(record)

-----------------------------------------------------------------------------
(* UPDATE and DELETE.                                                      *)
(*                                                                         *)
(* A condition gives each record a verdict that depends on its values      *)
(* alone.  At an INT column an empty value of the record ends the chain of  *)
(* conditions, and one that does not begin with a number throws; so does,   *)
(* where the chain gets as far, an operand that is no number or a column    *)
(* that is not there.                                                      *)

BeginsWithNumber(v) == <<v[1]>> \in Number

\* The records at which a chain over these INT columns throws.
Throwing(chain, refused) ==
    {k \in DOMAIN records :
        \E i \in 1..(Len(chain) + 1) :
            /\ \A j \in 1..(i - 1) : BeginsWithNumber(records[k][chain[j]])
            /\ IF i > Len(chain) THEN refused
               ELSE /\ records[k][chain[i]] # Empty
                    /\ ~BeginsWithNumber(records[k][chain[i]])}

Verdicts ==
    LET intColumns == {c \in DOMAIN columns : columns[c].type = "INT"}
        chains == UNION {[1..n -> intColumns] : n \in 0..Len(columns)}
        throws == {Throwing(chain, refused) : chain \in chains, refused \in BOOLEAN}
        matches == {{k \in DOMAIN records : records[k] \in rs} :
                        rs \in SUBSET ToSet(records)}
    IN  {[k \in DOMAIN records |->
            IF k \in t THEN "throw" ELSE IF k \in m THEN "yes" ELSE "no"] :
                t \in throws, m \in matches}

\* Mutant of Assign: an empty value is stored like any other.
AssignEmpty(st, k, a) ==
    [st EXCEPT !.records[k][a.column] = a.value,
               !.known[a.column] =
                    addUniqueValue(columns[a.column],
                        removeUniqueValue(columns[a.column], @, st.records[k][a.column]), a.value)]

\* One assignment to record k.  The value is stored before it is known whether it
\* is a duplicate, and stays when it is; the old value has left the UNIQUE set.
Assign(st, k, a) ==
    LET col == columns[a.column]
        left == removeUniqueValue(col, st.known[a.column], st.records[k][a.column])
    IN  IF st.thrown \/ a.value = Empty THEN st
        ELSE [st EXCEPT !.records[k][a.column] = a.value,
                        !.known[a.column] = addUniqueValue(col, left, a.value),
                        !.thrown = ~checkUniqueValue(col, left, a.value)]

\* The record k after all its assignments.
AssignAll(st, k, assignments) ==
    LET after[i \in 0..Len(assignments)] ==
            IF i = 0 THEN [st EXCEPT !.count = @ + 1]
            ELSE LET before == after[i - 1] IN Assign(before, k, assignments[i])
    IN  after[Len(assignments)]

UpdateRow(st, k, assignments, verdict) ==
    CASE st.thrown \/ verdict[k] = "no" -> st
      [] ~st.thrown /\ verdict[k] = "throw" -> [st EXCEPT !.thrown = TRUE]
      [] OTHER -> AssignAll(st, k, assignments)

\* The records, in order, up to the first at which something throws.
Updated(assignments, verdict) ==
    LET after[k \in 0..Len(records)] ==
            IF k = 0 THEN [records |-> records, known |-> uniqueValues,
                           thrown |-> FALSE, count |-> 0]
            ELSE LET before == after[k - 1] IN UpdateRow(before, k, assignments, verdict)
    IN  after[Len(records)]

Assignments ==
    LET one == {[column |-> c, value |-> v] : c \in DOMAIN columns, v \in Value}
    IN  {as \in UNION {[1..n -> one] : n \in 1..MaxSet} :
            \A i \in DOMAIN as : validType(columns[as[i].column], as[i].value)}

updateRecords(assignments, verdict) ==
    LET result == Updated(assignments, verdict)
    IN  /\ records' = result.records
        /\ uniqueValues' = result.known
        /\ UNCHANGED columns
        /\ IF result.thrown \/ result.count = 0
           THEN /\ faults' = faults \cup CommaFault(records') \cup
                      (IF <<records', uniqueValues'>> # <<records, uniqueValues>>
                       THEN {"update"} ELSE {})
                /\ UNCHANGED <<meta, data>>
           ELSE Save(columns, records', {})

\* The records whose values have left the UNIQUE sets when the statement ends.
Released(verdict) ==
    {k \in DOMAIN records :
        verdict[k] = "yes" /\ \A j \in 1..k : verdict[j] # "throw"}

\* The places of the records that are kept, in order.
Kept(verdict) ==
    LET kept[k \in 0..Len(records)] ==
            IF k = 0 THEN <<>>
            ELSE IF verdict[k] = "no" THEN Append(kept[k - 1], k) ELSE kept[k - 1]
    IN  kept[Len(records)]

deleteRecords(verdict) ==
    LET released == Released(verdict)
        throws == \E k \in DOMAIN records : verdict[k] = "throw"
        kept == Kept(verdict)
    IN  /\ uniqueValues' =
              [c \in DOMAIN columns |->
                 {v \in uniqueValues[c] : \A k \in released :
                     v \in removeUniqueValue(columns[c], uniqueValues[c], records[k][c])}]
        /\ UNCHANGED columns
        /\ IF throws
           THEN /\ faults' = faults \cup
                      (IF uniqueValues' # uniqueValues THEN {"delete"} ELSE {})
                /\ UNCHANGED <<records, meta, data>>
           ELSE /\ released # {}
                /\ records' = [i \in DOMAIN kept |-> records[kept[i]]]
                /\ Save(columns, records', {})

-----------------------------------------------------------------------------
(* The table is made again from its files, or dropped. *)

\* Mutant of Rebuilt: the UNIQUE sets are left empty.
NotRebuilt(cols, recs) == [c \in DOMAIN cols |-> {}]

Rebuilt(cols, recs) ==
    [c \in DOMAIN cols |->
        {recs[k][c] : k \in {j \in DOMAIN recs : ~Exempt(cols[c], recs[j][c])}}]

\* The process ended, in a crash or not, and a new Table loads the files.
Reload ==
    /\ columns' = meta
    /\ records' = Loaded
    /\ uniqueValues' = Rebuilt(meta, Loaded)
    /\ faults' = (faults \ {"insert", "save"}) \cup CommaFault(Loaded)
                    \cup (IF "save" \in faults THEN {"torn"} ELSE {})
    /\ UNCHANGED <<meta, data>>

\* A .meta file that is not there hides the .data file, which then keeps what it has.
ReloadNothing ==
    /\ meta = <<>> /\ "save" \in faults
    /\ columns' = <<>> /\ uniqueValues' = <<>> /\ records' = <<>>
    /\ faults' = faults \ {"insert"}
    /\ UNCHANGED <<meta, data>>

\* drop: a file that cannot be removed stays.
drop ==
    /\ columns' = <<>> /\ uniqueValues' = <<>> /\ records' = <<>>
    /\ meta' \in {<<>>, meta}
    /\ data' \in {<<>>, data}
    /\ faults' = IF <<meta', data'>> = <<<<>>, <<>>>> THEN faults \ {"save"}
                 ELSE faults \cup {"save"}

Init ==
    /\ columns = <<>> /\ uniqueValues = <<>> /\ records = <<>>
    /\ meta = <<>> /\ data = <<>>
    /\ faults = {}

Statement ==
    \/ \E col \in ColumnDef : addColumn(col)
    \/ \E c \in 1..MaxColumns : removeColumn(c)
    \/ \E record \in [DOMAIN columns -> Value] : insertRecord(record)
    \/ \E assignments \in Assignments : \E verdict \in Verdicts :
            updateRecords(assignments, verdict)
    \/ \E verdict \in Verdicts : deleteRecords(verdict)
    \/ drop

Next ==
    /\ Statement \/ Reload \/ ReloadNothing
    /\ Cardinality(faults') <= MaxFaults
    /\ \A k \in DOMAIN data' : Len(data'[k]) <= MaxFields

Spec == Init /\ [][Next]_vars

-----------------------------------------------------------------------------
(* Safety. *)

Column(c) == {records[k][c] : k \in DOMAIN records} \ {Empty}

\* No two records have the same value in a UNIQUE column; "" counts for none.
UniqueRecords ==
    \A c \in DOMAIN columns : columns[c].unique =>
        \A j, k \in DOMAIN records :
            records[j][c] = records[k][c] /\ records[j][c] # Empty => j = k

\* Every value of a UNIQUE column is in its set, and so is found when it is
\* written again.
SetsComplete ==
    \A c \in DOMAIN columns : columns[c].unique => Column(c) \subseteq uniqueValues[c]

Sound(exempt) == faults \cap exempt = {}

\* While no UPDATE or DELETE has thrown half way, no half-written file has been
\* loaded and no value has a comma, UNIQUE holds and the set of each UNIQUE
\* column knows every value: through INSERT, UPDATE, DELETE, columns added and
\* removed, failed saves and restarts.
UniqueHolds ==
    Sound({"update", "delete", "torn", "comma"}) => UniqueRecords /\ SetsComplete

\* A UNIQUE set has no value that no record has, which would refuse a legal
\* INSERT, unless an INSERT was refused for NOT NULL and the table not been
\* loaded again since.  What else went wrong leaves no such value behind.
NoGhostValue ==
    Sound({"insert"}) =>
        \A c \in DOMAIN columns : uniqueValues[c] \subseteq Column(c) \cup {Empty}

\* A NOT NULL column has a value in every record, unless it was added to records
\* that were there: an UPDATE cannot empty it.
NotNullHolds ==
    Sound({"late", "torn", "comma"}) =>
        \A c \in DOMAIN columns : columns[c].notNull =>
            \A k \in DOMAIN records : records[k][c] # Empty

\* After every statement whose save was not cut short, loading the files gives
\* the table in memory again: line and column structure survives the text format
\* as long as no value has a comma.
FilesAgree ==
    Sound({"save", "update", "comma"}) => meta = columns /\ Loaded = records

-----------------------------------------------------------------------------
(* What a document of the repository says, and the code does not do. *)

\* UNIQUE holds, also after an UPDATE that was refused because it would give a
\* value to two records.  updateRecords has stored the duplicate when it throws.
UniqueAfterRefusedUpdate == Sound({"delete", "torn", "comma"}) => UniqueRecords
=============================================================================
