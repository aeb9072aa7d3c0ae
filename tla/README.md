# RelictDB in TLA+

This directory specifies RelictDB, a small SQL-like database in C++17: its
shell, its catalog of databases and tables, its tables, the WHERE clause, the
transaction manager, the buffer pool and the B-tree index are modelled from the
code in `src/`, model-checked with TLC on small instances, and proved correct
with TLAPS: every safety property the passing runs check, both refinements and
the action properties are theorems. The paths below are relative to the root of the repository.

Contents: [the system](#the-system), [the modules](#the-modules),
[what the runs check](#what-the-runs-check), [bounds](#bounds-and-why-they-are-enough),
[fairness](#fairness-and-liveness), [what is proved](#what-is-proved),
[what the models found](#where-the-code-and-its-documents-disagree),
[what is not modelled](#what-is-not-modelled), [what is left](#what-is-left),
[how to run it](#how-to-run-it).

## The system

The shell (`src/main.cpp`) reads one command per line and runs it to its end:
there is one thread. Two components, `TransactionManager` and
`BufferPoolManager`, are written for several threads (each guards its methods
with a mutex), but the shell does not reach them yet: their callers in the
repository are the tests and the benchmark.

```
 main loop ──> DatabaseSystem ──> DatabaseManager ──> StorageEngine ──> *.table files
     │          (databases/…)        │  tables_            │ tables_ (its own copies)
     └────────> QueryParser ─────────┴──> Table ──> data/<name>.meta, data/<name>.data
                                             └── Column (UNIQUE sets), DataType
 tests ──> TransactionManager ──> log file          tests ──> BTreeIndex
 tests ──> BufferPoolManager  ──> page_<id>.dat     (unused) AggregateFunction, StringFunction, Value
```

| Component | State | Operations | What is hard | What makes it correct |
|---|---|---|---|---|
| `TransactionManager` | id counter, map of transactions with their lock lists, lock table, log file | begin, commit, abort, acquireLock (with upgrade), releaseLock, writeLog, recover | interleavings of clients; two tables of locks; crashes; failed log writes; ids used twice | locks held together are compatible; both tables agree; recovery gives back what callers were told |
| `BufferPoolManager` | frames, page table, LRU list and map, page files | fetchPage, allocatePage, unpinPage, flushPage, flushAllPages, deletePage | pages shared by several users; eviction; failed writes; crashes | the structures agree; pages in use stay; no update is lost silently; no frame leaks |
| `Table`, `Column`, `DataType` | columns, UNIQUE sets, records, `.meta` and `.data` files | addColumn, removeColumn, insert, update, delete, select, drop, load, save | statements that fail half way; two files rewritten in place; commas in values | constraints hold; the files give the table back |
| `StorageEngine` | map of tables, `.table` files | initialize, loadTable, createTable, deleteTable; stubs for transactions and flushing | three kinds of files for one table; two copies of each table | a created table is there after a restart, a dropped one is not |
| `DatabaseManager` | map of tables (copies of the engine's), data directory | setDataDirectory, createTable, dropTable, delegation | keeping its map, the engine's and the directory in step | the same tables in all three |
| `DatabaseSystem` | map of databases, current database, directory tree | create, drop, use, load | partial removal of a directory; restart | databases are isolated from each other |
| `QueryParser` | current transaction id, flag | one method per kind of statement | transactions that undo nothing; precedence of AND and OR | a statement does what it says, a transaction is finished once |
| Main loop | current parser, exit flag | dispatch | parser replaced by database commands; end of input | the loop ends; a transaction begun can be finished |
| `BTreeIndex` | tree of nodes, linked leaves | insert, search, rangeSearch | splits | what was inserted is found |
| `AggregateFunction`, `StringFunction`, `Value` | none | pure functions | overflow | the result of a reference definition |

Interactions: calls downwards only, no callbacks. Shared state is the file
system. `Table` always uses the directory `data`, for every database; the
`.table` files of `StorageEngine` are per database.

## The modules

| Module | Models | Uses |
|---|---|---|
| `TransactionManager` | `src/storage_engine/TransactionManager.cpp` | `LockService` |
| `LockService` | what a client that locks can count on (abstract) | |
| `MCTransactionManager` | the symmetry of the resources, for TLC | `TransactionManager` |
| `TransactionManager_proofs` | theorems | `TransactionManager`, `Induction` |
| `BufferPool` | `src/storage_engine/BufferPoolManager.cpp` | |
| `MCBufferPool` | constants for TLC | `BufferPool` |
| `BufferPool_proofs` | theorems | `BufferPool` |
| `Table` | `include/Table.h`, `Column.h`, `DataType.h` | |
| `MCTable` | constants for TLC | `Table` |
| `Table_proofs` | theorems | `Table`, `Induction` |
| `Condition` | `QueryParser::parseCondition`, `Table::evaluateCondition`, `DataType::validateValue` | |
| `MCCondition` | constants for TLC | `Condition` |
| `Condition_proofs` | theorems | `Condition`, `Induction` |
| `Catalog` | `include/DatabaseSystem.h`, `include/DatabaseManager.h`, `src/storage_engine/StorageEngine.cpp`, CREATE TABLE and DROP TABLE of `QueryParser` | |
| `MCCatalog` | constants for TLC | `Catalog` |
| `Catalog_proofs` | theorems | `Catalog` |
| `Session` | `src/main.cpp`, the transaction commands of `QueryParser` | |
| `Session_proofs` | theorems | `Session` |
| `BTree` | `src/storage_engine/BTreeIndex.cpp` | `IndexMap` |
| `IndexMap` | what a caller of the index can count on (abstract) | |
| `BTree_proofs` | theorems | `BTree`, `Induction` |
| `Induction` | no code: induction and recursion, as the proofs cite them | |

**TransactionManager.** The variables are the members of the class
(`nextTransactionId`, `transactions`, `resourceLocks`) and the log file, which
alone survives `Restart`. Every public method holds the mutex from its first
line to its last, so each is one action; a call that is refused changes nothing
and is a stuttering step. `acquireLock` is two actions, for a transaction that
lists no lock on the resource and for an upgrade; its other branch (a lock held
already) changes nothing. The lock vector of a resource is a set, because the
code only filters and searches it; the list of a transaction keeps its order,
because `acquireLock` looks at the first entry for the resource only.
`writeLog` may fail in every action that calls it, and nobody looks at its
result. `recover` replays the log as the code does (a log that only failed
writes have touched is an empty file, and counts as one): `ReplayLog` folds `ReplayRecord`
over the records, on top of whatever the map holds, and `AbortRunning` rolls
back what is left RUNNING. `RecoveryIsReplay` says what that comes to: the last
control record of an id decides its state, and a BEGIN record replaces the entry
and its locks.
A log record is a value that serialisation gives back unchanged.

Clients may call with any id that `begin` has ever returned, also one of an
earlier process; `careful` remembers whether they kept to the ids of this
process and called `recover` first. `lostWrite` remembers a failed log write.
Properties that need a tame environment are stated under these two; those that
do not are stated alone.

`LockService` is the manager seen by a client that locks: one table of locks, a
set of transactions that are alive, and no log. `Service` maps the manager to
it: the transactions in the map that this process has begun are alive,
`resourceLocks` is the table, `careful` is the trust. Every step of the manager must be a step of
the service or leave its view alone; so the second bookkeeping, in the lists of
the transactions, must never be seen from outside.

**BufferPool.** `pages`, `pageTable` and `lruList` are the members of the
class; `lruMap_` holds iterators into the list, so it is `Position`. `fetchPage`
is `FetchHit` and `FetchMiss`; what the miss and `allocatePage` share is `Load`.
Between the operations callers write bytes and set the dirty flag outside the
mutex (`WriteData`), and may announce a write only with the `isDirty` argument
of `unpinPage`, or forget it. Opening a file for writing empties it, and the
code does not look at the stream afterwards: every write may leave the file
empty and still count as done. `End` is the destructor, or a crash before,
during or without it. `content` records what was last written to each page and
`hurt` the pages the code has dropped knowingly: an eviction whose write
failed, a torn file, an unannounced write, `allocatePage` over an existing
file, `deletePage` that leaves the file, a crash. `NoLostUpdate` says that the
list is complete.

**Table.** The value of a field is a sequence of pieces cut at commas, which is
all the text format can tell apart: a record is saved as the concatenation of
its values, and `Parse` is the loop of `getline` calls that reads it back,
with what `getline` does at the end of a line. A statement is one action
including its save. `Save` either succeeds, or stops anywhere (a file that
cannot be opened, a write that fails unnoticed, a crash, of which nothing but
the files is left once `Reload` follows; `ReloadNothing` where the `.meta` file is
not there, which hides the `.data` file). A WHERE clause gives each record a
verdict that depends on its values alone; it throws where `std::stoi` would, at
the first of its INT conditions that meets a text without a number (`Throwing`).
UPDATE and DELETE are folds over the records that stop at the first exception,
as the loops do, and keep what was changed before it. `faults` remembers which
kinds of fault the table has met and not repaired.

**Condition.** The verdict that `Table` leaves open. A clause is a sequence of
conditions as they are written, with the parentheses and the NOT that stand
around each, and the AND and OR between them. `Found` is what the parser's
pattern takes from a condition: it skips parentheses and NOT before the name of
the column, and a parenthesis that closes behind the value is part of the value
(`stoi` stops at it; quotes are no longer removed). `parseCondition` cuts the
text behind its first AND or OR, as the parser does, and makes the chain of
links, and `evaluateCondition` walks the chain for a record. A text has three readings,
which are constants: the number `stoi` and `stoll` find in it, its place in the
order of bytes (for DATE) and its place once in upper case (for STRING). The
behaviour grows a clause, one condition at a time, so that TLC meets every
clause up to the bound with every record the columns accept. `Meant` is the reference,
the documents' reading: a NOT negates its condition, what stands in parentheses
is answered first (`Together`, `Answered`), and AND binds more tightly than OR,
so that some group of answers joined by AND must all be yes (`SomeGroup`).

**Catalog.** A table is known in three places, each a variable: `tables` of the
`DatabaseManager`, `engine` (`tables_` of the `StorageEngine`) and `files`, the
`.table` files in the directory of the database. Its columns and records are in
`saved`, the `.meta` and `.data` files, which the whole process keeps in one
directory. `Start` is `loadExistingDatabases` with the constructors under it;
`createDatabase` takes over a directory that is there already, and a `.table`
file that a crash left empty may end the process, or add columns and records
that nobody wrote (`LoadTorn`), because neither the number of columns nor that of
records read from it was ever set; what is added is saved in the shared files of
that name, some of it after other databases have loaded them. `Removed` is the recursive removal, which may stop
part of the way while the command still answers true. CREATE TABLE is three
actions: it succeeds; it meets a column it cannot add (of the same name, or a
second primary key) and drops the table again, keeping the columns it saved;
the process ends in the middle. A save is whole here: `Table` has the others.
The history variables keep what the commands answered; `unsure` the names that
were made when their files were there already, or in a CREATE TABLE that a crash
cut short, or to which a torn file added something; `faulty` the databases of which something could
not be made or removed.

**Session.** One pass of the loop, the read and the command, is the action
`Iterate`; the user types ahead and may close the input, after a line or in the
middle of one. `ReadLine` is `std::getline`: the next line; at the end of the
input an empty one; and once the stream has ended, the buffer as it was. So a
last line without a newline is run again for ever, an INSERT too. `ParserAfter`
is the replacement of the query parser after every database command, refused
ones included; `ParserAmong` the destruction of the manager it refers to. The
tables of a database are one value, replaced at once by a statement; COMMIT and
ROLLBACK reach stubs that answer true. `unfinished` keeps the transactions that
were begun and not finished, `orphans` those a database command put out of reach.

**BTree.** Nodes are numbered in the order they are made; children and the
chain of leaves are numbers. `insert` first makes room at the root
(`RoomAtRoot`), adds to the leaf, and splits the leaf if that filled it; inner
nodes below the root are never split, so they grow past the order. `Split` reads
the middle key past the end of the vector it has just shortened, as the code
does, and finds it there (`vector::resize` leaves the memory alone, and nothing
checks the access). `rangeSearch` starts at the leaf of the first key and walks
the chain (`KeysFrom`) up to the first key above the last one. `loadFromFile` takes the order from a file and leaves the
tree. `IndexMap` is the view of a caller: a map in which an insertion overwrites
nothing and may push out one entry; after a smaller order was loaded, one more.

## What the runs check

| Run | Question | Result |
|---|---|---|
| `tm` | types; compatible locks; agreement of the lock tables; one decision per begin; recovery tells callers' truth; what a replay comes to; implements `LockService` | holds |
| `tm_reuse` | does a committed transaction stay committed? | no: see below |
| `bp` | types; pool structures agree; pins = users; no silent loss; refusal only when all pinned | holds |
| `table` | shape; UNIQUE and its sets; no ghost values; NOT NULL; files = memory | holds |
| `table_update` | does UNIQUE survive a refused UPDATE? | no: see below |
| `condition` | shape of the chain; nothing selected that is not meant; what is missed, and when; what refuses a statement; what is never read | holds |
| `catalog` | types; the three lists of tables agree; databases as answered; tables as answered | holds |
| `catalog_recreate` | is a new table empty? | no: see below |
| `session` | types; the parser is live; parser and engines agree on transactions; `.exit` ends the shell; the end of the input does not | holds |
| `session_rollback` | does ROLLBACK discard the changes? | no: see below |
| `btree` | shape; search tree order; only separators are lost; range search complete; implements `IndexMap` | holds |
| `btree_lost` | is every key found that was inserted? | no: see below |

The properties of `table` are each stated under the absence of the faults that
break them, which makes the list of those faults part of the result. `UNIQUE`
is broken by an UPDATE or DELETE that throws half way, by loading what an
interrupted save left, and by commas; not by refused INSERTs, failed saves
without a restart, added or removed columns, or restarts. A ghost value (one
the UNIQUE set knows and no record has, so that a legal INSERT is refused)
comes from an INSERT refused for NOT NULL, and a restart repairs it. `NOT NULL`
is broken by adding such a column to existing records, by a torn load and by
commas; never by an UPDATE. The files agree with memory after every statement
whose save was complete, also when an earlier one was cut short.

The properties of `condition` place the distance between the code and the
documents. The code groups to the right, stops at a missing number, and sees
neither parentheses nor NOT. It touches a record the documents' reading would not
(`SelectsNothingElse`) only if the clause asks for a missing number, has a NOT, has
an OR in parentheses, or has a parenthesis that closes behind a text or date;
parentheses around conditions joined by AND, and the grouping to the right, never
do that. It passes a record over (`MissesOnlyThen`) only with an OR behind an AND,
a NOT, a parenthesis closing behind a text or date, or a missing number. A condition that cannot be evaluated refuses the statement
wherever it stands, for nothing is skipped because something else has decided
(`RefusedWhereverItStands`), except behind a missing number (`RestIsNotRead`).

`TablesAsAnswered` holds for the names that were used once: those are the same
table in every process, whatever crashed. Nothing of the kind holds for a name
that is used again, in the same database or in another, nor for one whose
`.table` file a crash left without contents. `MapsAgree` and
`DatabasesAsAnswered` likewise say nothing of a database that was half made or
half removed: nothing that could be promised of it holds.

`EndOfInputSpins` is a property of what the code does, not of what it should
do: an input that is closed without `.exit` always ends in a loop without end.

`OnlySeparatorsAreLost` says that a split loses exactly what it lifts: a key
whose insertion was answered true is found unless it is a key of an inner node
and was not inserted again.

## Bounds and why they are enough

- `tm`: two transactions per process, two resources, one restart, three log
  records, two entries per lock list. A conflict, an upgrade and its refusal
  need two transactions and one resource; the second resource shows that
  releasing visits the right ones. Ids of the first process are used again in
  the second, so the log holds records of two transactions with one id.
  `MaxLog` is also a failure: a full log takes no record. Resources are
  symmetric.
- `tm_reuse`: two restarts, the least the counterexample needs.
- `bp`: three pages, two frames, two users, two contents. Eviction needs more
  pages than frames; a choice of victim needs two frames; sharing needs two
  users. Pages and users are symmetric.
- `table`: two columns, two records, two assignments per UPDATE; one kind of
  fault that has not been repaired at a time (`MaxFaults`), a line of three
  fields (`MaxFields`: with commas, saving and loading make values longer
  without end). Uniqueness is a property of two records; a leak in one column
  caused by another needs two columns. A primary key of text and a nullable
  UNIQUE number are the two columns: they reach every branch of `Column`.
- `condition`: clauses of up to three conditions, the least in which precedence
  matters and in which a condition stands behind one that ended the evaluation;
  a column of each type; seven single conditions, among them ones that are true,
  false, unreadable, too large for an INT and not for a BIGINT, about a missing
  number, about an unknown column; each plain, behind an opening parenthesis,
  before a closing one, or negated in parentheses; texts that the three readings
  order differently, of which five are in records.
- `catalog`: two databases and one table name, which they share: what one name
  does to another is nothing but the list they stand in, and `Catalog_proofs`
  has any number. Three columns of which two are primary keys, and lists that
  fit, also on what a dropped table left (one list is without a primary key),
  that fit in part, and that name a column twice. Databases are symmetric.
  `catalog_recreate` needs one database.
- `session`: two databases, two lines typed ahead, two BEGINs: an orphan and a
  transaction beside it. No symmetry, because of the liveness properties.
- `btree`: five keys, two record ids, orders 3 and 4, nodes up to nine
  (`MaxNodes` is looked at before an insertion). Five keys are the least with
  which an inner node grows past its order under order 3; trees of height two
  and splits of inner roots occur. `btree_lost` needs two keys. Orders below
  3 are left out: a node of order 2 is full with one key.

The bounds are constants of the modules, in the guards of the actions; the
proofs hold for every value of them.

## Fairness and liveness

The storage components answer every call at once (a lock that cannot be granted
is refused, a pool without a free frame answers `nullptr`), so nothing in them
waits and no liveness is stated of them.

The shell is a loop, and `Session` has `WF_vars(Iterate)`: the process is
scheduled. A read blocks only while the input is open and nothing is typed, and
`Iterate` is not enabled then. The user is free to stop typing, to leave the
input open or to close it, so there is no fairness for `Type` and `Close`. Under
that, a `.exit` in the input is reached whatever stands before it
(`ExitTerminates`), and a closed input without one is met and never left
(`EndOfInputSpins`).

`CHECK_DEADLOCK FALSE` in the configurations is for the bounds: a state in which
every bound is used up has no successor. In `session` it is also for the end of
the shell, after which only the user moves.

## What is proved

TLAPS checks the following for every value of the constants allowed by
`BoundsAssumption`, `PoolAssumption`, `CatalogAssumption`, `SessionAssumption`,
`TableAssumption`, `ConditionAssumption`, `BTreeAssumption` and
`NoParserAssumption` (the value for "no parser" is not a parser). They ask for
types and for what makes the constants the thing they stand for: a value that is
not empty text, a primary key that is UNIQUE and NOT NULL, an order of at least 3.

Several models compute by recursion: a fold over records or over the log, the
walk down a tree or along a chain. The induction theorems of the library take a
predicate as a parameter, which the installed provers cannot instantiate.
`Induction` states the same about sets: a set of naturals that has 0 (or a
bound) and is closed under a step has them all (`UpInduction`, `DownInduction`);
a proof cites it with the set of the places at which its claim holds. And a
recursive function definition is a `CHOOSE`: before anything can be said of its
values, a function with its equation has to be exhibited. `LoopUp` and `LoopDown`
do that for loops over an interval, `RankedRecursion` for a definition in which
each value depends on those of lower rank.

`TransactionManager_proofs`:

- `TypeCorrect`: `Spec => []TypeOK`.
- `LocksCompatible`: `Spec => []LockCompatibility`, from the type invariant:
  only `AcquireNew` and `Upgrade` add a lock, and both ask `canGrantLock`.
- `LocksAgree`: `Spec => []LockAgreement`. Agreement of the two tables is not
  inductive alone: a BEGIN must not meet an entry of its id, and `recover` must
  not replace one that holds locks. `LockInv` adds that ids given out are below
  the counter, that recovered transactions hold no lock, that transactions of
  this process are running, and that a fresh process has given no id out.
- `TransactionsDecidedOnce`: `Spec => []DecidedOnce`, from `LockInv` and
  `LogInv`.
- `RecoveryIsFaithful`: `Spec => RecoveryFaithful`. `LogInv` says that, while
  no write is lost, the last control record of an id is the one its caller was
  told last; the closed form of `recover` then gives the state.
- `ReplayComesTo`: `Spec => []RecoveryIsReplay`. By induction on the part of the
  log that was read: after i records the map has the entries it had and those of
  the BEGIN records, and an entry is COMMITTED, or has its locks, as the last
  records up to i say (`ReplayedTo`, `ReplayStep`).
- `LocksAreServed`: `Spec => ImplementsLockService`, the refinement. The initial
  states map to the service's; under `LockInv`, `CallServes` and `NextServes` map
  each action to Begin, Acquire, Release, End, Crash or a stutter. That a release
  frees all of a transaction's locks although the code follows the transaction's
  own list is where `LockAgreement` is needed.

`BufferPool_proofs`:

The inductive invariant is `IInv`: `TypeOK`, `PoolConsistent`, `PinsAreUsers`,
`UnsavedInUse`, `NoLostUpdate` and `CleanIsOnDisk` together. `NoLostUpdate` says
nothing of what the file of a resident page holds, so it does not survive an
eviction by itself; `CleanIsOnDisk` says it of clean pages that have no write
left to announce. That a victim is such a page needs the pin counts to be right
(`PinsAreUsers`, `UnsavedInUse`), and a pin count stays a natural number only
because of them. The lemmas `ErasedFacts` and `PushFacts` are about the LRU list
as a sequence, `InstallFacts` and `PageChanged` about the three structures,
`WriteBackFacts` about the victim's file; then there is one lemma per action.

- `PoolTypes`, `StructuresAgree`, `PinsCountUsers`, `UpdatesSurvive`:
  `Spec => []TypeOK`, `[]PoolConsistent`, `[]PinsAreUsers`, `[]NoLostUpdate`.
- `RefusedForGoodReason`: `Spec => []RefusedOnlyWhenFull`, from `IInv` and the
  lemmas that a set of naturals has a least element and a bounded one a
  greatest (the first empty frame, the unpinned page nearest to the back).

`Session_proofs`: `TypeCorrect`, `ParserAlwaysLive`, `TransactionsAlwaysAgree`
(`Spec => []TypeOK`, `[]ParserIsLive`, `[]TransactionsAgree`). The inductive
invariant is `TypeOK` with `SessionInv`. Neither property is inductive alone:
that a new id is not one of an unfinished transaction needs the engine's
counter, and that it is not an orphan needs `orphans \subseteq unfinished`.
There is one lemma for the database commands, one for the table commands, and
`Iterate` combines them with the read.

`Catalog_proofs`: `TypeCorrect`, `MapsAlwaysAgree`, `DatabasesFound` and
`TablesFound` (`Spec => []TypeOK`, `[]MapsAgree`, `[]DatabasesAsAnswered`,
`[]TablesAsAnswered`). What a restart finds must hold of the disk while there is
no process, so `CatalogInv` adds `DirectoriesInv` (the whole directories are the
databases as answered, and where there is no directory there is no file) and
`NamesInv` (the files of a name used once belong to one database and hold what
its commands answered). `LoadTornShape` says what loading a torn file can change:
files of names that are `unsure` from then on. Each action has a lemma that it preserves the types and
one that it preserves `CatalogInv`; `OtherTables`, `SoleOwner`, `NamesKept` and
`AnsweredKept` carry the names an action does not touch.

`Table_proofs`: `TypeCorrect`, `UniqueAlways`, `NoGhosts`, `NotNullAlways` and
`FilesAlwaysAgree` (`Spec => []TypeOK`, `[]UniqueHolds`, `[]NoGhostValue`,
`[]NotNullHolds`, `[]FilesAgree`). The inductive invariant `IInv` joins them with
what they lean on. `TypeInv`: a record has a field for each column and no field
is without text. `CommaNoted`: a value with a comma does not get into memory
unnoticed, or the save that follows could not be trusted. `OtherSetsEmpty`: a
column without UNIQUE has no set that could refuse anything. `NotNullOnDisk`: the
files respect NOT NULL as well, since a restart replaces the memory by them.
UPDATE and DELETE are folds that may throw at any record, so the
invariant goes into the loop: `Sane` says what the loop has in hand after each
assignment, thrown or not, and `AssignStays`, `AssignAllStays`, `UpdateRowStays`
and `UpdatedStays` carry it from one assignment to the statement; `KeptIs` is
the loop of DELETE. `ParseLine` and `LoadedIs` show that a line written without a
comma in a value is read back as its record, for any number of columns.
`NoGhostValue` holds even where a statement threw half way: it needs only that
no INSERT was refused for NOT NULL since the table was loaded.

`Condition_proofs`: `TypeCorrect`, `RefusedWherever`, `SelectsOnlyMeant`,
`MissesNothingElse` and `RestUnreadAlways`, the five properties of the run, for
clauses of any length. `ParsedIsLinks` shows that the parser, which cuts a clause
behind its first AND or OR again and again, makes one link per condition.
`VerdictIsReading` replaces the walk of the chain by a reading of the clause from
its end (`IsReading`): the answer at each place is `Joined` of that place's
condition and the answer behind it. Each property then is an induction from the
end of the clause to its beginning; `MeantFrom` gives the reading of what remains at a place with AND
binding more tightly and no parentheses, so that both sides go down together
(`SelectsGroup`, `MissesGroup`). Parentheses come in last: `TogetherExists` finds
the pair a condition stands in, `GroupIsMeant` shows that a group of conditions
joined by AND is meant when no parentheses hold an OR, and `MeantHasGroup` that
whatever is meant has such a group, with any parentheses, in a clause without an
OR behind an AND. `MeansAsFound` says for which conditions the parser finds what
was written.

`BTree_proofs`: `TypeCorrect`, `InOrder`, `OnlySplitsLose`, `CompleteRanges`
(`Spec => []TypeOK`, `[]SearchTree`, `[]OnlySeparatorsAreLost`,
`[]RangeIsComplete`) and `RefinesMap` (`Spec => ImplementsMap`), from
`SpecIInv` (`Spec => []IInv`).

- The properties are about recursive views (a path, a subtree, the order of the
  leaves), and a split changes these everywhere above it. `IInv` speaks of labels
  of the single nodes instead: `height`, and `range`, the set of integers whose
  search passes the node. That a tree is one is then a condition on each node and
  its children (`Levelled`, `Ranged`: the range of a child is the `Part` of its
  parent's range between two separators; `Rooted`; `Chained`: the range of the
  next leaf begins where that of a leaf ends). Beside the shape, `Stored` relates
  the tree to what was accepted (every key anywhere was accepted, every accepted
  key is still somewhere, a leaf has the record id of its keys' last insertion),
  and `Fits` says that no leaf is full before an insertion.
- `SplitIs` says what `split` assigns to; the labels change in two places
  (`HeightAfter`, `RangeAfter`: the range of the node is cut at the key handed up),
  and one lemma for each part of the shape shows that it holds again
  (`SplitLevelled`, `SplitRanged`, `SplitRooted`, `SplitChained`, `SplitStored`,
  `SplitFits`; `SplitKeeps` joins them). `AddRootKeeps` and `AddToLeafKeeps` do
  the same for the other steps of an insertion, and `NextIInv` composes the three
  as `insert` does.
- From the labels back to the views: `PathIs` (a search ends in the leaf whose
  range the key is in, the recursion being ranked by height), `SubtreeIs` and
  `SubtreeInduction` (what children hand up holds of everything below a node),
  `HeightIs`. `SearchTree` is then that the range of a node includes that of every
  node below it, and `OnlySeparatorsAreLost` that a key is in one leaf's range.
- The order of the leaves is a run: neighbouring ranges in increasing order that
  together make up all integers (`IsRun`, `RunsJoined`). The chain, which is only
  known to lead from one range to the adjacent one, must follow it, so it ends and
  `Chain` and `KeysFrom` have values (`AlongChain`, `ChainIs`, `KeysFromIs`).
- `RefinesMap`: under `IInv` the view is the accepted keys that leaves hold
  (`ViewIs`); `InsertKeeps` says what one call does to those keys, `InsertInMap`
  that this is an `insert` of `IndexMap`, `NextRefines` maps every step.

`IInv` of `BTree` says that there are labels, which are sets of integers without
bounds, so TLC cannot evaluate it; the run `btree` checks the five properties
that follow from it.

Only model-checked:

- `ExitTerminates` and `EndOfInputSpins`, liveness under fairness, which is out
  of the provers' reach;
- the counterexamples.

## Where the code and its documents disagree

- `CommitSurvivesRecovery` (run `tm_reuse`). Begin and commit, restart, begin
  (the id is 1 again), restart, recover: the second BEGIN record of id 1 undoes
  the COMMIT record, and the committed transaction is reported ABORTED.
  `USAGE_NOTES.md:35` promises "Transaction logging for durability and recovery".
- `UniqueAfterRefusedUpdate` (run `table_update`). Insert 1, insert 2, update
  both to 1: the statement answers "Unique constraint violated" and the table
  holds 1 twice, with 1 in its UNIQUE set once. `DOCUMENTATION.md:91` says
  "UNIQUE: Values must be unique across all records"; the comment at
  `include/Table.h:568` says "// Roll back", and nothing follows it but the throw.
- `InsertedIsFound` (run `btree_lost`). In a tree of order 3, insert two keys: the
  leaf is full and split, its middle key goes up without its record id, and
  `search` of it answers -1. `BTreeIndex.h:102` documents
  "@return The record ID associated with the key, or -1 if not found".
- `RollbackRestores` (run `session_rollback`). BEGIN, a statement, ROLLBACK: the
  answer is "Transaction rolled back" and the tables are as the statement left
  them. `USAGE_NOTES.md:25`: "ROLLBACK: Discard all changes made in the current
  transaction".
- `NewTableIsEmpty` (run `catalog_recreate`). Create a table, insert, drop it,
  create it with another column: it has the old columns and the old record, since
  DROP TABLE leaves the `.meta` and `.data` files. `README.md:156` says of
  DROP TABLE "Deletes a table". Between databases the same happens without any
  DROP, while `help.md:389` says that each database is stored as a directory
  "with a "data" subdirectory for table files".

More disagreements are part of properties that hold, as the exceptions in them.

- Parentheses do not group. `help.md:1206`: "Use parentheses to explicitly group
  conditions"; `DOCUMENTATION.md:286` and `README.md:232` say the same.
  `(l = 2 OR l = 3) AND i < 10` is evaluated as `l = 2 OR (l = 3 AND i < 10)`, so
  that a record with l = 2 is selected, changed or deleted whatever its i: the
  text is cut at its first AND or OR wherever that stands, and the pattern for a
  condition is searched for in the rest, where it is found behind the parenthesis
  (`include/QueryParser.h:376`). Where a parenthesis closes behind a quoted text,
  the quotes and the parenthesis become part of the text, and records are missed
  that are meant. Without `OrInParentheses` in `SelectsNothingElse`, the run ends
  in such a record.
- NOT does not negate. `DOCUMENTATION.md:284`: "`NOT`: Negates a condition".
  `NOT (age < 18)`, the example in line 273, selects, changes or deletes the
  records with age < 18, for the same reason. Without `Negates` in
  `SelectsNothingElse`, the run ends in such a record.
- AND does not bind more tightly than OR. `help.md:1208` says that
  "`WHERE a = 1 AND b = 2 OR c = 3` is evaluated as `(a = 1 AND b = 2) OR c = 3`",
  and `DOCUMENTATION.md:286` speaks of "AND having higher precedence than OR"; the
  code evaluates `a = 1 AND (b = 2 OR c = 3)`, and `MissesOnlyThen` names the
  clauses for which that shows.
- A closed input never ends the shell (`EndOfInputSpins`).

## What is not modelled

- Data races: `recover` and `writeLog` take no mutex, page bytes are written
  outside it, and `setDirty` is called by whoever holds a page. Methods are
  atomic in the models. Callers in the repository are single-threaded.
- Callers that unpin pages they do not hold or write through a stale pointer;
  `setDbPath` called in the middle.
- A log record cut in the middle by a crash: what is appended behind it is read
  out of step, and nothing can be said of what recovery makes of it.
- Text: SQL syntax, number formats, dates, messages. A value has a type or has
  not. In a clause: quoted text that holds an AND or OR of its own; the letters of an
  operator that stand before the right-hand part, which the pattern for a single
  condition skips; parentheses in parentheses, and a NOT before several
  conditions; IS NULL and IS NOT NULL, in which the pattern finds no operator, so
  that the statement is refused. Queries change nothing.
- Saves that fail, in `Catalog`. `createTableWithColumns` of `DatabaseManager`, which nothing calls.
- A column is a primary key or not by its name, in `Catalog`.
- `AggregateFunction` and `StringFunction`: `main.cpp` includes them and no
  statement calls them. `Value`: only its test does.

## What is left

- A store of pages that may lose what `hurt` names, as the abstract
  specification of `BufferPool`.
- `Table` inside `Catalog`: the saves that fail, under the restart of the catalog.
- Torn log records, once the format of the log can tell them.

## How to run it

In this directory, with TLC and TLAPS:

```
tlc -workers 2 -config tm.cfg MCTransactionManager
tlc -workers 2 -config bp.cfg MCBufferPool
tlc -workers 2 -config table.cfg MCTable
tlc -workers 2 -config condition.cfg MCCondition
tlc -workers 2 -config catalog.cfg MCCatalog
tlc -workers 2 -config session.cfg Session
tlc -workers 2 -config btree.cfg BTree
tlc -config tm_reuse.cfg TransactionManager        # these end in a counterexample
tlc -config table_update.cfg MCTable
tlc -config catalog_recreate.cfg MCCatalog
tlc -config session_rollback.cfg Session
tlc -config btree_lost.cfg BTree
tlapm TransactionManager_proofs.tla
tlapm BufferPool_proofs.tla
tlapm Session_proofs.tla
tlapm Catalog_proofs.tla
tlapm Table_proofs.tla
tlapm Condition_proofs.tla
tlapm BTree_proofs.tla                             # some ten minutes
```
