------------------------- MODULE TransactionManager -------------------------
(***************************************************************************)
(* The transaction manager of the storage engine: a table of transactions, *)
(* a lock table, and a write-ahead log from which a restarted process      *)
(* rebuilds its transactions.                                              *)
(*                                                                         *)
(* Every public method but recover and writeLog runs under one mutex, so a *)
(* call is one atomic action.  A call that returns false or finds nothing  *)
(* to do changes nothing and is a stuttering step.  A lock that cannot be  *)
(* granted is refused at once: nobody waits.                               *)
(*                                                                         *)
(* Abstractions.  The vector of locks of a resource is only ever searched  *)
(* and filtered, so it is a set.  The locks_ vector of a transaction is    *)
(* kept per resource, in order, because acquireLock stops at the first     *)
(* entry for the resource.  A data record of the log (UPDATE, INSERT,      *)
(* DELETE) is one type, UPDATE, and carries no images: recover ignores it. *)
(*                                                                         *)
(* Two history variables say what the environment has done so far: careful *)
(* (the clients) and lostWrite (the disk).  A property that needs a tame   *)
(* environment is stated under them; one that does not is stated alone.    *)
(***************************************************************************)
EXTENDS Naturals, Sequences

CONSTANTS
    Resource,    \* the resources clients lock
    MaxTxn,      \* bound: transactions one process begins
    MaxRestarts, \* bound: restarts of the process
    MaxLocks,    \* bound: entries of locks_ for one resource
    MaxLog       \* bound: records the log holds

ASSUME BoundsAssumption ==
    /\ MaxTxn \in Nat \ {0}
    /\ MaxRestarts \in Nat
    /\ MaxLocks \in Nat \ {0}
    /\ MaxLog \in Nat

-----------------------------------------------------------------------------
TxnId == 1..MaxTxn
Mode == {"SHARED", "EXCLUSIVE"}
TransactionState == {"RUNNING", "COMMITTED", "ABORTED"}
Control == {"BEGIN", "COMMIT", "ABORT"}
LogType == Control \cup {"UPDATE"}

Lock == [txn : TxnId, mode : Mode]
LogRecord == [txn : TxnId, type : LogType]
Transaction == [state : TransactionState, locks : [Resource -> Seq(Mode)]]

\* What a caller was last told about the transaction that bears an id.
Outcome == {"none", "running", "committed", "aborted"}

VARIABLES
    nextTransactionId,  \* the id the next begin returns
    transactions,       \* the map from ids to transactions
    resourceLocks,      \* the map from resources to locks
    logFile,            \* the records on disk: all that survives a crash
    fresh,              \* has only recover changed this process so far?
    handles,            \* the ids begin returned in this process
    outcome,            \* what the clients were told of each id
    careful,            \* history: no stale id was used, no late recover called
    lostWrite,          \* history: writeLog failed at least once
    restarts            \* counter for the bound MaxRestarts

manager == <<nextTransactionId, transactions, resourceLocks>>
vars == <<manager, logFile, fresh, handles, outcome, careful, lostWrite, restarts>>

TypeOK ==
    /\ nextTransactionId \in 1..(MaxTxn + 1)
    /\ DOMAIN transactions \subseteq TxnId
    /\ transactions \in [DOMAIN transactions -> Transaction]
    /\ resourceLocks \in [Resource -> SUBSET Lock]
    /\ logFile \in Seq(LogRecord)
    /\ fresh \in BOOLEAN
    /\ handles \subseteq TxnId
    /\ outcome \in [TxnId -> Outcome]
    /\ careful \in BOOLEAN
    /\ lostWrite \in BOOLEAN
    /\ restarts \in 0..MaxRestarts

EmptyMap == [t \in {} |-> {}]

InitWith(firstId) ==
    /\ nextTransactionId = firstId
    /\ transactions = EmptyMap
    /\ resourceLocks = [r \in Resource |-> {}]
    /\ logFile = <<>>
    /\ fresh = TRUE
    /\ handles = {}
    /\ outcome = [t \in TxnId |-> "none"]
    /\ careful = TRUE
    /\ lostWrite = FALSE
    /\ restarts = 0

\* Mutant of Init: the counter starts at 0.
InitFromZero == InitWith(0)

Init == InitWith(1)

-----------------------------------------------------------------------------
(* Helpers shared by the methods. *)

NewTransaction == [state |-> "RUNNING", locks |-> [r \in Resource |-> <<>>]]

Put(t, transaction) ==
    [u \in DOMAIN transactions \cup {t} |->
        IF u = t THEN transaction ELSE transactions[u]]

\* Mutant of Erase: a finished transaction stays in the map.
KeepEntry(t) == transactions

Erase(t) == [u \in DOMAIN transactions \ {t} |-> transactions[u]]

\* The entries of locks_ that transaction t has for resource r.
Own(t, r) == transactions[t].locks[r]

SetOwn(t, r, modes) == [transactions EXCEPT ![t].locks[r] = modes]

LocksOn(t, r) == {l \in resourceLocks[r] : l.txn = t}
Others(t, r) == {l \in resourceLocks[r] : l.txn # t}

\* A record that cannot be written is dropped: no caller looks at the result.
\* A log of MaxLog records takes no more.
writeLog(t, type) ==
    \/ /\ Len(logFile) < MaxLog
       /\ logFile' = Append(logFile, [txn |-> t, type |-> type])
       /\ UNCHANGED lostWrite
    \/ /\ lostWrite' = TRUE
       /\ UNCHANGED logFile

\* Mutant of canGrantLock: only the mode of the locks held is looked at.
GrantToAnyShared(t, r, mode) == \A l \in Others(t, r) : l.mode = "SHARED"

canGrantLock(t, r, mode) ==
    \A l \in Others(t, r) : l.mode = "SHARED" /\ mode = "SHARED"

\* Mutant of releaseAllLocks: a resource locked twice is taken for released.
ReleaseSingleEntries(t) ==
    [r \in Resource |->
        IF Len(Own(t, r)) = 1 THEN Others(t, r) ELSE resourceLocks[r]]

\* Only the resources that t lists in its own locks_ are visited.
releaseAllLocks(t) ==
    [r \in Resource |-> IF Own(t, r) # <<>> THEN Others(t, r) ELSE resourceLocks[r]]

-----------------------------------------------------------------------------
(* The methods. *)

beginTransaction ==
    /\ nextTransactionId \in TxnId
    /\ nextTransactionId' = nextTransactionId + 1
    /\ transactions' = Put(nextTransactionId, NewTransaction)
    /\ writeLog(nextTransactionId, "BEGIN")
    /\ outcome' = [outcome EXCEPT ![nextTransactionId] = "running"]
    /\ handles' = handles \cup {nextTransactionId}
    /\ fresh' = FALSE
    /\ UNCHANGED <<resourceLocks, careful, restarts>>

\* The common body of commit and abort: it never asks for the state of the
\* transaction.  The state it sets goes with the entry of the map.
Finish(t, type, told) ==
    /\ t \in DOMAIN transactions
    /\ writeLog(t, type)
    /\ resourceLocks' = releaseAllLocks(t)
    /\ transactions' = Erase(t)
    /\ outcome' = [outcome EXCEPT ![t] = told]
    /\ UNCHANGED <<nextTransactionId, handles, restarts>>

commitTransaction(t) == Finish(t, "COMMIT", "committed")

abortTransaction(t) == Finish(t, "ABORT", "aborted")

SetLocks(t, r, locks, modes) ==
    /\ resourceLocks' = [resourceLocks EXCEPT ![r] = locks]
    /\ transactions' = SetOwn(t, r, modes)
    /\ UNCHANGED <<nextTransactionId, logFile, handles, outcome, lostWrite, restarts>>

\* acquireLock by a transaction that lists no lock on the resource.
AcquireNew(t, r, mode) ==
    /\ t \in DOMAIN transactions
    /\ Own(t, r) = <<>>
    /\ canGrantLock(t, r, mode)
    /\ SetLocks(t, r, resourceLocks[r] \cup {[txn |-> t, mode |-> mode]}, <<mode>>)

\* acquireLock of EXCLUSIVE by a transaction whose first entry for the
\* resource is SHARED: the resource's entry is replaced, the transaction's
\* own list only grows.
Upgrade(t, r) ==
    /\ t \in DOMAIN transactions
    /\ Own(t, r) # <<>>
    /\ Own(t, r)[1] = "SHARED"
    /\ canGrantLock(t, r, "EXCLUSIVE")
    /\ Len(Own(t, r)) < MaxLocks
    /\ SetLocks(t, r, Others(t, r) \cup {[txn |-> t, mode |-> "EXCLUSIVE"]},
                Append(Own(t, r), "EXCLUSIVE"))

releaseLock(t, r) ==
    /\ t \in DOMAIN transactions
    /\ SetLocks(t, r, Others(t, r), <<>>)

\* A client's own call of writeLog, with a data record.
WriteRecord(t) ==
    /\ writeLog(t, "UPDATE")
    /\ UNCHANGED <<manager, handles, outcome, restarts>>

-----------------------------------------------------------------------------
(* Restart and recovery. *)

\* Mutant of Begun: a BEGIN of an id that is known is passed over.
BegunOnce(table, t) ==
    [u \in DOMAIN table \cup {t} |-> IF u \in DOMAIN table THEN table[u] ELSE NewTransaction]

\* A BEGIN record puts a new Transaction in the place of any other.
Begun(table, t) ==
    [u \in DOMAIN table \cup {t} |-> IF u = t THEN NewTransaction ELSE table[u]]

\* One record of the log.  A decision on an id that is not in the map is passed
\* over, and so is a data record.
ReplayRecord(table, record) ==
    CASE record.type = "BEGIN" -> Begun(table, record.txn)
      [] record.type = "COMMIT" /\ record.txn \in DOMAIN table ->
            [table EXCEPT ![record.txn].state = "COMMITTED"]
      [] record.type = "ABORT" /\ record.txn \in DOMAIN table ->
            [table EXCEPT ![record.txn].state = "ABORTED"]
      [] OTHER -> table

\* Mutant of ReplayLog: the record that ends at the end of the file is dropped.
ReplayAllButLast(table, log) ==
    LET after[i \in 0..Len(log)] ==
            IF i = 0 THEN table
            ELSE LET before == after[i - 1] IN ReplayRecord(before, log[i])
    IN  after[IF log = <<>> THEN 0 ELSE Len(log) - 1]

\* The records, in the order of the log, on top of the map there is.
ReplayLog(table, log) ==
    LET after[i \in 0..Len(log)] ==
            IF i = 0 THEN table
            ELSE LET before == after[i - 1] IN ReplayRecord(before, log[i])
    IN  after[Len(log)]

\* What replay leaves RUNNING is rolled back.
AbortRunning(table) ==
    [t \in DOMAIN table |->
        IF table[t].state = "RUNNING" THEN [table[t] EXCEPT !.state = "ABORTED"]
        ELSE table[t]]

\* There is no file to open before a record is written; a write that failed may
\* have left an empty one.
recover ==
    /\ logFile # <<>> \/ lostWrite
    /\ transactions' = AbortRunning(ReplayLog(transactions, logFile))
    /\ careful' = (careful /\ fresh)
    /\ UNCHANGED <<nextTransactionId, resourceLocks, logFile, fresh, handles,
                   outcome, lostWrite, restarts>>

\* The process ends, in a crash or not, and a new TransactionManager is made.
Restart ==
    /\ restarts < MaxRestarts
    /\ restarts' = restarts + 1
    /\ nextTransactionId' = 1
    /\ transactions' = EmptyMap
    /\ resourceLocks' = [r \in Resource |-> {}]
    /\ fresh' = TRUE
    /\ handles' = {}
    /\ UNCHANGED <<logFile, outcome, careful, lostWrite>>

-----------------------------------------------------------------------------
\* A client's call with an id that begin returned, in this process or before.
Call(t) ==
    /\ \/ commitTransaction(t)
       \/ abortTransaction(t)
       \/ \E r \in Resource : \E mode \in Mode : AcquireNew(t, r, mode)
       \/ \E r \in Resource : Upgrade(t, r)
       \/ \E r \in Resource : releaseLock(t, r)
       \/ WriteRecord(t)
    /\ careful' = (careful /\ t \in handles)
    /\ fresh' = FALSE

Next ==
    \/ beginTransaction
    \/ \E t \in TxnId : outcome[t] # "none" /\ Call(t)
    \/ recover
    \/ Restart

Spec == Init /\ [][Next]_vars

-----------------------------------------------------------------------------
(* Safety. *)

\* Two different transactions share a resource only if both locks on it are
\* SHARED.  It holds whatever the clients do and whatever is written to disk:
\* canGrantLock looks at the resource's locks alone.
LockCompatibility ==
    \A r \in Resource : \A l1, l2 \in resourceLocks[r] :
        l1.txn # l2.txn => l1.mode = "SHARED" /\ l2.mode = "SHARED"

\* The two tables that acquireLock, releaseLock and releaseAllLocks keep apart
\* agree: a resource has one lock of a transaction that lists it, in the mode
\* the transaction was granted last, and none of any other transaction.  So no
\* lock outlives its transaction.
TablesAgree ==
    \A t \in TxnId : \A r \in Resource :
        LocksOn(t, r) = IF t \in DOMAIN transactions /\ Own(t, r) # <<>>
                        THEN {[txn |-> t, mode |-> Own(t, r)[Len(Own(t, r))]]}
                        ELSE {}

\* With clients that use only the ids begin gave them in this process, and that
\* recover before they do anything else, the two tables of locks agree, however
\* the log's writes fare.
LockAgreement == careful => TablesAgree

Decision(i, t) == logFile[i].txn = t /\ logFile[i].type \in {"COMMIT", "ABORT"}

\* A transaction is decided once: between two decisions on an id the log has
\* another BEGIN of that id.  commitTransaction and abortTransaction do not look
\* at the state of the transaction; they rely on its entry being erased.
DecidedOnce ==
    careful /\ ~lostWrite =>
        \A t \in TxnId : \A i, j \in 1..Len(logFile) :
            i < j /\ Decision(i, t) /\ Decision(j, t) =>
                \E k \in i..j : logFile[k] = [txn |-> t, type |-> "BEGIN"]

IsControl(i, t) == logFile[i].txn = t /\ logFile[i].type \in Control

\* Record i is the last of the log that says something of transaction t.
IsLast(i, t) ==
    /\ i \in 1..Len(logFile)
    /\ IsControl(i, t)
    /\ \A j \in (i + 1)..Len(logFile) : ~IsControl(j, t)

Logged(t, type) ==
    \E i \in 1..Len(logFile) : logFile[i] = [txn |-> t, type |-> type]

\* The last record of t decides, and t keeps its decision when there is none.
RecoveredState(t) ==
    IF \/ \E i \in 1..Len(logFile) : IsLast(i, t) /\ logFile[i].type = "COMMIT"
       \/ /\ \A i \in 1..Len(logFile) : ~IsControl(i, t)
          /\ transactions[t].state = "COMMITTED"
    THEN "COMMITTED" ELSE "ABORTED"

RecoveredLocks(t) ==
    IF Logged(t, "BEGIN") THEN NewTransaction.locks ELSE transactions[t].locks

Recovered ==
    [t \in DOMAIN transactions \cup {u \in TxnId : Logged(u, "BEGIN")} |->
        [state |-> RecoveredState(t), locks |-> RecoveredLocks(t)]]

\* In every reachable state, also with writes lost, ids used twice and
\* transactions alive, replaying the log record by record comes to what the last
\* record of each transaction says: recovery brings back the transactions the map
\* or a BEGIN record names, COMMITTED when a COMMIT is the last word on them.
RecoveryIsReplay == AbortRunning(ReplayLog(transactions, logFile)) = Recovered

\* When the log lost no write, recover knows again every transaction whose begin
\* was answered, and it is COMMITTED exactly when its commit was the last thing
\* its caller was told.
RecoveryFaithful ==
    [][recover /\ ~lostWrite =>
         \A t \in TxnId : outcome[t] # "none" =>
            /\ t \in DOMAIN transactions'
            /\ transactions'[t].state =
                 IF outcome[t] = "committed" THEN "COMMITTED" ELSE "ABORTED"]_vars

\* The manager, which looks up every lock in two tables, is a service with one
\* table: each call is one step of it or changes no lock.  That a commit or an
\* abort leaves no lock behind, an upgrade leaves one, and recovery none, is what
\* the two tables could get wrong.
Service == INSTANCE LockService
    WITH Client <- TxnId, alive <- DOMAIN transactions \cap handles,
         held <- resourceLocks, trusted <- careful

ImplementsLockService == Service!Spec

-----------------------------------------------------------------------------
(* The strengthenings that make the properties inductive. *)

\* While the clients are careful: an id that begin returned in this process is
\* below the counter, so begin never returns it twice; a transaction that recover
\* brought back has no lock; one begun in this process is running until its entry
\* is erased; and a fresh process has given no id away.
LockInv ==
    careful =>
        /\ \A t \in handles : t < nextTransactionId
        /\ \A t \in DOMAIN transactions \ handles : \A r \in Resource : Own(t, r) = <<>>
        /\ \A t \in DOMAIN transactions \cap handles : outcome[t] = "running"
        /\ fresh => handles = {}
        /\ TablesAgree

RecordOf == [running |-> "BEGIN", committed |-> "COMMIT", aborted |-> "ABORT"]

\* While no write is lost, the last record of an id is the one written when its
\* caller was last told something.
LogInv ==
    ~lostWrite =>
        \A t \in TxnId :
            IF outcome[t] = "none"
            THEN \A i \in 1..Len(logFile) : ~IsControl(i, t)
            ELSE /\ Logged(t, "BEGIN")
                 /\ \E i \in 1..Len(logFile) :
                        IsLast(i, t) /\ logFile[i].type = RecordOf[outcome[t]]

-----------------------------------------------------------------------------
(* What a document of the repository says, and the code does not do. *)

\* A COMMIT that reached the log survives: with careful clients and a log that
\* lost nothing, recovery finds the transaction COMMITTED.  The id counter
\* restarts at 1, so a later transaction takes the id, and its BEGIN record
\* undoes the COMMIT record when the log is replayed.
CommitSurvivesRecovery ==
    [][recover /\ fresh /\ careful /\ ~lostWrite =>
         \A t \in TxnId :
            Logged(t, "COMMIT") => transactions'[t].state = "COMMITTED"]_vars
=============================================================================
