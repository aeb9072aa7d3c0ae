---------------------- MODULE TransactionManager_proofs ----------------------
(***************************************************************************)
(* What holds of the transaction manager for any resources and any bounds: *)
(* its types, the compatibility of granted locks, the agreement of the two *)
(* lock tables, and what the log lets a restarted process recover.         *)
(***************************************************************************)
EXTENDS TransactionManager, Induction

-----------------------------------------------------------------------------
(* Types. *)

\* The map operations keep a map from ids to transactions.
LEMMA MapTypes ==
    ASSUME TypeOK, NEW t \in TxnId
    PROVE  /\ NewTransaction \in Transaction
           /\ \A tr \in Transaction :
                /\ DOMAIN Put(t, tr) = DOMAIN transactions \cup {t}
                /\ Put(t, tr) \in [DOMAIN transactions \cup {t} -> Transaction]
           /\ DOMAIN Erase(t) = DOMAIN transactions \ {t}
           /\ Erase(t) \in [DOMAIN transactions \ {t} -> Transaction]
  <1>1. NewTransaction \in Transaction
    BY DEF NewTransaction, Transaction, TransactionState
  <1>2. \A u \in DOMAIN transactions : transactions[u] \in Transaction
    BY DEF TypeOK
  <1> QED
    BY <1>1, <1>2 DEF Put, Erase

\* Changing one list of one transaction changes nothing else.
LEMMA SetOwnTypes ==
    ASSUME TypeOK, NEW t \in DOMAIN transactions, NEW r \in Resource,
           NEW modes \in Seq(Mode)
    PROVE  /\ DOMAIN SetOwn(t, r, modes) = DOMAIN transactions
           /\ SetOwn(t, r, modes) \in [DOMAIN transactions -> Transaction]
           /\ SetOwn(t, r, modes)[t].locks[r] = modes
           /\ \A u \in DOMAIN transactions : \A q \in Resource :
                u # t \/ q # r => SetOwn(t, r, modes)[u].locks[q] = Own(u, q)
  <1>1. transactions[t] \in Transaction
    BY DEF TypeOK
  <1>2. [transactions[t] EXCEPT !.locks[r] = modes] \in Transaction
    BY <1>1 DEF Transaction
  <1> QED
    BY <1>1, <1>2 DEF SetOwn, Own, TypeOK, Transaction

LEMMA OwnType ==
    ASSUME TypeOK, NEW t \in DOMAIN transactions, NEW r \in Resource
    PROVE  Own(t, r) \in Seq(Mode)
  BY DEF TypeOK, Own, Transaction

LEMMA RecoveredTypes ==
    ASSUME TypeOK
    PROVE  /\ DOMAIN Recovered = DOMAIN transactions \cup {u \in TxnId : Logged(u, "BEGIN")}
           /\ Recovered \in [DOMAIN Recovered -> Transaction]
           /\ DOMAIN Recovered \subseteq TxnId
           /\ \A t \in DOMAIN Recovered :
                /\ Recovered[t].state = RecoveredState(t)
                /\ Recovered[t].locks = RecoveredLocks(t)
  <1>1. NewTransaction.locks \in [Resource -> Seq(Mode)]
    BY DEF NewTransaction
  <1>2. ASSUME NEW t \in DOMAIN transactions \cup {u \in TxnId : Logged(u, "BEGIN")}
        PROVE  /\ RecoveredState(t) \in TransactionState
               /\ RecoveredLocks(t) \in [Resource -> Seq(Mode)]
    <2>1. RecoveredState(t) \in TransactionState
      BY DEF RecoveredState, TransactionState
    <2>2. CASE Logged(t, "BEGIN")
      BY <2>1, <2>2, <1>1 DEF RecoveredLocks
    <2>3. CASE ~Logged(t, "BEGIN")
      BY <2>1, <2>3 DEF RecoveredLocks, TypeOK, Transaction
    <2> QED
      BY <2>2, <2>3
  <1> QED
    BY <1>2 DEF Recovered, Transaction, TypeOK

-----------------------------------------------------------------------------
(* Replay. *)

Table == UNION {[D -> Transaction] : D \in SUBSET TxnId}

BegunBy(i, t) == \E j \in 1..i : logFile[j] = [txn |-> t, type |-> "BEGIN"]

\* Record j is the last of the first i that says something of t.
LastBy(i, j, t) == j \in 1..i /\ IsControl(j, t) /\ \A k \in (j + 1)..i : ~IsControl(k, t)

CommittedBy(i, t) ==
    \/ \E j \in 1..i : LastBy(i, j, t) /\ logFile[j].type = "COMMIT"
    \/ (\A j \in 1..i : ~IsControl(j, t)) /\ transactions[t].state = "COMMITTED"

\* What the first i records of the log make of the map.
ReplayedTo(table, i) ==
    /\ table \in Table
    /\ DOMAIN table = DOMAIN transactions \cup {t \in TxnId : BegunBy(i, t)}
    /\ \A t \in DOMAIN table :
        /\ table[t].locks = IF BegunBy(i, t) THEN NewTransaction.locks ELSE transactions[t].locks
        /\ table[t].state = "COMMITTED" <=> CommittedBy(i, t)

LEMMA TableElements ==
    ASSUME NEW table \in Table
    PROVE  /\ DOMAIN table \subseteq TxnId
           /\ \A t \in DOMAIN table : table[t] \in Transaction
           /\ table = [t \in DOMAIN table |-> table[t]]
  BY DEF Table

LEMMA IsTable ==
    ASSUME NEW table, table = [t \in DOMAIN table |-> table[t]], DOMAIN table \subseteq TxnId,
           \A t \in DOMAIN table : table[t] \in Transaction
    PROVE  table \in Table
  <1>1. table \in [DOMAIN table -> Transaction]
    OBVIOUS
  <1> QED
    BY <1>1 DEF Table

\* What one record does: a BEGIN makes its transaction new, a decision on a known
\* transaction sets its state, and every other transaction stays as it was.
LEMMA ReplayRecordIs ==
    ASSUME NEW table \in Table, NEW record \in LogRecord
    PROVE  LET next == ReplayRecord(table, record)
               t == record.txn
           IN  /\ next \in Table
               /\ DOMAIN next = IF record.type = "BEGIN" THEN DOMAIN table \cup {t}
                                ELSE DOMAIN table
               /\ \A u \in DOMAIN table \ {t} : next[u] = table[u]
               /\ record.type = "BEGIN" => next[t] = NewTransaction
               /\ t \in DOMAIN table /\ record.type # "BEGIN" =>
                    /\ next[t].locks = table[t].locks
                    /\ record.type = "COMMIT" => next[t].state = "COMMITTED"
                    /\ record.type = "ABORT" => next[t].state = "ABORTED"
                    /\ record.type = "UPDATE" => next[t].state = table[t].state
  <1> DEFINE next == ReplayRecord(table, record)
             t == record.txn
  <1>1. t \in TxnId /\ record.type \in {"BEGIN", "COMMIT", "ABORT", "UPDATE"}
    BY DEF LogRecord, LogType, Control
  <1>2. NewTransaction \in Transaction
    BY DEF NewTransaction, Transaction, TransactionState
  <1>3. CASE record.type = "BEGIN"
    <2>1. next = [u \in DOMAIN table \cup {t} |-> IF u = t THEN NewTransaction ELSE table[u]]
      BY <1>3 DEF ReplayRecord, Begun
    <2> HIDE DEF next
    <2>2. next \in Table
      BY <1>1, <1>2, <2>1, TableElements, IsTable
    <2> QED
      BY <1>3, <2>1, <2>2 DEF next
  <1>4. ASSUME NEW state \in TransactionState, t \in DOMAIN table,
               next = [table EXCEPT ![t].state = state]
        PROVE  /\ next \in Table
               /\ DOMAIN next = DOMAIN table
               /\ \A u \in DOMAIN table \ {t} : next[u] = table[u]
               /\ next[t].locks = table[t].locks
               /\ next[t].state = state
    <2>1. table[t] \in Transaction
      BY <1>4, TableElements
    <2>2. /\ [table[t] EXCEPT !.state = state] \in Transaction
          /\ [table[t] EXCEPT !.state = state].state = state
          /\ [table[t] EXCEPT !.state = state].locks = table[t].locks
      BY <2>1 DEF Transaction
    <2>3. next = [table EXCEPT ![t] = [table[t] EXCEPT !.state = state]]
      BY <1>4
    <2> HIDE DEF next
    <2>4. /\ DOMAIN next = DOMAIN table
          /\ \A u \in DOMAIN table \ {t} : next[u] = table[u]
          /\ next[t] = [table[t] EXCEPT !.state = state]
          /\ next = [u \in DOMAIN next |-> next[u]]
      BY <2>3, <1>4
    <2>5. next \in Table
      BY <2>2, <2>4, TableElements, IsTable
    <2> QED
      BY <2>2, <2>4, <2>5
  <1>5. CASE record.type = "COMMIT" /\ t \in DOMAIN table
    <2>1. next = [table EXCEPT ![t].state = "COMMITTED"]
      BY <1>5 DEF ReplayRecord
    <2> HIDE DEF next
    <2> QED
      BY <1>4, <1>5, <2>1 DEF TransactionState, next
  <1>6. CASE record.type = "ABORT" /\ t \in DOMAIN table
    <2>1. next = [table EXCEPT ![t].state = "ABORTED"]
      BY <1>6 DEF ReplayRecord
    <2> HIDE DEF next
    <2> QED
      BY <1>4, <1>6, <2>1 DEF TransactionState, next
  <1>7. CASE record.type = "UPDATE" \/ (record.type # "BEGIN" /\ t \notin DOMAIN table)
    <2>1. next = table
      BY <1>1, <1>7 DEF ReplayRecord
    <2> HIDE DEF next
    <2> QED
      BY <1>1, <1>7, <2>1 DEF next
  <1> QED
    BY <1>1, <1>3, <1>5, <1>6, <1>7

\* One more record.
LEMMA ReplayStep ==
    ASSUME TypeOK, NEW i \in 1..Len(logFile), NEW table, ReplayedTo(table, i - 1)
    PROVE  ReplayedTo(ReplayRecord(table, logFile[i]), i)
  <1> DEFINE record == logFile[i]
             t == record.txn
             next == ReplayRecord(table, record)
  <1>1. record \in LogRecord /\ i \in Nat /\ i - 1 \in Nat
    BY DEF TypeOK
  <1>2. table \in Table
    BY DEF ReplayedTo
  <1>3. /\ next \in Table
        /\ DOMAIN next = IF record.type = "BEGIN" THEN DOMAIN table \cup {t} ELSE DOMAIN table
        /\ \A u \in DOMAIN table \ {t} : next[u] = table[u]
        /\ record.type = "BEGIN" => next[t] = NewTransaction
        /\ t \in DOMAIN table /\ record.type # "BEGIN" =>
             /\ next[t].locks = table[t].locks
             /\ record.type = "COMMIT" => next[t].state = "COMMITTED"
             /\ record.type = "ABORT" => next[t].state = "ABORTED"
             /\ record.type = "UPDATE" => next[t].state = table[t].state
    BY <1>1, <1>2, ReplayRecordIs
  <1>4. t \in TxnId /\ record.type \in {"BEGIN", "COMMIT", "ABORT", "UPDATE"}
        /\ record = [txn |-> t, type |-> record.type]
    BY <1>1 DEF LogRecord, LogType, Control
  <1>5. \A u : BegunBy(i, u) <=> BegunBy(i - 1, u) \/ record = [txn |-> u, type |-> "BEGIN"]
    BY <1>1 DEF BegunBy
  <1>6. \A u : BegunBy(i, u) <=> BegunBy(i - 1, u) \/ (u = t /\ record.type = "BEGIN")
    <2>1. ASSUME NEW u
          PROVE  record = [txn |-> u, type |-> "BEGIN"] <=> u = t /\ record.type = "BEGIN"
      <3>1. CASE u = t /\ record.type = "BEGIN"
        BY <1>4, <3>1
      <3>2. CASE record = [txn |-> u, type |-> "BEGIN"]
        BY <3>2
      <3> QED
        BY <3>1, <3>2
    <2> HIDE DEF record, t
    <2> QED
      BY <1>5, <2>1
  <1>7. ASSUME NEW u
        PROVE  CommittedBy(i, u) <=> IF IsControl(i, u) THEN record.type = "COMMIT"
                                     ELSE CommittedBy(i - 1, u)
    <2>1. CASE IsControl(i, u)
      <3>1. LastBy(i, i, u)
        BY <1>1, <2>1 DEF LastBy
      <3>2. \A j \in 1..i : LastBy(i, j, u) => j = i
        BY <1>1, <2>1 DEF LastBy
      <3> QED
        BY <1>1, <2>1, <3>1, <3>2 DEF CommittedBy
    <2>2. CASE ~IsControl(i, u)
      <3>1. \A j : LastBy(i, j, u) <=> LastBy(i - 1, j, u)
        BY <1>1, <2>2 DEF LastBy
      <3>2. (\A j \in 1..i : ~IsControl(j, u)) <=> \A j \in 1..(i - 1) : ~IsControl(j, u)
        BY <1>1, <2>2
      <3>3. \A j : LastBy(i, j, u) => j \in 1..i
        BY DEF LastBy
      <3>4. \A j : LastBy(i - 1, j, u) => j \in 1..(i - 1)
        BY DEF LastBy
      <3> QED
        BY <2>2, <3>1, <3>2, <3>3, <3>4 DEF CommittedBy
    <2> QED
      BY <2>1, <2>2
  <1>8. \A u : IsControl(i, u) <=> u = t /\ record.type # "UPDATE"
    BY <1>4 DEF IsControl, Control
  <1> HIDE DEF next
  <1>9. DOMAIN next = DOMAIN transactions \cup {u \in TxnId : BegunBy(i, u)}
    BY <1>3, <1>4, <1>6 DEF ReplayedTo
  <1>10. ASSUME NEW u \in DOMAIN next
         PROVE  /\ next[u].locks =
                     IF BegunBy(i, u) THEN NewTransaction.locks ELSE transactions[u].locks
                /\ next[u].state = "COMMITTED" <=> CommittedBy(i, u)
    <2>1. CASE u # t
      <3>1. u \in DOMAIN table /\ next[u] = table[u]
        BY <1>3, <2>1
      <3>2. BegunBy(i, u) <=> BegunBy(i - 1, u)
        BY <1>6, <2>1
      <3>3. CommittedBy(i, u) <=> CommittedBy(i - 1, u)
        BY <1>7, <1>8, <2>1
      <3> QED
        BY <3>1, <3>2, <3>3 DEF ReplayedTo
    <2>2. CASE u = t /\ record.type = "BEGIN"
      <3>1. next[u] = NewTransaction
        BY <1>3, <2>2
      <3>2. BegunBy(i, u) /\ ~CommittedBy(i, u)
        BY <1>6, <1>7, <1>8, <2>2
      <3> QED
        BY <3>1, <3>2 DEF NewTransaction
    <2>3. CASE u = t /\ record.type # "BEGIN"
      <3>1. u \in DOMAIN table /\ next[u].locks = table[u].locks
        BY <1>3, <2>3
      <3>2. BegunBy(i, u) <=> BegunBy(i - 1, u)
        BY <1>6, <2>3
      <3>3. next[u].state = "COMMITTED" <=> CommittedBy(i, u)
        BY <1>3, <1>4, <1>7, <1>8, <2>3, <3>1 DEF ReplayedTo
      <3> QED
        BY <3>1, <3>2, <3>3 DEF ReplayedTo
    <2> QED
      BY <2>1, <2>2, <2>3
  <1> QED
    BY <1>3, <1>9, <1>10 DEF ReplayedTo, next

\* The replay of the whole log.
LEMMA ReplayLogIs ==
    ASSUME TypeOK
    PROVE  ReplayedTo(ReplayLog(transactions, logFile), Len(logFile))
  <1> DEFINE n == Len(logFile)
             Round(g, i) == IF i = 0 THEN transactions ELSE ReplayRecord(g[i - 1], logFile[i])
             after == CHOOSE g : g = [i \in 0..n |-> Round(g, i)]
             step == [i \in 1..n |-> [table \in Table |-> ReplayRecord(table, logFile[i])]]
  <1>1. n \in Nat /\ \A i \in 1..n : logFile[i] \in LogRecord
    BY DEF TypeOK
  <1>2. transactions \in Table
    BY IsTable DEF TypeOK
  <1>3. \A i \in 1..n : \A table \in Table :
            step[i][table] = ReplayRecord(table, logFile[i]) /\ step[i][table] \in Table
    BY <1>1, ReplayRecordIs
  <1>4. step \in [1..n -> [Table -> Table]]
    <2>1. ASSUME NEW i \in 1..n PROVE [table \in Table |-> ReplayRecord(table, logFile[i])] \in [Table -> Table]
      BY <1>1, ReplayRecordIs
    <2> QED
      BY <2>1
  <1> HIDE DEF step
  <1>5. PICK f : IsLoopUp(f, Table, n, transactions, step)
    <2> HIDE DEF n
    <2> QED
      BY <1>1, <1>2, <1>4, LoopUp
  <1>6. \E g : g = [i \in 0..n |-> Round(g, i)]
    <2> HIDE DEF n
    <2>1. /\ f \in [0..n -> Table] /\ f[0] = transactions
          /\ \A i \in 1..n : f[i] = step[i][f[i - 1]] /\ f[i - 1] \in Table
      BY <1>1, <1>5 DEF IsLoopUp
    <2>2. ASSUME NEW i \in 0..n
          PROVE  f[i] = Round(f, i)
      BY <1>1, <1>3, <2>1
    <2>3. f = [i \in 0..n |-> Round(f, i)]
      <3> HIDE DEF Round
      <3> QED
        BY <2>1, <2>2
    <2> HIDE DEF Round
    <2> QED
      BY <2>3
  <1>7. after = [i \in 0..n |-> Round(after, i)]
    <2> HIDE DEF Round, n
    <2> QED
      BY <1>6
  <1>8. ReplayLog(transactions, logFile) = after[n]
    BY DEF ReplayLog
  <1> HIDE DEF after
  <1> DEFINE T == {i \in 0..n : ReplayedTo(after[i], i)}
  <1>9. 0 \in T
    <2>1. after[0] = transactions
      BY <1>1, <1>7
    <2>2. 1..0 = {}
      OBVIOUS
    <2>3. \A t : ~BegunBy(0, t) /\ (CommittedBy(0, t) <=> transactions[t].state = "COMMITTED")
      BY <2>2 DEF BegunBy, CommittedBy, LastBy
    <2> QED
      BY <1>1, <1>2, <2>1, <2>3 DEF ReplayedTo
  <1>10. ASSUME NEW i \in 0..(n - 1), i \in T
         PROVE  i + 1 \in T
    <2>1. i + 1 \in 1..n /\ i + 1 \in 0..n /\ (i + 1) - 1 = i
      BY <1>1
    <2>2. after[i + 1] = ReplayRecord(after[i], logFile[i + 1])
      BY <1>7, <2>1
    <2>3. ReplayedTo(after[i], (i + 1) - 1)
      BY <1>10, <2>1
    <2>4. ReplayedTo(ReplayRecord(after[i], logFile[i + 1]), i + 1)
      BY <2>1, <2>3, ReplayStep
    <2> QED
      BY <2>1, <2>2, <2>4
  <1>11. n \in T
    <2> HIDE DEF n, T
    <2>1. 0..n \subseteq T
      BY <1>1, <1>9, <1>10, UpInduction
    <2> QED
      BY <1>1, <2>1
  <1> QED
    BY <1>8, <1>11

\* Record by record, recovery comes to what the last records say.
LEMMA ReplayIsRecovered ==
    ASSUME TypeOK
    PROVE  RecoveryIsReplay
  <1> DEFINE table == ReplayLog(transactions, logFile)
             n == Len(logFile)
  <1>1. ReplayedTo(table, n)
    BY ReplayLogIs
  <1>2. \A t : (BegunBy(n, t) <=> Logged(t, "BEGIN"))
    BY DEF BegunBy, Logged
  <1>3. \A t, i : LastBy(n, i, t) <=> IsLast(i, t)
    BY DEF LastBy, IsLast
  <1>4. \A t : RecoveredState(t) = IF CommittedBy(n, t) THEN "COMMITTED" ELSE "ABORTED"
    BY <1>3 DEF CommittedBy, RecoveredState
  <1> HIDE DEF table
  <1>5. DOMAIN AbortRunning(table) = DOMAIN Recovered
    BY <1>1, <1>2 DEF AbortRunning, Recovered, ReplayedTo
  <1>6. ASSUME NEW t \in DOMAIN Recovered
        PROVE  AbortRunning(table)[t] = Recovered[t]
    <2>1. t \in DOMAIN table /\ table[t] \in Transaction
      BY <1>1, <1>5, TableElements DEF AbortRunning, ReplayedTo
    <2>2. table[t].locks = RecoveredLocks(t)
      BY <1>1, <1>2, <2>1 DEF ReplayedTo, RecoveredLocks
    <2>3. table[t].state = "COMMITTED" <=> CommittedBy(n, t)
      BY <1>1, <2>1 DEF ReplayedTo
    <2>4. table[t] = [state |-> table[t].state, locks |-> table[t].locks]
          /\ table[t].state \in {"RUNNING", "COMMITTED", "ABORTED"}
      BY <2>1 DEF Transaction, TransactionState
    <2>5. AbortRunning(table)[t] =
            [state |-> IF table[t].state = "COMMITTED" THEN "COMMITTED" ELSE "ABORTED",
             locks |-> table[t].locks]
      BY <2>1, <2>4 DEF AbortRunning
    <2>6. Recovered[t] = [state |-> RecoveredState(t), locks |-> RecoveredLocks(t)]
      BY <1>6 DEF Recovered
    <2> QED
      BY <1>4, <2>2, <2>3, <2>5, <2>6
  <1>7. /\ AbortRunning(table) = [t \in DOMAIN AbortRunning(table) |-> AbortRunning(table)[t]]
        /\ Recovered = [t \in DOMAIN Recovered |-> Recovered[t]]
    BY DEF AbortRunning, Recovered
  <1>8. AbortRunning(table) = Recovered
    BY <1>5, <1>6, <1>7
  <1> QED
    BY <1>8 DEF RecoveryIsReplay, table

LEMMA RecoverIs ==
    ASSUME TypeOK, recover
    PROVE  transactions' = Recovered
  BY ReplayIsRecovered DEF recover, RecoveryIsReplay

-----------------------------------------------------------------------------
(* Types of the steps. *)

\* Writing a record keeps a log of records.
LEMMA WriteLogTypes ==
    ASSUME TypeOK, NEW t \in TxnId, NEW type \in LogType, writeLog(t, type)
    PROVE  logFile' \in Seq(LogRecord) /\ lostWrite' \in BOOLEAN
  <1>1. [txn |-> t, type |-> type] \in LogRecord
    BY DEF LogRecord
  <1>2. logFile' \in Seq(LogRecord)
    BY <1>1 DEF writeLog, TypeOK
  <1>3. lostWrite' \in BOOLEAN
    BY Zenon DEF writeLog, TypeOK
  <1> QED
    BY <1>2, <1>3

LEMMA EmptyMapType ==
    /\ DOMAIN EmptyMap = {}
    /\ EmptyMap \in [{} -> Transaction]
  BY DEF EmptyMap

LEMMA InitTypes == Init => TypeOK
  <1> SUFFICES ASSUME Init PROVE TypeOK
    OBVIOUS
  <1>1. nextTransactionId \in 1..(MaxTxn + 1) /\ restarts \in 0..MaxRestarts
    BY BoundsAssumption DEF Init, InitWith
  <1>2. /\ DOMAIN transactions \subseteq TxnId
        /\ transactions \in [DOMAIN transactions -> Transaction]
    BY EmptyMapType DEF Init, InitWith
  <1>3. outcome \in [TxnId -> Outcome]
    BY DEF Init, InitWith, Outcome
  <1>4. fresh \in BOOLEAN /\ careful \in BOOLEAN /\ lostWrite \in BOOLEAN
    BY DEF Init, InitWith
  <1>5. resourceLocks \in [Resource -> SUBSET Lock] /\ logFile \in Seq(LogRecord)
    BY DEF Init, InitWith
  <1> QED
    BY <1>1, <1>2, <1>3, <1>4, <1>5 DEF Init, InitWith, TypeOK

\* The part of the types that every call of a client shares.
LEMMA CallTypes ==
    ASSUME TypeOK, NEW t \in TxnId, Call(t)
    PROVE  TypeOK'
  <1> USE DEF LogType, Control, Outcome
  <1>0. fresh' \in BOOLEAN /\ careful' \in BOOLEAN
    BY DEF Call, TypeOK
  <1>1. ASSUME NEW type \in {"COMMIT", "ABORT"}, NEW told \in {"committed", "aborted"},
               Finish(t, type, told)
        PROVE  TypeOK'
    <2>1. releaseAllLocks(t) \in [Resource -> SUBSET Lock]
      BY DEF releaseAllLocks, Others, TypeOK
    <2>2. logFile' \in Seq(LogRecord) /\ lostWrite' \in BOOLEAN
      BY <1>1, WriteLogTypes DEF Finish
    <2>3. /\ DOMAIN transactions' \subseteq TxnId
          /\ transactions' \in [DOMAIN transactions' -> Transaction]
      <3>1. transactions' = Erase(t)
        BY <1>1 DEF Finish
      <3> QED
        BY <3>1, MapTypes DEF TypeOK
    <2>4. outcome' \in [TxnId -> Outcome]
      BY <1>1 DEF Finish, TypeOK
    <2>5. /\ resourceLocks' \in [Resource -> SUBSET Lock]
          /\ nextTransactionId' \in 1..(MaxTxn + 1)
          /\ handles' \subseteq TxnId
          /\ restarts' \in 0..MaxRestarts
      BY <1>1, <2>1 DEF Finish, TypeOK
    <2> QED
      BY <1>0, <2>2, <2>3, <2>4, <2>5 DEF TypeOK
  <1>2. ASSUME NEW r \in Resource, NEW locks \in SUBSET Lock, NEW modes \in Seq(Mode),
               t \in DOMAIN transactions, SetLocks(t, r, locks, modes)
        PROVE  TypeOK'
    BY <1>0, <1>2, SetOwnTypes DEF SetLocks, TypeOK
  <1>3. CASE commitTransaction(t)
    BY <1>1, <1>3 DEF commitTransaction
  <1>4. CASE abortTransaction(t)
    BY <1>1, <1>4 DEF abortTransaction
  <1>5. ASSUME NEW r \in Resource, NEW mode \in Mode, AcquireNew(t, r, mode)
        PROVE  TypeOK'
    <2>1. resourceLocks[r] \cup {[txn |-> t, mode |-> mode]} \in SUBSET Lock
      BY DEF TypeOK, Lock
    <2>2. <<mode>> \in Seq(Mode)
      OBVIOUS
    <2> QED
      BY <1>2, <1>5, <2>1, <2>2 DEF AcquireNew
  <1>6. ASSUME NEW r \in Resource, Upgrade(t, r)
        PROVE  TypeOK'
    <2>1. Others(t, r) \cup {[txn |-> t, mode |-> "EXCLUSIVE"]} \in SUBSET Lock
      BY DEF TypeOK, Lock, Mode, Others
    <2>2. Append(Own(t, r), "EXCLUSIVE") \in Seq(Mode)
      BY <1>6, OwnType DEF Upgrade, Mode
    <2> QED
      BY <1>2, <1>6, <2>1, <2>2 DEF Upgrade
  <1>7. ASSUME NEW r \in Resource, releaseLock(t, r)
        PROVE  TypeOK'
    <2>1. Others(t, r) \in SUBSET Lock
      BY DEF TypeOK, Others
    <2>2. <<>> \in Seq(Mode)
      OBVIOUS
    <2>3. t \in DOMAIN transactions /\ SetLocks(t, r, Others(t, r), <<>>)
      BY <1>7 DEF releaseLock
    <2> QED
      BY <1>2, <2>1, <2>2, <2>3
  <1>8. CASE WriteRecord(t)
    BY <1>0, <1>8, WriteLogTypes DEF WriteRecord, TypeOK, manager
  <1> QED
    BY <1>3, <1>4, <1>5, <1>6, <1>7, <1>8 DEF Call

LEMMA NextTypes ==
    ASSUME TypeOK, [Next]_vars
    PROVE  TypeOK'
  <1>1. CASE beginTransaction
    <2> DEFINE id == nextTransactionId
    <2>1. id \in TxnId /\ id + 1 \in 1..(MaxTxn + 1)
      BY <1>1, BoundsAssumption DEF beginTransaction, TxnId
    <2>2. logFile' \in Seq(LogRecord) /\ lostWrite' \in BOOLEAN
      BY <1>1, <2>1, WriteLogTypes DEF beginTransaction, LogType, Control
    <2>3. /\ DOMAIN transactions' \subseteq TxnId
          /\ transactions' \in [DOMAIN transactions' -> Transaction]
      <3>1. transactions' = Put(id, NewTransaction)
        BY <1>1 DEF beginTransaction
      <3>2. DOMAIN transactions \subseteq TxnId
        BY DEF TypeOK
      <3>3. /\ DOMAIN transactions' = DOMAIN transactions \cup {id}
            /\ transactions' \in [DOMAIN transactions \cup {id} -> Transaction]
        BY <2>1, <3>1, MapTypes
      <3> HIDE DEF id
      <3> QED
        BY <2>1, <3>2, <3>3
    <2> QED
      BY <1>1, <2>1, <2>2, <2>3 DEF beginTransaction, TypeOK, Outcome
  <1>2. ASSUME NEW t \in TxnId, Call(t)
        PROVE  TypeOK'
    BY <1>2, CallTypes
  <1>3. CASE recover
    BY <1>3, RecoverIs, RecoveredTypes DEF recover, TypeOK
  <1>4. CASE Restart
    <2>1. restarts + 1 \in 0..MaxRestarts
      BY <1>4, BoundsAssumption DEF Restart, TypeOK
    <2>2. 1 \in 1..(MaxTxn + 1)
      BY BoundsAssumption
    <2> QED
      BY <1>4, <2>1, <2>2 DEF Restart, TypeOK, EmptyMap
  <1>5. CASE UNCHANGED vars
    BY <1>5 DEF vars, manager, TypeOK
  <1> QED
    BY <1>1, <1>2, <1>3, <1>4, <1>5 DEF Next

\* Every state of the transaction manager has the declared types.
THEOREM TypeCorrect == Spec => []TypeOK
  BY InitTypes, NextTypes, PTL DEF Spec

\* Replaying the log one record after another, on top of whatever the map holds,
\* comes to what the last record of each transaction says: lost writes, ids that
\* were used twice and transactions that are alive make no difference.
THEOREM ReplayComesTo == Spec => []RecoveryIsReplay
  BY TypeCorrect, ReplayIsRecovered, PTL

-----------------------------------------------------------------------------
(* Compatibility of the locks granted. *)

\* Taking locks away from a resource never makes the rest incompatible.
LEMMA FewerLocksCompatible ==
    ASSUME LockCompatibility, \A r \in Resource : resourceLocks'[r] \subseteq resourceLocks[r]
    PROVE  LockCompatibility'
  BY DEF LockCompatibility

\* Nor does giving a lock that canGrantLock allows.
LEMMA GrantCompatible ==
    ASSUME TypeOK, LockCompatibility,
           NEW t \in TxnId, NEW r \in Resource, NEW mode \in Mode, NEW rest,
           canGrantLock(t, r, mode),
           rest \subseteq resourceLocks[r],
           resourceLocks' = [resourceLocks EXCEPT ![r] = rest \cup {[txn |-> t, mode |-> mode]}]
    PROVE  LockCompatibility'
  <1> DEFINE new == [txn |-> t, mode |-> mode]
  <1>1. \A l \in rest : l.txn # t => l.mode = "SHARED" /\ mode = "SHARED"
    BY DEF canGrantLock, Others
  <1>2. SUFFICES ASSUME NEW q \in Resource, NEW l1 \in resourceLocks'[q],
                        NEW l2 \in resourceLocks'[q], l1.txn # l2.txn
                 PROVE  l1.mode = "SHARED" /\ l2.mode = "SHARED"
    BY DEF LockCompatibility
  <1>3. CASE q # r
    BY <1>2, <1>3 DEF LockCompatibility, TypeOK
  <1>4. CASE q = r
    <2>1. resourceLocks'[r] = rest \cup {new}
      BY DEF TypeOK
    <2>2. new.txn = t /\ new.mode = mode
      OBVIOUS
    <2> HIDE DEF new
    <2>3. l1 \in rest \cup {new} /\ l2 \in rest \cup {new}
      BY <1>4, <2>1
    <2> QED
      BY <1>1, <1>2, <2>2, <2>3 DEF LockCompatibility
  <1> QED
    BY <1>3, <1>4

\* What every step does to the lock table of the resources.
LEMMA NextCompatible ==
    ASSUME TypeOK, LockCompatibility, [Next]_vars
    PROVE  LockCompatibility'
  <1>1. ASSUME UNCHANGED resourceLocks
        PROVE  LockCompatibility'
    BY <1>1 DEF LockCompatibility
  <1>2. CASE beginTransaction
    BY <1>1, <1>2 DEF beginTransaction
  <1>3. CASE recover
    BY <1>1, <1>3 DEF recover
  <1>4. CASE Restart
    BY <1>4 DEF Restart, LockCompatibility
  <1>5. CASE UNCHANGED vars
    BY <1>1, <1>5 DEF vars, manager
  <1>6. ASSUME NEW t \in TxnId, Call(t)
        PROVE  LockCompatibility'
    <2>1. ASSUME NEW type, NEW told, Finish(t, type, told)
          PROVE  LockCompatibility'
      <3>1. \A r \in Resource : resourceLocks'[r] \subseteq resourceLocks[r]
        BY <2>1 DEF Finish, releaseAllLocks, Others
      <3> QED
        BY <3>1, FewerLocksCompatible
    <2>2. CASE commitTransaction(t)
      BY <2>1, <2>2 DEF commitTransaction
    <2>3. CASE abortTransaction(t)
      BY <2>1, <2>3 DEF abortTransaction
    <2>4. ASSUME NEW r \in Resource, NEW mode \in Mode, AcquireNew(t, r, mode)
          PROVE  LockCompatibility'
      BY <2>4, GrantCompatible DEF AcquireNew, SetLocks
    <2>5. ASSUME NEW r \in Resource, Upgrade(t, r)
          PROVE  LockCompatibility'
      <3>1. Others(t, r) \subseteq resourceLocks[r]
        BY DEF Others
      <3>2. "EXCLUSIVE" \in Mode
        BY DEF Mode
      <3> QED
        BY <2>5, <3>1, <3>2, GrantCompatible DEF Upgrade, SetLocks
    <2>6. ASSUME NEW r \in Resource, releaseLock(t, r)
          PROVE  LockCompatibility'
      <3>1. \A q \in Resource : resourceLocks'[q] \subseteq resourceLocks[q]
        BY <2>6 DEF releaseLock, SetLocks, Others, TypeOK
      <3> QED
        BY <3>1, FewerLocksCompatible
    <2>7. CASE WriteRecord(t)
      BY <1>1, <2>7 DEF WriteRecord, manager
    <2> QED
      BY <1>6, <2>2, <2>3, <2>4, <2>5, <2>6, <2>7 DEF Call
  <1> QED
    BY <1>2, <1>3, <1>4, <1>5, <1>6 DEF Next

\* Two transactions never hold incompatible locks on a resource, whatever ids
\* the clients use, whenever recover is called and whatever the log loses.
THEOREM LocksCompatible == Spec => []LockCompatibility
  <1>1. Init => LockCompatibility
    BY DEF Init, InitWith, LockCompatibility
  <1> QED
    BY <1>1, NextCompatible, TypeCorrect, PTL DEF Spec

-----------------------------------------------------------------------------
(* Agreement of the two lock tables. *)

\* Steps that leave the locks and the bookkeeping of ids alone.
LEMMA LockInvUnchanged ==
    ASSUME LockInv, careful' => careful, fresh' => fresh,
           UNCHANGED <<nextTransactionId, transactions, resourceLocks, handles, outcome>>
    PROVE  LockInv'
  BY DEF LockInv, TablesAgree, LocksOn, Own

LEMMA BeginLockInv ==
    ASSUME TypeOK, LockInv, beginTransaction
    PROVE  LockInv'
  <1> DEFINE id == nextTransactionId
  <1>1. SUFFICES ASSUME careful PROVE LockInv'
    BY DEF beginTransaction, LockInv
  <1>2. id \in TxnId /\ id \in Nat /\ id \notin handles
    BY <1>1 DEF LockInv, TypeOK, beginTransaction, TxnId
  <1>3. \A r \in Resource : LocksOn(id, r) = {}
    BY <1>1, <1>2 DEF LockInv, TablesAgree
  <1>4. /\ DOMAIN transactions' = DOMAIN transactions \cup {id}
        /\ \A u \in DOMAIN transactions' : \A r \in Resource :
                Own(u, r)' = IF u = id THEN <<>> ELSE Own(u, r)
    <2>1. transactions' = Put(id, NewTransaction)
      BY DEF beginTransaction
    <2>2. \A r \in Resource : NewTransaction.locks[r] = <<>>
      BY DEF NewTransaction
    <2> HIDE DEF id
    <2>3. /\ DOMAIN transactions' = DOMAIN transactions \cup {id}
          /\ \A u \in DOMAIN transactions \cup {id} :
                transactions'[u] = IF u = id THEN NewTransaction ELSE transactions[u]
      BY <2>1 DEF Put
    <2> QED
      BY <2>2, <2>3 DEF Own
  <1>5. TablesAgree'
    <2> SUFFICES ASSUME NEW t \in TxnId, NEW r \in Resource
                 PROVE  LocksOn(t, r)' = IF t \in DOMAIN transactions' /\ Own(t, r)' # <<>>
                            THEN {[txn |-> t, mode |-> Own(t, r)'[Len(Own(t, r)')]]}
                            ELSE {}
      BY DEF TablesAgree
    <2>1. LocksOn(t, r)' = LocksOn(t, r)
      <3>1. UNCHANGED resourceLocks
        BY DEF beginTransaction
      <3> QED
        BY <3>1 DEF LocksOn
    <2>2. CASE t = id
      BY <1>3, <1>4, <2>1, <2>2
    <2>3. CASE t # id
      BY <1>1, <1>4, <2>1, <2>3 DEF LockInv, TablesAgree
    <2> QED
      BY <2>2, <2>3
  <1>6. \A t \in handles' : t < nextTransactionId'
    BY <1>1, <1>2 DEF beginTransaction, LockInv, TypeOK, TxnId
  <1>7. \A t \in DOMAIN transactions' \ handles' : \A r \in Resource : Own(t, r)' = <<>>
    BY <1>1, <1>4 DEF beginTransaction, LockInv
  <1>8. \A t \in DOMAIN transactions' \cap handles' : outcome'[t] = "running"
    <2>1. \A t \in TxnId : outcome'[t] = IF t = id THEN "running" ELSE outcome[t]
      BY DEF beginTransaction, TypeOK
    <2> QED
      BY <1>1, <1>2, <1>4, <2>1 DEF beginTransaction, LockInv, TypeOK
  <1>9. ~fresh'
    BY DEF beginTransaction
  <1> QED
    BY <1>5, <1>6, <1>7, <1>8, <1>9 DEF LockInv

LEMMA FinishLockInv ==
    ASSUME TypeOK, LockInv, NEW t \in TxnId, NEW type, NEW told, Finish(t, type, told),
           careful' = (careful /\ t \in handles), fresh' = FALSE
    PROVE  LockInv'
  <1>1. SUFFICES ASSUME careful, t \in handles PROVE LockInv'
    BY DEF LockInv
  <1>2. /\ t \in DOMAIN transactions
        /\ DOMAIN transactions' = DOMAIN transactions \ {t}
        /\ \A u \in DOMAIN transactions \ {t} : \A r \in Resource : Own(u, r)' = Own(u, r)
    BY DEF Finish, Erase, Own
  <1>3. TablesAgree'
    <2> SUFFICES ASSUME NEW u \in TxnId, NEW r \in Resource
                 PROVE  LocksOn(u, r)' = IF u \in DOMAIN transactions' /\ Own(u, r)' # <<>>
                            THEN {[txn |-> u, mode |-> Own(u, r)'[Len(Own(u, r)')]]}
                            ELSE {}
      BY DEF TablesAgree
    <2>1. resourceLocks'[r] = IF Own(t, r) # <<>> THEN Others(t, r) ELSE resourceLocks[r]
      BY DEF Finish, releaseAllLocks
    <2>2. CASE u = t
      <3>1. Own(t, r) = <<>> => LocksOn(t, r) = {}
        BY <1>1, <1>2 DEF LockInv, TablesAgree
      <3>2. LocksOn(t, r)' = {}
        BY <2>1, <3>1 DEF LocksOn, Others
      <3> QED
        BY <1>2, <2>2, <3>2
    <2>3. CASE u # t
      <3>1. LocksOn(u, r)' = LocksOn(u, r)
        BY <2>1, <2>3 DEF LocksOn, Others
      <3> QED
        BY <1>1, <1>2, <2>3, <3>1 DEF LockInv, TablesAgree
    <2> QED
      BY <2>2, <2>3
  <1>4. \A u \in handles' : u < nextTransactionId'
    BY <1>1 DEF Finish, LockInv
  <1>5. \A u \in DOMAIN transactions' \ handles' : \A r \in Resource : Own(u, r)' = <<>>
    BY <1>1, <1>2 DEF Finish, LockInv
  <1>6. \A u \in DOMAIN transactions' \cap handles' : outcome'[u] = "running"
    BY <1>1, <1>2 DEF Finish, LockInv, TypeOK
  <1> QED
    BY <1>3, <1>4, <1>5, <1>6 DEF LockInv

\* acquireLock and releaseLock: the two tables are changed alike.
LEMMA SetLocksLockInv ==
    ASSUME TypeOK, LockInv, NEW t \in TxnId, NEW r \in Resource,
           NEW locks, NEW modes \in Seq(Mode),
           t \in DOMAIN transactions,
           SetLocks(t, r, locks, modes),
           {l \in locks : l.txn # t} = Others(t, r),
           {l \in locks : l.txn = t} =
                IF modes # <<>> THEN {[txn |-> t, mode |-> modes[Len(modes)]]} ELSE {},
           careful' = (careful /\ t \in handles), fresh' = FALSE
    PROVE  LockInv'
  <1>1. SUFFICES ASSUME careful, t \in handles PROVE LockInv'
    BY DEF LockInv
  <1>2. /\ DOMAIN transactions' = DOMAIN transactions
        /\ Own(t, r)' = modes
        /\ \A u \in DOMAIN transactions : \A q \in Resource :
                u # t \/ q # r => Own(u, q)' = Own(u, q)
    BY SetOwnTypes DEF SetLocks, Own
  <1>3. TablesAgree'
    <2> SUFFICES ASSUME NEW u \in TxnId, NEW q \in Resource
                 PROVE  LocksOn(u, q)' = IF u \in DOMAIN transactions' /\ Own(u, q)' # <<>>
                            THEN {[txn |-> u, mode |-> Own(u, q)'[Len(Own(u, q)')]]}
                            ELSE {}
      BY DEF TablesAgree
    <2>1. resourceLocks'[q] = IF q = r THEN locks ELSE resourceLocks[q]
      BY DEF SetLocks, TypeOK
    <2>2. CASE u = t /\ q = r
      BY <1>2, <2>1, <2>2 DEF LocksOn
    <2>3. CASE u # t \/ q # r
      <3>1. LocksOn(u, q)' = LocksOn(u, q)
        BY <2>1, <2>3 DEF LocksOn, Others
      <3> QED
        BY <1>1, <1>2, <2>3, <3>1 DEF LockInv, TablesAgree
    <2> QED
      BY <2>2, <2>3
  <1>4. \A u \in handles' : u < nextTransactionId'
    BY <1>1 DEF SetLocks, LockInv
  <1>5. \A u \in DOMAIN transactions' \ handles' : \A q \in Resource : Own(u, q)' = <<>>
    BY <1>1, <1>2 DEF SetLocks, LockInv
  <1>6. \A u \in DOMAIN transactions' \cap handles' : outcome'[u] = "running"
    BY <1>1, <1>2 DEF SetLocks, LockInv
  <1> QED
    BY <1>3, <1>4, <1>5, <1>6 DEF LockInv

LEMMA CallLockInv ==
    ASSUME TypeOK, LockInv, NEW t \in TxnId, Call(t)
    PROVE  LockInv'
  <1>0. careful' = (careful /\ t \in handles) /\ fresh' = FALSE
    BY DEF Call
  <1>1. CASE commitTransaction(t)
    BY <1>0, <1>1, FinishLockInv DEF commitTransaction
  <1>2. CASE abortTransaction(t)
    BY <1>0, <1>2, FinishLockInv DEF abortTransaction
  <1>3. ASSUME NEW r \in Resource, NEW mode \in Mode, AcquireNew(t, r, mode)
        PROVE  LockInv'
    <2> DEFINE new == [txn |-> t, mode |-> mode]
               locks == resourceLocks[r] \cup {new}
    <2>1. SUFFICES ASSUME careful PROVE LockInv'
      BY <1>0 DEF LockInv
    <2>2. LocksOn(t, r) = {}
      BY <1>3, <2>1 DEF LockInv, TablesAgree, AcquireNew
    <2>3. <<mode>> \in Seq(Mode) /\ <<mode>> # <<>> /\ <<mode>>[Len(<<mode>>)] = mode
      OBVIOUS
    <2>4. new.txn = t
      OBVIOUS
    <2> HIDE DEF new
    <2>5. {l \in locks : l.txn # t} = Others(t, r)
      BY <2>4 DEF Others
    <2>6. {l \in locks : l.txn = t} = {new}
      BY <2>2, <2>4 DEF LocksOn
    <2>7. SetLocks(t, r, locks, <<mode>>)
      BY <1>3 DEF AcquireNew, new
    <2>8. {l \in locks : l.txn = t} =
            IF <<mode>> # <<>> THEN {[txn |-> t, mode |-> <<mode>>[Len(<<mode>>)]]} ELSE {}
      BY <2>3, <2>6 DEF new
    <2> HIDE DEF locks
    <2> QED
      BY <1>0, <1>3, <2>3, <2>5, <2>7, <2>8, SetLocksLockInv DEF AcquireNew
  <1>4. ASSUME NEW r \in Resource, Upgrade(t, r)
        PROVE  LockInv'
    <2> DEFINE new == [txn |-> t, mode |-> "EXCLUSIVE"]
               locks == Others(t, r) \cup {new}
               modes == Append(Own(t, r), "EXCLUSIVE")
    <2>1. Own(t, r) \in Seq(Mode) /\ "EXCLUSIVE" \in Mode
      BY <1>4, OwnType DEF Upgrade, Mode
    <2>2. modes \in Seq(Mode) /\ modes # <<>> /\ modes[Len(modes)] = "EXCLUSIVE"
      <3>1. \A s \in Seq(Mode) : \A m \in Mode :
                /\ Append(s, m) \in Seq(Mode)
                /\ Append(s, m) # <<>>
                /\ Append(s, m)[Len(Append(s, m))] = m
        OBVIOUS
      <3> QED
        BY <2>1, <3>1
    <2>3. new.txn = t
      OBVIOUS
    <2>4. SetLocks(t, r, locks, modes) /\ t \in DOMAIN transactions
      BY <1>4 DEF Upgrade
    <2> HIDE DEF new
    <2>5. {l \in locks : l.txn # t} = Others(t, r)
      BY <2>3 DEF Others
    <2>6. {l \in locks : l.txn = t} = {new}
      BY <2>3 DEF Others
    <2> HIDE DEF modes
    <2>7. {l \in locks : l.txn = t} =
            IF modes # <<>> THEN {[txn |-> t, mode |-> modes[Len(modes)]]} ELSE {}
      BY <2>2, <2>6 DEF new
    <2> HIDE DEF locks
    <2> QED
      BY <1>0, <2>2, <2>4, <2>5, <2>7, SetLocksLockInv
  <1>5. ASSUME NEW r \in Resource, releaseLock(t, r)
        PROVE  LockInv'
    <2>1. SetLocks(t, r, Others(t, r), <<>>) /\ t \in DOMAIN transactions
      BY <1>5 DEF releaseLock
    <2>2. {l \in Others(t, r) : l.txn # t} = Others(t, r) /\ {l \in Others(t, r) : l.txn = t} = {}
      BY DEF Others
    <2>3. <<>> \in Seq(Mode)
      OBVIOUS
    <2> QED
      BY <1>0, <2>1, <2>2, <2>3, SetLocksLockInv
  <1>6. CASE WriteRecord(t)
    BY <1>0, <1>6, LockInvUnchanged DEF WriteRecord, manager
  <1> QED
    BY <1>1, <1>2, <1>3, <1>4, <1>5, <1>6 DEF Call

\* While nothing was given away and no lock is listed, no lock is held.
LEMMA FreshHoldsNothing ==
    ASSUME TypeOK, LockInv, careful, fresh
    PROVE  /\ handles = {}
           /\ \A t \in DOMAIN transactions : \A r \in Resource : Own(t, r) = <<>>
           /\ \A t \in TxnId : \A r \in Resource : LocksOn(t, r) = {}
  BY DEF LockInv, TablesAgree

LEMMA NextLockInv ==
    ASSUME TypeOK, LockInv, [Next]_vars
    PROVE  LockInv'
  <1>1. CASE beginTransaction
    BY <1>1, BeginLockInv
  <1>2. ASSUME NEW t \in TxnId, Call(t)
        PROVE  LockInv'
    BY <1>2, CallLockInv
  <1>3. CASE recover
    <2>1. SUFFICES ASSUME careful, fresh PROVE LockInv'
      BY <1>3 DEF recover, LockInv
    <2>2. \A r \in Resource : NewTransaction.locks[r] = <<>>
      BY DEF NewTransaction
    <2>3. transactions' = Recovered
      BY <1>3, RecoverIs
    <2>4. \A t \in DOMAIN Recovered : \A r \in Resource : RecoveredLocks(t)[r] = <<>>
      <3> SUFFICES ASSUME NEW t \in DOMAIN Recovered, NEW r \in Resource
                   PROVE  RecoveredLocks(t)[r] = <<>>
        OBVIOUS
      <3>1. CASE Logged(t, "BEGIN")
        BY <2>2, <3>1 DEF RecoveredLocks
      <3>2. CASE ~Logged(t, "BEGIN")
        <4>1. t \in DOMAIN transactions
          BY <3>2, RecoveredTypes
        <4> QED
          BY <2>1, <3>2, <4>1, FreshHoldsNothing DEF RecoveredLocks, Own
      <3> QED
        BY <3>1, <3>2
    <2>5. \A t \in DOMAIN transactions' : \A r \in Resource : Own(t, r)' = <<>>
      BY <2>3, <2>4, RecoveredTypes DEF Own
    <2>6. \A t \in TxnId : \A r \in Resource : LocksOn(t, r)' = {}
      <3>1. UNCHANGED resourceLocks
        BY <1>3 DEF recover
      <3> QED
        BY <2>1, <3>1, FreshHoldsNothing DEF LocksOn
    <2>7. handles' = {}
      BY <1>3, <2>1, FreshHoldsNothing DEF recover
    <2> QED
      BY <2>5, <2>6, <2>7 DEF LockInv, TablesAgree
  <1>4. CASE Restart
    <2>1. DOMAIN transactions' = {}
      BY <1>4, EmptyMapType DEF Restart
    <2>2. \A t \in TxnId : \A r \in Resource : LocksOn(t, r)' = {}
      BY <1>4 DEF Restart, LocksOn
    <2>3. handles' = {}
      BY <1>4 DEF Restart
    <2> QED
      BY <2>1, <2>2, <2>3 DEF LockInv, TablesAgree
  <1>5. CASE UNCHANGED vars
    BY <1>5, LockInvUnchanged DEF vars, manager
  <1> QED
    BY <1>1, <1>2, <1>3, <1>4, <1>5 DEF Next

LEMMA InitLockInv == Init => LockInv
  <1> SUFFICES ASSUME Init PROVE LockInv
    OBVIOUS
  <1>1. DOMAIN transactions = {} /\ handles = {}
    BY EmptyMapType DEF Init, InitWith
  <1>2. \A t \in TxnId : \A r \in Resource : LocksOn(t, r) = {}
    BY DEF Init, InitWith, LocksOn
  <1> QED
    BY <1>1, <1>2 DEF LockInv, TablesAgree

\* With careful clients the two lock tables agree: no lock outlives its
\* transaction, and none is listed that the resource does not know.
THEOREM LocksAgree == Spec => []LockAgreement
  <1>1. LockInv => LockAgreement
    BY DEF LockInv, LockAgreement
  <1> QED
    BY <1>1, InitLockInv, NextLockInv, TypeCorrect, PTL DEF Spec

-----------------------------------------------------------------------------
(* The lock service. *)

\* A call of a client that keeps to the rules is a step of the service, or none.
LEMMA CallServes ==
    ASSUME TypeOK, LockInv, careful, NEW t \in TxnId, t \in handles, Call(t)
    PROVE  Service!Step \/ UNCHANGED Service!vars
  <1> USE DEF Service!vars
  <1>0. UNCHANGED careful
    BY DEF Call
  <1>1. \A r \in Resource : Service!Others(t, r) = Others(t, r)
    BY DEF Service!Others, Others
  <1>2. t \in DOMAIN transactions =>
          \A r \in Resource : Own(t, r) = <<>> => Others(t, r) = resourceLocks[r]
    BY DEF LockInv, TablesAgree, LocksOn, Others
  <1>3. ASSUME NEW type, NEW told, Finish(t, type, told)
        PROVE  Service!Step
    <2>1. /\ t \in DOMAIN transactions
          /\ DOMAIN transactions' = DOMAIN transactions \ {t}
          /\ UNCHANGED handles
      BY <1>3 DEF Finish, Erase
    <2>2. resourceLocks' = [r \in Resource |-> Service!Others(t, r)]
      BY <1>1, <1>2, <1>3, <2>1 DEF Finish, releaseAllLocks
    <2>3. Service!End(t)
      BY <2>1, <2>2 DEF Service!End
    <2> QED
      BY <2>3 DEF Service!Step
  <1>4. ASSUME NEW r \in Resource, NEW locks, NEW modes \in Seq(Mode),
               t \in DOMAIN transactions, SetLocks(t, r, locks, modes)
        PROVE  /\ (DOMAIN transactions \cap handles)' = DOMAIN transactions \cap handles
               /\ t \in DOMAIN transactions \cap handles
               /\ resourceLocks' = [resourceLocks EXCEPT ![r] = locks]
    BY <1>4, SetOwnTypes DEF SetLocks
  <1>5. ASSUME NEW r \in Resource, NEW mode \in Mode, AcquireNew(t, r, mode)
        PROVE  Service!Step
    <2> DEFINE locks == Others(t, r) \cup {[txn |-> t, mode |-> mode]}
    <2>1. Others(t, r) = resourceLocks[r]
      BY <1>2, <1>5 DEF AcquireNew
    <2>2. t \in DOMAIN transactions /\ SetLocks(t, r, locks, <<mode>>) /\ <<mode>> \in Seq(Mode)
      BY <1>5, <2>1 DEF AcquireNew
    <2>3. \A l \in Service!Others(t, r) : l.mode = "SHARED" /\ mode = "SHARED"
      BY <1>1, <1>5 DEF AcquireNew, canGrantLock
    <2>4. Service!Acquire(t, r, mode)
      BY <1>1, <1>4, <2>1, <2>2, <2>3 DEF Service!Acquire
    <2> QED
      BY <2>4 DEF Service!Step, Mode
  <1>6. ASSUME NEW r \in Resource, Upgrade(t, r)
        PROVE  Service!Step
    <2> DEFINE locks == Others(t, r) \cup {[txn |-> t, mode |-> "EXCLUSIVE"]}
               modes == Append(Own(t, r), "EXCLUSIVE")
    <2>1. t \in DOMAIN transactions /\ SetLocks(t, r, locks, modes)
      BY <1>6 DEF Upgrade
    <2>2. modes \in Seq(Mode)
      <3>1. Own(t, r) \in Seq(Mode) /\ "EXCLUSIVE" \in Mode
        BY <2>1, OwnType DEF Mode
      <3> QED
        BY <3>1
    <2>3. \A l \in Service!Others(t, r) : l.mode = "SHARED" /\ "EXCLUSIVE" = "SHARED"
      BY <1>1, <1>6 DEF Upgrade, canGrantLock
    <2> HIDE DEF modes
    <2>4. Service!Acquire(t, r, "EXCLUSIVE")
      BY <1>1, <1>4, <2>1, <2>2, <2>3 DEF Service!Acquire
    <2> QED
      BY <2>4 DEF Service!Step
  <1>7. ASSUME NEW r \in Resource, releaseLock(t, r)
        PROVE  Service!Step
    <2>1. t \in DOMAIN transactions /\ SetLocks(t, r, Others(t, r), <<>>) /\ <<>> \in Seq(Mode)
      BY <1>7 DEF releaseLock
    <2>2. Service!Release(t, r)
      BY <1>1, <1>4, <2>1 DEF Service!Release
    <2> QED
      BY <2>2 DEF Service!Step
  <1>8. CASE WriteRecord(t)
    BY <1>0, <1>8 DEF WriteRecord, manager
  <1> QED
    BY <1>3, <1>5, <1>6, <1>7, <1>8 DEF Call, commitTransaction, abortTransaction

LEMMA NextServes ==
    ASSUME TypeOK, LockInv, [Next]_vars
    PROVE  [careful' => careful /\ Service!Step]_(Service!vars)
  <1> SUFFICES ASSUME careful'
               PROVE  (careful /\ Service!Step) \/ UNCHANGED Service!vars
    OBVIOUS
  <1> USE DEF Service!vars
  <1>1. CASE beginTransaction
    <2> DEFINE t == nextTransactionId
    <2>1. t \in TxnId /\ UNCHANGED <<careful, resourceLocks>>
      BY <1>1 DEF beginTransaction
    <2>2. t \notin handles
      BY <2>1 DEF LockInv, TypeOK, TxnId
    <2>3. (DOMAIN transactions \cap handles)' = (DOMAIN transactions \cap handles) \cup {t}
      BY <1>1 DEF beginTransaction, Put
    <2> HIDE DEF t
    <2>4. Service!Begin(t)
      BY <2>1, <2>2, <2>3 DEF Service!Begin
    <2> QED
      BY <2>1, <2>4 DEF Service!Step
  <1>2. ASSUME NEW t \in TxnId, Call(t)
        PROVE  (careful /\ Service!Step) \/ UNCHANGED Service!vars
    <2>1. careful /\ t \in handles
      BY <1>2 DEF Call
    <2> QED
      BY <1>2, <2>1, CallServes
  <1>3. CASE recover
    <2>1. careful /\ fresh /\ UNCHANGED <<resourceLocks, handles>>
      BY <1>3 DEF recover
    <2>2. handles = {}
      BY <2>1, FreshHoldsNothing
    <2>3. (DOMAIN transactions \cap handles)' = DOMAIN transactions \cap handles
      BY <2>1, <2>2
    <2>4. UNCHANGED careful
      BY <1>3, <2>1, Zenon DEF recover
    <2> QED
      BY <2>1, <2>3, <2>4
  <1>4. CASE Restart
    <2>1. UNCHANGED careful /\ handles' = {} /\ resourceLocks' = [r \in Resource |-> {}]
      BY <1>4 DEF Restart
    <2>2. Service!Crash
      BY <2>1 DEF Service!Crash, Service!NoLocks
    <2> QED
      BY <2>1, <2>2 DEF Service!Step
  <1>5. CASE UNCHANGED vars
    BY <1>5, Zenon DEF vars, manager
  <1> QED
    BY <1>1, <1>2, <1>3, <1>4, <1>5 DEF Next

\* The transaction manager implements the lock service: to a client that keeps
\* to the rules, its two tables are one, and every call is a step of the service.
THEOREM LocksAreServed == Spec => ImplementsLockService
  <1>1. Init => Service!Init
    BY EmptyMapType DEF Init, InitWith, Service!Init, Service!NoLocks
  <1>2. TypeOK /\ LockInv /\ [Next]_vars => [careful' => careful /\ Service!Step]_(Service!vars)
    BY NextServes
  <1> QED
    BY <1>1, <1>2, InitLockInv, NextLockInv, TypeCorrect, PTL DEF Spec, ImplementsLockService, Service!Spec

-----------------------------------------------------------------------------
(* What the log tells. *)

LEMMA LastUnique ==
    ASSUME TypeOK, NEW t, NEW i \in 1..Len(logFile), NEW j \in 1..Len(logFile),
           IsLast(i, t), IsLast(j, t)
    PROVE  i = j
  <1>1. Len(logFile) \in Nat
    BY DEF TypeOK
  <1>2. CASE i < j
    BY <1>1, <1>2 DEF IsLast
  <1>3. CASE j < i
    BY <1>1, <1>3 DEF IsLast
  <1> QED
    BY <1>1, <1>2, <1>3

\* One more record at the end of the log.
LEMMA AppendRecord ==
    ASSUME TypeOK, NEW t \in TxnId, NEW type \in LogType,
           logFile' = Append(logFile, [txn |-> t, type |-> type])
    PROVE  /\ Len(logFile) \in Nat
           /\ Len(logFile') = Len(logFile) + 1
           /\ \A i \in 1..Len(logFile) : logFile'[i] = logFile[i]
           /\ logFile'[Len(logFile) + 1] = [txn |-> t, type |-> type]
           /\ \A u : \A i \in 1..Len(logFile) : IsControl(i, u)' <=> IsControl(i, u)
           /\ \A u : \A what : Logged(u, what) => Logged(u, what)'
  <1>1. /\ Len(logFile) \in Nat
        /\ Len(logFile') = Len(logFile) + 1
        /\ \A i \in 1..Len(logFile) : logFile'[i] = logFile[i]
        /\ logFile'[Len(logFile) + 1] = [txn |-> t, type |-> type]
    <2>1. logFile \in Seq(LogRecord)
      BY DEF TypeOK
    <2>2. [txn |-> t, type |-> type] \in LogRecord
      BY DEF LogRecord
    <2> QED
      BY <2>1, <2>2
  <1>2. \A u : \A i \in 1..Len(logFile) : IsControl(i, u)' <=> IsControl(i, u)
    BY <1>1 DEF IsControl
  <1>3. \A u : \A what : Logged(u, what) => Logged(u, what)'
    BY <1>1 DEF Logged
  <1> QED
    BY <1>1, <1>2, <1>3

\* A record that is no control record of u leaves the last one of u the last.
LEMMA LastKept ==
    ASSUME TypeOK, NEW t \in TxnId, NEW type \in LogType,
           logFile' = Append(logFile, [txn |-> t, type |-> type]),
           NEW u, u # t \/ type \notin Control
    PROVE  /\ \A i \in 1..Len(logFile) : IsLast(i, u) => IsLast(i, u)'
           /\ (\A i \in 1..Len(logFile) : ~IsControl(i, u)) =>
              (\A i \in 1..Len(logFile') : ~IsControl(i, u)')
  <1> DEFINE n == Len(logFile)
  <1>1. n \in Nat /\ Len(logFile') = n + 1
    BY AppendRecord
  <1>2. \A j \in 1..n : IsControl(j, u)' <=> IsControl(j, u)
    BY AppendRecord
  <1>3. \A j \in 1..(n + 1) : j = n + 1 => ~IsControl(j, u)'
    <2>1. logFile'[n + 1] = [txn |-> t, type |-> type]
      BY AppendRecord
    <2> QED
      BY <2>1 DEF IsControl
  <1>4. ASSUME NEW i \in 1..n, IsLast(i, u)
        PROVE  IsLast(i, u)'
    <2>1. \A j \in (i + 1)..n : ~IsControl(j, u)
      BY <1>4 DEF IsLast
    <2>2. IsControl(i, u)'
      BY <1>2, <1>4 DEF IsLast
    <2> HIDE DEF n
    <2>3. \A j \in (i + 1)..(n + 1) : ~IsControl(j, u)'
      <3> SUFFICES ASSUME NEW j \in (i + 1)..(n + 1) PROVE ~IsControl(j, u)'
        OBVIOUS
      <3>1. CASE j = n + 1
        BY <1>1, <1>3, <3>1
      <3>2. CASE j # n + 1
        BY <1>1, <1>2, <2>1, <3>2
      <3> QED
        BY <3>1, <3>2
    <2> QED
      BY <1>1, <2>2, <2>3 DEF IsLast
  <1>5. ASSUME \A i \in 1..n : ~IsControl(i, u)
        PROVE  \A i \in 1..(n + 1) : ~IsControl(i, u)'
    <2> SUFFICES ASSUME NEW i \in 1..(n + 1) PROVE ~IsControl(i, u)'
      OBVIOUS
    <2> HIDE DEF n
    <2>1. CASE i = n + 1
      BY <1>1, <1>3, <2>1
    <2>2. CASE i # n + 1
      BY <1>1, <1>2, <1>5, <2>2
    <2> QED
      BY <2>1, <2>2
  <1> QED
    BY <1>1, <1>4, <1>5

\* A control record of t, once written, is the last of t.
LEMMA LastWritten ==
    ASSUME TypeOK, NEW t \in TxnId, NEW type \in Control,
           logFile' = Append(logFile, [txn |-> t, type |-> type])
    PROVE  \E i \in 1..Len(logFile') :
                IsLast(i, t)' /\ logFile'[i].type = type /\ i = Len(logFile')
  <1> DEFINE n == Len(logFile)
  <1>1. type \in LogType
    BY DEF LogType
  <1>2. n \in Nat /\ Len(logFile') = n + 1 /\ logFile'[n + 1] = [txn |-> t, type |-> type]
    BY <1>1, AppendRecord
  <1>3. ASSUME NEW i, i = n + 1
        PROVE  IsLast(i, t)' /\ logFile'[i].type = type
    <2>1. IsControl(i, t)'
      BY <1>2, <1>3 DEF IsControl
    <2>2. i \in 1..Len(logFile') /\ (i + 1)..Len(logFile') = {}
      BY <1>2, <1>3
    <2> QED
      BY <1>2, <1>3, <2>1, <2>2 DEF IsLast
  <1> HIDE DEF n
  <1> QED
    BY <1>2, <1>3

LEMMA WrittenOrLost ==
    ASSUME NEW t, NEW type, writeLog(t, type), ~lostWrite'
    PROVE  ~lostWrite /\ logFile' = Append(logFile, [txn |-> t, type |-> type])
  <1>1. lostWrite' # TRUE
    OBVIOUS
  <1>2. UNCHANGED lostWrite /\ logFile' = Append(logFile, [txn |-> t, type |-> type])
    BY <1>1 DEF writeLog
  <1>3. ~lostWrite
    BY <1>2, Zenon
  <1> QED
    BY <1>2, <1>3

\* A caller is told something as the control record that says it is written.
LEMMA ToldLogInv ==
    ASSUME TypeOK, LogInv, NEW t \in TxnId, NEW told \in {"running", "committed", "aborted"},
           writeLog(t, RecordOf[told]),
           outcome' = [outcome EXCEPT ![t] = told],
           told = "running" \/ outcome[t] # "none"
    PROVE  LogInv'
  <1> DEFINE type == RecordOf[told]
  <1>1. SUFFICES ASSUME ~lostWrite' PROVE LogInv'
    BY DEF LogInv
  <1>2. ~lostWrite /\ logFile' = Append(logFile, [txn |-> t, type |-> type])
    BY <1>1, WrittenOrLost
  <1>3. type \in Control /\ type \in LogType
    BY DEF RecordOf, Control, LogType
  <1>4. \A u \in TxnId : outcome'[u] = IF u = t THEN told ELSE outcome[u]
    BY DEF TypeOK
  <1> HIDE DEF type
  <1>5. SUFFICES ASSUME NEW u \in TxnId
        PROVE IF outcome'[u] = "none"
              THEN \A i \in 1..Len(logFile') : ~IsControl(i, u)'
              ELSE /\ Logged(u, "BEGIN")'
                   /\ \E i \in 1..Len(logFile') :
                        IsLast(i, u)' /\ logFile'[i].type = RecordOf[outcome'[u]]
    BY DEF LogInv
  <1>6. CASE u # t
    <2>1. CASE outcome[u] = "none"
      <3>1. \A i \in 1..Len(logFile) : ~IsControl(i, u)
        BY <1>2, <2>1 DEF LogInv
      <3> QED
        BY <1>2, <1>3, <1>4, <1>6, <2>1, <3>1, LastKept
    <2>2. CASE outcome[u] # "none"
      <3>1. PICK i \in 1..Len(logFile) :
                Logged(u, "BEGIN") /\ IsLast(i, u) /\ logFile[i].type = RecordOf[outcome[u]]
        BY <1>2, <2>2 DEF LogInv
      <3>2. IsLast(i, u)'
        BY <1>2, <1>3, <1>6, <3>1, LastKept
      <3>3. Logged(u, "BEGIN")' /\ logFile'[i] = logFile[i] /\ i \in 1..Len(logFile')
        BY <1>2, <1>3, <3>1, AppendRecord
      <3> QED
        BY <1>4, <1>6, <2>2, <3>1, <3>2, <3>3
    <2> QED
      BY <2>1, <2>2
  <1>7. CASE u = t
    <2>1. Logged(t, "BEGIN")'
      <3>1. CASE told = "running"
        <4>1. type = "BEGIN"
          BY <3>1 DEF type, RecordOf
        <4>2. /\ logFile'[Len(logFile) + 1] = [txn |-> t, type |-> "BEGIN"]
              /\ Len(logFile) + 1 \in 1..Len(logFile')
          BY <1>2, <1>3, <4>1, AppendRecord
        <4> QED
          BY <4>2 DEF Logged
      <3>2. CASE outcome[t] # "none"
        <4>1. Logged(t, "BEGIN")
          BY <1>2, <3>2 DEF LogInv
        <4> QED
          BY <1>2, <1>3, <4>1, AppendRecord
      <3> QED
        BY <3>1, <3>2
    <2>2. PICK i \in 1..Len(logFile') : IsLast(i, t)' /\ logFile'[i].type = type
      BY <1>2, <1>3, LastWritten
    <2>3. outcome'[t] = told /\ told # "none"
      BY <1>4
    <2> QED
      BY <1>7, <2>1, <2>2, <2>3 DEF type
  <1> QED
    BY <1>6, <1>7

LEMMA LogInvUnchanged ==
    ASSUME LogInv, UNCHANGED <<logFile, outcome, lostWrite>>
    PROVE  LogInv'
  BY DEF LogInv, Logged, IsLast, IsControl

LEMMA DataLogInv ==
    ASSUME TypeOK, LogInv, NEW t \in TxnId, writeLog(t, "UPDATE"), UNCHANGED outcome
    PROVE  LogInv'
  <1>1. SUFFICES ASSUME ~lostWrite' PROVE LogInv'
    BY DEF LogInv
  <1>2. ~lostWrite /\ logFile' = Append(logFile, [txn |-> t, type |-> "UPDATE"])
    BY <1>1, WrittenOrLost
  <1>3. "UPDATE" \notin Control /\ "UPDATE" \in LogType
    BY DEF Control, LogType
  <1>4. ASSUME NEW u \in TxnId, outcome[u] = "none"
        PROVE  \A i \in 1..Len(logFile') : ~IsControl(i, u)'
    <2>1. \A i \in 1..Len(logFile) : ~IsControl(i, u)
      BY <1>2, <1>4 DEF LogInv
    <2> QED
      BY <1>2, <1>3, <2>1, LastKept
  <1>5. ASSUME NEW u \in TxnId, outcome[u] # "none"
        PROVE  /\ Logged(u, "BEGIN")'
               /\ \E i \in 1..Len(logFile') :
                    IsLast(i, u)' /\ logFile'[i].type = RecordOf[outcome[u]]
    <2>1. PICK i \in 1..Len(logFile) :
              Logged(u, "BEGIN") /\ IsLast(i, u) /\ logFile[i].type = RecordOf[outcome[u]]
      BY <1>2, <1>5 DEF LogInv
    <2>2. IsLast(i, u)'
      BY <1>2, <1>3, <2>1, LastKept
    <2>3. Logged(u, "BEGIN")' /\ logFile'[i] = logFile[i] /\ i \in 1..Len(logFile')
      BY <1>2, <1>3, <2>1, AppendRecord
    <2> QED
      BY <2>1, <2>2, <2>3
  <1> QED
    BY <1>4, <1>5 DEF LogInv

LEMMA NextLogInv ==
    ASSUME TypeOK, LogInv, [Next]_vars
    PROVE  LogInv'
  <1>0. /\ RecordOf["running"] = "BEGIN"
        /\ RecordOf["committed"] = "COMMIT"
        /\ RecordOf["aborted"] = "ABORT"
    BY DEF RecordOf
  <1>1. CASE beginTransaction
    BY <1>0, <1>1, ToldLogInv DEF beginTransaction
  <1>2. ASSUME NEW t \in TxnId, outcome[t] # "none", Call(t)
        PROVE  LogInv'
    <2>1. CASE commitTransaction(t)
      BY <1>0, <1>2, <2>1, ToldLogInv DEF commitTransaction, Finish
    <2>2. CASE abortTransaction(t)
      BY <1>0, <1>2, <2>2, ToldLogInv DEF abortTransaction, Finish
    <2>3. CASE WriteRecord(t)
      BY <2>3, DataLogInv DEF WriteRecord
    <2>4. ASSUME UNCHANGED <<logFile, outcome, lostWrite>>
          PROVE  LogInv'
      BY <2>4, LogInvUnchanged
    <2> QED
      BY <1>2, <2>1, <2>2, <2>3, <2>4
      DEF Call, AcquireNew, Upgrade, releaseLock, SetLocks
  <1>3. CASE recover
    BY <1>3, LogInvUnchanged DEF recover
  <1>4. CASE Restart
    BY <1>4, LogInvUnchanged DEF Restart
  <1>5. CASE UNCHANGED vars
    BY <1>5, LogInvUnchanged DEF vars
  <1> QED
    BY <1>1, <1>2, <1>3, <1>4, <1>5 DEF Next

LEMMA InitLogInv == Init => LogInv
  BY DEF Init, InitWith, LogInv, IsControl

\* What recover makes of a transaction is what its caller was told.
LEMMA RecoverTells ==
    ASSUME TypeOK, LogInv, recover, ~lostWrite, NEW t \in TxnId, outcome[t] # "none"
    PROVE  /\ t \in DOMAIN transactions'
           /\ transactions'[t].state =
                IF outcome[t] = "committed" THEN "COMMITTED" ELSE "ABORTED"
  <1>1. PICK i \in 1..Len(logFile) :
            Logged(t, "BEGIN") /\ IsLast(i, t) /\ logFile[i].type = RecordOf[outcome[t]]
    BY DEF LogInv
  <1>2. outcome[t] \in {"running", "committed", "aborted"}
    BY DEF TypeOK, Outcome
  <1>3. logFile[i].type = "COMMIT" <=> outcome[t] = "committed"
    BY <1>1, <1>2 DEF RecordOf
  <1>4. (\E j \in 1..Len(logFile) : IsLast(j, t) /\ logFile[j].type = "COMMIT")
            <=> outcome[t] = "committed"
    BY <1>1, <1>3, LastUnique
  <1>5. ~(\A j \in 1..Len(logFile) : ~IsControl(j, t))
    BY <1>1 DEF IsLast
  <1>6. RecoveredState(t) = IF outcome[t] = "committed" THEN "COMMITTED" ELSE "ABORTED"
    BY <1>4, <1>5 DEF RecoveredState
  <1>7. t \in DOMAIN Recovered /\ Recovered[t].state = RecoveredState(t)
    BY <1>1, RecoveredTypes
  <1> QED
    BY <1>6, <1>7, RecoverIs

\* Recovery is faithful to what callers were told, as long as the log lost no
\* write: nothing else about the clients or the moment of recovery is needed.
THEOREM RecoveryIsFaithful == Spec => RecoveryFaithful
  <1> DEFINE Told == recover /\ ~lostWrite =>
         \A t \in TxnId : outcome[t] # "none" =>
            /\ t \in DOMAIN transactions'
            /\ transactions'[t].state =
                 IF outcome[t] = "committed" THEN "COMMITTED" ELSE "ABORTED"
  <1>1. TypeOK /\ LogInv /\ [Next]_vars => [Told]_vars
    BY RecoverTells
  <1>2. Spec => []LogInv
    BY InitLogInv, NextLogInv, TypeCorrect, PTL DEF Spec
  <1> QED
    BY <1>1, <1>2, TypeCorrect, PTL DEF Spec, RecoveryFaithful

-----------------------------------------------------------------------------
(* One decision per transaction. *)

\* A record that decides nothing keeps what the log says of decisions.
LEMMA OtherRecordDecided ==
    ASSUME TypeOK, DecidedOnce, NEW t \in TxnId, NEW type \in LogType \ {"COMMIT", "ABORT"},
           writeLog(t, type), careful' => careful
    PROVE  DecidedOnce'
  <1> DEFINE n == Len(logFile)
  <1>1. SUFFICES ASSUME careful', ~lostWrite' PROVE DecidedOnce'
    BY DEF DecidedOnce
  <1>2. careful /\ ~lostWrite /\ logFile' = Append(logFile, [txn |-> t, type |-> type])
    BY <1>1, WrittenOrLost
  <1>3. /\ n \in Nat /\ Len(logFile') = n + 1
        /\ \A i \in 1..n : logFile'[i] = logFile[i]
        /\ logFile'[n + 1] = [txn |-> t, type |-> type]
    BY <1>2, AppendRecord
  <1>4. SUFFICES ASSUME NEW u \in TxnId, NEW i \in 1..(n + 1), NEW j \in 1..(n + 1),
                        i < j, Decision(i, u)', Decision(j, u)'
                 PROVE  \E k \in i..j : logFile'[k] = [txn |-> u, type |-> "BEGIN"]
    BY <1>3 DEF DecidedOnce
  <1>5. j # n + 1
    BY <1>3, <1>4 DEF Decision
  <1> HIDE DEF n
  <1>6. i \in 1..n /\ j \in 1..n
    BY <1>3, <1>4, <1>5
  <1>7. Decision(i, u) /\ Decision(j, u)
    BY <1>3, <1>4, <1>6 DEF Decision
  <1>8. PICK k \in i..j : logFile[k] = [txn |-> u, type |-> "BEGIN"]
    BY <1>2, <1>4, <1>6, <1>7 DEF DecidedOnce, n
  <1>9. k \in 1..n
    BY <1>3, <1>6
  <1> QED
    BY <1>3, <1>8, <1>9

\* A decision on a running transaction follows its BEGIN and no other decision.
LEMMA FinishDecided ==
    ASSUME TypeOK, LockInv, LogInv, DecidedOnce, NEW t \in TxnId,
           NEW type \in {"COMMIT", "ABORT"}, NEW told, Finish(t, type, told),
           careful' = (careful /\ t \in handles)
    PROVE  DecidedOnce'
  <1> DEFINE n == Len(logFile)
  <1>1. SUFFICES ASSUME careful', ~lostWrite' PROVE DecidedOnce'
    BY DEF DecidedOnce
  <1>2. writeLog(t, type)
    BY DEF Finish
  <1>3. ~lostWrite /\ logFile' = Append(logFile, [txn |-> t, type |-> type])
    BY <1>1, <1>2, WrittenOrLost
  <1>4. careful /\ t \in handles
    BY <1>1
  <1>5. type \in LogType
    BY DEF LogType, Control
  <1>6. /\ n \in Nat /\ Len(logFile') = n + 1
        /\ \A i \in 1..n : logFile'[i] = logFile[i]
        /\ logFile'[n + 1] = [txn |-> t, type |-> type]
    BY <1>3, <1>5, AppendRecord
  <1>7. outcome[t] = "running"
    BY <1>4 DEF Finish, LockInv
  <1>8. PICK b \in 1..n : IsLast(b, t) /\ logFile[b].type = "BEGIN"
    BY <1>3, <1>7 DEF LogInv, RecordOf
  <1>9. logFile[b] = [txn |-> t, type |-> "BEGIN"]
    <2>1. logFile[b] \in LogRecord
      BY <1>8 DEF TypeOK
    <2> QED
      BY <1>8, <2>1 DEF IsLast, IsControl, LogRecord
  <1>10. SUFFICES ASSUME NEW u \in TxnId, NEW i \in 1..(n + 1), NEW j \in 1..(n + 1),
                         i < j, Decision(i, u)', Decision(j, u)'
                  PROVE  \E k \in i..j : logFile'[k] = [txn |-> u, type |-> "BEGIN"]
    BY <1>6 DEF DecidedOnce
  <1>11. \A m \in 1..n : Decision(m, u)' <=> Decision(m, u)
    BY <1>6 DEF Decision
  <1>12. \A m \in 1..n : Decision(m, t) => m <= b
    BY <1>6, <1>8 DEF Decision, IsLast, IsControl, Control
  <1>13. u = t \/ j # n + 1
    BY <1>6, <1>10 DEF Decision
  <1> HIDE DEF n
  <1>14. i \in 1..n
    BY <1>6, <1>10
  <1>15. CASE j = n + 1
    <2>1. i <= b
      BY <1>10, <1>11, <1>12, <1>13, <1>14, <1>15
    <2>2. b \in i..j
      BY <1>6, <1>8, <1>10, <1>15, <2>1
    <2> QED
      BY <1>6, <1>8, <1>9, <1>13, <1>15, <2>2
  <1>16. CASE j # n + 1
    <2>1. j \in 1..n
      BY <1>6, <1>16
    <2>2. Decision(i, u) /\ Decision(j, u)
      BY <1>10, <1>11, <1>14, <2>1
    <2>3. PICK k \in i..j : logFile[k] = [txn |-> u, type |-> "BEGIN"]
      BY <1>3, <1>4, <1>10, <1>14, <2>1, <2>2 DEF DecidedOnce, n
    <2>4. k \in 1..n
      BY <1>6, <1>14, <2>1
    <2> QED
      BY <1>6, <2>3, <2>4
  <1> QED
    BY <1>15, <1>16

LEMMA NextDecided ==
    ASSUME TypeOK, LockInv, LogInv, DecidedOnce, [Next]_vars
    PROVE  DecidedOnce'
  <1>1. ASSUME UNCHANGED <<logFile, lostWrite>>, careful' => careful
        PROVE  DecidedOnce'
    BY <1>1 DEF DecidedOnce, Decision
  <1>2. "BEGIN" \in LogType \ {"COMMIT", "ABORT"} /\ "UPDATE" \in LogType \ {"COMMIT", "ABORT"}
    BY DEF LogType, Control
  <1>3. CASE beginTransaction
    BY <1>2, <1>3, OtherRecordDecided DEF beginTransaction
  <1>4. ASSUME NEW t \in TxnId, Call(t)
        PROVE  DecidedOnce'
    <2>0. careful' = (careful /\ t \in handles)
      BY <1>4 DEF Call
    <2>1. CASE commitTransaction(t)
      BY <2>0, <2>1, FinishDecided DEF commitTransaction
    <2>2. CASE abortTransaction(t)
      BY <2>0, <2>2, FinishDecided DEF abortTransaction
    <2>3. CASE WriteRecord(t)
      BY <1>2, <2>0, <2>3, OtherRecordDecided DEF WriteRecord
    <2>4. ASSUME UNCHANGED <<logFile, lostWrite>>
          PROVE  DecidedOnce'
      BY <1>1, <2>0, <2>4
    <2> QED
      BY <1>4, <2>1, <2>2, <2>3, <2>4 DEF Call, AcquireNew, Upgrade, releaseLock, SetLocks
  <1>5. CASE recover
    BY <1>1, <1>5 DEF recover
  <1>6. CASE Restart
    BY <1>1, <1>6 DEF Restart
  <1>7. CASE UNCHANGED vars
    BY <1>1, <1>7 DEF vars
  <1> QED
    BY <1>3, <1>4, <1>5, <1>6, <1>7 DEF Next

\* With careful clients and a log that loses nothing, no transaction is decided
\* twice, although commit and abort never look at the state of a transaction.
THEOREM TransactionsDecidedOnce == Spec => []DecidedOnce
  <1>1. Init => DecidedOnce
    BY DEF Init, InitWith, DecidedOnce
  <1> QED
    BY <1>1, NextDecided, InitLockInv, NextLockInv, InitLogInv, NextLogInv, TypeCorrect, PTL
    DEF Spec
=============================================================================
