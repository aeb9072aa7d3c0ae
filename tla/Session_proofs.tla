--------------------------- MODULE Session_proofs ----------------------------
(***************************************************************************)
(* What holds of the shell for any databases, any contents and any input:  *)
(* its types, that the parser it keeps works on a manager there is, and    *)
(* that parser and engines agree on the transaction in progress.           *)
(***************************************************************************)
EXTENDS Session, TLAPS

-----------------------------------------------------------------------------
(* Types. *)

LEMMA LineArgs ==
    ASSUME NEW line \in Line
    PROVE  /\ line.cmd \in {"CREATE", "DROP", "USE"} => line.arg \in Database
           /\ line.cmd = "WRITE" => line.arg \in Contents
  BY DEF Line, Plain

LEMMA BlankIsLine == Blank \in Line
  BY DEF Blank, Line, Plain

\* A read takes a line from the input, or the one in the buffer again.
LEMMA ReadTypes ==
    ASSUME TypeOK, NEW line \in Line, ReadLine(line)
    PROVE  typed' \in Seq(Line) /\ stream' \in {"good", "ended"}
  <1>1. \A s \in Seq(Line) : s # <<>> => Tail(s) \in Seq(Line)
    OBVIOUS
  <1> QED
    BY <1>1 DEF ReadLine, TypeOK

\* The state the commands work on.
SessionTypes ==
    /\ databases \subseteq Database
    /\ current \in Database \cup {None}
    /\ parser \in Parser \cup {None}
    /\ counter \in [Database -> TxnId]
    /\ contents \in [Database -> Contents] /\ before \in [Database -> Contents]
    /\ unfinished \subseteq Txn /\ orphans \subseteq Txn

LEMMA NewParserType ==
    ASSUME NEW d \in Database
    PROVE  NewParser(d) \in Parser /\ NewParser(d) # None
  <1>1. NewParser(d) \in Parser
    BY DEF NewParser, Parser, TxnId
  <1> QED
    BY <1>1, NoParserAssumption

\* The parser that runs a table command.
LEMMA WorkingParser ==
    ASSUME SessionTypes, current # None, NEW p,
           p = IF parser = None THEN NewParser(current) ELSE parser
    PROVE  p \in Parser /\ p # None
  BY NewParserType, NoParserAssumption DEF SessionTypes

LEMMA DatabaseCommandTypes ==
    ASSUME SessionTypes, NEW line \in Line, RunDatabaseCommand(line)
    PROVE  SessionTypes'
  <1>1. /\ databases' \subseteq Database /\ current' \in Database \cup {None}
        /\ unfinished' \subseteq Txn
        /\ counter' \in [Database -> TxnId] /\ contents' \in [Database -> Contents]
    <2>1. CASE line.cmd = "CREATE" /\ Created(line.arg)
      BY <2>1, LineArgs DEF Created, SessionTypes, TxnId
    <2>2. CASE line.cmd = "DROP" /\ Dropped(line.arg)
      BY <2>2, LineArgs DEF Dropped, SessionTypes
    <2>3. CASE line.cmd = "USE" /\ Used(line.arg)
      BY <2>3, LineArgs DEF Used, SessionTypes
    <2>4. CASE line.cmd = "EXIT" /\ Exited
      BY <2>4 DEF Exited, SessionTypes
    <2>5. CASE Refused(line)
      BY <2>5 DEF Refused, SessionTypes
    <2> QED
      BY <2>1, <2>2, <2>3, <2>4, <2>5 DEF RunDatabaseCommand
  <1>2. parser' \in Parser \cup {None}
    BY <1>1, NewParserType DEF RunDatabaseCommand, ParserAfter
  <1>3. before' \in [Database -> Contents] /\ orphans' = unfinished'
    BY DEF RunDatabaseCommand, SessionTypes
  <1> QED
    BY <1>1, <1>2, <1>3 DEF SessionTypes

LEMMA TableCommandTypes ==
    ASSUME SessionTypes, NEW line \in Line, RunTableCommand(line)
    PROVE  SessionTypes'
  <1> DEFINE p == IF parser = None THEN NewParser(current) ELSE parser
  <1>1. p \in Parser /\ current # None
    BY WorkingParser DEF RunTableCommand
  <1>2. \/ BEGIN(p) \/ Finish(p) \/ (line.cmd = "WRITE" /\ WRITE(p, line.arg)) \/ Fails(p, line)
    BY DEF RunTableCommand
  <1>3. UNCHANGED <<databases, current, orphans>>
    BY DEF RunTableCommand
  <1> HIDE DEF p
  <1>4. p.db \in Database /\ p.txn \in TxnId
    BY <1>1 DEF Parser
  <1>5. CASE BEGIN(p)
    <2>1. counter[p.db] + 1 \in TxnId
      BY <1>4 DEF SessionTypes, TxnId
    <2>2. parser' \in Parser
      BY <1>1, <1>5, <2>1 DEF BEGIN, Parser
    <2>3. contents[p.db] \in Contents
      BY <1>4 DEF SessionTypes
    <2>4. before' \in [Database -> Contents]
      BY <1>5, <2>3 DEF BEGIN, SessionTypes
    <2>5. counter' \in [Database -> TxnId]
      BY <1>5, <2>1 DEF BEGIN, SessionTypes
    <2>6. unfinished' \subseteq Txn
      BY <1>4, <1>5, <2>1 DEF BEGIN, SessionTypes, Txn
    <2> QED
      BY <1>3, <1>5, <2>2, <2>4, <2>5, <2>6 DEF BEGIN, SessionTypes
  <1>6. CASE Finish(p)
    BY <1>1, <1>3, <1>6 DEF Finish, SessionTypes, Parser
  <1>7. CASE line.cmd = "WRITE" /\ WRITE(p, line.arg)
    BY <1>1, <1>3, <1>7, LineArgs DEF WRITE, SessionTypes
  <1>8. CASE Fails(p, line)
    BY <1>1, <1>3, <1>8 DEF Fails, SessionTypes
  <1> QED
    BY <1>2, <1>5, <1>6, <1>7, <1>8

LEMMA ExecuteTypes ==
    ASSUME SessionTypes, NEW line \in Line, Execute(line)
    PROVE  SessionTypes'
  <1>1. CASE UNCHANGED session
    BY <1>1 DEF session, SessionTypes
  <1> QED
    BY <1>1, DatabaseCommandTypes, TableCommandTypes DEF Execute

LEMMA NextTypes == TypeOK /\ [Next]_vars => TypeOK'
  <1> SUFFICES ASSUME TypeOK, [Next]_vars PROVE TypeOK'
    OBVIOUS
  <1>1. SessionTypes
    BY DEF TypeOK, SessionTypes
  <1>2. ASSUME NEW line \in Line, Type(line)
        PROVE  TypeOK'
    <2>1. typed' \in Seq(Line)
      BY <1>2 DEF Type, TypeOK
    <2>2. begins' \in 0..MaxBegin
      <3>1. CASE line.cmd = "BEGIN"
        BY <1>2, <3>1, SessionAssumption DEF Type, TypeOK
      <3>2. CASE line.cmd # "BEGIN"
        BY <1>2, <3>2 DEF Type, TypeOK
      <3> QED
        BY <3>1, <3>2
    <2>3. UNCHANGED <<closed, loop, session>>
      BY <1>2 DEF Type
    <2> QED
      BY <2>1, <2>2, <2>3 DEF TypeOK, loop, session
  <1>3. CASE Close
    BY <1>3 DEF Close, TypeOK, loop, session
  <1>4. CASE Iterate
    <2>1. PICK line \in Line : /\ ReadLine(line) /\ Execute(line)
                               /\ running' = GoesOn(line)
                               /\ input' = IF stream' = "ended" THEN line ELSE Blank
      BY <1>4 DEF Iterate
    <2>2. typed' \in Seq(Line) /\ stream' \in {"good", "ended"}
      BY <2>1, ReadTypes
    <2>3. SessionTypes'
      BY <1>1, <2>1, ExecuteTypes
    <2>4. running' \in BOOLEAN
      BY <2>1 DEF GoesOn
    <2>5. input' \in Line
      BY <2>1, BlankIsLine
    <2>6. closed' \in {"open", "newline", "cut"} /\ begins' \in 0..MaxBegin
      BY <1>4 DEF Iterate, TypeOK
    <2> QED
      BY <2>2, <2>3, <2>4, <2>5, <2>6 DEF TypeOK, SessionTypes
  <1>5. CASE UNCHANGED vars
    BY <1>5 DEF vars, terminal, loop, session, TypeOK
  <1> QED
    BY <1>2, <1>3, <1>4, <1>5 DEF Next

LEMMA InitTypes == Init => TypeOK
  <1> SUFFICES ASSUME Init PROVE TypeOK
    OBVIOUS
  <1>1. typed \in Seq(Line) /\ begins \in 0..MaxBegin
    BY SessionAssumption DEF Init
  <1> QED
    BY <1>1, BlankIsLine DEF Init, TypeOK, TxnId

\* The state of the shell has its types, whatever is typed.
THEOREM TypeCorrect == Spec => []TypeOK
  BY InitTypes, NextTypes, PTL DEF Spec

-----------------------------------------------------------------------------
(* The parser and the transaction in progress. *)

\* A database command leaves no transaction in progress.
LEMMA DatabaseCommandInv ==
    ASSUME SessionTypes, SessionInv, NEW line \in Line, RunDatabaseCommand(line)
    PROVE  SessionInv'
  <1>1. parser' # None => parser' = NewParser(current')
    BY DEF RunDatabaseCommand, ParserAfter
  <1>2. parser' # None => parser'.live /\ parser'.db = current' /\ ~parser'.inTransaction
    BY <1>1 DEF NewParser
  <1>3. \A t \in unfinished : t[1] \in databases /\ t[2] \in 1..counter[t[1]]
    BY DEF SessionInv, TransactionsAgree
  <1>4. current # None => current \in databases
    BY DEF SessionInv, ParserIsLive
  <1>5. /\ current' # None => current' \in databases'
        /\ \A t \in unfinished' : t[1] \in databases' /\ t[2] \in 1..counter'[t[1]]
    <2>1. CASE line.cmd = "CREATE" /\ Created(line.arg)
      BY <1>3, <1>4, <2>1 DEF Created, SessionTypes
    <2>2. CASE line.cmd = "DROP" /\ Dropped(line.arg)
      BY <1>3, <1>4, <2>2 DEF Dropped
    <2>3. CASE line.cmd = "USE" /\ Used(line.arg)
      BY <1>3, <2>3 DEF Used
    <2>4. CASE line.cmd = "EXIT" /\ Exited
      BY <1>3, <2>4 DEF Exited
    <2>5. CASE Refused(line)
      BY <1>3, <1>4, <2>5 DEF Refused
    <2> QED
      BY <2>1, <2>2, <2>3, <2>4, <2>5 DEF RunDatabaseCommand
  <1>6. orphans' = unfinished'
    BY DEF RunDatabaseCommand
  <1> QED
    BY <1>2, <1>5, <1>6 DEF SessionInv, ParserIsLive, TransactionsAgree

LEMMA TableCommandInv ==
    ASSUME SessionTypes, SessionInv, NEW line \in Line, RunTableCommand(line)
    PROVE  SessionInv'
  <1> DEFINE p == IF parser = None THEN NewParser(current) ELSE parser
  <1>1. current # None /\ p \in Parser
    BY WorkingParser DEF RunTableCommand
  <1>2. /\ p.live /\ p.db = current /\ current \in databases
        /\ p.inTransaction => <<p.db, p.txn>> \in unfinished \ orphans
    BY <1>1 DEF SessionInv, ParserIsLive, TransactionsAgree, NewParser
  <1>3. \A t \in unfinished :
            /\ t[1] \in databases /\ t[2] \in 1..counter[t[1]]
            /\ t \in orphans \/ (p.inTransaction /\ t = <<p.db, p.txn>>)
    BY DEF SessionInv, TransactionsAgree
  <1>4. \/ BEGIN(p) \/ Finish(p) \/ WRITE(p, line.arg) \/ Fails(p, line)
    BY DEF RunTableCommand
  <1>5. UNCHANGED <<databases, current, orphans>> /\ orphans \subseteq unfinished
    BY DEF RunTableCommand, SessionInv
  <1> HIDE DEF p
  <1>6. p.db \in Database /\ p # None
    BY <1>1, NoParserAssumption DEF Parser
  <1>7. CASE BEGIN(p)
    <2> DEFINE id == counter[p.db] + 1
               new == <<p.db, id>>
    <2>1. counter[p.db] \in Nat /\ id \in TxnId
      BY <1>6 DEF SessionTypes, TxnId
    <2>2. /\ parser' = [p EXCEPT !.inTransaction = TRUE, !.txn = id]
          /\ unfinished' = unfinished \cup {new}
          /\ counter' = [counter EXCEPT ![p.db] = id]
          /\ ~p.inTransaction
      BY <1>7 DEF BEGIN
    <2>3. /\ parser' \in Parser /\ parser' # None /\ parser'.live /\ parser'.db = p.db
          /\ parser'.inTransaction /\ parser'.txn = id
      BY <1>1, <1>2, <2>1, <2>2, NoParserAssumption DEF Parser
    <2>4. id \in 1..counter'[p.db] /\ \A d \in Database : 1..counter[d] \subseteq 1..counter'[d]
      BY <1>6, <2>1, <2>2 DEF SessionTypes, TxnId
    <2>5. new \notin orphans
      <3>1. new \notin unfinished
        <4>1. new[1] = p.db /\ new[2] = id
          OBVIOUS
        <4>2. id \notin 1..counter[p.db]
          BY <2>1
        <4> QED
          BY <1>3, <4>1, <4>2
      <3> QED
        BY <1>5, <3>1
    <2>6. \A t \in unfinished' :
            /\ t[1] \in databases /\ t[2] \in 1..counter'[t[1]]
            /\ t \in orphans \/ t = new
      <3> SUFFICES ASSUME NEW t \in unfinished'
                   PROVE  /\ t[1] \in databases /\ t[2] \in 1..counter'[t[1]]
                          /\ t \in orphans \/ t = new
        OBVIOUS
      <3>1. CASE t = new
        BY <1>2, <2>4, <3>1
      <3>2. CASE t \in unfinished
        BY <1>3, <2>2, <2>4, <3>2 DEF SessionTypes
      <3> QED
        BY <2>2, <3>1, <3>2
    <2>7. new = <<parser'.db, parser'.txn>>
      BY <2>3
    <2> HIDE DEF new, id
    <2>8. new \in unfinished' \ orphans
      BY <2>2, <2>5
    <2>9. TransactionsAgree'
      BY <1>5, <2>3, <2>6, <2>7, <2>8 DEF TransactionsAgree
    <2>10. ParserIsLive'
      BY <1>2, <1>5, <2>3 DEF ParserIsLive
    <2> QED
      BY <1>5, <2>2, <2>9, <2>10 DEF SessionInv
  <1>8. CASE Finish(p)
    <2>1. /\ parser' = [p EXCEPT !.inTransaction = FALSE]
          /\ unfinished' = unfinished \ {<<p.db, p.txn>>}
          /\ counter' = counter /\ p.inTransaction
      BY <1>8 DEF Finish
    <2>2. parser'.live /\ parser'.db = p.db /\ ~parser'.inTransaction
      BY <1>1, <1>2, <2>1 DEF Parser
    <2>3. TransactionsAgree'
      BY <1>3, <1>5, <2>1, <2>2 DEF TransactionsAgree
    <2> QED
      BY <1>2, <1>5, <2>1, <2>2, <2>3 DEF SessionInv, ParserIsLive
  <1>9. CASE WRITE(p, line.arg) \/ Fails(p, line)
    <2>1. parser' = p /\ UNCHANGED <<counter, unfinished>>
      BY <1>9 DEF WRITE, Fails
    <2>2. TransactionsAgree'
      BY <1>2, <1>3, <1>5, <1>6, <2>1 DEF TransactionsAgree
    <2> QED
      BY <1>2, <1>5, <2>1, <2>2 DEF SessionInv, ParserIsLive
  <1> QED
    BY <1>4, <1>7, <1>8, <1>9

LEMMA SameSessionInv ==
    ASSUME SessionInv, UNCHANGED session
    PROVE  SessionInv'
  BY DEF SessionInv, ParserIsLive, TransactionsAgree, session

LEMMA NextInv ==
    ASSUME TypeOK, SessionInv, [Next]_vars
    PROVE  SessionInv'
  <1>1. SessionTypes
    BY DEF TypeOK, SessionTypes
  <1>2. CASE UNCHANGED session
    BY <1>2, SameSessionInv
  <1>3. CASE Iterate
    <2>1. PICK line \in Line : Execute(line)
      BY <1>3 DEF Iterate
    <2> QED
      BY <1>1, <1>2, <2>1, DatabaseCommandInv, TableCommandInv DEF Execute
  <1> QED
    BY <1>2, <1>3 DEF Next, Type, Close, vars

LEMMA InitInv == Init => SessionInv
  BY DEF Init, SessionInv, ParserIsLive, TransactionsAgree

LEMMA AlwaysInv == Spec => []SessionInv
  BY InitInv, NextInv, TypeCorrect, PTL DEF Spec

\* Whatever databases are created, dropped and left, the parser works on the
\* manager of the current database, which has not been destroyed.
THEOREM ParserAlwaysLive == Spec => []ParserIsLive
  <1>1. SessionInv => ParserIsLive
    BY DEF SessionInv
  <1> QED
    BY <1>1, AlwaysInv, PTL

\* The parser and the engines always agree on the transaction in progress, and
\* one that nobody can finish was cut off by a database command.
THEOREM TransactionsAlwaysAgree == Spec => []TransactionsAgree
  <1>1. SessionInv => TransactionsAgree
    BY DEF SessionInv
  <1> QED
    BY <1>1, AlwaysInv, PTL
=============================================================================
