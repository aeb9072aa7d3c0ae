------------------------------ MODULE Session -------------------------------
(***************************************************************************)
(* The shell: the loop that reads a line and runs it to its end, the       *)
(* query parser it keeps for the current database, and the transaction     *)
(* that parser believes to be in progress.                                 *)
(*                                                                         *)
(* One pass of the loop, the read and the whole of the command, is one     *)
(* action, Iterate.  The user types ahead of it: a terminal, or a pipe     *)
(* that is closed at some point, in the middle of a line or after it.      *)
(*                                                                         *)
(* Abstractions.  A line is what the dispatch of the loop takes it for.    *)
(* Commands that only print ("other": .help, .tables, SELECT, an unknown   *)
(* command ...) change nothing.  The tables of a database are one value,   *)
(* which a statement ("WRITE") may replace; module Table has the           *)
(* statements, module Catalog the databases.  The variable that holds the  *)
(* line read last is only looked at again after the end of the input, and  *)
(* only kept then.                                                         *)
(***************************************************************************)
EXTENDS Naturals, Sequences

CONSTANTS
    Database,
    Contents,    \* what the tables of a database may contain
    None,        \* no database, no parser, no argument
    MaxPending,  \* bound: lines typed and not read
    MaxBegin     \* bound: BEGIN lines typed

ASSUME SessionAssumption ==
    /\ None \notin Database \cup Contents
    /\ MaxPending \in Nat \ {0}
    /\ MaxBegin \in Nat

Plain == {"", ";", ".exit", "other", "EXIT", "BEGIN", "COMMIT", "ROLLBACK"}
Line == [cmd : Plain, arg : {None}]
            \cup [cmd : {"CREATE", "DROP", "USE"}, arg : Database]
            \cup [cmd : {"WRITE"}, arg : Contents]
Blank == [cmd |-> "", arg |-> None]

IsDatabaseCommand(line) == line.cmd \in {"CREATE", "DROP", "USE", "EXIT"}
IsTableCommand(line) == line.cmd \in {"BEGIN", "COMMIT", "ROLLBACK", "WRITE"}

TxnId == Nat
Parser == [db : Database, live : BOOLEAN, inTransaction : BOOLEAN, txn : TxnId]

ASSUME NoParserAssumption == None \notin Parser

VARIABLES
    typed,       \* the lines typed and not read
    closed,      \* is the input "open", or closed after a "newline" or in a "cut" line?
    begins,      \* counter for the bound MaxBegin
    stream,      \* the state of std::cin: "good", or "ended" once it met the end
    input,       \* the line in the buffer once the stream has ended
    running,     \* ~exit
    databases,   \* the databases of the DatabaseSystem
    current,     \* currentDatabase
    parser,      \* queryParser, bound to the manager of a database for good
    counter,     \* currentTransactionId_ of the engine of each database
    contents,    \* the tables of each database
    before,      \* history: the tables of the database when its BEGIN was answered
    unfinished,  \* history: transactions begun, neither committed nor rolled back
    orphans      \* history: those of them no command can finish any more

terminal == <<typed, closed, begins>>
loop == <<stream, input, running>>
session == <<databases, current, parser, counter, contents, before, unfinished, orphans>>
vars == <<terminal, loop, session>>

Txn == Database \X TxnId

TypeOK ==
    /\ typed \in Seq(Line) /\ closed \in {"open", "newline", "cut"} /\ begins \in 0..MaxBegin
    /\ stream \in {"good", "ended"} /\ input \in Line /\ running \in BOOLEAN
    /\ databases \subseteq Database
    /\ current \in Database \cup {None}
    /\ parser \in Parser \cup {None}
    /\ counter \in [Database -> TxnId]
    /\ contents \in [Database -> Contents] /\ before \in [Database -> Contents]
    /\ unfinished \subseteq Txn /\ orphans \subseteq Txn

Init ==
    /\ typed = <<>> /\ closed = "open" /\ begins = 0
    /\ stream = "good" /\ input = Blank /\ running = TRUE
    /\ databases \in SUBSET Database
    /\ current = None
    /\ parser = None
    /\ counter = [d \in Database |-> 0]
    /\ contents \in [Database -> Contents]
    /\ before = contents
    /\ unfinished = {} /\ orphans = {}

-----------------------------------------------------------------------------
(* The user. *)

Type(line) ==
    /\ closed = "open"
    /\ Len(typed) < MaxPending
    /\ line.cmd = "BEGIN" => begins < MaxBegin
    /\ typed' = Append(typed, line)
    /\ begins' = IF line.cmd = "BEGIN" THEN begins + 1 ELSE begins
    /\ UNCHANGED <<closed, loop, session>>

\* The end of a pipe or a file, or end-of-file typed at a terminal.
Close ==
    /\ closed = "open"
    /\ closed' \in {"newline", "cut"}
    /\ closed' = "cut" => typed # <<>>
    /\ UNCHANGED <<typed, begins, loop, session>>

-----------------------------------------------------------------------------
(* The read. *)

\* Mutant of ReadLine: a line rejected for its semicolon stays in the input.
ReadButKeep(line) ==
    \/ /\ stream = "good" /\ typed # <<>>
       /\ line = Head(typed)
       /\ typed' = IF line.cmd = ";" THEN typed ELSE Tail(typed)
       /\ stream' = IF closed = "cut" /\ Len(typed) = 1 THEN "ended" ELSE "good"
    \/ /\ stream = "good" /\ typed = <<>> /\ closed # "open"
       /\ line = Blank
       /\ stream' = "ended"
       /\ UNCHANGED typed
    \/ /\ stream = "ended"
       /\ line = input
       /\ UNCHANGED <<typed, stream>>

\* What std::getline leaves in the buffer: the next line; at the end of the
\* input nothing; after that what was there, for it gives up before it clears
\* the buffer.  A last line without a newline is read with the end behind it.
ReadLine(line) ==
    \/ /\ stream = "good" /\ typed # <<>>
       /\ line = Head(typed)
       /\ typed' = Tail(typed)
       /\ stream' = IF closed = "cut" /\ Len(typed) = 1 THEN "ended" ELSE "good"
    \/ /\ stream = "good" /\ typed = <<>> /\ closed # "open"
       /\ line = Blank
       /\ stream' = "ended"
       /\ UNCHANGED typed
    \/ /\ stream = "ended"
       /\ line = input
       /\ UNCHANGED <<typed, stream>>

-----------------------------------------------------------------------------
(* Database commands. *)

\* The parser once the databases are dbs: the manager it refers to is gone with
\* its database.
ParserAmong(dbs) ==
    IF parser # None /\ parser.db \notin dbs THEN [parser EXCEPT !.live = FALSE] ELSE parser

NewParser(d) == [db |-> d, live |-> TRUE, inTransaction |-> FALSE, txn |-> 0]

\* Mutant of ParserAfter: the parser is renewed whether a database is left or not.
AlwaysRenewed(d, old) == NewParser(d)

\* Mutant of ParserAfter: a parser there is stays.
KeptParser(d, old) == IF old = None /\ d # None THEN NewParser(d) ELSE old

\* After a database command, done or refused, the loop makes a new parser for
\* the current database d, or drops the old one if there is none.
ParserAfter(d, old) == IF d = None THEN None ELSE NewParser(d)

Created(d) ==
    /\ d \notin databases
    /\ databases' = databases \cup {d}
    /\ counter' = [counter EXCEPT ![d] = 0]
    /\ \E found \in Contents : contents' = [contents EXCEPT ![d] = found]
    /\ UNCHANGED <<current, unfinished>>

Dropped(d) ==
    /\ d \in databases
    /\ databases' = databases \ {d}
    /\ current' = IF current = d THEN None ELSE current
    /\ unfinished' = {t \in unfinished : t[1] # d}
    /\ UNCHANGED <<counter, contents>>

Used(d) ==
    /\ d \in databases
    /\ current' = d
    /\ UNCHANGED <<databases, counter, contents, unfinished>>

Exited ==
    /\ current' = None
    /\ UNCHANGED <<databases, counter, contents, unfinished>>

\* A name that is taken or unknown, or a directory that cannot be made.
Refused(line) ==
    /\ line.cmd # "EXIT"
    /\ line.cmd \in {"DROP", "USE"} => line.arg \notin databases
    /\ UNCHANGED <<databases, current, counter, contents, unfinished>>

\* Whatever the parser had in progress is out of reach afterwards.
RunDatabaseCommand(line) ==
    /\ \/ line.cmd = "CREATE" /\ Created(line.arg)
       \/ line.cmd = "DROP" /\ Dropped(line.arg)
       \/ line.cmd = "USE" /\ Used(line.arg)
       \/ line.cmd = "EXIT" /\ Exited
       \/ Refused(line)
    /\ parser' = ParserAfter(current', ParserAmong(databases'))
    /\ orphans' = unfinished'
    /\ UNCHANGED before

-----------------------------------------------------------------------------
(* Table commands, which the parser of the current database runs. *)

\* Mutant of BEGIN: the flag is not looked at.
BEGINAgain(p) ==
    LET id == counter[p.db] + 1
    IN  /\ counter' = [counter EXCEPT ![p.db] = id]
        /\ parser' = [p EXCEPT !.inTransaction = TRUE, !.txn = id]
        /\ before' = [before EXCEPT ![p.db] = contents[p.db]]
        /\ unfinished' = unfinished \cup {<<p.db, id>>}
        /\ UNCHANGED contents

BEGIN(p) ==
    LET id == counter[p.db] + 1
    IN  /\ ~p.inTransaction
        /\ counter' = [counter EXCEPT ![p.db] = id]
        /\ parser' = [p EXCEPT !.inTransaction = TRUE, !.txn = id]
        /\ before' = [before EXCEPT ![p.db] = contents[p.db]]
        /\ unfinished' = unfinished \cup {<<p.db, id>>}
        /\ UNCHANGED contents

\* COMMIT and ROLLBACK: the engine answers true to both and does nothing.
Finish(p) ==
    /\ p.inTransaction
    /\ parser' = [p EXCEPT !.inTransaction = FALSE]
    /\ unfinished' = unfinished \ {<<p.db, p.txn>>}
    /\ UNCHANGED <<counter, contents, before>>

\* A statement takes effect at once, whether or not a transaction is in progress.
WRITE(p, new) ==
    /\ contents' = [contents EXCEPT ![p.db] = new]
    /\ parser' = p
    /\ UNCHANGED <<counter, before, unfinished>>

\* A statement that is refused, and a transaction command out of turn.
Fails(p, line) ==
    /\ line.cmd = "BEGIN" => p.inTransaction
    /\ line.cmd \in {"COMMIT", "ROLLBACK"} => ~p.inTransaction
    /\ parser' = p
    /\ UNCHANGED <<counter, contents, before, unfinished>>

RunTableCommand(line) ==
    LET p == IF parser = None THEN NewParser(current) ELSE parser
    IN  /\ current # None
        /\ \/ line.cmd = "BEGIN" /\ BEGIN(p)
           \/ line.cmd \in {"COMMIT", "ROLLBACK"} /\ Finish(p)
           \/ line.cmd = "WRITE" /\ WRITE(p, line.arg)
           \/ Fails(p, line)
        /\ UNCHANGED <<databases, current, orphans>>

-----------------------------------------------------------------------------
(* The loop. *)

Execute(line) ==
    \/ IsDatabaseCommand(line) /\ RunDatabaseCommand(line)
    \/ IsTableCommand(line) /\ RunTableCommand(line)
    \/ /\ IsTableCommand(line) => current = None
       /\ ~IsDatabaseCommand(line)
       /\ UNCHANGED session

\* Mutant of GoesOn: the loop ends with the input.
GoesOnWhileGood(line) == line.cmd # ".exit" /\ stream' = "good"

GoesOn(line) == line.cmd # ".exit"

Iterate ==
    /\ running
    /\ \E line \in Line :
        /\ ReadLine(line)
        /\ Execute(line)
        /\ running' = GoesOn(line)
        /\ input' = IF stream' = "ended" THEN line ELSE Blank
    /\ UNCHANGED <<closed, begins>>

Next ==
    \/ \E line \in Line : Type(line)
    \/ Close
    \/ Iterate

\* The process is scheduled; the user may stop typing at any time.
Fairness == WF_vars(Iterate)

Spec == Init /\ [][Next]_vars /\ Fairness

-----------------------------------------------------------------------------
(* Safety. *)

\* The current database is one there is, and the parser works for it, on a
\* manager that has not been destroyed: QueryParser keeps a reference into the
\* map of databases across commands that add to it and erase from it.
ParserIsLive ==
    /\ current # None => current \in databases
    /\ parser # None => parser.live /\ parser.db = current

\* The parser and the engines agree on what is in progress: the parser in a
\* transaction can finish it, exactly once, with the id its engine gave; and a
\* transaction nobody can finish became one when a database command replaced
\* the parser.
TransactionsAgree ==
    /\ \A t \in unfinished :
            /\ t[1] \in databases /\ t[2] \in 1..counter[t[1]]
            /\ \/ t \in orphans
               \/ parser # None /\ parser.inTransaction /\ t = <<parser.db, parser.txn>>
    /\ parser # None /\ parser.inTransaction =>
            <<parser.db, parser.txn>> \in unfinished \ orphans

\* The strengthening that makes them inductive: only what is unfinished is out
\* of reach, so that the next id of an engine is neither.
SessionInv ==
    /\ ParserIsLive
    /\ TransactionsAgree
    /\ orphans \subseteq unfinished

-----------------------------------------------------------------------------
(* Liveness. *)

\* Once .exit is in the input the shell ends: no line before it, blank,
\* rejected, refused or run, keeps the loop from getting to it.
ExitTerminates == (\E i \in DOMAIN typed : typed[i].cmd = ".exit") ~> ~running

NoExit == \A i \in DOMAIN typed : typed[i].cmd # ".exit"

\* The end of the input is no exit: a closed input without .exit leaves the loop
\* running for ever on the line it read last, or on none.  Nothing in the loop
\* looks at the stream.
EndOfInputSpins ==
    closed # "open" /\ running /\ NoExit /\ input.cmd # ".exit"
        ~> [](running /\ stream = "ended")

-----------------------------------------------------------------------------
(* What a document of the repository says, and the code does not do. *)

\* ROLLBACK discards all changes made in the transaction: the tables are again
\* what they were when BEGIN was answered.
RollbackRestores ==
    [][Iterate /\ stream = "good" /\ typed # <<>> /\ Head(typed).cmd = "ROLLBACK"
          /\ parser # None /\ parser.inTransaction
       => contents'[parser.db] = before[parser.db]]_vars
=============================================================================
