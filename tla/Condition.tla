----------------------------- MODULE Condition ------------------------------
(***************************************************************************)
(* The WHERE clause: how the query parser makes a chain of conditions of    *)
(* its text, and what a table makes of the chain for a record.              *)
(*                                                                         *)
(* The text is a sequence of single conditions, the AND and OR between      *)
(* them, and the NOTs and parentheses around them, which the documents give *)
(* a meaning and the parser does not see.  Parentheses are not nested here, *)
(* and a NOT stands before one condition; the shape of a single condition,  *)
(* and quoted text that holds an AND or OR of its own, are not modelled.    *)
(* A value, of a record or in a condition, is a member of Text; the three   *)
(* readings of a text that the comparisons use are functions: its number,   *)
(* its place in the order of bytes, and its place in that order after the   *)
(* change to upper case.                                                    *)
(*                                                                         *)
(* The text grows by one condition at a time, so that every clause up to    *)
(* the bound is met, with every record.                                     *)
(***************************************************************************)
EXTENDS Integers, Sequences

CONSTANTS
    Text,
    Empty,       \* the empty text
    NoNumber,    \* what stoi and stoll throw at
    Digits,      \* the texts that are a number and nothing else
    NumberOf,    \* for each text, the number stoi and stoll read in it
    MaxInt,      \* the last number stoi accepts
    PlaceOf,     \* for each text, its place in the order of bytes
    UpperOf,     \* for each text, the place of its upper case form
    Date,        \* the texts a DATE column accepts
    TypeOf,      \* for each column of the table, its type
    Single,      \* the single conditions clients write
    Mark,        \* the parentheses and NOTs they put around one
    Stored,      \* bound: the texts in the records that are looked at
    MaxSingles   \* bound: single conditions of one clause

Operator == {"=", "!=", ">", "<", ">=", "<="}
Numeric == {"INT", "BIGINT"}
Type == Numeric \cup {"STRING", "DATE"}
Column == DOMAIN TypeOf

ASSUME ConditionAssumption ==
    /\ Empty \in Text /\ Date \cup Digits \cup Stored \subseteq Text
    /\ NumberOf[Empty] = NoNumber
    /\ NumberOf \in [Text -> Int \cup {NoNumber}]
    /\ PlaceOf \in [Text -> Int] /\ UpperOf \in [Text -> Int]
    /\ TypeOf \in [Column -> Type]
    /\ \A s \in Single :
            /\ s.op \in Operator /\ s.value \in Text
            /\ s.closed \in Text \ {Empty} /\ NumberOf[s.closed] \in {NumberOf[s.value], NoNumber}
    /\ Mark \subseteq [open : BOOLEAN, close : BOOLEAN, negated : BOOLEAN]
    /\ MaxInt \in Nat /\ MaxSingles \in Nat

\* Does stoi (for INT) or stoll read a number in this text?
Readable(type, text) ==
    /\ NumberOf[text] # NoNumber
    /\ type = "INT" => NumberOf[text] <= MaxInt

\* DataType::validateValue.
validateValue(type, text) ==
    \/ text = Empty \/ type = "STRING"
    \/ type \in Numeric /\ text \in Digits /\ Readable(type, text)
    \/ type = "DATE" /\ text \in Date

Record == {r \in [Column -> Stored] : \A c \in Column : validateValue(TypeOf[c], r[c])}

\* A condition as it is written.  The value that the parser finds in it is closed when
\* a parenthesis closes behind it: then the quotes around it are not removed.
Written == [single : Single, mark : Mark]

VARIABLES
    clause,     \* the conditions of the clause as they are written, in order
    between,    \* the AND and OR between them
    condition,  \* the chain the parser made of the clause; <<>> for no clause
    record      \* the record the table looks at

vars == <<clause, between, condition, record>>

\* What the pattern for a condition finds in one that is written: it skips what
\* stands before the name of the column, and takes what follows the operator.
Found(w) ==
    [column |-> w.single.column, op |-> w.single.op,
     value |-> IF w.mark.close THEN w.single.closed ELSE w.single.value]

singles == [k \in DOMAIN clause |-> Found(clause[k])]

\* A link of the chain: what was found of a condition of the clause, and how it is
\* combined with the rest.
TypeOK ==
    /\ \A i \in DOMAIN clause : clause[i] \in Written
    /\ \A i \in DOMAIN between : between[i] \in {"AND", "OR"}
    /\ \A i \in DOMAIN condition : \E w \in Written : condition[i].single = Found(w)
    /\ \A i \in DOMAIN condition :
            condition[i].logicalOp \in
                IF i = Len(condition) THEN {"NONE"} ELSE {"AND", "OR"}
    /\ record \in Record

-----------------------------------------------------------------------------
(* The parser. *)

\* Mutant of SplitAt: the first AND, if there is one.
SplitAtAnd(ops, first, last) ==
    LET ands == {k \in first..(last - 1) : ops[k] = "AND"}
    IN  IF ands = {} THEN first ELSE CHOOSE k \in ands : \A j \in ands : k <= j

\* Where the text is cut in two: behind its first AND or OR.
SplitAt(ops, first, last) ==
    CHOOSE k \in first..(last - 1) : \A j \in first..(last - 1) : k <= j

\* Mutant of Linked: the operator is forgotten.
LinkedPlainly(left, op, right) == <<left[1]>> \o right

\* The left part gets the operator, and the right part for its next condition.
Linked(left, op, right) == <<[left[1] EXCEPT !.logicalOp = op]>> \o right

\* For each range of the clause, the links of its text.
parseCondition(parts, ops) ==
    LET parse[range \in (DOMAIN parts) \X (DOMAIN parts)] ==
            LET first == range[1]
                last == range[2]
                k == SplitAt(ops, first, last)
            IN  IF first >= last
                THEN <<[single |-> parts[first], logicalOp |-> "NONE"]>>
                ELSE Linked(parse[<<first, k>>], ops[k], parse[<<k + 1, last>>])
    IN  IF parts = <<>> THEN <<>> ELSE parse[<<1, Len(parts)>>]

-----------------------------------------------------------------------------
(* The table. *)

Compare(op, x, y) ==
    \/ op = "=" /\ x = y
    \/ op = "!=" /\ x # y
    \/ op = ">" /\ x > y
    \/ op = "<" /\ x < y
    \/ op = ">=" /\ x >= y
    \/ op = "<=" /\ x <= y

\* A missing value, of the record or in the condition, of a numeric column.
Missing(s, rec) ==
    /\ s.column \in Column /\ TypeOf[s.column] \in Numeric
    /\ Empty \in {rec[s.column], s.value}

Throws(s) ==
    \/ s.column \notin Column
    \/ TypeOf[s.column] \in Numeric /\ ~Readable(TypeOf[s.column], s.value)

\* Mutant of Cut: the missing value is a verdict like any other.
NeverCut(s, rec) == FALSE

\* A missing number returns at once, without the rest of the chain.
Cut(s, rec) == Missing(s, rec)

\* What the comparison finds, by the type of the column.
Holds(s, rec) ==
    LET place == CASE TypeOf[s.column] \in Numeric -> NumberOf
                   [] TypeOf[s.column] = "STRING"  -> UpperOf
                   [] TypeOf[s.column] = "DATE"    -> PlaceOf
    IN  IF Missing(s, rec) THEN rec[s.column] = s.value
        ELSE Compare(s.op, place[rec[s.column]], place[s.value])

Verdict(holds) == IF holds THEN "yes" ELSE "no"

\* Mutant of Joined: the rest is only evaluated when it is needed.
JoinedLazily(holds, op, rest) ==
    CASE op = "NONE" \/ (op = "AND" /\ ~holds) \/ (op = "OR" /\ holds) -> Verdict(holds)
      [] OTHER -> rest

\* Mutant of Joined: AND falls through to OR.
JoinedByOr(holds, op, rest) ==
    IF rest = "throws" THEN rest ELSE Verdict(holds \/ rest = "yes")

\* The rest of the chain has been evaluated when it is combined.
Joined(holds, op, rest) ==
    CASE rest = "throws" -> rest
      [] rest # "throws" /\ op = "AND" -> Verdict(holds /\ rest = "yes")
      [] rest # "throws" /\ op = "OR" -> Verdict(holds \/ rest = "yes")
      [] rest # "throws" /\ op = "NONE" -> Verdict(holds)

evaluateCondition(chain, rec) ==
    LET verdict[i \in DOMAIN chain] ==
            LET s == chain[i].single
            IN  IF Throws(s) /\ ~Missing(s, rec) THEN "throws"
                ELSE IF Cut(s, rec) \/ i = Len(chain) THEN Verdict(Holds(s, rec))
                ELSE Joined(Holds(s, rec), chain[i].logicalOp, verdict[i + 1])
    IN  IF chain = <<>> THEN "yes" ELSE verdict[1]

-----------------------------------------------------------------------------
(* Every clause, for every record. *)

Init ==
    /\ clause = <<>> /\ between = <<>>
    /\ condition = parseCondition(singles, between)
    /\ record \in Record

\* Is there a parenthesis that nothing has closed?
Unclosed ==
    \E j \in DOMAIN clause :
        clause[j].mark.open /\ \A i \in j..Len(clause) : ~clause[i].mark.close

\* A clause with one more condition.
Extend(w) ==
    /\ Len(clause) < MaxSingles
    /\ IF Unclosed THEN ~w.mark.open ELSE w.mark.close => w.mark.open
    /\ clause' = Append(clause, w)
    /\ IF clause = <<>> THEN UNCHANGED between
       ELSE \E op \in {"AND", "OR"} : between' = Append(between, op)
    /\ condition' = parseCondition(singles', between')
    /\ UNCHANGED record

Next == \E w \in Written : Extend(w)

Spec == Init /\ [][Next]_vars

-----------------------------------------------------------------------------
(* What is meant. *)

\* A missing value compares with nothing, and what cannot be read neither; nor
\* does the NOT of such a comparison mean yes.
MeansYes(w) ==
    LET s == w.single
    IN  /\ ~Throws(s)
        /\ TypeOf[s.column] \in Numeric => record[s.column] # Empty
        /\ IF w.mark.negated THEN ~Holds(s, record) ELSE Holds(s, record)

Yes == {k \in DOMAIN clause : MeansYes(clause[k])}
Ors == {k \in DOMAIN between : between[k] = "OR"}

\* The ANDs and ORs inside parentheses.
Inside ==
    {k \in DOMAIN between :
        \E j \in 1..k : clause[j].mark.open /\ \A i \in j..k : ~clause[i].mark.close}

\* AND binds more tightly than OR: the conditions from i to j mean yes when all
\* those between two neighbouring ORs do.
SomeGroup(i, j, ors, yes) ==
    \E a, b \in i..j :
        /\ a <= b
        /\ a = i \/ a - 1 \in ors
        /\ b = j \/ b \in ors
        /\ a..b \subseteq yes
        /\ \A k \in a..(b - 1) : k \notin ors

\* From i to j is one condition outside parentheses, or all those of one pair.
Together(i, j) ==
    i <= j /\ i..(j - 1) \subseteq Inside /\ i - 1 \notin Inside /\ j \notin Inside

\* The documents' reading: what stands in parentheses is answered first, then the rest.
Answered ==
    {k \in DOMAIN clause :
        \E i \in 1..k, j \in k..Len(clause) : Together(i, j) /\ SomeGroup(i, j, Ors, Yes)}

Meant == clause = <<>> \/ SomeGroup(1, Len(clause), Ors \ Inside, Answered)

Negates == \E k \in DOMAIN clause : clause[k].mark.negated
OrInParentheses == Ors \cap Inside # {}

\* A parenthesis that closes behind a text or a date, and so becomes part of it.
ClosesText ==
    \E k \in DOMAIN clause :
        /\ clause[k].mark.close /\ clause[k].single.column \in Column
        /\ TypeOf[clause[k].single.column] \notin Numeric

MissingAt(k) == Missing(singles[k], record)
NoneMissingBefore(k) == \A j \in 1..(k - 1) : ~MissingAt(j)

\* A condition that asks for a missing number.
AsksForNothing ==
    \E k \in DOMAIN singles :
        /\ singles[k].column \in Column
        /\ TypeOf[singles[k].column] \in Numeric
        /\ singles[k].value = Empty

OrBehindAnd == \E j, k \in DOMAIN between : j < k /\ between[j] = "AND" /\ between[k] = "OR"

verdict == evaluateCondition(condition, record)

-----------------------------------------------------------------------------
(* Safety. *)

\* The chain groups to the right, whatever the operators, and a missing number
\* ends it; neither makes a statement touch a record that its clause does not mean,
\* with or without parentheses around conditions joined by AND.  What can are a
\* condition that asks for a missing number, a NOT, an OR in parentheses, and a
\* parenthesis that becomes part of a text or date: documents say that parentheses
\* group and that NOT negates (help.md:1206, DOCUMENTATION.md:284).
SelectsNothingElse ==
    verdict = "yes" =>
        AsksForNothing \/ Negates \/ OrInParentheses \/ ClosesText \/ Meant

\* A record that is meant is passed over only by a clause with an OR behind an
\* AND, because a number is missing, or over a NOT or a text or date that got the
\* closing parenthesis; parentheses that group add nothing to these.
MissesOnlyThen ==
    verdict = "no" =>
        \/ OrBehindAnd \/ Negates \/ ClosesText \/ \E k \in DOMAIN clause : MissingAt(k)
        \/ ~Meant

\* No condition is skipped because another one has decided: one that cannot be
\* evaluated refuses the statement, at any place in the clause, unless a missing
\* number has ended the evaluation before it.
RefusedWhereverItStands ==
    verdict = "throws" <=>
        \E k \in DOMAIN singles : NoneMissingBefore(k) /\ ~MissingAt(k) /\ Throws(singles[k])

\* What follows a condition with a missing number has no part in the verdict.
RestIsNotRead ==
    \A k \in DOMAIN singles :
        MissingAt(k) => verdict = evaluateCondition(
                        parseCondition(SubSeq(singles, 1, k), SubSeq(between, 1, k - 1)),
                        record)
=============================================================================
