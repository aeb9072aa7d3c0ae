-------------------------- MODULE Condition_proofs ---------------------------
(***************************************************************************)
(* Theorems about the WHERE clause, for clauses of any length: what the     *)
(* parser makes of a clause, what a verdict is when it is read off the      *)
(* clause instead of the chain, and the properties of the run.              *)
(***************************************************************************)
EXTENDS Condition, Induction

Connective == {"AND", "OR"}

\* What the parser can find.
FoundSingle == {Found(w) : w \in Written}

\* A clause: n conditions and the n - 1 connectives between them.
IsClause(parts, ops) ==
    /\ parts \in Seq(FoundSingle) /\ ops \in Seq(Connective)
    /\ Len(ops) = IF parts = <<>> THEN 0 ELSE Len(parts) - 1

-----------------------------------------------------------------------------
(* The parser. *)

\* The links from one place of the clause to another.
Links(parts, ops, first, last) ==
    [i \in 1..(IF first >= last THEN 1 ELSE (last - first) + 1) |->
        [single |-> parts[(first + i) - 1],
         logicalOp |-> IF (first + i) - 1 >= last THEN "NONE" ELSE ops[(first + i) - 1]]]

\* The text is cut behind its first condition.
LEMMA CutBehindFirst ==
    ASSUME NEW ops, NEW first \in Nat, NEW last \in Nat, first < last
    PROVE  SplitAt(ops, first, last) = first
<1>1. \E k \in first..(last - 1) : \A j \in first..(last - 1) : k <= j
  OBVIOUS
<1>2. /\ SplitAt(ops, first, last) \in first..(last - 1)
      /\ \A j \in first..(last - 1) : SplitAt(ops, first, last) <= j
  BY <1>1 DEF SplitAt
<1>. QED
  BY <1>2

Link == [single : FoundSingle, logicalOp : Connective \cup {"NONE"}]

\* The types of the chain that stands for a part of the clause.
LEMMA LinksType ==
    ASSUME NEW parts, NEW ops, IsClause(parts, ops),
           NEW first \in DOMAIN parts, NEW last \in DOMAIN parts
    PROVE  /\ Links(parts, ops, first, last) \in Seq(Link)
           /\ Len(Links(parts, ops, first, last)) = IF first >= last THEN 1 ELSE (last - first) + 1
<1>. DEFINE n == IF first >= last THEN 1 ELSE (last - first) + 1
<1>1. parts \in Seq(FoundSingle) /\ first \in 1..Len(parts) /\ last \in 1..Len(parts) /\ n \in Nat
  BY DEF IsClause
<1>2. ASSUME NEW i \in 1..n
      PROVE  Links(parts, ops, first, last)[i] \in Link
  <2>1. parts[(first + i) - 1] \in FoundSingle
    BY <1>1
  <2>2. CASE (first + i) - 1 >= last
    BY <2>1, <2>2 DEF Links, Link
  <2>3. CASE (first + i) - 1 < last
    <3>1. ops[(first + i) - 1] \in Connective
      BY <1>1, <2>3 DEF IsClause
    <3>. QED
      BY <2>1, <3>1, <2>3, <1>1 DEF Links, Link
  <2>. QED
    BY <2>2, <2>3, <1>1
<1>3. Links(parts, ops, first, last) \in [1..n -> Link]
  BY <1>2 DEF Links
<1>. QED
  BY <1>1, <1>3

\* A sequence is known by its first element and its rest.
LEMMA PrependIs ==
    ASSUME NEW S, NEW e \in S, NEW s \in Seq(S), NEW t \in Seq(S),
           Len(t) = Len(s) + 1, t[1] = e, \A i \in 1..Len(s) : t[i + 1] = s[i]
    PROVE  <<e>> \o s = t
<1>1. /\ <<e>> \o s \in Seq(S) /\ Len(<<e>> \o s) = Len(s) + 1
      /\ \A i \in 1..Len(t) : (<<e>> \o s)[i] = IF i = 1 THEN e ELSE s[i - 1]
  OBVIOUS
<1>2. \A i \in 1..Len(t) : i # 1 => i - 1 \in 1..Len(s) /\ t[(i - 1) + 1] = t[i]
  OBVIOUS
<1>3. \A i \in 1..Len(t) : t[i] = (<<e>> \o s)[i]
  BY <1>1, <1>2
<1>. QED
  BY <1>1, <1>3

\* One condition linked to the links of what follows it.
LEMMA LinkedLinks ==
    ASSUME NEW parts, NEW ops, IsClause(parts, ops),
           NEW first \in DOMAIN parts, NEW last \in DOMAIN parts, first < last
    PROVE  Linked(Links(parts, ops, first, first), ops[first],
                  Links(parts, ops, first + 1, last)) = Links(parts, ops, first, last)
<1>. DEFINE left == Links(parts, ops, first, first)
            rest == Links(parts, ops, first + 1, last)
            all == Links(parts, ops, first, last)
            head == [single |-> parts[first], logicalOp |-> ops[first]]
<1>1. parts \in Seq(FoundSingle) /\ first \in Nat /\ last \in Nat /\ first + 1 \in DOMAIN parts
  BY DEF IsClause
<1>2. [left[1] EXCEPT !.logicalOp = ops[first]] = head
  <2>1. left[1] = [single |-> parts[first], logicalOp |-> "NONE"]
    BY <1>1 DEF Links
  <2>. QED
    BY <2>1
<1>3. /\ rest \in Seq(Link) /\ Len(rest) = last - first
      /\ all \in Seq(Link) /\ Len(all) = (last - first) + 1
  <2>1. (first + 1 >= last) => last - first = 1
    BY <1>1
  <2>2. last - (first + 1) + 1 = last - first
    BY <1>1
  <2>3. rest \in Seq(Link) /\ Len(rest) = IF first + 1 >= last THEN 1 ELSE last - (first + 1) + 1
    BY <1>1, LinksType
  <2>4. all \in Seq(Link) /\ Len(all) = IF first >= last THEN 1 ELSE (last - first) + 1
    BY <1>1, LinksType
  <2>5. ~(first >= last)
    BY <1>1
  <2>6. Len(rest) = last - first
    <3>. HIDE DEF rest
    <3>. QED
      BY <2>1, <2>2, <2>3
  <2>7. Len(all) = (last - first) + 1
    <3>. HIDE DEF all
    <3>. QED
      BY <2>4, <2>5
  <2>. HIDE DEF rest, all
  <2>. QED
    BY <2>3, <2>4, <2>6, <2>7
<1>4. all[1] = head
  BY <1>1 DEF Links
<1>5. ASSUME NEW i \in 1..Len(rest)
      PROVE  all[i + 1] = rest[i]
  <2>1. i \in 1..(last - first) /\ i + 1 \in 1..((last - first) + 1)
    BY <1>1, <1>3
  <2>2. ((first + 1) + i) - 1 = (first + (i + 1)) - 1
    BY <1>1
  <2>3. rest[i] = [single |-> parts[((first + 1) + i) - 1],
                   logicalOp |-> IF ((first + 1) + i) - 1 >= last THEN "NONE"
                                 ELSE ops[((first + 1) + i) - 1]]
    BY <1>1, <2>1 DEF Links
  <2>4. all[i + 1] = [single |-> parts[(first + (i + 1)) - 1],
                      logicalOp |-> IF (first + (i + 1)) - 1 >= last THEN "NONE"
                                    ELSE ops[(first + (i + 1)) - 1]]
    BY <1>1, <2>1 DEF Links
  <2>. QED
    BY <2>2, <2>3, <2>4
<1>6. head \in Link
  BY <1>3, <1>4
<1>7. <<head>> \o rest = all
  <2>. HIDE DEF head, rest, all
  <2>. QED
    BY <1>3, <1>4, <1>5, <1>6, PrependIs
<1>. QED
  BY <1>2, <1>7 DEF Linked

\* What the parser makes of a clause, whatever its length.
LEMMA ParsedIsLinks ==
    ASSUME NEW parts, NEW ops, IsClause(parts, ops), parts # <<>>
    PROVE  parseCondition(parts, ops) = Links(parts, ops, 1, Len(parts))
<1>. DEFINE Places == DOMAIN parts
            Round(f, range) ==
                LET first == range[1]
                    last == range[2]
                    k == SplitAt(ops, first, last)
                IN  IF first >= last
                    THEN <<[single |-> parts[first], logicalOp |-> "NONE"]>>
                    ELSE Linked(f[<<first, k>>], ops[k], f[<<k + 1, last>>])
            parse == CHOOSE f : f = [range \in Places \X Places |-> Round(f, range)]
            links == [range \in Places \X Places |-> Links(parts, ops, range[1], range[2])]
<1>1. parts \in Seq(FoundSingle) /\ Places = 1..Len(parts) /\ Len(parts) \in Nat /\ Len(parts) > 0
  BY DEF IsClause
<1>2. ASSUME NEW first \in Places, NEW last \in Places
      PROVE  Links(parts, ops, first, last) =
                IF first >= last THEN <<[single |-> parts[first], logicalOp |-> "NONE"]>>
                ELSE Linked(Links(parts, ops, first, first), ops[first],
                            Links(parts, ops, first + 1, last))
  <2>1. CASE first >= last
    BY <1>1, <2>1 DEF Links
  <2>2. CASE first < last
    BY <1>1, <2>2, LinkedLinks
  <2>. QED
    BY <1>1, <2>1, <2>2
<1>3. ASSUME NEW range \in Places \X Places
      PROVE  links[range] = Round(links, range)
  <2>1. range[1] \in Places /\ range[2] \in Places
    OBVIOUS
  <2>2. CASE range[1] >= range[2]
    BY <2>1, <2>2, <1>2
  <2>3. CASE range[1] < range[2]
    <3>1. SplitAt(ops, range[1], range[2]) = range[1] /\ range[1] + 1 \in Places
      BY <1>1, <2>1, <2>3, CutBehindFirst
    <3>2. links[<<range[1], range[1]>>] = Links(parts, ops, range[1], range[1])
      BY <2>1
    <3>3. links[<<range[1] + 1, range[2]>>] = Links(parts, ops, range[1] + 1, range[2])
      BY <2>1, <3>1
    <3>4. ~(range[1] >= range[2])
      BY <1>1, <2>1, <2>3
    <3>. QED
      BY <2>1, <3>1, <3>2, <3>3, <3>4, <1>2
  <2>. QED
    BY <1>1, <2>1, <2>2, <2>3
<1>4. links = [range \in Places \X Places |-> Round(links, range)]
  BY <1>3
<1>5. parse = [range \in Places \X Places |-> Round(parse, range)]
  <2>. HIDE DEF links, Round
  <2>. QED
    BY <1>4
<1>6. parseCondition(parts, ops) = parse[<<1, Len(parts)>>]
  BY DEF parseCondition
<1>. DEFINE Right(n) == \A first, last \in Places :
                            last - first <= n => parse[<<first, last>>] = Links(parts, ops, first, last)
            T == {n \in Nat : Right(n)}
<1>7. ASSUME NEW first \in Places, NEW last \in Places
      PROVE  parse[<<first, last>>] = Round(parse, <<first, last>>)
  <2>. HIDE DEF Round, parse
  <2>. QED
    BY <1>5
<1>. HIDE DEF parse
<1>8. 0 \in T
  <2>1. ASSUME NEW first \in Places, NEW last \in Places, last - first <= 0
        PROVE  parse[<<first, last>>] = Links(parts, ops, first, last)
    <3>1. first >= last
      BY <1>1, <2>1
    <3>. QED
      BY ZenonT(30), <3>1, <1>2, <1>7
  <2>. QED
    BY <2>1
<1>9. ASSUME NEW n \in Nat, n \in T
      PROVE  n + 1 \in T
  <2>1. ASSUME NEW first \in Places, NEW last \in Places, last - first = n + 1
        PROVE  parse[<<first, last>>] = Links(parts, ops, first, last)
    <3>1. /\ ~(first >= last) /\ first + 1 \in Places
          /\ first - first <= n /\ last - (first + 1) <= n
      BY <1>1, <2>1
    <3>2. SplitAt(ops, first, last) = first
      BY <1>1, <3>1, CutBehindFirst
    <3>3. /\ parse[<<first, first>>] = Links(parts, ops, first, first)
          /\ parse[<<first + 1, last>>] = Links(parts, ops, first + 1, last)
      BY <1>9, <3>1
    <3>4. parse[<<first, last>>] = Linked(parse[<<first, first>>], ops[first],
                                          parse[<<first + 1, last>>])
      <4>1. parse[<<first, last>>] = Round(parse, <<first, last>>)
        BY <1>7
      <4>. QED
        BY <4>1, <3>1, <3>2
    <3>5. Links(parts, ops, first, last) = Linked(Links(parts, ops, first, first), ops[first],
                                                  Links(parts, ops, first + 1, last))
      BY <1>2, <3>1
    <3>. QED
      BY <3>3, <3>4, <3>5
  <2>2. \A first, last \in Places : last - first <= n + 1 <=> last - first <= n \/ last - first = n + 1
    BY <1>1
  <2>. QED
    BY <1>9, <2>1, <2>2
<1>10. Nat \subseteq T
  <2>. HIDE DEF T
  <2>. QED
    BY <1>8, <1>9, SetInduction
<1>. QED
  BY <1>1, <1>6, <1>10

-----------------------------------------------------------------------------
(* The table. *)

Answer == {"yes", "no", "throws"}

\* v is what the conditions of a clause answer for a record, each together with
\* those behind it.
IsReading(v, parts, ops, rec) ==
    /\ v \in [1..Len(parts) -> Answer]
    /\ \A i \in 1..Len(parts) :
            v[i] = IF Throws(parts[i]) /\ ~Missing(parts[i], rec) THEN "throws"
                   ELSE IF Missing(parts[i], rec) \/ i = Len(parts)
                        THEN Verdict(Holds(parts[i], rec))
                        ELSE Joined(Holds(parts[i], rec), ops[i], v[i + 1])

\* A joined answer is an answer.
LEMMA JoinedType ==
    ASSUME NEW holds, NEW op \in Connective, NEW rest
    PROVE  Joined(holds, op, rest) \in Answer
BY DEF Joined, Answer, Connective, Verdict

\* Reading the clause from its end gives the verdict on the chain that was parsed.
LEMMA VerdictIsReading ==
    ASSUME NEW parts, NEW ops, IsClause(parts, ops), parts # <<>>, NEW rec
    PROVE  \E v : /\ IsReading(v, parts, ops, rec)
                  /\ evaluateCondition(parseCondition(parts, ops), rec) = v[1]
<1>. DEFINE n == Len(parts)
            chain == parseCondition(parts, ops)
            Round(f, i) ==
                LET s == chain[i].single
                IN  IF Throws(s) /\ ~Missing(s, rec) THEN "throws"
                    ELSE IF Cut(s, rec) \/ i = Len(chain) THEN Verdict(Holds(s, rec))
                    ELSE Joined(Holds(s, rec), chain[i].logicalOp, f[i + 1])
            Alone(i) == IF Throws(parts[i]) /\ ~Missing(parts[i], rec) THEN "throws"
                        ELSE Verdict(Holds(parts[i], rec))
            Step(i, rest) == IF Throws(parts[i]) /\ ~Missing(parts[i], rec) THEN "throws"
                             ELSE IF Missing(parts[i], rec) THEN Verdict(Holds(parts[i], rec))
                             ELSE Joined(Holds(parts[i], rec), ops[i], rest)
            step == [i \in 1..n |-> [rest \in Answer |-> IF i = n THEN Alone(i) ELSE Step(i, rest)]]
            v == CHOOSE f : f = [i \in DOMAIN chain |-> Round(f, i)]
<1>1. /\ parts \in Seq(FoundSingle) /\ n \in Nat /\ n > 0
      /\ \A i \in 1..(n - 1) : ops[i] \in Connective
  BY DEF IsClause
<1>2a. chain \in Seq(Link) /\ DOMAIN chain = 1..n /\ Len(chain) = n /\ chain # <<>>
  <2>1. chain = Links(parts, ops, 1, n)
    BY ParsedIsLinks
  <2>2. 1 \in DOMAIN parts /\ n \in DOMAIN parts
    BY <1>1
  <2>3. chain \in Seq(Link) /\ Len(chain) = IF 1 >= n THEN 1 ELSE (n - 1) + 1
    <3>. HIDE DEF n, chain
    <3>. QED
      BY <2>1, <2>2, LinksType
  <2>4. (IF 1 >= n THEN 1 ELSE (n - 1) + 1) = n
    <3>1. n \in Nat /\ n > 0
      BY <1>1
    <3>. HIDE DEF n
    <3>. QED
      BY <3>1
  <2>5. Len(chain) = n /\ n > 0
    BY <1>1, <2>3, <2>4
  <2>. HIDE DEF n, chain
  <2>. QED
    BY <2>3, <2>5
<1>2. ASSUME NEW i \in 1..n
      PROVE  /\ chain[i].single = parts[i]
             /\ chain[i].logicalOp = IF i = n THEN "NONE" ELSE ops[i]
  <2>1. chain = Links(parts, ops, 1, n)
    BY ParsedIsLinks
  <2>2. Links(parts, ops, 1, n)[i] =
            [single |-> parts[(1 + i) - 1],
             logicalOp |-> IF (1 + i) - 1 >= n THEN "NONE" ELSE ops[(1 + i) - 1]]
    BY <1>1 DEF Links
  <2>3. (1 + i) - 1 = i /\ (i >= n <=> i = n)
    BY <1>1
  <2>. HIDE DEF chain, n
  <2>. QED
    BY <2>1, <2>2, <2>3
<1>. HIDE DEF chain
<1>3. /\ \A i \in 1..n : Alone(i) \in Answer
      /\ \A i \in 1..(n - 1) : \A rest : Step(i, rest) \in Answer
  BY <1>1, JoinedType DEF Answer, Verdict
<1>4. ASSUME NEW f, NEW i \in 1..n
      PROVE  Round(f, i) = IF i = n THEN Alone(i) ELSE Step(i, f[i + 1])
  BY <1>1, <1>2, <1>2a DEF Cut
<1>5. \E f : f = [i \in DOMAIN chain |-> Round(f, i)]
  <2>1. step \in [1..n -> [Answer -> Answer]] /\ Alone(n) \in Answer
    <3>. HIDE DEF Alone, Step
    <3>. QED
      BY <1>1, <1>3
  <2>2. PICK f : IsLoopDown(f, Answer, n, Alone(n), step)
    <3>. HIDE DEF Alone, step, n
    <3>. QED
      BY <1>1, <2>1, LoopDown
  <2>3. ASSUME NEW i \in 1..n
        PROVE  f[i] = Round(f, i)
    <3>1. f[i] = IF i = n THEN Alone(n) ELSE step[i][f[i + 1]]
      BY <2>2 DEF IsLoopDown
    <3>2. i # n => i + 1 \in 1..n /\ f[i + 1] \in Answer
      BY <1>1, <2>2 DEF IsLoopDown
    <3>. HIDE DEF Alone, Step, Round
    <3>. QED
      BY <3>1, <3>2, <1>4
  <2>4. f = [i \in DOMAIN chain |-> Round(f, i)]
    <3>. HIDE DEF Round
    <3>. QED
      BY <1>2a, <2>2, <2>3 DEF IsLoopDown
  <2>. HIDE DEF Round
  <2>. QED
    BY <2>4
<1>6. v = [i \in DOMAIN chain |-> Round(v, i)]
  <2>. HIDE DEF Round
  <2>. QED
    BY <1>5
<1>7. evaluateCondition(chain, rec) = v[1]
  BY <1>2a DEF evaluateCondition
<1>. HIDE DEF v
<1>8. ASSUME NEW i \in 1..n
      PROVE  v[i] = IF i = n THEN Alone(i) ELSE Step(i, v[i + 1])
  <2>1. v[i] = Round(v, i)
    <3>. HIDE DEF Round
    <3>. QED
      BY <1>2a, <1>6
  <2>. HIDE DEF Round, Alone, Step
  <2>. QED
    BY <2>1, <1>4
<1>9. v \in [1..n -> Answer]
  <2>1. ASSUME NEW i \in 1..n
        PROVE  v[i] \in Answer
    <3>. HIDE DEF Alone, Step
    <3>. QED
      BY <1>1, <1>3, <1>8
  <2>2. v = [i \in 1..n |-> v[i]]
    <3>. HIDE DEF Round
    <3>. QED
      BY <1>2a, <1>6
  <2>. QED
    BY <2>1, <2>2
<1>10. IsReading(v, parts, ops, rec)
  BY <1>8, <1>9 DEF IsReading
<1>. QED
  BY <1>7, <1>10 DEF chain

\* What AND and OR make of the two sides once both are known.
LEMMA JoinedIs ==
    ASSUME NEW s, NEW rec, NEW op \in Connective, NEW rest \in Answer
    PROVE  LET joined == Joined(Holds(s, rec), op, rest)
           IN  /\ joined = "throws" <=> rest = "throws"
               /\ joined = "yes" <=> \/ op = "AND" /\ Holds(s, rec) /\ rest = "yes"
                                     \/ op = "OR" /\ rest # "throws" /\ (Holds(s, rec) \/ rest = "yes")
BY DEF Joined, Answer, Connective, Verdict

-----------------------------------------------------------------------------
(* The inductive invariant. *)

\* The clause is one, as it is written and as it is found, the chain is what the
\* parser makes of it, and the record is one that the table accepted.
ClauseInv ==
    /\ clause \in Seq(Written)
    /\ IsClause(singles, between)
    /\ condition = parseCondition(singles, between)
    /\ record \in Record

\* What is found of a clause has a condition for each that is written.
LEMMA FoundClause ==
    ASSUME NEW written \in Seq(Written)
    PROVE  LET found == [k \in DOMAIN written |-> Found(written[k])]
           IN  /\ found \in Seq(FoundSingle) /\ Len(found) = Len(written)
               /\ found = <<>> <=> written = <<>>
<1>. DEFINE found == [k \in DOMAIN written |-> Found(written[k])]
<1>1. DOMAIN written = 1..Len(written) /\ Len(written) \in Nat
  OBVIOUS
<1>2. found \in [1..Len(written) -> FoundSingle]
  BY <1>1 DEF FoundSingle
<1>3. found \in Seq(FoundSingle) /\ Len(found) = Len(written)
  <2>. HIDE DEF found
  <2>. QED
    BY <1>1, <1>2
<1>. QED
  BY <1>1, <1>3

LEMMA SinglesFound ==
    ASSUME clause \in Seq(Written)
    PROVE  /\ singles \in Seq(FoundSingle) /\ Len(singles) = Len(clause)
           /\ singles = <<>> <=> clause = <<>>
           /\ \A k \in DOMAIN clause : clause[k] \in Written /\ singles[k] = Found(clause[k])
BY FoundClause DEF singles

\* One condition more is written, and found.
LEMMA SinglesGrow ==
    ASSUME clause \in Seq(Written), NEW w \in Written, clause' = Append(clause, w)
    PROVE  /\ clause' \in Seq(Written)
           /\ singles' = Append(singles, Found(w)) /\ Found(w) \in FoundSingle
<1>. DEFINE n == Len(clause)
<1>1. /\ n \in Nat /\ DOMAIN clause = 1..n
      /\ clause' \in Seq(Written) /\ Len(clause') = n + 1 /\ DOMAIN clause' = 1..(n + 1)
      /\ \A k \in 1..(n + 1) : clause'[k] = IF k = n + 1 THEN w ELSE clause[k]
  OBVIOUS
<1>2. singles' = [k \in DOMAIN clause' |-> Found(clause'[k])]
  BY DEF singles
<1>3. singles' \in Seq(FoundSingle) /\ Len(singles') = n + 1
  <2>. HIDE DEF n
  <2>. QED
    BY <1>1, <1>2, FoundClause
<1>4. singles \in Seq(FoundSingle) /\ Len(singles) = n /\ Found(w) \in FoundSingle
  BY SinglesFound DEF FoundSingle
<1>5. ASSUME NEW k \in 1..(n + 1)
      PROVE  singles'[k] = Append(singles, Found(w))[k]
  <2>1. singles'[k] = Found(IF k = n + 1 THEN w ELSE clause[k])
    BY <1>1, <1>2
  <2>2. k # n + 1 => k \in DOMAIN clause
    BY <1>1
  <2>3. k # n + 1 => singles[k] = Found(clause[k])
    BY <2>2, SinglesFound
  <2>4. Append(singles, Found(w))[k] = IF k = n + 1 THEN Found(w) ELSE singles[k]
    <3>. HIDE DEF n
    <3>. QED
      BY <1>1, <1>4
  <2>. QED
    BY <2>1, <2>3, <2>4
<1>6. singles' = Append(singles, Found(w))
  <2>1. Append(singles, Found(w)) \in Seq(FoundSingle) /\ Len(Append(singles, Found(w))) = n + 1
    BY <1>4
  <2>. HIDE DEF n
  <2>. QED
    BY <1>1, <1>3, <1>5, <2>1
<1>. QED
  BY <1>1, <1>4, <1>6

\* The empty clause satisfies the invariant.
LEMMA ClauseInvInit == Init => ClauseInv
<1>. SUFFICES ASSUME Init
              PROVE  ClauseInv
  OBVIOUS
<1>1. IsClause(singles, between)
  <2>1. clause = <<>> /\ between = <<>>
    BY DEF Init
  <2>2. singles = <<>>
    BY <2>1 DEF singles
  <2>. QED
    BY <2>1, <2>2 DEF IsClause
<1>2. clause \in Seq(Written)
  BY DEF Init
<1>. QED
  BY <1>1, <1>2 DEF Init, ClauseInv

\* One condition more, with its connective, keeps the invariant.
LEMMA ClauseInvStep == ClauseInv /\ [Next]_vars => ClauseInv'
<1>. SUFFICES ASSUME ClauseInv, [Next]_vars
              PROVE  ClauseInv'
  OBVIOUS
<1>1. ASSUME NEW w \in Written, Extend(w)
      PROVE  ClauseInv'
  <2>0. /\ clause \in Seq(Written) /\ clause' \in Seq(Written)
        /\ singles' = Append(singles, Found(w)) /\ Found(w) \in FoundSingle
        /\ clause = <<>> <=> singles = <<>>
    BY <1>1, SinglesGrow, SinglesFound DEF Extend, ClauseInv
  <2>1. IsClause(singles', between')
    <3>1. singles \in Seq(FoundSingle) /\ between \in Seq(Connective)
      BY DEF ClauseInv, IsClause
    <3>2. /\ singles' = Append(singles, Found(w)) /\ Found(w) \in FoundSingle
          /\ singles' # <<>> /\ Len(singles') = Len(singles) + 1
      BY <2>0, <3>1
    <3>3. CASE singles = <<>>
      <4>1. between' = between /\ Len(between) = 0 /\ Len(singles) = 0
        BY <1>1, <2>0, <3>3 DEF Extend, ClauseInv, IsClause
      <4>. QED
        BY <3>1, <3>2, <4>1 DEF IsClause
    <3>4. CASE singles # <<>>
      <4>1. PICK op \in Connective : between' = Append(between, op)
        BY <1>1, <2>0, <3>4 DEF Extend, Connective
      <4>2. Len(between) = Len(singles) - 1
        BY <3>4 DEF ClauseInv, IsClause
      <4>. QED
        BY <3>1, <3>2, <4>1, <4>2 DEF IsClause
    <3>. QED
      BY <3>3, <3>4
  <2>2. condition' = parseCondition(singles', between') /\ record' = record
    BY <1>1 DEF Extend
  <2>. QED
    BY <2>0, <2>1, <2>2 DEF ClauseInv
<1>2. ASSUME UNCHANGED vars
      PROVE  ClauseInv'
  <2>1. singles' = singles
    BY <1>2 DEF vars, singles
  <2>. QED
    BY <1>2, <2>1 DEF vars, ClauseInv
<1>. QED
  BY <1>1, <1>2 DEF Next

\* The invariant holds of every clause that can be written.
LEMMA ClauseInvHolds == Spec => []ClauseInv
BY ClauseInvInit, ClauseInvStep, PTL DEF Spec

\* What the table answers for the record, condition by condition.
LEMMA VerdictRead ==
    ASSUME ClauseInv, singles # <<>>
    PROVE  \E v : IsReading(v, singles, between, record) /\ verdict = v[1]
BY VerdictIsReading DEF ClauseInv, verdict

\* What the verdict is at the last condition, and at a condition with others behind it.
LEMMA ReadingAt ==
    ASSUME ClauseInv, singles # <<>>, NEW v, IsReading(v, singles, between, record)
    PROVE  LET n == Len(singles)
           IN  /\ v[n] = IF Throws(singles[n]) /\ ~MissingAt(n) THEN "throws"
                         ELSE Verdict(Holds(singles[n], record))
               /\ \A i \in 1..(n - 1) :
                    /\ i \in 1..n /\ v[i + 1] \in Answer /\ between[i] \in Connective
                    /\ v[i] = IF Throws(singles[i]) /\ ~MissingAt(i) THEN "throws"
                              ELSE IF MissingAt(i) THEN Verdict(Holds(singles[i], record))
                              ELSE Joined(Holds(singles[i], record), between[i], v[i + 1])
<1>. DEFINE n == Len(singles)
<1>1. /\ n \in Nat /\ n > 0
      /\ \A i \in 1..(n - 1) : between[i] \in Connective
  BY DEF ClauseInv, IsClause
<1>2. /\ v \in [1..n -> Answer]
      /\ \A i \in 1..n :
            v[i] = IF Throws(singles[i]) /\ ~MissingAt(i) THEN "throws"
                   ELSE IF MissingAt(i) \/ i = n THEN Verdict(Holds(singles[i], record))
                   ELSE Joined(Holds(singles[i], record), between[i], v[i + 1])
  BY DEF IsReading, MissingAt
<1>. HIDE DEF n
<1>3. n \in 1..n /\ \A i \in 1..(n - 1) : i \in 1..n /\ i + 1 \in 1..n /\ i # n
  BY <1>1
<1>4. v[n] = IF Throws(singles[n]) /\ ~MissingAt(n) THEN "throws"
             ELSE Verdict(Holds(singles[n], record))
  BY <1>2, <1>3
<1>5. ASSUME NEW i \in 1..(n - 1)
      PROVE  /\ i \in 1..n /\ v[i + 1] \in Answer /\ between[i] \in Connective
             /\ v[i] = IF Throws(singles[i]) /\ ~MissingAt(i) THEN "throws"
                       ELSE IF MissingAt(i) THEN Verdict(Holds(singles[i], record))
                       ELSE Joined(Holds(singles[i], record), between[i], v[i + 1])
  BY <1>1, <1>2, <1>3
<1>. QED
  BY <1>4, <1>5 DEF n

\* No clause selects every record.
LEMMA EmptyClause ==
    ASSUME ClauseInv, singles = <<>>
    PROVE  verdict = "yes" /\ condition = <<>>
BY DEF ClauseInv, verdict, parseCondition, evaluateCondition

-----------------------------------------------------------------------------
(* The theorems. *)

\* The chain of every clause has one link per condition, joined by the AND and OR
\* of the clause and ended by NONE.
THEOREM TypeCorrect == Spec => []TypeOK
<1>1. ASSUME ClauseInv
      PROVE  TypeOK
  <2>1. /\ \A i \in DOMAIN singles : singles[i] \in FoundSingle
        /\ \A i \in DOMAIN clause : clause[i] \in Written
        /\ \A i \in DOMAIN between : between[i] \in {"AND", "OR"}
        /\ record \in Record
    BY <1>1 DEF ClauseInv, IsClause, Connective
  <2>2. CASE singles = <<>>
    <3>1. condition = <<>>
      BY <1>1, <2>2, EmptyClause
    <3>. QED
      BY <2>1, <3>1 DEF TypeOK
  <2>3. CASE singles # <<>>
    <3>. DEFINE n == Len(singles)
    <3>1. singles \in Seq(FoundSingle) /\ n \in Nat /\ 1 \in DOMAIN singles /\ n \in DOMAIN singles
      BY <1>1, <2>3 DEF ClauseInv, IsClause
    <3>2. \A i \in 1..(n - 1) : between[i] \in Connective
      BY <1>1, <2>3 DEF ClauseInv, IsClause
    <3>3. condition = Links(singles, between, 1, n)
      BY <1>1, <2>3, ParsedIsLinks DEF ClauseInv
    <3>4. condition \in Seq(Link) /\ Len(condition) = IF 1 >= n THEN 1 ELSE (n - 1) + 1
      <4>. HIDE DEF n
      <4>. QED
        BY <1>1, <3>1, <3>3, LinksType DEF ClauseInv
    <3>5. Len(condition) = n
      <4>. HIDE DEF n
      <4>. QED
        BY <2>3, <3>1, <3>4
    <3>6. ASSUME NEW i \in DOMAIN condition
          PROVE  /\ condition[i].single \in FoundSingle
                 /\ condition[i].logicalOp \in IF i = Len(condition) THEN {"NONE"} ELSE {"AND", "OR"}
      <4>1. i \in 1..n /\ (1 + i) - 1 = i
        BY <3>4, <3>5
      <4>2. condition[i] = [single |-> singles[(1 + i) - 1],
                            logicalOp |-> IF (1 + i) - 1 >= n THEN "NONE" ELSE between[(1 + i) - 1]]
        BY <3>1, <3>3, <4>1 DEF Links
      <4>3. i # n => i \in 1..(n - 1) /\ ~(i >= n)
        BY <3>1, <4>1
      <4>. QED
        BY <2>1, <3>1, <3>2, <3>5, <4>1, <4>2, <4>3 DEF Connective
    <3>. QED
      BY <2>1, <3>6 DEF TypeOK, FoundSingle
  <2>. QED
    BY <2>2, <2>3
<1>. QED
  BY <1>1, ClauseInvHolds, PTL

\* A statement is refused exactly because of a condition that cannot be evaluated
\* and that no missing number precedes, wherever in the clause it stands.
LEMMA Refused ==
    ASSUME ClauseInv
    PROVE  RefusedWhereverItStands
<1>1. CASE singles = <<>>
  BY <1>1, EmptyClause DEF RefusedWhereverItStands
<1>2. CASE singles # <<>>
  <2>. DEFINE n == Len(singles)
              Refuses(i, k) == /\ \A j \in i..(k - 1) : ~MissingAt(j)
                               /\ ~MissingAt(k) /\ Throws(singles[k])
  <2>1. PICK v : IsReading(v, singles, between, record) /\ verdict = v[1]
    BY <1>2, VerdictRead
  <2>2. /\ n \in Nat /\ n > 0 /\ DOMAIN singles = 1..n
        /\ \A i \in 1..(n - 1) : between[i] \in Connective
    BY <1>2 DEF ClauseInv, IsClause
  <2>. DEFINE T == {i \in 1..n : v[i] = "throws" <=> \E k \in i..n : Refuses(i, k)}
  <2>3. n \in T
    <3>1. v[n] = IF Throws(singles[n]) /\ ~MissingAt(n) THEN "throws" ELSE Verdict(Holds(singles[n], record))
      BY <1>2, <2>1, ReadingAt
    <3>2. v[n] = "throws" <=> Throws(singles[n]) /\ ~MissingAt(n)
      BY <3>1 DEF Verdict
    <3>3. (\E k \in n..n : Refuses(n, k)) <=> Refuses(n, n)
      BY <2>2
    <3>4. Refuses(n, n) <=> Throws(singles[n]) /\ ~MissingAt(n)
      BY <2>2
    <3>. QED
      BY <2>2, <3>2, <3>3, <3>4
  <2>4. ASSUME NEW i \in 1..(n - 1), i + 1 \in T
        PROVE  i \in T
    <3>1. v[i + 1] \in Answer /\ between[i] \in Connective /\ i \in 1..n
      BY <1>2, <2>1, ReadingAt
    <3>2. v[i] = IF Throws(singles[i]) /\ ~MissingAt(i) THEN "throws"
                 ELSE IF MissingAt(i) THEN Verdict(Holds(singles[i], record))
                 ELSE Joined(Holds(singles[i], record), between[i], v[i + 1])
      BY <1>2, <2>1, ReadingAt
    <3>3. \A k \in (i + 1)..n : Refuses(i, k) <=> ~MissingAt(i) /\ Refuses(i + 1, k)
      <4>1. \A k \in (i + 1)..n : \A j : j \in i..(k - 1) <=> j = i \/ j \in (i + 1)..(k - 1)
        BY <2>2
      <4>. QED
        BY <4>1
    <3>4. Refuses(i, i) <=> ~MissingAt(i) /\ Throws(singles[i])
      BY <2>2
    <3>5. \A k : k \in i..n <=> k = i \/ k \in (i + 1)..n
      BY <2>2
    <3>6. (\E k \in i..n : Refuses(i, k)) <=>
                ~MissingAt(i) /\ (Throws(singles[i]) \/ \E k \in (i + 1)..n : Refuses(i + 1, k))
      <4>. HIDE DEF Refuses
      <4>. QED
        BY <3>3, <3>4, <3>5
    <3>7. v[i] = "throws" <=> ~MissingAt(i) /\ (Throws(singles[i]) \/ v[i + 1] = "throws")
      BY <3>1, <3>2, JoinedIs DEF Verdict
    <3>. HIDE DEF Refuses
    <3>. QED
      BY <2>4, <3>1, <3>6, <3>7
  <2>5. 1..n \subseteq T
    <3>. HIDE DEF T, n
    <3>. QED
      BY <2>2, <2>3, <2>4, DownInduction
  <2>6. v[1] = "throws" <=> \E k \in 1..n : Refuses(1, k)
    BY <2>2, <2>5
  <2>. QED
    BY <2>1, <2>2, <2>6 DEF RefusedWhereverItStands, NoneMissingBefore
<1>. QED
  BY <1>1, <1>2

\* A condition that cannot be evaluated refuses the statement wherever it stands, unless
\* a missing number precedes it: for clauses of any length and any record.
THEOREM RefusedWherever == Spec => []RefusedWhereverItStands
BY Refused, ClauseInvHolds, PTL

\* A group of conditions joined by AND, in what remains of the clause at place i.
GroupFrom(i, a, b) ==
    /\ a = i \/ between[a - 1] = "OR"
    /\ b = Len(singles) \/ between[b] = "OR"
    /\ \A k \in a..(b - 1) : between[k] = "AND"

\* The condition at place k answers yes as it was found, without its marks.
FoundYes(k) ==
    /\ ~Throws(singles[k])
    /\ TypeOf[singles[k].column] \in Numeric => record[singles[k].column] # Empty
    /\ Holds(singles[k], record)

\* What remains of the clause at place i means yes when the marks are not looked at.
MeantFrom(i) ==
    \E a, b \in i..Len(singles) :
        a <= b /\ GroupFrom(i, a, b) /\ \A k \in a..b : FoundYes(k)

\* A condition that is neither missing nor unreadable answers yes when it holds.
LEMMA HoldsFoundYes ==
    ASSUME NEW k, ~MissingAt(k), ~Throws(singles[k])
    PROVE  FoundYes(k) <=> Holds(singles[k], record)
BY DEF MissingAt, Missing, Throws, FoundYes

\* The chain groups to the right and stops at a missing number; a record that it
\* selects has a group of conditions that all answer yes, AND before OR.
LEMMA SelectsGroup ==
    ASSUME ClauseInv, singles # <<>>, verdict = "yes", ~AsksForNothing
    PROVE  MeantFrom(1)
<1>. DEFINE n == Len(singles)
<1>1. PICK v : IsReading(v, singles, between, record) /\ verdict = v[1]
  BY VerdictRead
<1>2. /\ n \in Nat /\ n > 0 /\ DOMAIN singles = 1..n
      /\ \A i \in 1..(n - 1) : between[i] \in Connective
  BY DEF ClauseInv, IsClause
<1>3. ASSUME NEW k \in 1..n, MissingAt(k)
      PROVE  Verdict(Holds(singles[k], record)) # "yes"
  <2>1. singles[k].value # Empty
    BY <1>2, <1>3 DEF AsksForNothing, MissingAt, Missing
  <2>2. record[singles[k].column] = Empty
    BY <1>3, <2>1 DEF MissingAt, Missing
  <2>3. ~Holds(singles[k], record)
    BY <1>3, <2>1, <2>2 DEF Holds, MissingAt
  <2>. QED
    BY <2>3 DEF Verdict
<1>. DEFINE T == {i \in 1..n : v[i] = "yes" => MeantFrom(i)}
<1>4. n \in T
  <2>. SUFFICES ASSUME v[n] = "yes"
                PROVE  MeantFrom(n)
    BY <1>2
  <2>1. v[n] = IF Throws(singles[n]) /\ ~MissingAt(n) THEN "throws"
               ELSE Verdict(Holds(singles[n], record))
    BY <1>2, <1>1, ReadingAt
  <2>2. ~MissingAt(n) /\ ~Throws(singles[n]) /\ Holds(singles[n], record)
    BY <1>2, <1>3, <2>1 DEF Verdict
  <2>3. FoundYes(n)
    BY <2>2, HoldsFoundYes
  <2>4. GroupFrom(n, n, n)
    BY <1>2 DEF GroupFrom
  <2>. QED
    BY <1>2, <2>3, <2>4 DEF MeantFrom
<1>5. ASSUME NEW i \in 1..(n - 1), i + 1 \in T
      PROVE  i \in T
  <2>. SUFFICES ASSUME v[i] = "yes"
                PROVE  MeantFrom(i)
    BY <1>2
  <2>1. v[i + 1] \in Answer /\ between[i] \in Connective /\ i \in 1..n
    BY <1>2, <1>1, ReadingAt
  <2>2. v[i] = IF Throws(singles[i]) /\ ~MissingAt(i) THEN "throws"
               ELSE IF MissingAt(i) THEN Verdict(Holds(singles[i], record))
               ELSE Joined(Holds(singles[i], record), between[i], v[i + 1])
    BY <1>2, <1>1, ReadingAt
  <2>3. /\ ~MissingAt(i) /\ ~Throws(singles[i])
        /\ Joined(Holds(singles[i], record), between[i], v[i + 1]) = "yes"
    BY <1>3, <2>1, <2>2
  <2>4. \/ between[i] = "AND" /\ Holds(singles[i], record) /\ v[i + 1] = "yes"
        \/ between[i] = "OR" /\ (Holds(singles[i], record) \/ v[i + 1] = "yes")
    BY <2>1, <2>3, JoinedIs
  <2>5. CASE v[i + 1] = "yes" /\ (between[i] = "OR" \/ Holds(singles[i], record))
    <3>1. PICK a \in (i + 1)..n, b \in (i + 1)..n :
              a <= b /\ GroupFrom(i + 1, a, b) /\ \A k \in a..b : FoundYes(k)
      BY <1>5, <2>5 DEF MeantFrom
    <3>2. CASE a # i + 1 \/ between[i] = "OR"
      <4>1. between[a - 1] = "OR"
        BY <3>1, <3>2 DEF GroupFrom
      <4>2. GroupFrom(i, a, b)
        BY <3>1, <4>1 DEF GroupFrom
      <4>3. a \in i..n /\ b \in i..n
        OBVIOUS
      <4>. QED
        BY <3>1, <4>2, <4>3 DEF MeantFrom
    <3>3. CASE a = i + 1 /\ between[i] = "AND"
      <4>1. \A k : k \in i..(b - 1) <=> k = i \/ k \in a..(b - 1)
        BY <3>1, <3>3
      <4>2. \A k : k \in i..b <=> k = i \/ k \in a..b
        BY <3>1, <3>3
      <4>3. GroupFrom(i, i, b)
        BY <3>1, <3>3, <4>1 DEF GroupFrom
      <4>4. FoundYes(i)
        BY <2>3, <2>5, <3>3, HoldsFoundYes
      <4>5. i \in i..n /\ b \in i..n /\ i <= b
        BY <1>2
      <4>. QED
        BY <3>1, <4>2, <4>3, <4>4, <4>5 DEF MeantFrom
    <3>. QED
      BY <2>1, <3>2, <3>3 DEF Connective
  <2>6. CASE between[i] = "OR" /\ Holds(singles[i], record)
    <3>1. FoundYes(i)
      BY <2>3, <2>6, HoldsFoundYes
    <3>2. GroupFrom(i, i, i)
      BY <1>2, <2>6 DEF GroupFrom
    <3>3. i \in i..n /\ \A k \in i..i : k = i
      BY <1>2
    <3>. QED
      BY <3>1, <3>2, <3>3 DEF MeantFrom
  <2>. QED
    BY <2>4, <2>5, <2>6
<1>6. 1..n \subseteq T
  <2>. HIDE DEF T, n
  <2>. QED
    BY <1>2, <1>4, <1>5, DownInduction
<1>. QED
  BY <1>1, <1>2, <1>6

\* A clause that has every OR before its ANDs, and no missing number, is read as AND
\* before OR: a record that it passes over has no group that answers yes.
LEMMA MissesGroup ==
    ASSUME ClauseInv, singles # <<>>, ~OrBehindAnd,
           \A k \in DOMAIN singles : ~MissingAt(k), verdict = "no"
    PROVE  ~MeantFrom(1)
<1>. DEFINE n == Len(singles)
<1>1. PICK v : IsReading(v, singles, between, record) /\ verdict = v[1]
  BY VerdictRead
<1>2. /\ n \in Nat /\ n > 0 /\ DOMAIN singles = 1..n /\ DOMAIN between = 1..(n - 1)
      /\ \A i \in 1..(n - 1) : between[i] \in Connective
  BY DEF ClauseInv, IsClause
<1>0. /\ \A k \in 1..n : ~MissingAt(k)
      /\ ~OrBehindAnd /\ v[1] = "no"
  BY <1>1, <1>2
<1>3. ASSUME NEW i \in 1..(n - 1), NEW k \in (i + 1)..(n - 1), between[i] = "AND"
      PROVE  between[k] # "OR"
  BY <1>0, <1>2, <1>3 DEF OrBehindAnd
<1>4. ASSUME NEW k \in 1..n, FoundYes(k)
      PROVE  ~Throws(singles[k]) /\ Holds(singles[k], record)
  BY <1>4 DEF FoundYes
<1>. DEFINE T == {i \in 1..n : v[i] = "no" => ~MeantFrom(i)}
<1>5. n \in T
  <2>. SUFFICES ASSUME v[n] = "no", MeantFrom(n)
                PROVE  FALSE
    BY <1>2
  <2>1. v[n] = IF Throws(singles[n]) /\ ~MissingAt(n) THEN "throws"
               ELSE Verdict(Holds(singles[n], record))
    BY <1>1, ReadingAt
  <2>2. FoundYes(n)
    BY <1>2 DEF MeantFrom
  <2>. QED
    BY <1>2, <1>4, <2>1, <2>2 DEF Verdict
<1>6. ASSUME NEW i \in 1..(n - 1), i + 1 \in T
      PROVE  i \in T
  <2>. SUFFICES ASSUME v[i] = "no", MeantFrom(i)
                PROVE  FALSE
    BY <1>2
  <2>1. v[i + 1] \in Answer /\ between[i] \in Connective /\ i \in 1..n
    BY <1>1, ReadingAt
  <2>2. v[i] = Joined(Holds(singles[i], record), between[i], v[i + 1])
    <3>1. v[i] = IF Throws(singles[i]) /\ ~MissingAt(i) THEN "throws"
                 ELSE IF MissingAt(i) THEN Verdict(Holds(singles[i], record))
                 ELSE Joined(Holds(singles[i], record), between[i], v[i + 1])
      BY <1>1, ReadingAt
    <3>. QED
      BY <2>1, <3>1
  <2>3. \/ between[i] = "AND" /\ (v[i + 1] = "no" \/ ~Holds(singles[i], record))
        \/ between[i] = "OR" /\ v[i + 1] = "no" /\ ~Holds(singles[i], record)
    BY <2>1, <2>2 DEF Joined, Connective, Answer, Verdict
  <2>4. PICK a \in i..n, b \in i..n :
            a <= b /\ GroupFrom(i, a, b) /\ \A k \in a..b : FoundYes(k)
    BY DEF MeantFrom
  <2>5. CASE a = i
    <3>1. Holds(singles[i], record)
      BY <1>4, <2>1, <2>4, <2>5
    <3>2. between[i] = "AND" /\ v[i + 1] = "no"
      BY <2>3, <3>1
    <3>3. b # i
      <4>1. b = n \/ between[b] = "OR"
        BY <2>4 DEF GroupFrom
      <4>2. i # n
        <5>. HIDE DEF n
        <5>. QED
          BY <1>2
      <4>. QED
        BY <3>2, <4>1, <4>2
    <3>4. GroupFrom(i + 1, i + 1, b) /\ i + 1 <= b
      <4>1. i + 1 <= b /\ \A k \in (i + 1)..(b - 1) : k \in a..(b - 1)
        <5>. HIDE DEF n
        <5>. QED
          BY <1>2, <2>1, <2>4, <2>5, <3>3
      <4>. QED
        BY <2>4, <4>1 DEF GroupFrom
    <3>5. MeantFrom(i + 1)
      BY <1>2, <2>4, <2>5, <3>3, <3>4 DEF MeantFrom
    <3>. QED
      BY <1>6, <3>2, <3>5
  <2>6. CASE a # i
    <3>1. between[a - 1] = "OR" /\ a \in (i + 1)..n /\ b \in (i + 1)..n
      <4>1. between[a - 1] = "OR"
        BY <2>4, <2>6 DEF GroupFrom
      <4>. HIDE DEF n
      <4>. QED
        BY <1>2, <2>1, <2>4, <2>6, <4>1
    <3>2. between[i] = "OR"
      <4>1. CASE a = i + 1
        BY <3>1, <4>1
      <4>2. CASE a # i + 1
        <5>1. a - 1 \in (i + 1)..(n - 1)
          BY <1>2, <3>1, <4>2
        <5>. QED
          BY <1>3, <2>1, <3>1, <5>1 DEF Connective
      <4>. QED
        BY <4>1, <4>2
    <3>3. v[i + 1] = "no"
      BY <2>3, <3>2
    <3>4. GroupFrom(i + 1, a, b)
      BY <2>4, <3>1 DEF GroupFrom
    <3>5. MeantFrom(i + 1)
      BY <2>4, <3>1, <3>4 DEF MeantFrom
    <3>. QED
      BY <1>6, <3>3, <3>5
  <2>. QED
    BY <2>5, <2>6
<1>7. 1..n \subseteq T
  <2>. HIDE DEF T, n
  <2>. QED
    BY <1>2, <1>5, <1>6, DownInduction
<1>. QED
  BY <1>0, <1>2, <1>7

-----------------------------------------------------------------------------
(* What is meant, with the NOTs and parentheses of the clause. *)

\* Numbers are compared by what is read in them.
LEMMA NumbersCompared ==
    ASSUME NEW s, NEW rec, TypeOf[s.column] \in Numeric, ~Missing(s, rec)
    PROVE  Holds(s, rec) = Compare(s.op, NumberOf[rec[s.column]], NumberOf[s.value])
<1>1. (CASE TypeOf[s.column] \in Numeric -> NumberOf
         [] TypeOf[s.column] = "STRING"  -> UpperOf
         [] TypeOf[s.column] = "DATE"    -> PlaceOf) = NumberOf
  BY DEF Numeric
<1>. QED
  BY <1>1 DEF Holds

\* A condition means what was found of it says, without a NOT, and without a text
\* or date that the closing parenthesis became part of.
LEMMA MeansAsFound ==
    ASSUME ClauseInv, NEW k \in DOMAIN clause, ~Negates, ~ClosesText,
           ~MissingAt(k), ~Throws(singles[k])
    PROVE  MeansYes(clause[k]) <=> FoundYes(k)
<1>. DEFINE w == clause[k]
            s == clause[k].single
            f == singles[k]
<1>1. w \in Written /\ f = Found(w)
  BY SinglesFound DEF ClauseInv
<1>2. s \in Single /\ ~w.mark.negated
  BY <1>1 DEF Written, Negates
<1>3. /\ f.column = s.column /\ f.op = s.op
      /\ f.value = IF w.mark.close THEN s.closed ELSE s.value
  BY <1>1 DEF Found
<1>4. s.column \in Column
  BY <1>3 DEF Throws
<1>. HIDE DEF w, s, f
<1>5. CASE ~w.mark.close
  <2>1. f.value = s.value
    BY <1>3, <1>5
  <2>2. Throws(s) <=> Throws(f)
    BY <1>3, <2>1 DEF Throws
  <2>3. Holds(s, record) <=> Holds(f, record)
    BY <1>3, <2>1 DEF Holds, Missing
  <2>. QED
    BY <1>2, <1>3, <2>2, <2>3 DEF MeansYes, FoundYes, w, s, f
<1>6. CASE w.mark.close
  <2>1. TypeOf[s.column] \in Numeric
    BY <1>4, <1>6 DEF ClosesText, w, s
  <2>2. Readable(TypeOf[s.column], f.value)
    BY <1>3, <2>1 DEF Throws, f
  <2>3. NumberOf[s.closed] \in {NumberOf[s.value], NoNumber} /\ NumberOf[Empty] = NoNumber
    BY <1>2, ConditionAssumption
  <2>4. NumberOf[f.value] = NumberOf[s.value] /\ NumberOf[s.value] # NoNumber
    BY <1>3, <1>6, <2>2, <2>3 DEF Readable
  <2>5. s.value # Empty /\ f.value # Empty
    BY <2>2, <2>3, <2>4 DEF Readable
  <2>6. ~Throws(s) /\ ~Throws(f)
    BY <1>3, <1>4, <2>2, <2>4 DEF Throws, Readable
  <2>7. CASE record[s.column] # Empty
    <3>1. ~Missing(s, record) /\ ~Missing(f, record)
      BY <1>3, <2>5, <2>7 DEF Missing
    <3>2. /\ Holds(s, record) = Compare(s.op, NumberOf[record[s.column]], NumberOf[s.value])
          /\ Holds(f, record) = Compare(s.op, NumberOf[record[s.column]], NumberOf[f.value])
      BY <1>3, <2>1, <3>1, NumbersCompared
    <3>3. Holds(s, record) <=> Holds(f, record)
      BY <2>4, <3>2
    <3>. QED
      BY <1>2, <1>3, <2>6, <2>7, <3>3 DEF MeansYes, FoundYes, w, s, f
  <2>8. CASE record[s.column] = Empty
    BY <1>3, <2>1, <2>8 DEF MeansYes, FoundYes, w, s, f
  <2>. QED
    BY <2>7, <2>8
<1>. QED
  BY <1>5, <1>6

\* The places of a clause that is not empty.
LEMMA Places ==
    ASSUME ClauseInv, singles # <<>>
    PROVE  LET n == Len(clause)
           IN  /\ n \in Nat /\ n > 0 /\ clause # <<>> /\ Len(singles) = n
               /\ DOMAIN clause = 1..n /\ DOMAIN singles = 1..n /\ DOMAIN between = 1..(n - 1)
               /\ Inside \subseteq 1..(n - 1) /\ Ors \subseteq 1..(n - 1)
               /\ \A k \in 1..(n - 1) : /\ k \in Ors <=> between[k] = "OR"
                                        /\ k \notin Ors <=> between[k] = "AND"
<1>. DEFINE n == Len(clause)
<1>1. /\ clause \in Seq(Written) /\ Len(singles) = n /\ clause # <<>>
      /\ singles \in Seq(FoundSingle) /\ between \in Seq(Connective)
  BY SinglesFound DEF ClauseInv, IsClause
<1>2. Len(between) = n - 1
  BY <1>1 DEF ClauseInv, IsClause
<1>3. n \in Nat /\ n > 0 /\ DOMAIN clause = 1..n /\ DOMAIN singles = 1..n
  BY <1>1
<1>4. DOMAIN between = 1..(n - 1) /\ \A k \in 1..(n - 1) : between[k] \in Connective
  BY <1>1, <1>2
<1>. HIDE DEF n
<1>5. Inside \subseteq 1..(n - 1) /\ Ors \subseteq 1..(n - 1)
  BY <1>4 DEF Inside, Ors
<1>6. ASSUME NEW k \in 1..(n - 1)
      PROVE  /\ k \in Ors <=> between[k] = "OR"
             /\ k \notin Ors <=> between[k] = "AND"
  BY <1>4 DEF Ors, Connective
<1>. QED
  BY <1>1, <1>3, <1>4, <1>5, <1>6 DEF n

\* Every condition stands alone or in one pair of parentheses.
LEMMA TogetherExists ==
    ASSUME ClauseInv, singles # <<>>, NEW k \in DOMAIN clause
    PROVE  \E i \in 1..k, j \in k..Len(clause) : Together(i, j)
<1>. DEFINE n == Len(clause)
            Before == {f \in 1..k : f..(k - 1) \subseteq Inside}
            Behind == {l \in k..n : l \notin Inside}
<1>1. n \in Nat /\ n > 0 /\ k \in 1..n /\ Inside \subseteq 1..(n - 1)
  BY Places
<1>. HIDE DEF n
<1>2. PICK i \in Before : \A f \in Before : i <= f
  <2>1. k \in Before
    BY <1>1
  <2>2. Before \in SUBSET Nat
    BY <1>1
  <2>. HIDE DEF Before
  <2>. QED
    BY <2>1, <2>2, LeastNumber
<1>3. PICK j \in Behind : \A l \in Behind : j <= l
  <2>1. n \in Behind
    BY <1>1
  <2>2. Behind \in SUBSET Nat
    BY <1>1
  <2>. HIDE DEF Behind
  <2>. QED
    BY <2>1, <2>2, LeastNumber
<1>4. i - 1 \notin Inside
  <2>. SUFFICES ASSUME i - 1 \in Inside
                PROVE  FALSE
    OBVIOUS
  <2>1. i - 1 \in 1..k
    BY <1>1, <1>2
  <2>2. (i - 1)..(k - 1) \subseteq Inside
    <3>1. \A m \in (i - 1)..(k - 1) : m = i - 1 \/ m \in i..(k - 1)
      BY <1>1, <1>2
    <3>. QED
      BY <1>2, <3>1
  <2>3. i - 1 \in Before
    BY <2>1, <2>2
  <2>. QED
    BY <1>1, <1>2, <2>3
<1>5. i..(j - 1) \subseteq Inside
  <2>. SUFFICES ASSUME NEW m \in i..(j - 1)
                PROVE  m \in Inside
    OBVIOUS
  <2>1. m \in i..(k - 1) \/ m \in k..n
    BY <1>1, <1>2, <1>3
  <2>2. CASE m \in k..n
    <3>1. ~(j <= m)
      BY <1>1, <1>2, <1>3
    <3>. QED
      BY <1>3, <2>2, <3>1
  <2>. QED
    BY <1>2, <2>1, <2>2
<1>6. i \in 1..k /\ j \in k..n /\ i <= j /\ j \notin Inside
  BY <1>1, <1>2, <1>3
<1>. QED
  BY <1>4, <1>5, <1>6 DEF Together, n

\* A group that answers yes is meant where parentheses hold no OR.
LEMMA GroupIsMeant ==
    ASSUME ClauseInv, singles # <<>>, ~OrInParentheses,
           NEW a \in DOMAIN clause, NEW b \in DOMAIN clause,
           a <= b, GroupFrom(1, a, b), a..b \subseteq Yes
    PROVE  Meant
<1>. DEFINE n == Len(clause)
<1>1. /\ n \in Nat /\ a \in 1..n /\ b \in 1..n /\ Len(singles) = n
      /\ DOMAIN clause = 1..n /\ DOMAIN between = 1..(n - 1)
      /\ Ors \subseteq 1..(n - 1)
      /\ \A k \in 1..(n - 1) : /\ k \in Ors <=> between[k] = "OR"
                               /\ k \notin Ors <=> between[k] = "AND"
  BY Places
<1>. HIDE DEF n
<1>2. Ors \ Inside = Ors /\ \A k \in Inside : k \notin Ors
  BY DEF OrInParentheses
<1>3. /\ a = 1 \/ a - 1 \in Ors
      /\ b = n \/ b \in Ors
      /\ \A k \in a..(b - 1) : k \notin Ors
  <2>1. a # 1 => a - 1 \in 1..(n - 1)
    BY <1>1
  <2>2. b # n => b \in 1..(n - 1)
    BY <1>1
  <2>3. \A k \in a..(b - 1) : k \in 1..(n - 1)
    BY <1>1
  <2>. QED
    BY <1>1, <2>1, <2>2, <2>3 DEF GroupFrom
<1>4. ASSUME NEW k \in a..b
      PROVE  k \in Answered
  <2>1. k \in DOMAIN clause
    BY <1>1
  <2>2. PICK i \in 1..k, j \in k..n : Together(i, j)
    BY <2>1, TogetherExists DEF n
  <2>3. /\ i <= j /\ i..(j - 1) \subseteq Inside
        /\ \A m \in i..(j - 1) : m \notin Ors
    BY <1>2, <2>2 DEF Together
  <2>4. a <= i
    <3>. SUFFICES ASSUME i < a
                  PROVE  FALSE
      BY <1>1, <2>2
    <3>1. a # 1 /\ a - 1 \in i..(j - 1)
      BY <1>1, <2>2
    <3>. QED
      BY <1>3, <2>3, <3>1
  <2>5. j <= b
    <3>. SUFFICES ASSUME b < j
                  PROVE  FALSE
      BY <1>1, <2>2
    <3>1. b # n /\ b \in i..(j - 1)
      BY <1>1, <2>2
    <3>. QED
      BY <1>3, <2>3, <3>1
  <2>6. i..j \subseteq Yes /\ i \in i..j /\ j \in i..j
    <3>1. i..j \subseteq a..b
      BY <1>1, <2>2, <2>4, <2>5
    <3>. QED
      BY <1>1, <2>2, <2>3, <3>1
  <2>7. SomeGroup(i, j, Ors, Yes)
    BY <2>3, <2>6 DEF SomeGroup
  <2>. QED
    BY <2>1, <2>2, <2>7 DEF Answered, n
<1>5. SomeGroup(1, n, Ors, Answered)
  <2>1. a \in 1..n /\ b \in 1..n
    BY <1>1
  <2>. QED
    BY <1>3, <1>4, <2>1 DEF SomeGroup
<1>. QED
  BY <1>2, <1>5 DEF Meant, n

\* The chain groups to the right and stops at a missing number; a record that it
\* selects is meant all the same, but for the clauses that are named.
LEMMA Selects ==
    ASSUME ClauseInv
    PROVE  SelectsNothingElse
<1>1. CASE singles = <<>>
  <2>1. clause = <<>>
    BY <1>1, SinglesFound DEF ClauseInv
  <2>. QED
    BY <2>1 DEF SelectsNothingElse, Meant
<1>2. CASE singles # <<>>
  <2>. SUFFICES ASSUME verdict = "yes", ~AsksForNothing, ~Negates, ~OrInParentheses, ~ClosesText
                PROVE  Meant
    BY DEF SelectsNothingElse
  <2>. DEFINE n == Len(clause)
  <2>1. n \in Nat /\ Len(singles) = n /\ DOMAIN clause = 1..n /\ DOMAIN singles = 1..n
    BY <1>2, Places
  <2>2. PICK a \in 1..n, b \in 1..n :
            a <= b /\ GroupFrom(1, a, b) /\ \A k \in a..b : FoundYes(k)
    BY <1>2, <2>1, SelectsGroup DEF MeantFrom
  <2>3. ASSUME NEW k \in a..b
        PROVE  k \in Yes
    <3>1. k \in 1..n /\ FoundYes(k)
      BY <2>1, <2>2
    <3>2. ~Throws(singles[k])
      BY <3>1 DEF FoundYes
    <3>3. ~MissingAt(k)
      <4>. SUFFICES ASSUME MissingAt(k)
                    PROVE  FALSE
        OBVIOUS
      <4>1. singles[k].column \in Column /\ TypeOf[singles[k].column] \in Numeric
        BY DEF MissingAt, Missing
      <4>2. record[singles[k].column] # Empty
        BY <3>1, <4>1 DEF FoundYes
      <4>3. singles[k].value = Empty
        BY <4>2 DEF MissingAt, Missing
      <4>. QED
        BY <2>1, <3>1, <4>1, <4>3 DEF AsksForNothing
    <3>4. k \in DOMAIN clause
      BY <2>1, <3>1
    <3>5. MeansYes(clause[k])
      BY <3>1, <3>2, <3>3, <3>4, MeansAsFound
    <3>. QED
      BY <3>4, <3>5 DEF Yes
  <2>. QED
    BY <1>2, <2>1, <2>2, <2>3, GroupIsMeant
<1>. QED
  BY <1>1, <1>2

\* evaluateCondition selects no record that the documents' reading of the clause does
\* not, with AND before OR and parentheses first, unless a condition asks for a missing
\* number or has a NOT, an OR stands in parentheses, or a parenthesis closes behind a
\* text or date.
THEOREM SelectsOnlyMeant == Spec => []SelectsNothingElse
BY Selects, ClauseInvHolds, PTL

\* Behind the last OR there are only ANDs.
LEMMA LastOr ==
    ASSUME NEW n \in Nat, n > 0, NEW ors \in SUBSET (1..(n - 1))
    PROVE  \E p \in 0..(n - 1) :
                (p = 0 \/ p \in ors) /\ \A k \in (p + 1)..(n - 1) : k \notin ors
<1>. DEFINE Q == {q \in 0..(n - 1) : \A k \in (q + 1)..(n - 1) : k \notin ors}
<1>1. n - 1 \in Q /\ Q \in SUBSET Nat
  OBVIOUS
<1>2. PICK p \in Q : \A q \in Q : p <= q
  <2>. HIDE DEF Q
  <2>. QED
    BY <1>1, LeastNumber
<1>3. ASSUME p # 0, p \notin ors
      PROVE  FALSE
  <2>1. p - 1 \in 0..(n - 1) /\ \A k \in p..(n - 1) : k = p \/ k \in (p + 1)..(n - 1)
    BY <1>2, <1>3
  <2>2. \A k \in ((p - 1) + 1)..(n - 1) : k \notin ors
    BY <1>2, <1>3, <2>1
  <2>3. p - 1 \in Q
    BY <2>1, <2>2
  <2>. QED
    BY <1>2, <2>3
<1>. QED
  BY <1>2, <1>3

\* Where no OR stands behind an AND, parentheses that group add nothing: what is
\* meant has a group that answers yes without them.
LEMMA MeantHasGroup ==
    ASSUME ClauseInv, singles # <<>>, ~OrBehindAnd, Meant
    PROVE  \E a, b \in 1..Len(singles) : a <= b /\ GroupFrom(1, a, b) /\ a..b \subseteq Yes
<1>. DEFINE n == Len(clause)
<1>1. /\ n \in Nat /\ n > 0 /\ clause # <<>> /\ Len(singles) = n
      /\ DOMAIN clause = 1..n /\ DOMAIN between = 1..(n - 1)
      /\ Ors \subseteq 1..(n - 1) /\ Inside \subseteq 1..(n - 1)
      /\ \A k \in 1..(n - 1) : /\ k \in Ors <=> between[k] = "OR"
                               /\ k \notin Ors <=> between[k] = "AND"
  BY Places
<1>. HIDE DEF n
<1>2. CASE \E b \in Ors : b \in Yes
  <2>1. PICK b \in Ors : b \in Yes
    BY <1>2
  <2>2. b \in 1..(n - 1) /\ between[b] = "OR"
    BY <1>1, <2>1
  <2>3. b = 1 \/ between[b - 1] = "OR"
    <3>. SUFFICES ASSUME b # 1, between[b - 1] # "OR"
                  PROVE  FALSE
      OBVIOUS
    <3>1. b - 1 \in 1..(n - 1) /\ b - 1 < b
      BY <1>1, <2>2
    <3>2. between[b - 1] = "AND"
      BY <1>1, <3>1
    <3>. QED
      BY <1>1, <2>2, <3>1, <3>2 DEF OrBehindAnd
  <2>4. b \in 1..n /\ b <= b /\ b..b = {b} /\ b..(b - 1) = {}
    BY <1>1, <2>2
  <2>5. GroupFrom(1, b, b)
    BY <2>2, <2>3, <2>4 DEF GroupFrom
  <2>. QED
    BY <1>1, <2>1, <2>4, <2>5
<1>3. CASE \A b \in Ors : b \notin Yes
  <2>1. PICK m \in 1..n, e \in 1..n :
            /\ m <= e
            /\ m = 1 \/ m - 1 \in Ors \ Inside
            /\ e = n \/ e \in Ors \ Inside
            /\ m..e \subseteq Answered
    BY <1>1 DEF Meant, SomeGroup, n
  <2>2. ASSUME NEW k \in Answered
        PROVE  \E i \in 1..k, j \in k..n : \E a, b \in i..j :
                    /\ Together(i, j) /\ a <= b /\ (a = i \/ a - 1 \in Ors)
                    /\ b = j /\ j \notin Ors /\ a..b \subseteq Yes
    <3>1. PICK i \in 1..k, j \in k..n : Together(i, j) /\ SomeGroup(i, j, Ors, Yes)
      BY <2>2 DEF Answered, n
    <3>2. k \in Nat
      BY <1>1 DEF Answered
    <3>3. PICK a \in i..j, b \in i..j :
                /\ a <= b
                /\ a = i \/ a - 1 \in Ors
                /\ b = j \/ b \in Ors
                /\ a..b \subseteq Yes
      BY <3>1 DEF SomeGroup
    <3>4. b \in Yes
      BY <3>2, <3>3
    <3>5. b \notin Ors
      BY <1>3, <3>4
    <3>. QED
      BY <3>1, <3>3, <3>5
  <2>3. e = n
    <3>. SUFFICES ASSUME e \in Ors \ Inside
                  PROVE  FALSE
      BY <2>1
    <3>1. e \in Answered
      BY <1>1, <2>1
    <3>2. PICK i \in 1..e, j \in e..n : Together(i, j) /\ j \notin Ors
      BY <2>2, <3>1
    <3>3. e \in i..(j - 1)
      BY <1>1, <2>1, <3>2
    <3>. QED
      BY <3>2, <3>3 DEF Together
  <2>4. PICK p \in 0..(n - 1) : (p = 0 \/ p \in Ors) /\ \A k \in (p + 1)..(n - 1) : k \notin Ors
    BY <1>1, LastOr
  <2>5. m <= p + 1
    <3>. SUFFICES ASSUME p + 1 < m
                  PROVE  FALSE
      BY <1>1, <2>1, <2>4
    <3>1. m # 1 /\ m - 1 \in (p + 1)..(n - 1)
      BY <1>1, <2>1, <2>4
    <3>. QED
      BY <2>1, <2>4, <3>1
  <2>6. ASSUME NEW k \in (p + 1)..n
        PROVE  k \in Yes
    <3>1. k \in Answered /\ k \in 1..n
      BY <1>1, <2>1, <2>3, <2>4, <2>5
    <3>2. PICK i \in 1..k, j \in k..n : \E a, b \in i..j :
                    /\ a <= b /\ (a = i \/ a - 1 \in Ors)
                    /\ b = j /\ a..b \subseteq Yes
      BY <2>2, <3>1
    <3>3. PICK a \in i..j : (a = i \/ a - 1 \in Ors) /\ a..j \subseteq Yes
      BY <3>2
    <3>4. a <= k
      <4>. SUFFICES ASSUME k < a
                    PROVE  FALSE
        BY <3>1, <3>2, <3>3
      <4>1. a # i /\ a - 1 \in (p + 1)..(n - 1)
        BY <1>1, <2>4, <3>1, <3>2, <3>3
      <4>. QED
        BY <2>4, <3>3, <4>1
    <3>. QED
      BY <3>1, <3>2, <3>3, <3>4
  <2>7. p + 1 \in 1..n /\ n \in 1..n /\ p + 1 <= n
    BY <1>1, <2>4
  <2>8. GroupFrom(1, p + 1, n)
    <3>1. p + 1 = 1 \/ between[(p + 1) - 1] = "OR"
      <4>1. p \in Ors => between[p] = "OR" /\ (p + 1) - 1 = p
        BY <1>1, <2>4
      <4>. QED
        BY <2>4, <4>1
    <3>2. \A k \in (p + 1)..(n - 1) : between[k] = "AND"
      <4>1. \A k \in (p + 1)..(n - 1) : k \in 1..(n - 1)
        BY <1>1, <2>4
      <4>. QED
        BY <1>1, <2>4, <4>1
    <3>. QED
      BY <1>1, <3>1, <3>2 DEF GroupFrom
  <2>. QED
    BY <1>1, <2>6, <2>7, <2>8
<1>. QED
  BY <1>2, <1>3

\* A record that is meant is passed over only by the clauses that are named.
LEMMA Misses ==
    ASSUME ClauseInv
    PROVE  MissesOnlyThen
<1>1. CASE singles = <<>>
  BY <1>1, EmptyClause DEF MissesOnlyThen
<1>2. CASE singles # <<>>
  <2>. SUFFICES ASSUME verdict = "no", ~OrBehindAnd, ~Negates, ~ClosesText,
                       \A k \in DOMAIN clause : ~MissingAt(k), Meant
                PROVE  FALSE
    BY DEF MissesOnlyThen
  <2>. DEFINE n == Len(clause)
  <2>1. n \in Nat /\ n > 0 /\ Len(singles) = n /\ DOMAIN clause = 1..n /\ DOMAIN singles = 1..n
    BY <1>2, Places
  <2>2. ~MeantFrom(1)
    BY <1>2, <2>1, MissesGroup
  <2>3. ASSUME NEW k \in 1..n
        PROVE  ~Throws(singles[k])
    <3>1. NoneMissingBefore(k) /\ ~MissingAt(k)
      <4>1. \A j \in 1..(k - 1) : j \in DOMAIN clause
        BY <2>1
      <4>. QED
        BY <2>1, <4>1 DEF NoneMissingBefore
    <3>2. verdict # "throws"
      OBVIOUS
    <3>. QED
      BY <2>1, <3>1, <3>2, Refused DEF RefusedWhereverItStands
  <2>4. PICK a \in 1..n, b \in 1..n : a <= b /\ GroupFrom(1, a, b) /\ a..b \subseteq Yes
    BY <1>2, <2>1, MeantHasGroup
  <2>5. ASSUME NEW k \in a..b
        PROVE  FoundYes(k)
    <3>1. k \in 1..n /\ k \in DOMAIN clause /\ MeansYes(clause[k])
      BY <2>1, <2>4 DEF Yes
    <3>. QED
      BY <2>3, <3>1, MeansAsFound
  <2>. QED
    BY <2>1, <2>2, <2>4, <2>5 DEF MeantFrom
<1>. QED
  BY <1>1, <1>2

\* evaluateCondition passes over a record that the documents' reading selects only with
\* an OR behind an AND, a NOT, a missing number, or a parenthesis that closes behind a
\* text or date.
THEOREM MissesNothingElse == Spec => []MissesOnlyThen
BY Misses, ClauseInvHolds, PTL

\* The clause up to a missing number answers what the whole clause answers.
LEMMA RestUnread ==
    ASSUME ClauseInv
    PROVE  RestIsNotRead
<1>. SUFFICES ASSUME NEW k \in DOMAIN singles, MissingAt(k)
              PROVE  verdict = evaluateCondition(
                        parseCondition(SubSeq(singles, 1, k), SubSeq(between, 1, k - 1)), record)
  BY DEF RestIsNotRead
<1>. DEFINE n == Len(singles)
            parts == SubSeq(singles, 1, k)
            ops == SubSeq(between, 1, k - 1)
<1>1. /\ singles # <<>> /\ singles \in Seq(FoundSingle) /\ between \in Seq(Connective)
      /\ n \in Nat /\ k \in 1..n /\ Len(between) = n - 1
  BY DEF ClauseInv, IsClause
<1>2. /\ parts \in Seq(FoundSingle) /\ Len(parts) = k /\ parts # <<>>
      /\ \A i \in 1..k : parts[i] = singles[i]
  BY <1>1
<1>3. /\ ops \in Seq(Connective) /\ Len(ops) = k - 1
      /\ \A i \in 1..(k - 1) : ops[i] = between[i]
  BY <1>1
<1>4. IsClause(parts, ops)
  <2>. HIDE DEF parts, ops
  <2>. QED
    BY <1>2, <1>3 DEF IsClause
<1>5. PICK v : IsReading(v, singles, between, record) /\ verdict = v[1]
  BY <1>1, VerdictRead
<1>6. PICK w : /\ IsReading(w, parts, ops, record)
               /\ evaluateCondition(parseCondition(parts, ops), record) = w[1]
  <2>. HIDE DEF parts, ops
  <2>. QED
    BY <1>2, <1>4, VerdictIsReading
<1>. HIDE DEF parts, ops
<1>7. /\ w[k] = IF Throws(singles[k]) /\ ~MissingAt(k) THEN "throws"
                ELSE IF MissingAt(k) \/ k = k THEN Verdict(Holds(singles[k], record))
                ELSE Joined(Holds(singles[k], record), ops[k], w[k + 1])
      /\ \A i \in 1..(k - 1) :
            w[i] = IF Throws(singles[i]) /\ ~MissingAt(i) THEN "throws"
                   ELSE IF MissingAt(i) THEN Verdict(Holds(singles[i], record))
                   ELSE Joined(Holds(singles[i], record), between[i], w[i + 1])
  <2>1. \A i \in 1..k :
            w[i] = IF Throws(parts[i]) /\ ~Missing(parts[i], record) THEN "throws"
                   ELSE IF Missing(parts[i], record) \/ i = k THEN Verdict(Holds(parts[i], record))
                   ELSE Joined(Holds(parts[i], record), ops[i], w[i + 1])
    BY <1>2, <1>6 DEF IsReading
  <2>2. k \in 1..k /\ \A i \in 1..(k - 1) : i \in 1..k /\ i # k
    BY <1>1
  <2>. QED
    BY <1>2, <1>3, <2>1, <2>2 DEF MissingAt
<1>8. ASSUME NEW i \in 1..k
      PROVE  v[i] = IF Throws(singles[i]) /\ ~MissingAt(i) THEN "throws"
                    ELSE IF MissingAt(i) \/ i = n THEN Verdict(Holds(singles[i], record))
                    ELSE Joined(Holds(singles[i], record), between[i], v[i + 1])
  <2>1. i \in 1..n
    BY <1>1
  <2>. QED
    BY <1>5, <2>1 DEF IsReading, MissingAt
<1>. DEFINE T == {i \in 1..k : v[i] = w[i]}
<1>9. k \in T
  BY <1>1, <1>7, <1>8
<1>10. ASSUME NEW i \in 1..(k - 1), i + 1 \in T
       PROVE  i \in T
  <2>1. i \in 1..k /\ i # n
    BY <1>1
  <2>. QED
    BY <2>1, <1>7, <1>8, <1>10
<1>11. 1..k \subseteq T
  <2>. HIDE DEF T
  <2>. QED
    BY <1>1, <1>9, <1>10, DownInduction
<1>. QED
  BY <1>1, <1>5, <1>6, <1>11 DEF parts, ops

\* Nothing behind a condition with a missing number changes the verdict.
THEOREM RestUnreadAlways == Spec => []RestIsNotRead
BY RestUnread, ClauseInvHolds, PTL
=============================================================================
