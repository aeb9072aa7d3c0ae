---------------------------- MODULE Table_proofs -----------------------------
(***************************************************************************)
(* Theorems about a table, for any columns, values and bounds.              *)
(***************************************************************************)
EXTENDS Table, Induction

\* What a value, and a line of the data file, is.
Text == Seq(Pieces) \ {<<>>}

\* The records of a table of n columns.
Row(n) == [1..n -> Text]

TypeInv ==
    /\ columns \in Seq(ColumnDef) /\ Len(columns) <= MaxColumns
    /\ uniqueValues \in Seq(SUBSET Text) /\ Len(uniqueValues) = Len(columns)
    /\ records \in Seq(Row(Len(columns)))
    /\ meta \in Seq(ColumnDef) /\ Len(meta) <= MaxColumns
    /\ data \in Seq(Text)
    /\ faults \subseteq Fault

CommaNoted == HasComma(records) => "comma" \in faults

\* Only a UNIQUE column has a set.
OtherSetsEmpty == \A c \in DOMAIN columns : ~columns[c].unique => uniqueValues[c] = {}

NotNullIn(cols, recs) ==
    \A c \in DOMAIN cols : cols[c].notNull => \A k \in DOMAIN recs : recs[k][c] # Empty

\* What the files hold respects NOT NULL as well, whatever the memory holds.
NotNullOnDisk == Sound({"late", "torn", "comma", "save"}) => NotNullIn(meta, Loaded)

IInv ==
    /\ TypeInv /\ CommaNoted /\ OtherSetsEmpty /\ NotNullOnDisk
    /\ UniqueHolds /\ NoGhostValue /\ NotNullHolds /\ FilesAgree

-----------------------------------------------------------------------------
(* Sequences and functions. *)

\* A sequence is a function on its places.
LEMMA SeqIsFunction ==
    ASSUME NEW S, NEW s \in Seq(S)
    PROVE  Len(s) \in Nat /\ DOMAIN s = 1..Len(s) /\ s \in [1..Len(s) -> S]
OBVIOUS

\* A function on the places 1 to n is a sequence.
LEMMA FunctionIsSeq ==
    ASSUME NEW S, NEW n \in Nat, NEW f \in [1..n -> S]
    PROVE  f \in Seq(S) /\ Len(f) = n
OBVIOUS

\* A sequence and one more element.
LEMMA AppendIs ==
    ASSUME NEW S, NEW s \in Seq(S), NEW e \in S
    PROVE  /\ Append(s, e) \in Seq(S)
           /\ Append(s, e) \in [1..(Len(s) + 1) -> S]
           /\ Append(s, e)[Len(s) + 1] = e
           /\ \A i \in 1..Len(s) : Append(s, e)[i] = s[i]
<1>1. Append(s, e) \in Seq(S) /\ Len(Append(s, e)) = Len(s) + 1
  OBVIOUS
<1>2. Append(s, e) \in [1..(Len(s) + 1) -> S]
  BY <1>1, SeqIsFunction
<1>. QED
  BY <1>1, <1>2

\* Two sequences, one behind the other.
LEMMA ConcatIs ==
    ASSUME NEW S, NEW s \in Seq(S), NEW t \in Seq(S)
    PROVE  /\ s \o t \in Seq(S) /\ Len(s \o t) = Len(s) + Len(t)
           /\ \A i \in 1..Len(s) : (s \o t)[i] = s[i]
           /\ \A i \in 1..Len(t) : (s \o t)[Len(s) + i] = t[i]
           /\ <<>> \o s = s
OBVIOUS

\* What is behind the removed element moves up.
LEMMA RemoveAtIs ==
    ASSUME NEW S, NEW f \in Seq(S), NEW i \in 1..Len(f)
    PROVE  /\ RemoveAt(f, i) \in [1..(Len(f) - 1) -> S]
           /\ \A j \in 1..(Len(f) - 1) : RemoveAt(f, i)[j] = f[IF j < i THEN j ELSE j + 1]
<1>. DEFINE n == Len(f)
            left == SubSeq(f, 1, i - 1)
            right == SubSeq(f, i + 1, n)
<1>1. f \in Seq(S) /\ Len(f) = n /\ n \in Nat /\ i \in 1..n
  OBVIOUS
<1>2. left \in Seq(S) /\ Len(left) = i - 1 /\ \A j \in 1..(i - 1) : left[j] = f[j]
  BY <1>1
<1>3. right \in Seq(S) /\ Len(right) = n - i /\ \A j \in 1..(n - i) : right[j] = f[i + j]
  <2>1. right \in Seq(S) /\ Len(right) = n - i
    BY <1>1
  <2>2. ASSUME NEW j \in 1..(n - i)
        PROVE  right[j] = f[i + j]
    <3>1. right[j] = f[((i + 1) + j) - 1] /\ ((i + 1) + j) - 1 = i + j
      BY <1>1, <2>1
    <3>. QED
      BY <3>1
  <2>. QED
    BY <2>1, <2>2
<1>4. RemoveAt(f, i) = left \o right
  BY <1>1 DEF RemoveAt
<1>. HIDE DEF left, right, n
<1>5. left \o right \in Seq(S) /\ Len(left \o right) = n - 1
  <2>1. left \o right \in Seq(S) /\ Len(left \o right) = Len(left) + Len(right)
    <3>1. left \in Seq(S) /\ right \in Seq(S)
      BY <1>2, <1>3
    <3>. QED
      BY <3>1, ConcatIs
  <2>2. (i - 1) + (n - i) = n - 1
    BY <1>1
  <2>. QED
    BY <1>2, <1>3, <2>1, <2>2
<1>6. ASSUME NEW j \in 1..(n - 1)
      PROVE  (left \o right)[j] = f[IF j < i THEN j ELSE j + 1]
  <2>1. CASE j < i
    BY <1>1, <1>2, <1>3, <2>1
  <2>2. CASE ~(j < i)
    <3>1. j - (i - 1) \in 1..(n - i) /\ i + (j - (i - 1)) = j + 1
      BY <1>1, <2>2
    <3>2. (left \o right)[j] = right[j - (i - 1)]
      BY <1>1, <1>2, <1>3, <2>2, <3>1
    <3>. QED
      BY <1>3, <2>2, <3>1, <3>2
  <2>. QED
    BY <2>1, <2>2
<1>7. RemoveAt(f, i) \in [1..(n - 1) -> S]
  BY <1>1, <1>4, <1>5, SeqIsFunction
<1>. QED
  BY <1>4, <1>6, <1>7 DEF n

\* A piece of one element.
LEMMA LastIs ==
    ASSUME NEW S, NEW s \in Seq(S), NEW i \in 1..Len(s)
    PROVE  SubSeq(s, i, i) = <<s[i]>>
<1>1. s[i] \in S /\ (i + 1) - 1 = i
  OBVIOUS
<1>2. SubSeq(s, i, i) \in Seq(S) /\ Len(SubSeq(s, i, i)) = 1 /\ SubSeq(s, i, i)[1] = s[i]
  BY <1>1
<1>3. <<s[i]>> \in Seq(S) /\ Len(<<s[i]>>) = 1 /\ <<s[i]>>[1] = s[i]
  BY <1>1
<1>4. \A u, w \in Seq(S) : Len(u) = 1 /\ Len(w) = 1 /\ u[1] = w[1] => u = w
  OBVIOUS
<1>. QED
  BY <1>2, <1>3, <1>4

\* A prefix of a sequence is a sequence over the same set.
LEMMA PrefixIs ==
    ASSUME NEW S, NEW s \in Seq(S), NEW p \in Prefixes(s)
    PROVE  p \in Seq(S) /\ Len(p) <= Len(s)
<1>1. PICK l \in 0..Len(s) : p = SubSeq(s, 1, l)
  BY DEF Prefixes
<1>. QED
  BY <1>1

\* What flattening goes through.
IsFlattening(f, S, n, r) ==
    f \in [0..n -> Seq(S)] /\ f[0] = <<>> /\ \A i \in 1..n : f[i] = f[i - 1] \o r[i]

\* Flattening a sequence of sequences appends them one after the other.
LEMMA Flattened ==
    ASSUME NEW S, NEW n \in Nat, n > 0, NEW r \in [1..n -> Seq(S)]
    PROVE  \E f : IsFlattening(f, S, n, r) /\ FlattenSeq(r) = f[n]
<1>. DEFINE Round(g, i) == IF i = 1 THEN r[i] ELSE g[i - 1] \o r[i]
            flatten == CHOOSE g : g = [i \in 1..Len(r) |-> Round(g, i)]
            step == [i \in 1..n |-> [s \in Seq(S) |-> s \o r[i]]]
<1>1. Len(r) = n /\ r \in Seq(Seq(S))
  BY FunctionIsSeq
<1>2. PICK f : IsLoopUp(f, Seq(S), n, <<>>, step)
  <2>1. <<>> \in Seq(S)
    OBVIOUS
  <2>2. step \in [1..n -> [Seq(S) -> Seq(S)]]
    OBVIOUS
  <2>. HIDE DEF step
  <2>. QED
    BY <2>1, <2>2, LoopUp
<1>3. /\ f \in [0..n -> Seq(S)] /\ f[0] = <<>>
      /\ \A i \in 1..n : f[i] = f[i - 1] \o r[i]
  <2>1. f \in [0..n -> Seq(S)] /\ f[0] = <<>> /\ \A i \in 1..n : f[i] = step[i][f[i - 1]]
    BY <1>2 DEF IsLoopUp
  <2>2. \A i \in 1..n : f[i - 1] \in Seq(S)
    BY <2>1
  <2>. QED
    BY <2>1, <2>2
<1>4. \E g : g = [i \in 1..Len(r) |-> Round(g, i)]
  <2>. DEFINE h == [i \in 1..n |-> f[i]]
  <2>1. ASSUME NEW i \in 1..n
        PROVE  h[i] = Round(h, i)
    <3>1. CASE i = 1
      <4>1. 1 - 1 = 0 /\ r[1] \in Seq(S)
        BY <3>1
      <4>2. f[1] = f[1 - 1] \o r[1]
        BY <1>3, <3>1
      <4>3. f[1] = <<>> \o r[1]
        BY <1>3, <4>1, <4>2
      <4>4. f[1] = r[1]
        BY <4>1, <4>3, ConcatIs
      <4>. QED
        BY <3>1, <4>4
    <3>2. CASE i # 1
      <4>1. i - 1 \in 1..n
        BY <3>2
      <4>. QED
        BY <1>3, <3>2, <4>1
    <3>. QED
      BY <3>1, <3>2
  <2>2. h = [i \in 1..Len(r) |-> Round(h, i)]
    <3>. HIDE DEF Round
    <3>. QED
      BY <1>1, <2>1
  <2>. HIDE DEF h, Round
  <2>. QED
    BY <2>2
<1>5. flatten = [i \in 1..Len(r) |-> Round(flatten, i)]
  <2>. HIDE DEF Round
  <2>. QED
    BY <1>4
<1>6. FlattenSeq(r) = flatten[n]
  BY <1>1 DEF FlattenSeq
<1>. HIDE DEF flatten
<1>7. \A i \in 1..n : flatten[i] = Round(flatten, i)
  <2>. HIDE DEF Round
  <2>. QED
    BY <1>1, <1>5
<1>. DEFINE T == {i \in 0..n : i > 0 => flatten[i] = f[i]}
<1>8. 0 \in T
  OBVIOUS
<1>9. ASSUME NEW i \in 0..(n - 1), i \in T
      PROVE  i + 1 \in T
  <2>1. i + 1 \in 1..n /\ (i + 1) - 1 = i
    OBVIOUS
  <2>2. f[i + 1] = f[i] \o r[i + 1] /\ r[i + 1] \in Seq(S)
    BY <1>3, <2>1
  <2>3. CASE i = 0
    <3>1. r[1] \in Seq(S) /\ f[1] = f[0] \o r[1]
      BY <2>1, <2>2, <2>3
    <3>2. flatten[1] = r[1]
      BY <1>7, <2>1, <2>3
    <3>3. f[1] = r[1]
      BY <1>3, <3>1, ConcatIs
    <3>. QED
      BY <2>1, <2>3, <3>2, <3>3
  <2>4. CASE i # 0
    <3>1. flatten[i] = f[i]
      BY <1>9, <2>4
    <3>2. flatten[i + 1] = flatten[i] \o r[i + 1]
      <4>1. i + 1 # 1 /\ flatten[i + 1] = Round(flatten, i + 1)
        BY <1>7, <2>1, <2>4
      <4>2. flatten[i + 1] = flatten[(i + 1) - 1] \o r[i + 1]
        BY <4>1
      <4>. QED
        BY <2>1, <4>2
    <3>3. flatten[i + 1] = f[i + 1]
      BY <2>2, <3>1, <3>2
    <3>4. i + 1 \in 0..n
      OBVIOUS
    <3>. QED
      BY <3>3, <3>4
  <2>. QED
    BY <2>3, <2>4
<1>10. 0..n \subseteq T
  <2>. HIDE DEF T
  <2>. QED
    BY <1>8, <1>9, UpInduction
<1>. QED
  <2>1. flatten[n] = f[n]
    BY <1>10
  <2>2. IsFlattening(f, S, n, r)
    BY <1>3 DEF IsFlattening
  <2>. QED
    BY <1>6, <2>1, <2>2

\* Every round adds the next sequence behind what there is.
Grows(f, n, r) ==
    \A i \in 0..(n - 1) :
        /\ Len(f[i + 1]) = Len(f[i]) + Len(r[i + 1])
        /\ \A c \in 1..Len(f[i]) : f[i + 1][c] = f[i][c]
        /\ \A c \in 1..Len(r[i + 1]) : f[i + 1][Len(f[i]) + c] = r[i + 1][c]

\* Every round of a flattening adds its sequence behind what is there.
LEMMA FlatteningGrows ==
    ASSUME NEW S, NEW n, NEW r, NEW f, n \in Nat, r \in [1..n -> Seq(S)],
           IsFlattening(f, S, n, r)
    PROVE  Grows(f, n, r)
<1>. SUFFICES ASSUME NEW i \in 0..(n - 1)
              PROVE  /\ Len(f[i + 1]) = Len(f[i]) + Len(r[i + 1])
                     /\ \A c \in 1..Len(f[i]) : f[i + 1][c] = f[i][c]
                     /\ \A c \in 1..Len(r[i + 1]) : f[i + 1][Len(f[i]) + c] = r[i + 1][c]
  BY DEF Grows
<1>1. i \in 0..n /\ i + 1 \in 0..n /\ i + 1 \in 1..n /\ (i + 1) - 1 = i
  OBVIOUS
<1>2. f \in [0..n -> Seq(S)]
  BY DEF IsFlattening
<1>3. PICK s \in Seq(S) : s = f[i]
  BY <1>1, <1>2
<1>4. PICK t \in Seq(S) : t = r[i + 1]
  BY <1>1
<1>5. f[i + 1] = f[(i + 1) - 1] \o r[i + 1]
  BY <1>1 DEF IsFlattening
<1>6. PICK st : st = f[i + 1]
  OBVIOUS
<1>7. st = s \o t
  BY <1>1, <1>3, <1>4, <1>5, <1>6
<1>8. /\ Len(st) = Len(s) + Len(t)
      /\ \A c \in 1..Len(s) : st[c] = s[c]
      /\ \A c \in 1..Len(t) : st[Len(s) + c] = t[c]
  BY <1>7, ConcatIs
<1>. QED
  BY <1>3, <1>4, <1>6, <1>8

-----------------------------------------------------------------------------
(* Values, records and lines. *)

\* The values a caller may give, and no value, are texts.
LEMMA ValueIsText == Value \subseteq Text /\ Empty \in Text /\ "" \in Pieces
<1>1. ASSUME NEW v \in Value
      PROVE  v \in Text
  <2>1. v # <<>> /\ v \in Seq(ToSet(v))
    BY TableAssumption
  <2>2. ToSet(v) \subseteq Pieces
    BY DEF Pieces
  <2>3. Len(v) \in Nat /\ v \in [1..Len(v) -> ToSet(v)]
    BY <2>1, SeqIsFunction
  <2>4. v \in [1..Len(v) -> Pieces]
    BY <2>2, <2>3
  <2>5. v \in Seq(Pieces)
    BY <2>3, <2>4, FunctionIsSeq
  <2>. QED
    BY <2>1, <2>5 DEF Text
<1>2. Empty \in Value
  BY TableAssumption
<1>3. "" \in ToSet(Empty)
  <2>1. 1 \in DOMAIN Empty /\ Empty[1] = ""
    BY DEF Empty
  <2>. QED
    BY <2>1 DEF ToSet
<1>. QED
  BY <1>1, <1>2, <1>3 DEF Pieces

\* A text has a first piece, and each piece is a text.
LEMMA TextIs ==
    ASSUME NEW v \in Text
    PROVE  /\ v \in Seq(Pieces) /\ Len(v) \in Nat /\ Len(v) > 0
           /\ \A i \in 1..Len(v) : v[i] \in Pieces /\ <<v[i]>> \in Text
BY DEF Text

\* Pieces that are there make a text.
LEMMA LongIsText ==
    ASSUME NEW v \in Seq(Pieces), Len(v) > 0
    PROVE  v \in Text
<1>1. v # <<>>
  OBVIOUS
<1>. QED
  BY <1>1 DEF Text

\* A record without columns is <<>>.
LEMMA NoColumns ==
    ASSUME NEW n \in Nat, NEW r \in Row(n)
    PROVE  r = <<>> <=> n = 0
<1>1. r \in Seq(Text) /\ Len(r) = n
  BY FunctionIsSeq DEF Row
<1>. QED
  BY <1>1

\* The line of a record is a text.
LEMMA LineIsText ==
    ASSUME NEW n \in Nat, NEW r \in Row(n)
    PROVE  Line(r) \in Text
<1>1. CASE n = 0
  BY <1>1, NoColumns, ValueIsText DEF Line
<1>2. CASE n > 0
  <2>1. r \in [1..n -> Seq(Pieces)]
    BY DEF Row, Text
  <2>2. PICK f : IsFlattening(f, Pieces, n, r) /\ FlattenSeq(r) = f[n]
    BY <1>2, <2>1, Flattened
  <2>3. n - 1 \in 0..(n - 1) /\ (n - 1) + 1 = n /\ n \in 1..n
    BY <1>2
  <2>4. r[n] \in Seq(Pieces) /\ Len(r[n]) > 0
    BY <2>3 DEF Row, Text
  <2>5. /\ f[n] \in Seq(Pieces) /\ f[n - 1] \in Seq(Pieces)
        /\ Len(f[n]) = Len(f[n - 1]) + Len(r[n])
    <3>1. Grows(f, n, r)
      BY <2>1, <2>2, FlatteningGrows
    <3>2. Len(f[(n - 1) + 1]) = Len(f[n - 1]) + Len(r[(n - 1) + 1])
      BY <2>3, <3>1 DEF Grows
    <3>3. f \in [0..n -> Seq(Pieces)] /\ n \in 0..n /\ n - 1 \in 0..n
      BY <1>2, <2>2 DEF IsFlattening
    <3>. QED
      BY <2>3, <3>2, <3>3
  <2>6. f[n] \in Text
    <3>1. PICK a \in Nat : a = Len(f[n - 1])
      BY <2>5
    <3>2. PICK b \in Nat : b = Len(r[n]) /\ b > 0
      BY <2>4
    <3>3. Len(f[n]) = a + b
      <4>1. Len(f[n]) = Len(f[n - 1]) + Len(r[n])
        BY <2>5
      <4>. QED
        BY <3>1, <3>2, <4>1
    <3>4. a + b > 0
      BY <3>2
    <3>. QED
      BY <2>5, <3>3, <3>4, LongIsText
  <2>. QED
    BY <1>2, <2>2, <2>6, NoColumns DEF Line
<1>. QED
  BY <1>1, <1>2

\* Whatever a line holds, reading it fills every column.
LEMMA ParseIsRow ==
    ASSUME NEW n \in Nat, NEW line \in Text
    PROVE  Parse(n, line) \in Row(n)
<1>1. line \in Seq(Pieces) /\ Len(line) \in Nat /\ Len(line) > 0
  BY TextIs
<1>2. ASSUME NEW c \in 1..n
      PROVE  (IF c > Len(line) THEN <<line[Len(line)]>>
              ELSE IF c < n THEN <<line[c]>> ELSE SubSeq(line, n, Len(line))) \in Text
  <2>1. CASE c > Len(line)
    BY <1>1, <2>1, TextIs
  <2>2. CASE ~(c > Len(line)) /\ c < n
    BY <1>1, <2>2, TextIs
  <2>3. CASE ~(c > Len(line)) /\ ~(c < n)
    <3>1. c = n /\ n \in 1..Len(line)
      BY <1>1, <2>3
    <3>2. SubSeq(line, n, Len(line)) \in Seq(Pieces) /\ Len(SubSeq(line, n, Len(line))) > 0
      BY <1>1, <3>1
    <3>3. SubSeq(line, n, Len(line)) \in Text
      BY <3>2, LongIsText
    <3>. QED
      BY <2>3, <3>3
  <2>. QED
    BY <2>1, <2>2, <2>3
<1>. QED
  BY <1>2 DEF Parse, Row

\* A record is read from its line as it was, if no value has a comma: every value
\* is one field of the line, and there are as many fields as columns.
LEMMA ParseLine ==
    ASSUME NEW n \in Nat, NEW r \in Row(n), \A c \in 1..n : Len(r[c]) = 1
    PROVE  Parse(n, Line(r)) = r
<1>1. CASE n = 0
  BY <1>1 DEF Parse, Row
<1>2. CASE n > 0
  <2>1. r \in [1..n -> Seq(Pieces)]
    BY DEF Row, Text
  <2>2. PICK f : IsFlattening(f, Pieces, n, r) /\ FlattenSeq(r) = f[n]
    BY <1>2, <2>1, Flattened
  <2>. DEFINE T == {i \in 0..n : Len(f[i]) = i /\ \A c \in 1..i : f[i][c] = r[c][1]}
  <2>3. 0 \in T
    BY <2>2 DEF IsFlattening
  <2>4. ASSUME NEW i \in 0..(n - 1), i \in T
        PROVE  i + 1 \in T
    <3>1. i + 1 \in 1..n /\ i + 1 \in 0..n /\ (i + 1) - 1 = i
      OBVIOUS
    <3>2. /\ Len(f[i + 1]) = Len(f[i]) + Len(r[i + 1])
          /\ \A c \in 1..Len(f[i]) : f[i + 1][c] = f[i][c]
          /\ \A c \in 1..Len(r[i + 1]) : f[i + 1][Len(f[i]) + c] = r[i + 1][c]
      <4>1. Grows(f, n, r)
        BY <2>1, <2>2, FlatteningGrows
      <4>. QED
        BY <4>1 DEF Grows
    <3>3. Len(f[i]) = i /\ Len(r[i + 1]) = 1 /\ \A c \in 1..i : f[i][c] = r[c][1]
      BY <2>4, <3>1
    <3>4. Len(f[i + 1]) = i + 1
      BY <3>2, <3>3
    <3>5. ASSUME NEW c \in 1..(i + 1)
          PROVE  f[i + 1][c] = r[c][1]
      <4>1. CASE c = i + 1
        <5>1. 1 \in 1..Len(r[i + 1]) /\ Len(f[i]) + 1 = c
          BY <3>3, <4>1
        <5>. QED
          BY <3>2, <4>1, <5>1
      <4>2. CASE c # i + 1
        <5>1. c \in 1..i
          BY <4>2
        <5>. QED
          BY <3>2, <3>3, <5>1
      <4>. QED
        BY <4>1, <4>2
    <3>. QED
      BY <3>1, <3>4, <3>5
  <2>5. 0..n \subseteq T
    <3>. HIDE DEF T
    <3>. QED
      BY <2>3, <2>4, UpInduction
  <2>6. /\ Line(r) = f[n] /\ f[n] \in Seq(Pieces)
        /\ Len(f[n]) = n /\ \A c \in 1..n : f[n][c] = r[c][1]
    <3>1. n \in T
      BY <2>5
    <3>. QED
      BY <1>2, <2>2, <3>1, NoColumns DEF Line, IsFlattening
  <2>7. ASSUME NEW c \in 1..n
        PROVE  Parse(n, Line(r))[c] = r[c]
    <3>1. r[c] \in Seq(Pieces) /\ Len(r[c]) = 1 /\ r[c] = <<r[c][1]>>
      BY <2>1
    <3>2. CASE c < n
      BY <2>6, <3>1, <3>2 DEF Parse
    <3>3. CASE c = n
      <4>1. Parse(n, Line(r))[c] = SubSeq(f[n], n, n)
        BY <2>6, <3>3 DEF Parse
      <4>2. SubSeq(f[n], n, n) = <<f[n][n]>>
        <5>1. f[n] \in Seq(Pieces) /\ n \in 1..Len(f[n])
          BY <1>2, <2>6
        <5>. QED
          BY <5>1, LastIs
      <4>. QED
        BY <2>6, <3>1, <3>3, <4>1, <4>2
    <3>. QED
      BY <3>2, <3>3
  <2>. QED
    BY <2>7 DEF Parse, Row
<1>. QED
  BY <1>1, <1>2

-----------------------------------------------------------------------------
(* The save that ends a statement. *)

\* Lines written without a comma in a value are read back as the records.
LEMMA LoadedIs ==
    ASSUME NEW n \in Nat, NEW recs \in Seq(Row(n)), ~HasComma(recs)
    PROVE  [k \in DOMAIN Lines(recs) |-> Parse(n, Lines(recs)[k])] = recs
<1>1. ASSUME NEW k \in DOMAIN recs
      PROVE  Parse(n, Line(recs[k])) = recs[k]
  <2>1. recs[k] \in Row(n)
    OBVIOUS
  <2>2. ASSUME NEW c \in 1..n
        PROVE  Len(recs[k][c]) = 1
    <3>1. c \in DOMAIN recs[k] /\ recs[k][c] \in Text
      BY <2>1 DEF Row
    <3>2. ~(Len(recs[k][c]) > 1)
      BY <3>1 DEF HasComma
    <3>3. PICK v \in Text : v = recs[k][c]
      BY <3>1
    <3>4. Len(v) \in Nat /\ Len(v) > 0 /\ ~(Len(v) > 1)
      BY <3>2, <3>3, TextIs
    <3>5. PICK l \in Nat : l = Len(v) /\ l > 0 /\ ~(l > 1)
      BY <3>4
    <3>6. l = 1
      BY <3>5
    <3>. QED
      BY <3>3, <3>5, <3>6
  <2>. QED
    BY <2>1, <2>2, ParseLine
<1>. QED
  BY <1>1 DEF Lines

\* The lines of the records are texts.
LEMMA LinesAreText ==
    ASSUME NEW n \in Nat, NEW recs \in Seq(Row(n))
    PROVE  Lines(recs) \in Seq(Text)
<1>1. recs \in [1..Len(recs) -> Row(n)] /\ Len(recs) \in Nat /\ DOMAIN recs = 1..Len(recs)
  BY SeqIsFunction
<1>2. Lines(recs) \in [1..Len(recs) -> Text]
  BY <1>1, LineIsText DEF Lines
<1>. QED
  BY <1>1, <1>2, FunctionIsSeq

\* Whatever became of the save, the files have the shape of a table's, and what went
\* wrong is noted; a save that nothing went wrong in can be loaded again.
LEMMA SaveIs ==
    ASSUME TypeInv, NEW cols \in Seq(ColumnDef), Len(cols) <= MaxColumns,
           NEW recs \in Seq(Row(Len(cols))), NEW newFaults \in SUBSET Fault,
           Save(cols, recs, newFaults)
    PROVE  /\ meta' \in Seq(ColumnDef) /\ Len(meta') <= MaxColumns
           /\ data' \in Seq(Text) /\ faults' \subseteq Fault
           /\ (faults \cup newFaults \cup CommaFault(recs)) \ {"save"} \subseteq faults'
           /\ "save" \notin faults' /\ "comma" \notin faults' => meta' = cols /\ Loaded' = recs
<1>. DEFINE known == faults \cup newFaults \cup CommaFault(recs)
<1>1. Len(cols) \in Nat /\ Lines(recs) \in Seq(Text) /\ MaxColumns \in Nat
  BY LinesAreText, TableAssumption
<1>2. known \subseteq Fault
  BY DEF TypeInv, CommaFault, Fault
<1>3. CASE meta' = cols /\ data' = Lines(recs) /\ faults' = known \ {"save"}
  <2>1. "comma" \notin faults' => ~HasComma(recs)
    BY <1>3 DEF CommaFault
  <2>2. ~HasComma(recs) => Loaded' = recs
    BY <1>1, <1>3, LoadedIs DEF Loaded
  <2>. QED
    BY <1>1, <1>2, <1>3, <2>1, <2>2
<1>4. CASE /\ meta' = meta /\ data' = data
           /\ faults' = known \cup {"save"}
  BY <1>2, <1>4 DEF TypeInv, Fault
<1>5. CASE /\ meta' \in Prefixes(cols) /\ data' \in Prefixes(Lines(recs)) \cup {data}
           /\ faults' = known \cup {"save"}
  <2>1. meta' \in Seq(ColumnDef) /\ Len(meta') <= Len(cols)
    BY <1>5, PrefixIs
  <2>2. Len(meta') <= MaxColumns
    BY <1>1, <2>1
  <2>3. data' \in Seq(Text)
    BY <1>1, <1>5, PrefixIs DEF TypeInv
  <2>. QED
    BY <1>2, <1>5, <2>1, <2>2, <2>3 DEF Fault
<1>. QED
  BY <1>3, <1>4, <1>5 DEF Save

-----------------------------------------------------------------------------
(* The memory: what the constraints say of columns, records and UNIQUE sets. *)

UniqueIn(cols, recs) ==
    \A c \in DOMAIN cols : cols[c].unique =>
        \A j, k \in DOMAIN recs : recs[j][c] = recs[k][c] /\ recs[j][c] # Empty => j = k

CompleteIn(cols, recs, known) ==
    \A c \in DOMAIN cols : cols[c].unique =>
        \A k \in DOMAIN recs : recs[k][c] # Empty => recs[k][c] \in known[c]

NoGhostIn(cols, recs, known) ==
    \A c \in DOMAIN cols : \A v \in known[c] : v # Empty => \E k \in DOMAIN recs : recs[k][c] = v

PlainIn(cols, known) == \A c \in DOMAIN cols : ~cols[c].unique => known[c] = {}

\* The properties, of the memory given as a parameter.
LEMMA Restated ==
    /\ UniqueRecords <=> UniqueIn(columns, records)
    /\ SetsComplete <=> CompleteIn(columns, records, uniqueValues)
    /\ NoGhostValue <=> (Sound({"insert"}) => NoGhostIn(columns, records, uniqueValues))
    /\ NotNullHolds <=> (Sound({"late", "torn", "comma"}) => NotNullIn(columns, records))
    /\ OtherSetsEmpty <=> PlainIn(columns, uniqueValues)
<1>1. UniqueRecords <=> UniqueIn(columns, records)
  BY DEF UniqueRecords, UniqueIn
<1>2. SetsComplete <=> CompleteIn(columns, records, uniqueValues)
  BY DEF SetsComplete, CompleteIn, Column
<1>3. NoGhostValue <=> (Sound({"insert"}) => NoGhostIn(columns, records, uniqueValues))
  BY DEF NoGhostValue, NoGhostIn, Column
<1>4. NotNullHolds <=> (Sound({"late", "torn", "comma"}) => NotNullIn(columns, records))
  BY DEF NotNullHolds, NotNullIn
<1>5. OtherSetsEmpty <=> PlainIn(columns, uniqueValues)
  BY DEF OtherSetsEmpty, PlainIn
<1>. QED
  BY <1>1, <1>2, <1>3, <1>4, <1>5

\* The shape of the memory of a table.
MemoryType(cols, known, recs) ==
    /\ cols \in Seq(ColumnDef) /\ Len(cols) <= MaxColumns
    /\ known \in Seq(SUBSET Text) /\ Len(known) = Len(cols)
    /\ recs \in Seq(Row(Len(cols)))
    /\ PlainIn(cols, known)

\* What a statement that has gone as it should does to the memory.
Keeps ==
    /\ Sound({"update", "delete"})' =>
          (UniqueIn(columns, records) /\ CompleteIn(columns, records, uniqueValues)
              => UniqueIn(columns', records') /\ CompleteIn(columns', records', uniqueValues'))
    /\ Sound({"insert"})' =>
          (NoGhostIn(columns, records, uniqueValues)
              => NoGhostIn(columns', records', uniqueValues'))
    /\ Sound({"late"})' => (NotNullIn(columns, records) => NotNullIn(columns', records'))

\* What went wrong, a save apart, is still noted after the statement.
LEMMA StillNoted ==
    ASSUME faults \ {"save"} \subseteq faults'
    PROVE  \A E : "save" \notin E /\ Sound(E)' => Sound(E)
BY DEF Sound

\* A statement that does to the memory what it should keeps the three constraints.
LEMMA KeepsMemory ==
    ASSUME IInv, Keeps, faults \ {"save"} \subseteq faults'
    PROVE  UniqueHolds' /\ NoGhostValue' /\ NotNullHolds'
<1>1. /\ Sound({"update", "delete", "torn", "comma"})' => Sound({"update", "delete", "torn", "comma"})
      /\ Sound({"insert"})' => Sound({"insert"})
      /\ Sound({"late", "torn", "comma"})' => Sound({"late", "torn", "comma"})
  BY StillNoted
<1>2. /\ Sound({"update", "delete", "torn", "comma"})' => Sound({"update", "delete"})'
      /\ Sound({"late", "torn", "comma"})' => Sound({"late"})'
  BY DEF Sound
<1>3. UniqueHolds'
  <2>1. SUFFICES ASSUME Sound({"update", "delete", "torn", "comma"})'
                 PROVE  UniqueRecords' /\ SetsComplete'
    BY DEF UniqueHolds
  <2>2. UniqueIn(columns, records) /\ CompleteIn(columns, records, uniqueValues)
    BY <1>1, <2>1, Restated DEF IInv, UniqueHolds
  <2>3. UniqueIn(columns', records') /\ CompleteIn(columns', records', uniqueValues')
    BY <1>2, <2>1, <2>2 DEF Keeps
  <2>4. UniqueRecords'
    BY <2>3 DEF UniqueRecords, UniqueIn
  <2>5. SetsComplete'
    BY <2>3 DEF SetsComplete, CompleteIn, Column
  <2>. QED
    BY <2>4, <2>5
<1>4. NoGhostValue'
  <2>1. SUFFICES ASSUME Sound({"insert"})'
                 PROVE  NoGhostIn(columns', records', uniqueValues')
    BY DEF NoGhostValue, NoGhostIn, Column
  <2>. QED
    BY <1>1, <2>1, Restated DEF IInv, Keeps
<1>5. NotNullHolds'
  <2>1. SUFFICES ASSUME Sound({"late", "torn", "comma"})'
                 PROVE  NotNullIn(columns', records')
    BY DEF NotNullHolds, NotNullIn
  <2>. QED
    BY <1>1, <1>2, <2>1, Restated DEF IInv, Keeps
<1>. QED
  BY <1>3, <1>4, <1>5

\* Columns without UNIQUE have no values, of the memory given as a parameter.
LEMMA PlainIsOtherSetsEmpty ==
    ASSUME PlainIn(columns', uniqueValues')
    PROVE  OtherSetsEmpty'
BY DEF PlainIn, OtherSetsEmpty

\* A statement that ends with a save.
LEMMA Saved ==
    ASSUME IInv, Keeps, NEW newFaults \in SUBSET Fault,
           Save(columns', records', newFaults),
           MemoryType(columns', uniqueValues', records')
    PROVE  IInv'
<1>1. /\ meta' \in Seq(ColumnDef) /\ Len(meta') <= MaxColumns
      /\ data' \in Seq(Text) /\ faults' \subseteq Fault
      /\ (faults \cup newFaults \cup CommaFault(records')) \ {"save"} \subseteq faults'
      /\ "save" \notin faults' /\ "comma" \notin faults' => meta' = columns' /\ Loaded' = records'
  BY SaveIs DEF IInv, MemoryType
<1>2. TypeInv'
  BY <1>1 DEF TypeInv, MemoryType
<1>3. CommaNoted'
  BY <1>1 DEF CommaNoted, CommaFault
<1>4. OtherSetsEmpty'
  BY PlainIsOtherSetsEmpty DEF MemoryType
<1>5. UniqueHolds' /\ NoGhostValue' /\ NotNullHolds'
  BY <1>1, KeepsMemory
<1>6. FilesAgree'
  BY <1>1 DEF FilesAgree, Sound
<1>7. NotNullOnDisk'
  <2>1. SUFFICES ASSUME Sound({"late", "torn", "comma", "save"})'
                 PROVE  NotNullIn(meta', Loaded')
    BY DEF NotNullOnDisk, NotNullIn
  <2>2. meta' = columns' /\ Loaded' = records' /\ Sound({"late", "torn", "comma"})'
    BY <1>1, <2>1 DEF Sound
  <2>3. NotNullIn(columns', records')
    BY <1>5, <2>2 DEF NotNullHolds, NotNullIn
  <2>. QED
    BY <2>2, <2>3
<1>. QED
  BY <1>2, <1>3, <1>4, <1>5, <1>6, <1>7 DEF IInv

\* A statement that leaves the files alone.
LEMMA Unsaved ==
    ASSUME IInv, Keeps, faults' \subseteq Fault, faults \subseteq faults',
           HasComma(records') => "comma" \in faults',
           records' = records \/ "update" \in faults',
           UNCHANGED <<columns, meta, data>>,
           MemoryType(columns', uniqueValues', records')
    PROVE  IInv'
<1>1. TypeInv'
  BY DEF TypeInv, MemoryType, IInv
<1>2. CommaNoted'
  BY DEF CommaNoted
<1>3. OtherSetsEmpty'
  BY PlainIsOtherSetsEmpty DEF MemoryType
<1>4. UniqueHolds' /\ NoGhostValue' /\ NotNullHolds'
  BY KeepsMemory
<1>5. Loaded' = Loaded /\ meta' = meta /\ columns' = columns
  BY DEF Loaded
<1>6. FilesAgree'
  <2>1. SUFFICES ASSUME Sound({"save", "update", "comma"})'
                 PROVE  meta' = columns' /\ Loaded' = records'
    BY DEF FilesAgree
  <2>2. Sound({"save", "update", "comma"}) /\ records' = records
    BY <2>1 DEF Sound
  <2>. QED
    BY <1>5, <2>2 DEF IInv, FilesAgree
<1>7. NotNullOnDisk'
  <2>1. SUFFICES ASSUME Sound({"late", "torn", "comma", "save"})'
                 PROVE  NotNullIn(meta', Loaded')
    BY DEF NotNullOnDisk, NotNullIn
  <2>2. Sound({"late", "torn", "comma", "save"})
    BY <2>1 DEF Sound
  <2>. QED
    BY <1>5, <2>2 DEF IInv, NotNullOnDisk
<1>. QED
  BY <1>1, <1>2, <1>3, <1>4, <1>6, <1>7 DEF IInv

-----------------------------------------------------------------------------
(* The statements that change the columns. *)

\* The types of columns, sets and records, as functions.
LEMMA Shape ==
    ASSUME TypeInv
    PROVE  /\ Len(columns) \in Nat /\ DOMAIN columns = 1..Len(columns)
           /\ columns \in [1..Len(columns) -> ColumnDef]
           /\ uniqueValues \in [1..Len(columns) -> SUBSET Text]
           /\ DOMAIN uniqueValues = 1..Len(columns)
           /\ Len(records) \in Nat /\ DOMAIN records = 1..Len(records)
           /\ records \in [1..Len(records) -> Row(Len(columns))]
           /\ \A k \in DOMAIN records : /\ records[k] \in [1..Len(columns) -> Text]
                                        /\ records[k] \in Seq(Text)
                                        /\ Len(records[k]) = Len(columns)
                                        /\ \A c \in DOMAIN columns : records[k][c] \in Text
<1>1. \A k \in DOMAIN records : records[k] \in [1..Len(columns) -> Text]
  BY DEF TypeInv, Row
<1>2. Len(columns) \in Nat
  BY DEF TypeInv
<1>. QED
  BY <1>1, <1>2, SeqIsFunction, FunctionIsSeq DEF TypeInv

\* The memory as functions is a memory of sequences.
LEMMA MemoryTypeIs ==
    ASSUME NEW n \in Nat, n <= MaxColumns, NEW cols \in [1..n -> ColumnDef],
           NEW known \in [1..n -> SUBSET Text],
           NEW m \in Nat, NEW recs \in [1..m -> Row(n)], PlainIn(cols, known)
    PROVE  MemoryType(cols, known, recs)
BY FunctionIsSeq DEF MemoryType

\* addColumn: every record lacks a value in the new column, and its set is empty.
LEMMA AddColumnStep ==
    ASSUME IInv, NEW col \in ColumnDef, addColumn(col)
    PROVE  IInv'
<1>. DEFINE n == Len(columns)
            newFaults == IF col.notNull /\ records # <<>> THEN {"late"} ELSE {}
<1>1. /\ TypeInv /\ n \in Nat /\ MaxColumns \in Nat
      /\ columns \in Seq(ColumnDef) /\ Len(columns) = n
      /\ uniqueValues \in Seq(SUBSET Text) /\ Len(uniqueValues) = n
  BY Shape, TableAssumption DEF IInv, TypeInv
<1>2. /\ n < MaxColumns
      /\ columns' = Append(columns, col) /\ uniqueValues' = Append(uniqueValues, {})
      /\ records' = [k \in DOMAIN records |-> Append(records[k], Empty)]
      /\ Save(columns', records', newFaults)
  BY DEF addColumn
<1>3. /\ columns' \in [1..(n + 1) -> ColumnDef] /\ columns'[n + 1] = col
      /\ \A c \in 1..n : columns'[c] = columns[c]
  <2>. HIDE DEF n
  <2>1. columns' = Append(columns, col)
    BY <1>2
  <2>. QED
    BY <1>1, <2>1, AppendIs
<1>4. /\ uniqueValues' \in [1..(n + 1) -> SUBSET Text] /\ uniqueValues'[n + 1] = {}
      /\ \A c \in 1..n : uniqueValues'[c] = uniqueValues[c]
  <2>. HIDE DEF n
  <2>1. {} \in SUBSET Text /\ uniqueValues' = Append(uniqueValues, {})
    BY <1>2
  <2>. QED
    BY <1>1, <2>1, AppendIs
<1>5. DOMAIN records' = DOMAIN records /\ DOMAIN columns' = 1..(n + 1)
  BY <1>2, <1>3
<1>6. ASSUME NEW k \in DOMAIN records
      PROVE  /\ records'[k] \in Row(n + 1) /\ records'[k][n + 1] = Empty
             /\ \A c \in 1..n : records'[k][c] = records[k][c]
  <2>1. records[k] \in Seq(Text) /\ Len(records[k]) = n /\ Empty \in Text
    BY <1>1, Shape, ValueIsText
  <2>2. /\ Append(records[k], Empty) \in [1..(n + 1) -> Text]
        /\ Append(records[k], Empty)[n + 1] = Empty
        /\ \A c \in 1..n : Append(records[k], Empty)[c] = records[k][c]
    <3>. HIDE DEF n
    <3>. QED
      BY <2>1, AppendIs
  <2>. QED
    BY <1>2, <2>2 DEF Row
<1>7. \A c \in 1..(n + 1) : c = n + 1 \/ c \in 1..n
  BY <1>1
<1>8. MemoryType(columns', uniqueValues', records')
  <2>1. records' \in [1..Len(records) -> Row(n + 1)] /\ Len(records) \in Nat
    <3>1. DOMAIN records = 1..Len(records) /\ Len(records) \in Nat
      BY <1>1, Shape
    <3>2. records' = [k \in 1..Len(records) |-> records'[k]]
      BY <1>2, <3>1
    <3>. QED
      BY <1>6, <3>1, <3>2
  <2>2. PlainIn(columns', uniqueValues')
    BY <1>1, <1>3, <1>4, <1>5, <1>7, Shape, Restated DEF PlainIn, IInv
  <2>3. n + 1 \in Nat /\ n + 1 <= MaxColumns
    BY <1>1, <1>2
  <2>. QED
    BY <1>3, <1>4, <2>1, <2>2, <2>3, MemoryTypeIs
<1>9. Keeps
  <2>1. ASSUME UniqueIn(columns, records), CompleteIn(columns, records, uniqueValues)
        PROVE  UniqueIn(columns', records') /\ CompleteIn(columns', records', uniqueValues')
    <3>1. UniqueIn(columns', records')
      BY <1>1, <1>3, <1>5, <1>6, <1>7, <2>1, Shape DEF UniqueIn
    <3>2. CompleteIn(columns', records', uniqueValues')
      BY SMTT(30), <1>1, <1>3, <1>4, <1>5, <1>6, <1>7, <2>1, Shape DEF CompleteIn
    <3>. QED
      BY <3>1, <3>2
  <2>2. ASSUME NoGhostIn(columns, records, uniqueValues)
        PROVE  NoGhostIn(columns', records', uniqueValues')
    <3>1. SUFFICES ASSUME NEW c \in 1..n, NEW v \in uniqueValues'[c], v # Empty
                   PROVE  \E k \in DOMAIN records' : records'[k][c] = v
      BY <1>4, <1>5, <1>7 DEF NoGhostIn
    <3>2. PICK k \in DOMAIN records : records[k][c] = v
      BY <1>1, <1>4, <2>2, <3>1, Shape DEF NoGhostIn
    <3>. QED
      BY <1>5, <1>6, <3>2
  <2>3. ASSUME Sound({"late"})', NotNullIn(columns, records)
        PROVE  NotNullIn(columns', records')
    <3>1. "late" \notin faults'
      BY <2>3 DEF Sound
    <3>2. newFaults \in SUBSET Fault
      BY DEF Fault
    <3>3. newFaults \ {"save"} \subseteq faults'
      BY <1>2, <1>8, <3>2, SaveIs DEF MemoryType, IInv
    <3>4. col.notNull => records = <<>>
      BY <3>1, <3>3
    <3>5. ASSUME NEW c \in 1..(n + 1), columns'[c].notNull, NEW k \in DOMAIN records
          PROVE  records'[k][c] # Empty
      <4>1. CASE c = n + 1
        <5>1. records = <<>>
          BY <1>3, <3>4, <3>5, <4>1
        <5>. QED
          BY <5>1, <1>1, Shape
      <4>2. CASE c \in 1..n
        BY <1>1, <1>3, <1>6, <2>3, <3>5, <4>2, Shape DEF NotNullIn
      <4>. QED
        BY <1>7, <4>1, <4>2
    <3>. QED
      BY <1>5, <3>5 DEF NotNullIn
  <2>. QED
    BY <2>1, <2>2, <2>3 DEF Keeps
<1>. QED
  <2>1. newFaults \in SUBSET Fault
    BY DEF Fault
  <2>. QED
    BY <1>2, <1>8, <1>9, <2>1, Saved

\* removeColumn: its field, its set and nothing else go away.
LEMMA RemoveColumnStep ==
    ASSUME IInv, NEW c, removeColumn(c)
    PROVE  IInv'
<1>. DEFINE n == Len(columns)
            from(d) == IF d < c THEN d ELSE d + 1
<1>1. /\ TypeInv /\ n \in Nat /\ n <= MaxColumns /\ MaxColumns \in Nat
      /\ columns \in Seq(ColumnDef) /\ Len(columns) = n
      /\ uniqueValues \in Seq(SUBSET Text) /\ Len(uniqueValues) = n
  BY Shape, TableAssumption DEF IInv, TypeInv
<1>2. /\ c \in 1..n
      /\ columns' = RemoveAt(columns, c) /\ uniqueValues' = RemoveAt(uniqueValues, c)
      /\ records' = [k \in DOMAIN records |-> RemoveAt(records[k], c)]
      /\ Save(columns', records', {})
  BY <1>1, Shape DEF removeColumn
<1>3. /\ columns' \in [1..(n - 1) -> ColumnDef]
      /\ \A d \in 1..(n - 1) : columns'[d] = columns[from(d)]
  <2>1. columns \in Seq(ColumnDef) /\ Len(columns) = n /\ c \in 1..n
    BY <1>1, <1>2
  <2>2. /\ RemoveAt(columns, c) \in [1..(n - 1) -> ColumnDef]
        /\ \A d \in 1..(n - 1) : RemoveAt(columns, c)[d] = columns[from(d)]
    <3>. HIDE DEF n
    <3>. QED
      BY <2>1, RemoveAtIs
  <2>. QED
    BY <1>2, <2>2
<1>4. /\ uniqueValues' \in [1..(n - 1) -> SUBSET Text]
      /\ \A d \in 1..(n - 1) : uniqueValues'[d] = uniqueValues[from(d)]
  <2>1. uniqueValues \in Seq(SUBSET Text) /\ Len(uniqueValues) = n /\ c \in 1..n
    BY <1>1, <1>2
  <2>2. /\ RemoveAt(uniqueValues, c) \in [1..(n - 1) -> SUBSET Text]
        /\ \A d \in 1..(n - 1) : RemoveAt(uniqueValues, c)[d] = uniqueValues[from(d)]
    <3>. HIDE DEF n
    <3>. QED
      BY <2>1, RemoveAtIs
  <2>. QED
    BY <1>2, <2>2
<1>5. DOMAIN records' = DOMAIN records /\ DOMAIN columns' = 1..(n - 1)
  BY <1>2, <1>3
<1>6. ASSUME NEW k \in DOMAIN records
      PROVE  /\ records'[k] \in Row(n - 1)
             /\ \A d \in 1..(n - 1) : records'[k][d] = records[k][from(d)]
  <2>1. records[k] \in Seq(Text) /\ Len(records[k]) = n /\ c \in 1..n
    BY <1>1, <1>2, Shape
  <2>2. /\ RemoveAt(records[k], c) \in [1..(n - 1) -> Text]
        /\ \A d \in 1..(n - 1) : RemoveAt(records[k], c)[d] = records[k][from(d)]
    <3>. HIDE DEF n
    <3>. QED
      BY <2>1, RemoveAtIs
  <2>. QED
    BY <1>2, <2>2 DEF Row
<1>7. \A d \in 1..(n - 1) : from(d) \in DOMAIN columns
  BY <1>1, <1>2, Shape
<1>. HIDE DEF from
<1>8. MemoryType(columns', uniqueValues', records')
  <2>1. records' \in [1..Len(records) -> Row(n - 1)] /\ Len(records) \in Nat
    <3>1. DOMAIN records = 1..Len(records) /\ Len(records) \in Nat
      BY <1>1, Shape
    <3>2. records' = [k \in 1..Len(records) |-> records'[k]]
      BY <1>2, <3>1
    <3>. QED
      BY <1>6, <3>1, <3>2
  <2>2. PlainIn(columns', uniqueValues')
    BY <1>3, <1>4, <1>5, <1>7, Restated DEF PlainIn, IInv
  <2>3. n - 1 \in Nat /\ n - 1 <= MaxColumns
    BY <1>1, <1>2
  <2>. QED
    BY <1>3, <1>4, <2>1, <2>2, <2>3, MemoryTypeIs
<1>9. Keeps
  <2>1. ASSUME UniqueIn(columns, records), CompleteIn(columns, records, uniqueValues)
        PROVE  UniqueIn(columns', records') /\ CompleteIn(columns', records', uniqueValues')
    <3>1. UniqueIn(columns', records')
      BY <1>3, <1>5, <1>6, <1>7, <2>1 DEF UniqueIn
    <3>2. CompleteIn(columns', records', uniqueValues')
      BY <1>3, <1>4, <1>5, <1>6, <1>7, <2>1 DEF CompleteIn
    <3>. QED
      BY <3>1, <3>2
  <2>2. ASSUME NoGhostIn(columns, records, uniqueValues)
        PROVE  NoGhostIn(columns', records', uniqueValues')
    <3>1. SUFFICES ASSUME NEW d \in 1..(n - 1), NEW v \in uniqueValues'[d], v # Empty
                   PROVE  \E k \in DOMAIN records' : records'[k][d] = v
      BY <1>5 DEF NoGhostIn
    <3>2. PICK k \in DOMAIN records : records[k][from(d)] = v
      BY <1>4, <1>7, <2>2, <3>1 DEF NoGhostIn
    <3>. QED
      BY <1>5, <1>6, <3>2
  <2>3. ASSUME NotNullIn(columns, records)
        PROVE  NotNullIn(columns', records')
    BY <1>3, <1>5, <1>6, <1>7, <2>3 DEF NotNullIn
  <2>. QED
    BY <2>1, <2>2, <2>3 DEF Keeps
<1>. QED
  BY <1>2, <1>8, <1>9, Saved

-----------------------------------------------------------------------------
(* INSERT. *)

\* The sets after some columns of a record were added to them.
LEMMA AddedType ==
    ASSUME TypeInv, NEW record \in [DOMAIN columns -> Value], NEW c
    PROVE  /\ AddedBefore(c, record) \in [1..Len(columns) -> SUBSET Text]
           /\ \A d \in DOMAIN columns :
                  AddedBefore(c, record)[d] =
                      IF d < c THEN addUniqueValue(columns[d], uniqueValues[d], record[d])
                      ELSE uniqueValues[d]
           /\ OtherSetsEmpty => PlainIn(columns, AddedBefore(c, record))
<1>1. \A d \in DOMAIN columns : record[d] \in Text /\ uniqueValues[d] \in SUBSET Text
  BY ValueIsText, Shape
<1>2. \A d \in DOMAIN columns :
          addUniqueValue(columns[d], uniqueValues[d], record[d]) \in SUBSET Text
  BY <1>1 DEF addUniqueValue
<1>3. AddedBefore(c, record) \in [1..Len(columns) -> SUBSET Text]
  BY <1>1, <1>2, Shape DEF AddedBefore
<1>4. OtherSetsEmpty => PlainIn(columns, AddedBefore(c, record))
  BY DEF OtherSetsEmpty, PlainIn, AddedBefore, addUniqueValue, Exempt
<1>. QED
  BY <1>3, <1>4 DEF AddedBefore

\* A record that is accepted brings no value that a UNIQUE column has.
LEMMA InsertAcceptedStep ==
    ASSUME IInv, NEW record \in [DOMAIN columns -> Value], InsertAccepted(record)
    PROVE  IInv'
<1>. DEFINE n == Len(columns)
            m == Len(records)
<1>1. /\ TypeInv /\ n \in Nat /\ n <= MaxColumns /\ MaxColumns \in Nat
      /\ m \in Nat /\ DOMAIN records = 1..m /\ DOMAIN columns = 1..n
      /\ records \in Seq(Row(n)) /\ OtherSetsEmpty
  BY Shape, TableAssumption DEF IInv, TypeInv
<1>2. /\ columns' = columns /\ records' = Append(records, record)
      /\ uniqueValues' = AddedBefore(n + 1, record)
      /\ Save(columns', records', {})
  BY DEF InsertAccepted
<1>3. ASSUME NEW c \in DOMAIN columns
      PROVE  /\ columns[c].notNull => record[c] # Empty
             /\ checkUniqueValue(columns[c], uniqueValues[c], record[c])
  BY DEF InsertAccepted, Refusals
<1>4. record \in Row(n)
  BY <1>1, ValueIsText DEF Row
<1>5. /\ records' \in [1..(m + 1) -> Row(n)] /\ records'[m + 1] = record
      /\ \A k \in 1..m : records'[k] = records[k]
  <2>1. /\ Append(records, record) \in [1..(m + 1) -> Row(n)]
        /\ Append(records, record)[m + 1] = record
        /\ \A k \in 1..m : Append(records, record)[k] = records[k]
    <3>. HIDE DEF n
    <3>. QED
      BY <1>1, <1>4, AppendIs
  <2>. QED
    BY <1>2, <2>1
<1>6. /\ uniqueValues' \in [1..n -> SUBSET Text] /\ PlainIn(columns', uniqueValues')
      /\ \A d \in DOMAIN columns :
            uniqueValues'[d] = addUniqueValue(columns[d], uniqueValues[d], record[d])
  <2>1. \A d \in DOMAIN columns : d < n + 1
    BY <1>1
  <2>. QED
    BY <1>1, <1>2, <2>1, AddedType
<1>7. MemoryType(columns', uniqueValues', records')
  <2>1. columns' \in [1..n -> ColumnDef] /\ m + 1 \in Nat
    BY <1>1, <1>2, Shape
  <2>. HIDE DEF n
  <2>. QED
    BY <1>1, <1>5, <1>6, <2>1, MemoryTypeIs
<1>8. DOMAIN records' = 1..(m + 1) /\ \A k \in 1..(m + 1) : k = m + 1 \/ k \in 1..m
  BY <1>1, <1>5
<1>. HIDE DEF n, m
<1>9. Keeps
  <2>1. ASSUME UniqueIn(columns, records), CompleteIn(columns, records, uniqueValues)
        PROVE  UniqueIn(columns', records') /\ CompleteIn(columns', records', uniqueValues')
    <3>1. ASSUME NEW c \in DOMAIN columns, columns[c].unique, record[c] # Empty, NEW k \in 1..m
          PROVE  records[k][c] # record[c]
      <4>1. record[c] \notin uniqueValues[c]
        BY <1>3, <3>1 DEF checkUniqueValue, Exempt
      <4>. QED
        BY <1>1, <2>1, <3>1, <4>1 DEF CompleteIn
    <3>2. ASSUME NEW c \in DOMAIN columns, columns[c].unique,
                 NEW j \in 1..(m + 1), NEW k \in 1..(m + 1),
                 records'[j][c] = records'[k][c], records'[j][c] # Empty
          PROVE  j = k
      <4>1. CASE j \in 1..m /\ k \in 1..m
        BY SMTT(30), <1>1, <1>5, <2>1, <3>2, <4>1 DEF UniqueIn
      <4>2. CASE j = m + 1 /\ k \in 1..m
        BY <1>5, <3>1, <3>2, <4>2
      <4>3. CASE j \in 1..m /\ k = m + 1
        BY <1>5, <3>1, <3>2, <4>3
      <4>. QED
        BY <1>8, <4>1, <4>2, <4>3
    <3>3. ASSUME NEW c \in DOMAIN columns, columns[c].unique,
                 NEW k \in 1..(m + 1), records'[k][c] # Empty
          PROVE  records'[k][c] \in uniqueValues'[c]
      <4>1. CASE k \in 1..m
        BY <1>1, <1>5, <1>6, <2>1, <3>3, <4>1 DEF CompleteIn, addUniqueValue
      <4>2. CASE k = m + 1
        BY <1>5, <1>6, <3>3, <4>2 DEF addUniqueValue, Exempt
      <4>. QED
        BY <1>8, <4>1, <4>2
    <3>4. UniqueIn(columns', records')
      BY ZenonT(30), <1>2, <1>8, <3>2 DEF UniqueIn
    <3>5. CompleteIn(columns', records', uniqueValues')
      BY <1>2, <1>8, <3>3 DEF CompleteIn
    <3>. QED
      BY <3>4, <3>5
  <2>2. ASSUME NoGhostIn(columns, records, uniqueValues)
        PROVE  NoGhostIn(columns', records', uniqueValues')
    <3>1. SUFFICES ASSUME NEW c \in DOMAIN columns, NEW v \in uniqueValues'[c], v # Empty
                   PROVE  \E k \in DOMAIN records' : records'[k][c] = v
      BY <1>2 DEF NoGhostIn
    <3>2. CASE v \in uniqueValues[c]
      <4>1. PICK k \in 1..m : records[k][c] = v
        BY <1>1, <2>2, <3>1, <3>2 DEF NoGhostIn
      <4>2. k \in 1..(m + 1)
        BY <1>1
      <4>. QED
        BY <1>5, <1>8, <4>1, <4>2
    <3>3. CASE v \notin uniqueValues[c]
      <4>1. v = record[c]
        BY <1>6, <3>1, <3>3 DEF addUniqueValue
      <4>2. m + 1 \in 1..(m + 1)
        BY <1>1
      <4>. QED
        BY <1>5, <1>8, <4>1, <4>2
    <3>. QED
      BY <3>2, <3>3
  <2>3. ASSUME NotNullIn(columns, records)
        PROVE  NotNullIn(columns', records')
    <3>1. ASSUME NEW c \in DOMAIN columns, columns[c].notNull, NEW k \in 1..(m + 1)
          PROVE  records'[k][c] # Empty
      <4>1. CASE k \in 1..m
        BY <1>1, <1>5, <2>3, <3>1, <4>1 DEF NotNullIn
      <4>2. CASE k = m + 1
        BY <1>3, <1>5, <3>1, <4>2
      <4>. QED
        BY <1>8, <4>1, <4>2
    <3>. QED
      BY <1>2, <1>8, <3>1 DEF NotNullIn
  <2>. QED
    BY <2>1, <2>2, <2>3 DEF Keeps
<1>. QED
  BY <1>2, <1>7, <1>9, Saved

\* A refused record may leave values in the UNIQUE sets, and takes none out.
LEMMA InsertRefusedStep ==
    ASSUME IInv, NEW record \in [DOMAIN columns -> Value], InsertRefused(record)
    PROVE  IInv'
<1>1. PICK c \in Refusals(record) :
          /\ uniqueValues' = AddedBefore(c, record)
          /\ faults' = faults \cup (IF uniqueValues' # uniqueValues THEN {"insert"} ELSE {})
          /\ columns' = columns /\ records' = records /\ UNCHANGED <<meta, data>>
  BY DEF InsertRefused
<1>2. TypeInv /\ Len(columns) \in Nat /\ OtherSetsEmpty
  BY Shape DEF IInv
<1>3. /\ uniqueValues' \in [1..Len(columns) -> SUBSET Text] /\ PlainIn(columns', uniqueValues')
      /\ \A d \in DOMAIN columns : uniqueValues[d] \subseteq uniqueValues'[d]
  BY <1>1, <1>2, AddedType DEF addUniqueValue
<1>4. MemoryType(columns', uniqueValues', records')
  <2>1. uniqueValues' \in Seq(SUBSET Text) /\ Len(uniqueValues') = Len(columns)
    BY <1>2, <1>3, FunctionIsSeq
  <2>. QED
    BY <1>1, <1>2, <1>3, <2>1 DEF MemoryType, TypeInv
<1>5. Keeps
  <2>1. CompleteIn(columns, records, uniqueValues) => CompleteIn(columns', records', uniqueValues')
    BY <1>1, <1>3 DEF CompleteIn
  <2>2. Sound({"insert"})' => uniqueValues' = uniqueValues
    BY <1>1 DEF Sound
  <2>. QED
    BY <1>1, <2>1, <2>2 DEF Keeps
<1>6. faults' \subseteq Fault /\ faults \subseteq faults'
  BY <1>1, <1>2 DEF TypeInv, Fault
<1>7. HasComma(records') => "comma" \in faults'
  BY <1>1, <1>6 DEF IInv, CommaNoted
<1>. QED
  BY <1>1, <1>4, <1>5, <1>6, <1>7, Unsaved

-----------------------------------------------------------------------------
(* The table is loaded again, or dropped. *)

\* What the files hold has the types of a table.
LEMMA LoadedType ==
    ASSUME TypeInv
    PROVE  /\ Len(meta) \in Nat /\ DOMAIN meta = 1..Len(meta)
           /\ Loaded \in [1..Len(data) -> Row(Len(meta))] /\ Len(data) \in Nat
           /\ DOMAIN Loaded = 1..Len(data)
           /\ Rebuilt(meta, Loaded) \in [1..Len(meta) -> SUBSET Text]
<1>1. Len(meta) \in Nat /\ DOMAIN meta = 1..Len(meta) /\ Len(data) \in Nat
  BY DEF TypeInv
<1>2. data \in [1..Len(data) -> Text]
  BY SeqIsFunction DEF TypeInv
<1>3. Loaded \in [1..Len(data) -> Row(Len(meta))]
  BY <1>1, <1>2, ParseIsRow DEF Loaded
<1>4. \A k \in DOMAIN Loaded : \A c \in 1..Len(meta) : Loaded[k][c] \in Text
  BY <1>3 DEF Row
<1>. QED
  BY <1>1, <1>3, <1>4 DEF Rebuilt

\* A restart: the sets are made anew from the records that are read.
LEMMA ReloadStep ==
    ASSUME IInv, Reload
    PROVE  IInv'
<1>1. /\ columns' = meta /\ records' = Loaded /\ uniqueValues' = Rebuilt(meta, Loaded)
      /\ faults' = (faults \ {"insert", "save"}) \cup CommaFault(Loaded)
                       \cup (IF "save" \in faults THEN {"torn"} ELSE {})
      /\ meta' = meta /\ data' = data
  BY DEF Reload
<1>2. TypeInv /\ Loaded' = Loaded
  BY <1>1 DEF IInv, Loaded
<1>3. TypeInv'
  <2>1. uniqueValues' \in Seq(SUBSET Text) /\ Len(uniqueValues') = Len(meta)
    BY <1>1, <1>2, LoadedType, FunctionIsSeq
  <2>2. records' \in Seq(Row(Len(meta)))
    BY <1>1, <1>2, LoadedType, FunctionIsSeq
  <2>3. faults' \subseteq Fault
    BY <1>1, <1>2 DEF TypeInv, Fault, CommaFault
  <2>. QED
    BY <1>1, <1>2, <2>1, <2>2, <2>3 DEF TypeInv
<1>4. CommaNoted'
  BY <1>1 DEF CommaNoted, CommaFault
<1>5. OtherSetsEmpty'
  BY <1>1 DEF OtherSetsEmpty, Rebuilt, Exempt
<1>6. FilesAgree'
  BY <1>1, <1>2 DEF FilesAgree
<1>7. SetsComplete' /\ NoGhostValue'
  <2>1. ASSUME NEW c \in DOMAIN meta, meta[c].unique, NEW k \in DOMAIN Loaded, Loaded[k][c] # Empty
        PROVE  Loaded[k][c] \in Rebuilt(meta, Loaded)[c]
    BY <2>1 DEF Rebuilt, Exempt
  <2>2. ASSUME NEW c \in DOMAIN meta, NEW v \in Rebuilt(meta, Loaded)[c]
        PROVE  \E k \in DOMAIN Loaded : Loaded[k][c] = v
    BY DEF Rebuilt
  <2>. QED
    BY <1>1, <2>1, <2>2 DEF SetsComplete, NoGhostValue, Column
<1>8. UniqueHolds'
  <2>1. SUFFICES ASSUME Sound({"update", "delete", "torn", "comma"})'
                 PROVE  UniqueRecords'
    BY <1>7 DEF UniqueHolds
  <2>2. Sound({"update", "delete", "torn", "comma"}) /\ Sound({"save", "update", "comma"})
    BY <1>1, <2>1 DEF Sound
  <2>3. meta = columns /\ Loaded = records /\ UniqueRecords
    BY <2>2 DEF IInv, FilesAgree, UniqueHolds
  <2>. QED
    BY <1>1, <2>3 DEF UniqueRecords
<1>9. NotNullHolds' /\ NotNullOnDisk'
  <2>1. ASSUME Sound({"late", "torn", "comma"})'
        PROVE  NotNullIn(meta, Loaded)
    <3>1. Sound({"late", "torn", "comma", "save"})
      BY <1>1, <2>1 DEF Sound
    <3>. QED
      BY <3>1 DEF IInv, NotNullOnDisk
  <2>2. Sound({"late", "torn", "comma", "save"})' => Sound({"late", "torn", "comma"})'
    BY DEF Sound
  <2>. QED
    BY <1>1, <1>2, <2>1, <2>2 DEF NotNullHolds, NotNullOnDisk, NotNullIn
<1>. QED
  BY <1>3, <1>4, <1>5, <1>6, <1>7, <1>8, <1>9 DEF IInv

\* A table whose .data file is hidden has nothing, and the fault stays noted.
LEMMA ReloadNothingStep ==
    ASSUME IInv, ReloadNothing
    PROVE  IInv'
<1>1. /\ columns' = <<>> /\ uniqueValues' = <<>> /\ records' = <<>>
      /\ meta' = meta /\ data' = data /\ "save" \in faults'
      /\ faults' = faults \ {"insert"}
  BY DEF ReloadNothing
<1>2. TypeInv /\ MaxColumns \in Nat
  BY TableAssumption DEF IInv
<1>3. TypeInv'
  <2>1. /\ columns' \in Seq(ColumnDef) /\ Len(columns') = 0 /\ Len(columns') <= MaxColumns
        /\ uniqueValues' \in Seq(SUBSET Text) /\ Len(uniqueValues') = Len(columns')
        /\ records' \in Seq(Row(Len(columns')))
    BY <1>1, <1>2
  <2>2. faults' \subseteq Fault
    BY <1>1, <1>2 DEF TypeInv, Fault
  <2>. QED
    BY <1>1, <1>2, <2>1, <2>2 DEF TypeInv
<1>4. CommaNoted' /\ OtherSetsEmpty' /\ UniqueHolds' /\ NoGhostValue' /\ NotNullHolds'
  <2>1. DOMAIN columns' = {} /\ DOMAIN records' = {}
    BY <1>1
  <2>. QED
    BY <2>1 DEF CommaNoted, HasComma, OtherSetsEmpty, UniqueHolds, UniqueRecords, SetsComplete,
                NoGhostValue, NotNullHolds
<1>5. FilesAgree' /\ NotNullOnDisk'
  BY <1>1 DEF FilesAgree, NotNullOnDisk, NotNullIn, Sound
<1>. QED
  BY <1>3, <1>4, <1>5 DEF IInv

\* drop leaves nothing in memory; a file that stays is noted.
LEMMA DropStep ==
    ASSUME IInv, drop
    PROVE  IInv'
<1>1. /\ columns' = <<>> /\ uniqueValues' = <<>> /\ records' = <<>>
      /\ meta' \in {<<>>, meta} /\ data' \in {<<>>, data}
      /\ faults' = IF <<meta', data'>> = <<<<>>, <<>>>> THEN faults \ {"save"}
                   ELSE faults \cup {"save"}
  BY DEF drop
<1>2. TypeInv /\ MaxColumns \in Nat
  BY TableAssumption DEF IInv
<1>3. TypeInv'
  <2>1. /\ columns' \in Seq(ColumnDef) /\ Len(columns') = 0 /\ Len(columns') <= MaxColumns
        /\ uniqueValues' \in Seq(SUBSET Text) /\ Len(uniqueValues') = Len(columns')
        /\ records' \in Seq(Row(Len(columns')))
    BY <1>1, <1>2
  <2>2. meta' \in Seq(ColumnDef) /\ Len(meta') <= MaxColumns
    <3>1. CASE meta' = <<>>
      BY <1>2, <3>1
    <3>2. CASE meta' = meta
      BY <1>2, <3>2 DEF TypeInv
    <3>. QED
      BY <1>1, <3>1, <3>2
  <2>3. data' \in Seq(Text)
    <3>1. data \in Seq(Text) /\ <<>> \in Seq(Text)
      BY <1>2 DEF TypeInv
    <3>2. data' = <<>> \/ data' = data
      BY <1>1
    <3>. HIDE DEF Text
    <3>. QED
      BY <3>1, <3>2
  <2>4. faults' \subseteq Fault
    BY <1>1, <1>2 DEF TypeInv, Fault
  <2>. QED
    BY <2>1, <2>2, <2>3, <2>4 DEF TypeInv
<1>4. CommaNoted' /\ OtherSetsEmpty' /\ UniqueHolds' /\ NoGhostValue' /\ NotNullHolds'
  <2>1. DOMAIN columns' = {} /\ DOMAIN records' = {}
    BY <1>1
  <2>. QED
    BY <2>1 DEF CommaNoted, HasComma, OtherSetsEmpty, UniqueHolds, UniqueRecords, SetsComplete,
                NoGhostValue, NotNullHolds
<1>5. ASSUME "save" \notin faults'
      PROVE  meta' = <<>> /\ Loaded' = <<>>
  BY <1>1, <1>5 DEF Loaded
<1>6. FilesAgree' /\ NotNullOnDisk'
  BY <1>1, <1>5 DEF FilesAgree, NotNullOnDisk, NotNullIn, Sound
<1>. QED
  BY <1>3, <1>4, <1>6 DEF IInv

-----------------------------------------------------------------------------
(* DELETE. *)

\* The places of the records without a verdict for deletion: each once.
IsKept(kept, verdict, upto) ==
    /\ \A i \in DOMAIN kept : kept[i] \in 1..upto /\ verdict[kept[i]] = "no"
    /\ \A i, j \in DOMAIN kept : kept[i] = kept[j] => i = j
    /\ \A k \in 1..upto : verdict[k] = "no" => \E i \in DOMAIN kept : kept[i] = k

\* The loop of DELETE keeps the records without a match, each once and in order.
LEMMA KeptIs ==
    ASSUME TypeInv, NEW verdict
    PROVE  /\ Kept(verdict) \in Seq(DOMAIN records)
           /\ IsKept(Kept(verdict), verdict, Len(records))
<1>. DEFINE m == Len(records)
            S == Seq(1..m)
            Round(g, k) == IF k = 0 THEN <<>>
                           ELSE IF verdict[k] = "no" THEN Append(g[k - 1], k) ELSE g[k - 1]
            step == [k \in 1..m |-> [s \in S |-> IF verdict[k] = "no" THEN Append(s, k) ELSE s]]
            kept == CHOOSE g : g = [k \in 0..m |-> Round(g, k)]
<1>1. m \in Nat /\ DOMAIN records = 1..m
  BY Shape
<1>2. ASSUME NEW k \in 1..m, NEW s \in S
      PROVE  step[k][s] = (IF verdict[k] = "no" THEN Append(s, k) ELSE s) /\ step[k][s] \in S
  <2>1. Append(s, k) \in S
    <3>. HIDE DEF m
    <3>. QED
      BY AppendIs
  <2>2. step[k][s] = IF verdict[k] = "no" THEN Append(s, k) ELSE s
    OBVIOUS
  <2>. HIDE DEF step, S
  <2>. QED
    BY <2>1, <2>2
<1>3. PICK f : IsLoopUp(f, S, m, <<>>, step)
  <2>1. <<>> \in S
    OBVIOUS
  <2>2. step \in [1..m -> [S -> S]]
    <3>1. ASSUME NEW k \in 1..m
          PROVE  step[k] \in [S -> S]
      <4>. HIDE DEF S, m
      <4>1. step[k] = [s \in S |-> IF verdict[k] = "no" THEN Append(s, k) ELSE s]
        OBVIOUS
      <4>2. step[k] = [s \in S |-> step[k][s]]
        BY <4>1
      <4>. HIDE DEF step
      <4>. QED
        BY <1>2, <4>2
    <3>2. step = [k \in 1..m |-> step[k]]
      OBVIOUS
    <3>. HIDE DEF step, S
    <3>. QED
      BY <3>1, <3>2
  <2>. HIDE DEF step, S, m
  <2>. QED
    BY <1>1, <2>1, <2>2, LoopUp
<1>. HIDE DEF m
<1>4. \E g : g = [k \in 0..m |-> Round(g, k)]
  <2>1. /\ f \in [0..m -> S] /\ f[0] = <<>>
        /\ \A k \in 1..m : f[k] = step[k][f[k - 1]] /\ f[k - 1] \in S
    BY <1>1, <1>3 DEF IsLoopUp
  <2>2. ASSUME NEW k \in 0..m
        PROVE  f[k] = Round(f, k)
    <3>1. CASE k = 0
      BY <2>1, <3>1
    <3>2. CASE k # 0
      <4>1. k \in 1..m
        BY <3>2
      <4>. HIDE DEF step, S
      <4>. QED
        BY <1>2, <2>1, <3>2, <4>1
    <3>. QED
      BY <3>1, <3>2
  <2>3. f = [k \in 0..m |-> Round(f, k)]
    <3>. HIDE DEF Round
    <3>. QED
      BY <2>1, <2>2
  <2>. HIDE DEF Round
  <2>. QED
    BY <2>3
<1>5. kept = [k \in 0..m |-> Round(kept, k)]
  <2>. HIDE DEF Round
  <2>. QED
    BY <1>4
<1>6. Kept(verdict) = kept[m]
  BY DEF Kept, m
<1>. HIDE DEF kept
<1>7. /\ kept[0] = <<>>
      /\ \A k \in 1..m : kept[k] = IF verdict[k] = "no" THEN Append(kept[k - 1], k) ELSE kept[k - 1]
  <2>1. \A k \in 0..m : kept[k] = Round(kept, k)
    <3>. HIDE DEF Round
    <3>. QED
      BY <1>5
  <2>2. 0 \in 0..m /\ \A k \in 1..m : k \in 0..m /\ k # 0
    BY <1>1
  <2>. QED
    BY <2>1, <2>2
<1>. DEFINE T == {k \in 0..m : kept[k] \in S /\ IsKept(kept[k], verdict, k)}
<1>8. 0 \in T
  <2>1. <<>> \in S /\ DOMAIN <<>> = {} /\ 1..0 = {} /\ 0 \in 0..m
    BY <1>1
  <2>2. IsKept(<<>>, verdict, 0)
    BY <2>1 DEF IsKept
  <2>. HIDE DEF S
  <2>. QED
    BY <1>7, <2>1, <2>2
<1>9. ASSUME NEW k \in 0..(m - 1), k \in T
      PROVE  k + 1 \in T
  <2>1. k + 1 \in 1..m /\ (k + 1) - 1 = k /\ k + 1 \in 0..m
    BY <1>1
  <2>2. PICK s \in S : s = kept[k] /\ IsKept(s, verdict, k)
    BY <1>9
  <2>3. \A j : j \in 1..(k + 1) <=> j \in 1..k \/ j = k + 1
    BY <1>1
  <2>4. CASE verdict[k + 1] = "no"
    <3>1. PICK t \in S : t = Append(s, k + 1)
      BY <2>1, AppendIs
    <3>2. Len(s) \in Nat /\ DOMAIN s = 1..Len(s) /\ s \in Seq(1..m)
      OBVIOUS
    <3>3. /\ DOMAIN t = 1..(Len(s) + 1) /\ t[Len(s) + 1] = k + 1
          /\ \A i \in 1..Len(s) : t[i] = s[i]
      BY <2>1, <3>1, <3>2, AppendIs
    <3>4. \A i : i \in DOMAIN t <=> i \in DOMAIN s \/ i = Len(s) + 1
      BY <3>2, <3>3
    <3>5. \A i \in DOMAIN s : t[i] = s[i] /\ s[i] \in 1..k /\ verdict[s[i]] = "no" /\ s[i] # k + 1
      <4>1. k + 1 \notin 1..k
        BY <1>1
      <4>. QED
        BY <2>2, <3>2, <3>3, <4>1 DEF IsKept
    <3>6. \A i \in DOMAIN t : t[i] \in 1..(k + 1) /\ verdict[t[i]] = "no"
      BY <2>3, <2>4, <3>3, <3>4, <3>5
    <3>7. \A i, j \in DOMAIN t : t[i] = t[j] => i = j
      BY <2>2, <3>3, <3>4, <3>5 DEF IsKept
    <3>8. \A j \in 1..(k + 1) : verdict[j] = "no" => \E i \in DOMAIN t : t[i] = j
      BY <2>2, <2>3, <3>3, <3>4, <3>5 DEF IsKept
    <3>9. IsKept(t, verdict, k + 1)
      BY <3>6, <3>7, <3>8 DEF IsKept
    <3>10. kept[k + 1] = t
      BY <1>7, <2>1, <2>2, <2>4, <3>1
    <3>. QED
      BY <2>1, <3>1, <3>9, <3>10
  <2>5. CASE verdict[k + 1] # "no"
    <3>1. IsKept(s, verdict, k + 1)
      BY <2>2, <2>3, <2>5 DEF IsKept
    <3>2. kept[k + 1] = s
      BY <1>7, <2>1, <2>2, <2>5
    <3>. QED
      BY <2>1, <3>1, <3>2
  <2>. QED
    BY <2>4, <2>5
<1>10. 0..m \subseteq T
  <2>. HIDE DEF T
  <2>. QED
    BY <1>1, <1>8, <1>9, UpInduction
<1>11. kept[m] \in Seq(1..m) /\ IsKept(kept[m], verdict, m)
  BY <1>1, <1>10
<1>. QED
  BY <1>1, <1>6, <1>11 DEF m

\* DELETE, whether it ends or throws at a record.
LEMMA DeleteStep ==
    ASSUME IInv, NEW verdict \in [DOMAIN records -> {"throw", "yes", "no"}],
           deleteRecords(verdict)
    PROVE  IInv'
<1>. DEFINE n == Len(columns)
            released == Released(verdict)
            kept == Kept(verdict)
<1>1. TypeInv /\ OtherSetsEmpty /\ n \in Nat /\ DOMAIN columns = 1..n
  BY Shape DEF IInv
<1>2. /\ columns' = columns
      /\ uniqueValues' =
              [c \in DOMAIN columns |->
                 {v \in uniqueValues[c] : \A k \in released :
                     v \in removeUniqueValue(columns[c], uniqueValues[c], records[k][c])}]
  BY DEF deleteRecords
<1>3. ASSUME NEW c \in DOMAIN columns
      PROVE  /\ uniqueValues'[c] \subseteq uniqueValues[c]
             /\ \A v \in uniqueValues[c] :
                    (\A k \in released : records[k][c] # v) => v \in uniqueValues'[c]
             /\ \A v \in uniqueValues'[c] :
                    v # Empty => \A k \in released : records[k][c] # v
  <2>1. ~columns[c].unique => uniqueValues[c] = {}
    BY <1>1 DEF OtherSetsEmpty
  <2>. HIDE DEF released
  <2>. QED
    BY <1>2, <2>1 DEF removeUniqueValue
<1>4. uniqueValues' \in [1..n -> SUBSET Text] /\ PlainIn(columns', uniqueValues')
  <2>1. \A c \in DOMAIN columns : uniqueValues[c] \in SUBSET Text
    BY <1>1, Shape
  <2>2. uniqueValues' = [c \in 1..n |-> uniqueValues'[c]]
    BY <1>1, <1>2
  <2>3. uniqueValues' \in [1..n -> SUBSET Text]
    BY <1>1, <1>3, <2>1, <2>2
  <2>4. PlainIn(columns', uniqueValues')
    BY <1>1, <1>2, <1>3 DEF PlainIn, OtherSetsEmpty
  <2>. QED
    BY <2>3, <2>4
<1>. HIDE DEF released, n, kept
<1>5. CASE \E k \in DOMAIN records : verdict[k] = "throw"
  <2>1. /\ records' = records /\ UNCHANGED <<meta, data>>
        /\ faults' = faults \cup (IF uniqueValues' # uniqueValues THEN {"delete"} ELSE {})
    BY <1>5 DEF deleteRecords
  <2>2. MemoryType(columns', uniqueValues', records')
    <3>1. uniqueValues' \in Seq(SUBSET Text) /\ Len(uniqueValues') = n
      BY <1>1, <1>4, FunctionIsSeq
    <3>. QED
      BY <1>1, <1>2, <1>4, <2>1, <3>1 DEF MemoryType, TypeInv, n
  <2>3. Keeps
    <3>1. Sound({"update", "delete"})' => uniqueValues' = uniqueValues
      BY <2>1 DEF Sound
    <3>2. NoGhostIn(columns, records, uniqueValues) => NoGhostIn(columns', records', uniqueValues')
      BY <1>2, <1>3, <2>1 DEF NoGhostIn
    <3>. QED
      BY <1>2, <2>1, <3>1, <3>2 DEF Keeps
  <2>4. faults' \subseteq Fault /\ faults \subseteq faults'
    BY <1>1, <2>1 DEF TypeInv, Fault
  <2>5. HasComma(records') => "comma" \in faults'
    BY <2>1, <2>4 DEF IInv, CommaNoted
  <2>. QED
    BY <1>2, <2>1, <2>2, <2>3, <2>4, <2>5, Unsaved
<1>6. CASE ~\E k \in DOMAIN records : verdict[k] = "throw"
  <2>1. records' = [i \in DOMAIN kept |-> records[kept[i]]] /\ Save(columns, records', {})
    BY <1>6 DEF deleteRecords, kept
  <2>2. DOMAIN records = 1..Len(records) /\ Len(records) \in Nat
    BY <1>1, Shape
  <2>3. kept \in Seq(DOMAIN records) /\ IsKept(kept, verdict, Len(records))
    BY <1>1, KeptIs DEF kept
  <2>4. \A k \in DOMAIN records : k \in released <=> verdict[k] # "no"
    BY <1>6, <2>2 DEF released, Released
  <2>5. /\ \A i \in DOMAIN kept : kept[i] \in DOMAIN records /\ kept[i] \notin released
        /\ \A k \in DOMAIN records : k \notin released => \E i \in DOMAIN kept : kept[i] = k
        /\ \A i, j \in DOMAIN kept : kept[i] = kept[j] => i = j
    BY <2>2, <2>3, <2>4 DEF IsKept
  <2>6. MemoryType(columns', uniqueValues', records')
    <3>1. Len(kept) \in Nat /\ DOMAIN kept = 1..Len(kept)
      BY <2>3
    <3>2. \A k \in DOMAIN records : records[k] \in Row(n)
      BY <1>1, Shape DEF Row, n
    <3>3. records' \in [1..Len(kept) -> Row(n)]
      BY <2>1, <2>5, <3>1, <3>2
    <3>4. columns' \in [1..n -> ColumnDef] /\ n <= MaxColumns
      BY <1>1, <1>2, Shape DEF TypeInv, n
    <3>. QED
      BY <1>1, <1>4, <3>1, <3>3, <3>4, MemoryTypeIs
  <2>7. Keeps
    <3>1. ASSUME UniqueIn(columns, records), CompleteIn(columns, records, uniqueValues)
          PROVE  UniqueIn(columns', records') /\ CompleteIn(columns', records', uniqueValues')
      <4>1. UniqueIn(columns', records')
        BY <1>2, <2>1, <2>5, <3>1 DEF UniqueIn
      <4>2. ASSUME NEW c \in DOMAIN columns, columns[c].unique,
                   NEW i \in DOMAIN kept, records[kept[i]][c] # Empty
            PROVE  records[kept[i]][c] \in uniqueValues'[c]
        <5>1. records[kept[i]][c] \in uniqueValues[c]
          BY <2>5, <3>1, <4>2 DEF CompleteIn
        <5>2. released \subseteq DOMAIN records
          BY DEF released, Released
        <5>3. \A k \in released : records[k][c] # records[kept[i]][c]
          BY <2>5, <3>1, <4>2, <5>2 DEF UniqueIn
        <5>. QED
          BY <1>3, <5>1, <5>3
      <4>3. CompleteIn(columns', records', uniqueValues')
        BY <1>2, <2>1, <4>2 DEF CompleteIn
      <4>. QED
        BY <4>1, <4>3
    <3>2. ASSUME NoGhostIn(columns, records, uniqueValues)
          PROVE  NoGhostIn(columns', records', uniqueValues')
      <4>1. SUFFICES ASSUME NEW c \in DOMAIN columns, NEW v \in uniqueValues'[c], v # Empty
                     PROVE  \E i \in DOMAIN records' : records'[i][c] = v
        BY <1>2 DEF NoGhostIn
      <4>2. PICK k \in DOMAIN records : records[k][c] = v
        BY <1>3, <3>2, <4>1 DEF NoGhostIn
      <4>3. k \notin released
        BY <1>3, <4>1, <4>2
      <4>. QED
        BY <2>1, <2>5, <4>2, <4>3
    <3>3. NotNullIn(columns, records) => NotNullIn(columns', records')
      BY <1>2, <2>1, <2>5 DEF NotNullIn
    <3>. QED
      BY <3>1, <3>2, <3>3 DEF Keeps
  <2>. QED
    BY <1>2, <2>1, <2>6, <2>7, Saved
<1>. QED
  BY <1>5, <1>6

-----------------------------------------------------------------------------
(* UPDATE. *)

\* What the loop over the records keeps in its hands.
UpdateType ==
    [records : [1..Len(records) -> Row(Len(columns))],
     known : [1..Len(columns) -> SUBSET Text],
     thrown : BOOLEAN, count : Nat]

\* Until it throws, an UPDATE leaves no duplicate behind and every value in its
\* set; whether it throws or not, no value is left in a set that no record has,
\* and no value is made empty.
Sane(st) ==
    /\ PlainIn(columns, st.known)
    /\ NoGhostIn(columns, records, uniqueValues) => NoGhostIn(columns, st.records, st.known)
    /\ NotNullIn(columns, records) => NotNullIn(columns, st.records)
    /\ ~st.thrown =>
          (UniqueIn(columns, records) /\ CompleteIn(columns, records, uniqueValues)
              => UniqueIn(columns, st.records) /\ CompleteIn(columns, st.records, st.known))

UpdateState == {st \in UpdateType : Sane(st)}

\* What one assignment does to the record and to the set of its column.
LEMMA AssignIs ==
    ASSUME TypeInv, NEW st \in UpdateType, NEW k \in DOMAIN records,
           NEW a, a.column \in DOMAIN columns, a.value \in Value,
           ~st.thrown, a.value # Empty
    PROVE  LET c == a.column
               left == removeUniqueValue(columns[c], st.known[c], st.records[k][c])
               new == Assign(st, k, a)
           IN  /\ new \in UpdateType
               /\ \A j \in DOMAIN records : \A d \in DOMAIN columns :
                      new.records[j][d] = IF j = k /\ d = c THEN a.value ELSE st.records[j][d]
               /\ \A d \in DOMAIN columns :
                      new.known[d] = IF d = c THEN addUniqueValue(columns[c], left, a.value)
                                     ELSE st.known[d]
               /\ new.thrown <=> ~checkUniqueValue(columns[c], left, a.value)
<1>. DEFINE n == Len(columns)
            m == Len(records)
            c == a.column
            left == removeUniqueValue(columns[c], st.known[c], st.records[k][c])
            rows == [st.records EXCEPT ![k] = [st.records[k] EXCEPT ![c] = a.value]]
            sets == [st.known EXCEPT ![c] = addUniqueValue(columns[c], left, a.value)]
            thrown == ~checkUniqueValue(columns[c], left, a.value)
            new == [records |-> rows, known |-> sets, thrown |-> thrown, count |-> st.count]
<1>1. /\ DOMAIN columns = 1..n /\ DOMAIN records = 1..m
      /\ c \in 1..n /\ k \in 1..m /\ a.value \in Text
  BY Shape, ValueIsText
<1>2. /\ st = [records |-> st.records, known |-> st.known,
               thrown |-> st.thrown, count |-> st.count]
      /\ st.records \in [1..m -> Row(n)] /\ st.known \in [1..n -> SUBSET Text]
      /\ st.thrown \in BOOLEAN /\ st.count \in Nat
  BY DEF UpdateType
<1>3. Assign(st, k, a) = new
  <2>. HIDE DEF left
  <2>1. Assign(st, k, a) = [st EXCEPT !.records[k][c] = a.value,
                                      !.known[c] = addUniqueValue(columns[c], left, a.value),
                                      !.thrown = thrown]
    BY DEF Assign, left
  <2>. QED
    BY <1>2, <2>1
<1>4. left \in SUBSET Text /\ addUniqueValue(columns[c], left, a.value) \in SUBSET Text
  BY <1>1, <1>2 DEF removeUniqueValue, addUniqueValue
<1>. HIDE DEF left
<1>5. st.records[k] \in [1..n -> Text]
  BY <1>1, <1>2 DEF Row
<1>6. rows \in [1..m -> Row(n)]
  <2>1. [st.records[k] EXCEPT ![c] = a.value] \in Row(n)
    BY <1>1, <1>5 DEF Row
  <2>. QED
    BY <1>1, <1>2, <2>1
<1>7. \A j \in 1..m : \A d \in 1..n :
          rows[j][d] = IF j = k /\ d = c THEN a.value ELSE st.records[j][d]
  BY <1>1, <1>2, <1>5
<1>8. /\ sets \in [1..n -> SUBSET Text]
      /\ \A d \in 1..n : sets[d] = IF d = c THEN addUniqueValue(columns[c], left, a.value)
                                   ELSE st.known[d]
  BY <1>1, <1>2, <1>4
<1>9. thrown \in BOOLEAN
  OBVIOUS
<1>. HIDE DEF rows, sets, thrown
<1>10. new \in UpdateType
  BY <1>2, <1>6, <1>8, <1>9 DEF UpdateType
<1>11. PICK made : made = Assign(st, k, a)
  OBVIOUS
<1>12. /\ made \in UpdateType /\ made.records = rows /\ made.known = sets
       /\ made.thrown = thrown
  BY <1>3, <1>10, <1>11
<1>. HIDE DEF new
<1>13. /\ \A j \in DOMAIN records : \A d \in DOMAIN columns :
             made.records[j][d] = IF j = k /\ d = c THEN a.value ELSE st.records[j][d]
       /\ \A d \in DOMAIN columns :
             made.known[d] = IF d = c THEN addUniqueValue(columns[c], left, a.value) ELSE st.known[d]
       /\ made.thrown <=> ~checkUniqueValue(columns[c], left, a.value)
  <2>1. made.thrown <=> ~checkUniqueValue(columns[c], left, a.value)
    BY <1>12 DEF thrown
  <2>. QED
    BY <1>1, <1>7, <1>8, <1>12, <2>1
<1>. QED
  BY <1>11, <1>12, <1>13 DEF left

\* One assignment leaves what the loop has in hand sane.
LEMMA AssignStays ==
    ASSUME TypeInv, NEW st \in UpdateState, NEW k \in DOMAIN records,
           NEW a, a.column \in DOMAIN columns, a.value \in Value
    PROVE  Assign(st, k, a) \in UpdateState
<1>1. CASE st.thrown \/ a.value = Empty
  BY <1>1 DEF Assign
<1>2. CASE ~st.thrown /\ a.value # Empty
  <2>. DEFINE c == a.column
              v == a.value
              old == st.records[k][c]
              left == removeUniqueValue(columns[c], st.known[c], old)
  <2>1. st \in UpdateType /\ Sane(st) /\ PlainIn(columns, st.known)
    BY DEF UpdateState, Sane
  <2>2. PICK new : new = Assign(st, k, a)
    OBVIOUS
  <2>3. /\ new \in UpdateType
        /\ \A j \in DOMAIN records : \A d \in DOMAIN columns :
               new.records[j][d] = IF j = k /\ d = c THEN v ELSE st.records[j][d]
        /\ \A d \in DOMAIN columns :
               new.known[d] = IF d = c THEN addUniqueValue(columns[c], left, v) ELSE st.known[d]
        /\ new.thrown <=> ~checkUniqueValue(columns[c], left, v)
    BY <1>2, <2>1, <2>2, AssignIs
  <2>4. DOMAIN st.records = DOMAIN records /\ DOMAIN new.records = DOMAIN records
    BY <2>1, <2>3, Shape DEF UpdateType
  <2>5. /\ c \in DOMAIN columns /\ v # Empty
        /\ ~columns[c].unique => left = {} /\ addUniqueValue(columns[c], left, v) = {}
        /\ columns[c].unique => addUniqueValue(columns[c], left, v) = left \cup {v}
        /\ left \subseteq st.known[c]
        /\ columns[c].unique => \A x \in st.known[c] : x \in left <=> x # old \/ old = Empty
    BY <1>2, <2>1 DEF removeUniqueValue, addUniqueValue, Exempt, PlainIn
  <2>. HIDE DEF c, v, old, left
  <2>6. PlainIn(columns, new.known)
    BY <2>1, <2>3, <2>5 DEF PlainIn
  <2>7. ASSUME NoGhostIn(columns, records, uniqueValues)
        PROVE  NoGhostIn(columns, new.records, new.known)
    <3>1. NoGhostIn(columns, st.records, st.known)
      BY <2>1, <2>7 DEF Sane
    <3>2. SUFFICES ASSUME NEW d \in DOMAIN columns, NEW x \in new.known[d], x # Empty
                   PROVE  \E j \in DOMAIN new.records : new.records[j][d] = x
      BY DEF NoGhostIn
    <3>3. CASE d # c
      <4>1. PICK j \in DOMAIN records : st.records[j][d] = x
        BY <2>3, <2>4, <3>1, <3>2, <3>3 DEF NoGhostIn
      <4>. QED
        BY <2>3, <2>4, <3>3, <4>1
    <3>4. CASE d = c /\ x = v
      BY <2>3, <2>4, <3>4
    <3>5. CASE d = c /\ x # v
      <4>1. columns[c].unique /\ x \in left
        BY <2>3, <2>5, <3>2, <3>5
      <4>2. x # old
        BY <2>5, <3>2, <4>1
      <4>3. PICK j \in DOMAIN records : st.records[j][c] = x
        BY <2>4, <2>5, <3>1, <3>2, <4>1 DEF NoGhostIn
      <4>4. j # k
        BY <4>2, <4>3 DEF old
      <4>. QED
        BY <2>3, <2>4, <3>5, <4>3, <4>4
    <3>. QED
      BY <3>3, <3>4, <3>5
  <2>8. ASSUME NotNullIn(columns, records)
        PROVE  NotNullIn(columns, new.records)
    <3>1. NotNullIn(columns, st.records)
      BY <2>1, <2>8 DEF Sane
    <3>. QED
      BY <2>3, <2>4, <2>5, <3>1 DEF NotNullIn
  <2>9. ASSUME ~new.thrown,
               UniqueIn(columns, records), CompleteIn(columns, records, uniqueValues)
        PROVE  UniqueIn(columns, new.records) /\ CompleteIn(columns, new.records, new.known)
    <3>1. UniqueIn(columns, st.records) /\ CompleteIn(columns, st.records, st.known)
      BY <1>2, <2>1, <2>9 DEF Sane
    <3>2. columns[c].unique => v \notin left
      BY <2>3, <2>5, <2>9 DEF checkUniqueValue, Exempt
    <3>3. ASSUME columns[c].unique, NEW j \in DOMAIN records, j # k, st.records[j][c] # Empty
          PROVE  st.records[j][c] \in left /\ st.records[j][c] # v
      <4>1. st.records[j][c] \in st.known[c]
        BY <2>4, <2>5, <3>1, <3>3 DEF CompleteIn
      <4>2. st.records[j][c] # old
        BY <2>4, <2>5, <3>1, <3>3 DEF UniqueIn, old
      <4>. QED
        BY <2>5, <3>2, <3>3, <4>1, <4>2
    <3>4. ASSUME NEW d \in DOMAIN columns, columns[d].unique,
                 NEW i \in DOMAIN records, NEW j \in DOMAIN records,
                 new.records[i][d] = new.records[j][d], new.records[i][d] # Empty
          PROVE  i = j
      <4>1. CASE d # c
        BY <2>3, <2>4, <3>1, <3>4, <4>1 DEF UniqueIn
      <4>2. CASE d = c /\ i # k /\ j # k
        BY <2>3, <2>4, <3>1, <3>4, <4>2 DEF UniqueIn
      <4>3. CASE d = c /\ i = k /\ j # k
        BY <2>3, <2>5, <3>3, <3>4, <4>3
      <4>4. CASE d = c /\ i # k /\ j = k
        BY <2>3, <2>5, <3>3, <3>4, <4>4
      <4>. QED
        BY <4>1, <4>2, <4>3, <4>4
    <3>5. ASSUME NEW d \in DOMAIN columns, columns[d].unique,
                 NEW j \in DOMAIN records, new.records[j][d] # Empty
          PROVE  new.records[j][d] \in new.known[d]
      <4>1. CASE d # c
        BY <2>3, <2>4, <3>1, <3>5, <4>1 DEF CompleteIn
      <4>2. CASE d = c /\ j = k
        BY <2>3, <2>5, <3>5, <4>2
      <4>3. CASE d = c /\ j # k
        BY <2>3, <2>5, <3>3, <3>5, <4>3
      <4>. QED
        BY <4>1, <4>2, <4>3
    <3>6. UniqueIn(columns, new.records)
      BY <2>4, <3>4 DEF UniqueIn
    <3>7. CompleteIn(columns, new.records, new.known)
      BY <2>4, <3>5 DEF CompleteIn
    <3>. QED
      BY <3>6, <3>7
  <2>10. Sane(new)
    BY <2>6, <2>7, <2>8, <2>9 DEF Sane
  <2>. QED
    BY <2>2, <2>3, <2>10 DEF UpdateState
<1>. QED
  BY <1>1, <1>2

\* All assignments to one record do, up to the first that throws.
LEMMA AssignAllStays ==
    ASSUME TypeInv, NEW st \in UpdateState, NEW k \in DOMAIN records,
           NEW assignments, Len(assignments) \in Nat,
           \A i \in 1..Len(assignments) :
               assignments[i].column \in DOMAIN columns /\ assignments[i].value \in Value
    PROVE  AssignAll(st, k, assignments) \in UpdateState
<1>. DEFINE N == Len(assignments)
            base == [st EXCEPT !.count = @ + 1]
            Round(g, i) == IF i = 0 THEN base
                           ELSE LET before == g[i - 1] IN Assign(before, k, assignments[i])
            step == [i \in 1..N |-> [s \in UpdateState |-> Assign(s, k, assignments[i])]]
            after == CHOOSE g : g = [i \in 0..N |-> Round(g, i)]
<1>1. base \in UpdateState
  <2>1. base \in UpdateType /\ base.records = st.records /\ base.known = st.known
        /\ base.thrown = st.thrown
    <3>1. st \in UpdateType /\ st.count \in Nat
      BY DEF UpdateState, UpdateType
    <3>2. PICK count \in Nat : count = st.count + 1
      BY <3>1
    <3>3. base = [st EXCEPT !.count = count]
      BY <3>2
    <3>. HIDE DEF base
    <3>. QED
      BY <3>1, <3>3 DEF UpdateType
  <2>. HIDE DEF base
  <2>. QED
    BY <2>1 DEF UpdateState, Sane
<1>2. ASSUME NEW i \in 1..N, NEW s \in UpdateState
      PROVE  Assign(s, k, assignments[i]) \in UpdateState
  BY AssignStays
<1>. HIDE DEF base
<1>3. PICK f : IsLoopUp(f, UpdateState, N, base, step)
  <2>1. step \in [1..N -> [UpdateState -> UpdateState]]
    BY <1>2
  <2>. HIDE DEF step, N
  <2>2. N \in Nat
    BY DEF N
  <2>. QED
    BY <1>1, <2>1, <2>2, LoopUp
<1>0. N \in Nat
  OBVIOUS
<1>. HIDE DEF N
<1>4. \E g : g = [i \in 0..N |-> Round(g, i)]
  <2>1. /\ f \in [0..N -> UpdateState] /\ f[0] = base
        /\ \A i \in 1..N : f[i] = step[i][f[i - 1]] /\ f[i - 1] \in UpdateState
    BY <1>0, <1>3 DEF IsLoopUp
  <2>2. ASSUME NEW i \in 0..N
        PROVE  f[i] = Round(f, i)
    <3>1. CASE i = 0
      BY <2>1, <3>1
    <3>2. CASE i # 0
      <4>1. i \in 1..N
        BY <3>2
      <4>. QED
        BY <2>1, <3>2, <4>1
    <3>. QED
      BY <3>1, <3>2
  <2>3. f = [i \in 0..N |-> Round(f, i)]
    <3>. HIDE DEF Round
    <3>. QED
      BY <2>1, <2>2
  <2>. HIDE DEF Round
  <2>. QED
    BY <2>3
<1>5. after = [i \in 0..N |-> Round(after, i)]
  <2>. HIDE DEF Round
  <2>. QED
    BY <1>4
<1>6. AssignAll(st, k, assignments) = after[N]
  BY DEF AssignAll, N, base
<1>. HIDE DEF after
<1>7. after[0] = base /\ \A i \in 1..N : after[i] = Assign(after[i - 1], k, assignments[i])
  <2>1. \A i \in 0..N : after[i] = Round(after, i)
    <3>. HIDE DEF Round
    <3>. QED
      BY <1>5
  <2>2. 0 \in 0..N /\ \A i \in 1..N : i \in 0..N /\ i # 0
    BY DEF N
  <2>. QED
    BY <2>1, <2>2
<1>. DEFINE T == {i \in 0..N : after[i] \in UpdateState}
<1>8. 0 \in T
  BY <1>1, <1>7 DEF N
<1>9. ASSUME NEW i \in 0..(N - 1), i \in T
      PROVE  i + 1 \in T
  <2>1. i + 1 \in 1..N /\ i + 1 \in 0..N /\ (i + 1) - 1 = i
    BY DEF N
  <2>. QED
    BY <1>2, <1>7, <1>9, <2>1
<1>10. 0..N \subseteq T
  <2>. HIDE DEF T
  <2>1. N \in Nat
    BY DEF N
  <2>. QED
    BY <1>8, <1>9, <2>1, UpInduction
<1>. QED
  <2>1. N \in 0..N
    BY DEF N
  <2>. QED
    BY <1>6, <1>10, <2>1

\* One record of the loop does, whatever the verdict on it.
LEMMA UpdateRowStays ==
    ASSUME TypeInv, NEW st \in UpdateState, NEW k \in DOMAIN records,
           NEW assignments, Len(assignments) \in Nat,
           \A i \in 1..Len(assignments) :
               assignments[i].column \in DOMAIN columns /\ assignments[i].value \in Value,
           NEW verdict
    PROVE  UpdateRow(st, k, assignments, verdict) \in UpdateState
<1>1. CASE st.thrown \/ verdict[k] = "no"
  BY <1>1 DEF UpdateRow
<1>2. CASE ~st.thrown /\ verdict[k] = "throw"
  <2>1. UpdateRow(st, k, assignments, verdict) = [st EXCEPT !.thrown = TRUE]
    BY <1>2 DEF UpdateRow
  <2>2. PICK new : new = [st EXCEPT !.thrown = TRUE]
    OBVIOUS
  <2>3. /\ new \in UpdateType /\ new.records = st.records /\ new.known = st.known
        /\ new.thrown = TRUE
    BY <2>2 DEF UpdateState, UpdateType
  <2>. QED
    BY <2>1, <2>2, <2>3 DEF UpdateState, Sane
<1>3. CASE ~(st.thrown \/ verdict[k] = "no") /\ ~(~st.thrown /\ verdict[k] = "throw")
  <2>1. UpdateRow(st, k, assignments, verdict) = AssignAll(st, k, assignments)
    BY <1>3 DEF UpdateRow
  <2>. QED
    BY <2>1, AssignAllStays
<1>. QED
  BY <1>1, <1>2, <1>3

\* The whole loop over the records does.
LEMMA UpdatedStays ==
    ASSUME TypeInv, OtherSetsEmpty,
           NEW assignments, Len(assignments) \in Nat,
           \A i \in 1..Len(assignments) :
               assignments[i].column \in DOMAIN columns /\ assignments[i].value \in Value,
           NEW verdict
    PROVE  Updated(assignments, verdict) \in UpdateState
<1>. DEFINE N == Len(records)
            base == [records |-> records, known |-> uniqueValues, thrown |-> FALSE, count |-> 0]
            Round(g, k) == IF k = 0 THEN base
                           ELSE LET before == g[k - 1]
                                IN  UpdateRow(before, k, assignments, verdict)
            step == [k \in 1..N |->
                        [s \in UpdateState |-> UpdateRow(s, k, assignments, verdict)]]
            after == CHOOSE g : g = [k \in 0..N |-> Round(g, k)]
<1>1. base \in UpdateState
  <2>1. base \in UpdateType /\ base.records = records /\ base.known = uniqueValues
    BY Shape DEF UpdateType
  <2>. HIDE DEF base
  <2>. QED
    BY <2>1, Restated DEF UpdateState, Sane
<1>0. N \in Nat /\ DOMAIN records = 1..N
  BY Shape
<1>2. ASSUME NEW k \in 1..N, NEW s \in UpdateState
      PROVE  UpdateRow(s, k, assignments, verdict) \in UpdateState
  BY <1>0, UpdateRowStays
<1>. HIDE DEF base, N
<1>3. PICK f : IsLoopUp(f, UpdateState, N, base, step)
  <2>1. step \in [1..N -> [UpdateState -> UpdateState]]
    BY <1>2
  <2>. HIDE DEF step
  <2>. QED
    BY <1>0, <1>1, <2>1, LoopUp
<1>4. \E g : g = [k \in 0..N |-> Round(g, k)]
  <2>1. /\ f \in [0..N -> UpdateState] /\ f[0] = base
        /\ \A k \in 1..N : f[k] = step[k][f[k - 1]] /\ f[k - 1] \in UpdateState
    BY <1>0, <1>3 DEF IsLoopUp
  <2>2. ASSUME NEW k \in 0..N
        PROVE  f[k] = Round(f, k)
    <3>1. CASE k = 0
      BY <2>1, <3>1
    <3>2. CASE k # 0
      <4>1. k \in 1..N
        BY <3>2
      <4>. QED
        BY <2>1, <3>2, <4>1
    <3>. QED
      BY <3>1, <3>2
  <2>3. f = [k \in 0..N |-> Round(f, k)]
    <3>. HIDE DEF Round
    <3>. QED
      BY <2>1, <2>2
  <2>. HIDE DEF Round
  <2>. QED
    BY <2>3
<1>5. after = [k \in 0..N |-> Round(after, k)]
  <2>. HIDE DEF Round
  <2>. QED
    BY <1>4
<1>6. Updated(assignments, verdict) = after[N]
  BY DEF Updated, N, base
<1>. HIDE DEF after
<1>7. /\ after[0] = base
      /\ \A k \in 1..N : after[k] = UpdateRow(after[k - 1], k, assignments, verdict)
  <2>1. \A k \in 0..N : after[k] = Round(after, k)
    <3>. HIDE DEF Round
    <3>. QED
      BY <1>5
  <2>2. 0 \in 0..N /\ \A k \in 1..N : k \in 0..N /\ k # 0
    BY <1>0
  <2>. QED
    BY <2>1, <2>2
<1>. DEFINE T == {k \in 0..N : after[k] \in UpdateState}
<1>8. 0 \in T
  BY <1>0, <1>1, <1>7
<1>9. ASSUME NEW k \in 0..(N - 1), k \in T
      PROVE  k + 1 \in T
  <2>1. k + 1 \in 1..N /\ k + 1 \in 0..N /\ (k + 1) - 1 = k
    BY <1>0
  <2>. QED
    BY <1>2, <1>7, <1>9, <2>1
<1>10. 0..N \subseteq T
  <2>. HIDE DEF T
  <2>. QED
    BY <1>0, <1>8, <1>9, UpInduction
<1>. QED
  BY <1>0, <1>6, <1>10

\* UPDATE, whether it ends or throws at a record.
LEMMA UpdateStep ==
    ASSUME IInv, NEW assignments, Len(assignments) \in Nat,
           \A i \in 1..Len(assignments) :
               assignments[i].column \in DOMAIN columns /\ assignments[i].value \in Value,
           NEW verdict, updateRecords(assignments, verdict)
    PROVE  IInv'
<1>. DEFINE n == Len(columns)
<1>1. TypeInv /\ OtherSetsEmpty /\ n \in Nat /\ n <= MaxColumns
  BY Shape DEF IInv, TypeInv
<1>2. PICK st : st = Updated(assignments, verdict)
  OBVIOUS
<1>3. st \in UpdateType /\ Sane(st)
  BY <1>1, <1>2, UpdatedStays DEF UpdateState
<1>4. columns' = columns /\ records' = st.records /\ uniqueValues' = st.known
  BY <1>2 DEF updateRecords
<1>5. MemoryType(columns', uniqueValues', records')
  <2>1. records' \in [1..Len(records) -> Row(n)] /\ Len(records) \in Nat
    BY <1>1, <1>3, <1>4, Shape DEF UpdateType
  <2>2. uniqueValues' \in [1..n -> SUBSET Text] /\ columns' \in [1..n -> ColumnDef]
    BY <1>1, <1>3, <1>4, Shape DEF UpdateType
  <2>3. PlainIn(columns', uniqueValues')
    BY <1>3, <1>4 DEF Sane
  <2>. HIDE DEF n
  <2>. QED
    BY <1>1, <2>1, <2>2, <2>3, MemoryTypeIs
<1>6. CASE st.thrown \/ st.count = 0
  <2>1. /\ faults' = faults \cup CommaFault(records') \cup
                     (IF <<records', uniqueValues'>> # <<records, uniqueValues>>
                      THEN {"update"} ELSE {})
        /\ UNCHANGED <<meta, data>>
    BY <1>2, <1>6 DEF updateRecords
  <2>2. faults' \subseteq Fault /\ faults \subseteq faults'
    BY <1>1, <2>1 DEF TypeInv, Fault, CommaFault
  <2>3. HasComma(records') => "comma" \in faults'
    BY <2>1 DEF CommaFault
  <2>4. "update" \notin faults' => records' = records /\ uniqueValues' = uniqueValues
    BY <2>1
  <2>5. Keeps
    <3>1. Sound({"update", "delete"})' => records' = records /\ uniqueValues' = uniqueValues
      BY <2>4 DEF Sound
    <3>. QED
      BY <1>3, <1>4, <3>1 DEF Keeps, Sane
  <2>. QED
    BY <1>4, <1>5, <2>1, <2>2, <2>3, <2>4, <2>5, Unsaved
<1>7. CASE ~(st.thrown \/ st.count = 0)
  <2>1. Save(columns', records', {})
    BY <1>2, <1>4, <1>7 DEF updateRecords
  <2>2. Keeps
    BY <1>3, <1>4, <1>7 DEF Keeps, Sane
  <2>. QED
    BY <1>5, <2>1, <2>2, Saved
<1>. QED
  BY <1>6, <1>7

-----------------------------------------------------------------------------
(* The inductive invariant and the theorems. *)

\* A table without columns satisfies the invariant.
LEMMA IInvInit == Init => IInv
<1>. SUFFICES ASSUME Init
              PROVE  IInv
  OBVIOUS
<1>1. /\ columns = <<>> /\ uniqueValues = <<>> /\ records = <<>>
      /\ meta = <<>> /\ data = <<>> /\ faults = {}
  BY DEF Init
<1>2. TypeInv
  <2>1. <<>> \in Seq(ColumnDef) /\ <<>> \in Seq(SUBSET Text) /\ <<>> \in Seq(Text)
        /\ <<>> \in Seq(Row(0)) /\ Len(<<>>) = 0
    OBVIOUS
  <2>. QED
    BY <1>1, <2>1, TableAssumption DEF TypeInv
<1>3. DOMAIN columns = {} /\ DOMAIN records = {} /\ DOMAIN meta = {} /\ Loaded = <<>>
  BY <1>1 DEF Loaded
<1>. QED
  BY <1>1, <1>2, <1>3
  DEF IInv, CommaNoted, HasComma, OtherSetsEmpty, UniqueHolds, UniqueRecords, SetsComplete,
      NoGhostValue, NotNullHolds, FilesAgree, NotNullOnDisk, NotNullIn

\* Every statement, failed save and restart keeps the invariant.
LEMMA IInvStep == IInv /\ [Next]_vars => IInv'
<1>. SUFFICES ASSUME IInv, [Next]_vars
              PROVE  IInv'
  OBVIOUS
<1>0. TypeInv
  BY DEF IInv
<1>1. ASSUME NEW col \in ColumnDef, addColumn(col)
      PROVE  IInv'
  BY <1>1, AddColumnStep
<1>2. ASSUME NEW c \in 1..MaxColumns, removeColumn(c)
      PROVE  IInv'
  BY <1>2, RemoveColumnStep
<1>3. ASSUME NEW record \in [DOMAIN columns -> Value], insertRecord(record)
      PROVE  IInv'
  BY <1>3, InsertAcceptedStep, InsertRefusedStep DEF insertRecord
<1>4. \A verdict \in Verdicts : verdict \in [DOMAIN records -> {"throw", "yes", "no"}]
  BY DEF Verdicts
<1>5. ASSUME NEW assignments \in Assignments, NEW verdict \in Verdicts,
             updateRecords(assignments, verdict)
      PROVE  IInv'
  <2>1. PICK l \in 1..MaxSet :
            assignments \in [1..l -> {[column |-> c, value |-> v] : c \in DOMAIN columns, v \in Value}]
    BY DEF Assignments
  <2>2. Len(assignments) = l /\ l \in Nat
    BY <2>1, FunctionIsSeq
  <2>3. \A i \in 1..l : /\ assignments[i].column \in DOMAIN columns
                        /\ assignments[i].value \in Value
    BY <2>1
  <2>. QED
    BY <1>5, <2>2, <2>3, UpdateStep
<1>6. ASSUME NEW verdict \in Verdicts, deleteRecords(verdict)
      PROVE  IInv'
  BY <1>4, <1>6, DeleteStep
<1>7. CASE drop
  BY <1>7, DropStep
<1>8. CASE Reload
  BY <1>8, ReloadStep
<1>10. CASE ReloadNothing
  BY <1>10, ReloadNothingStep
<1>9. CASE UNCHANGED vars
  BY <1>9 DEF vars, IInv, TypeInv, CommaNoted, HasComma, OtherSetsEmpty, UniqueHolds, UniqueRecords,
              SetsComplete, NoGhostValue, NotNullHolds, FilesAgree, NotNullOnDisk, NotNullIn,
              Loaded, Sound, Column
<1>. QED
  BY <1>1, <1>2, <1>3, <1>5, <1>6, <1>7, <1>8, <1>9, <1>10 DEF Next, Statement

\* The invariant holds in every state of the table.
LEMMA IInvHolds == Spec => []IInv
BY IInvInit, IInvStep, PTL DEF Spec

\* A table always has one set and every record one value for each of its columns,
\* and no line of the data file is empty.
THEOREM TypeCorrect == Spec => []TypeOK
<1>1. ASSUME IInv
      PROVE  TypeOK
  <2>1. TypeInv
    BY <1>1 DEF IInv
  <2>2. ToSet(columns) \subseteq ColumnDef /\ ToSet(meta) \subseteq ColumnDef
    BY <2>1 DEF TypeInv, ToSet
  <2>3. \A k \in DOMAIN data : data[k] # <<>>
    BY <2>1 DEF TypeInv, Text
  <2>4. \A i \in DOMAIN records : Len(records[i]) = Len(columns)
    BY <2>1, Shape
  <2>5. ASSUME NEW i \in DOMAIN records, NEW c \in DOMAIN columns
        PROVE  Len(records[i][c]) > 0 /\ ToSet(records[i][c]) \subseteq Pieces
    <3>1. records[i][c] \in Text
      BY <2>1, Shape
    <3>. QED
      BY <3>1, TextIs DEF ToSet
  <2>. QED
    BY <2>1, <2>2, <2>3, <2>4, <2>5 DEF TypeOK, TypeInv
<1>. QED
  BY <1>1, IInvHolds, PTL

\* UNIQUE holds, and every value is where it is looked for, as long as no UPDATE
\* or DELETE has thrown half way, no half-written file has been loaded and no
\* value has a comma.
THEOREM UniqueAlways == Spec => []UniqueHolds
BY IInvHolds, PTL DEF IInv

\* Only an INSERT that is refused for NOT NULL leaves a value in a UNIQUE set that
\* no record has.
THEOREM NoGhosts == Spec => []NoGhostValue
BY IInvHolds, PTL DEF IInv

\* No statement and no restart takes the value of a NOT NULL column away.
THEOREM NotNullAlways == Spec => []NotNullHolds
BY IInvHolds, PTL DEF IInv

\* What a completed save wrote is read as the table that was saved.
THEOREM FilesAlwaysAgree == Spec => []FilesAgree
BY IInvHolds, PTL DEF IInv
=============================================================================
