---------------------------- MODULE BTree_proofs -----------------------------
(***************************************************************************)
(* What holds of the B-tree index for any keys, orders and number of       *)
(* nodes.  The recursive views of the tree are replaced by labels: every   *)
(* node has a height, and the set of integers whose search passes it.      *)
(* With them the shape of the tree is a condition on each node and its     *)
(* children, which a split of one node changes in a few places.            *)
(***************************************************************************)
EXTENDS BTree, Induction, FiniteSetTheorems

-----------------------------------------------------------------------------
(* The tree by its nodes. *)

NodeRecord == [leaf : BOOLEAN, keys : Seq(Int), recordIds : Seq(Nat), children : Seq(Nat), next : Nat]

Nodes(t) == DOMAIN t.nodes
IsLeaf(t, n) == t.nodes[n].leaf
Keys(t, n) == t.nodes[n].keys
Ids(t, n) == t.nodes[n].recordIds
Kids(t, n) == t.nodes[n].children
Link(t, n) == t.nodes[n].next

Typed(t) ==
    /\ t \in [nodes : Seq(NodeRecord), root : Nat]
    /\ t.root \in Nodes(t)
    /\ \A n \in Nodes(t) : Kids(t, n) \in Seq(Nodes(t))

\* All leaves have one height; a leaf has a record id per key, an inner node a child
\* more than keys.
Levelled(t, height) ==
    /\ height \in [Nodes(t) -> Nat]
    /\ \A n \in Nodes(t) : height[n] <= height[t.root]
    /\ \A n \in Nodes(t) : IsLeaf(t, n) =>
        height[n] = 0 /\ Kids(t, n) = <<>> /\ Len(Ids(t, n)) = Len(Keys(t, n))
    /\ \A n \in Nodes(t) : ~IsLeaf(t, n) =>
        /\ Link(t, n) = NoLeaf /\ Ids(t, n) = <<>>
        /\ Len(Kids(t, n)) = Len(Keys(t, n)) + 1
        /\ \A i \in 1..Len(Kids(t, n)) : height[n] = height[Kids(t, n)[i]] + 1

\* k lies between the separators on both sides of child i.
Between(keys, i, k) == (i > 1 => keys[i - 1] <= k) /\ (i <= Len(keys) => k < keys[i])

Part(keys, r, i) == {k \in r : Between(keys, i, k)}

IsInterval(r) == \A a, b \in r : \A c \in Int : a <= c /\ c <= b => c \in r

\* range[n] are the integers whose search passes n.
Ranged(t, range) ==
    /\ range \in [Nodes(t) -> SUBSET Int]
    /\ range[t.root] = Int
    /\ \A n \in Nodes(t) :
        /\ IsInterval(range[n]) /\ range[n] # {}
        /\ IsIncreasing(Keys(t, n))
        /\ \A i \in 1..Len(Keys(t, n)) : Keys(t, n)[i] \in range[n]
    /\ \A n \in Nodes(t) : ~IsLeaf(t, n) =>
        \A i \in 1..Len(Kids(t, n)) : range[Kids(t, n)[i]] = Part(Keys(t, n), range[n], i)

Rooted(t) ==
    \A n \in Nodes(t) \ {t.root} : \E p \in Nodes(t) : \E i \in 1..Len(Kids(t, p)) :
        Kids(t, p)[i] = n

\* The range of m begins where that of n ends.
Adjacent(range, n, m) == \E s \in range[m] \ range[n] : s - 1 \in range[n] \ range[m]

Chained(t, range) ==
    \A n \in Nodes(t) : IsLeaf(t, n) =>
        \/ Link(t, n) = NoLeaf /\ \A a \in range[n], b \in Int : a <= b => b \in range[n]
        \/ Link(t, n) \in Nodes(t) /\ IsLeaf(t, Link(t, n)) /\ Adjacent(range, n, Link(t, n))

Labelled(t, height, range) ==
    Typed(t) /\ Levelled(t, height) /\ Ranged(t, range) /\ Rooted(t)

Shape(t, height, range) == Labelled(t, height, range) /\ Chained(t, range)

-----------------------------------------------------------------------------
(* Sequences. *)

\* The first i elements of a sequence.
LEMMA UpToIs ==
    ASSUME NEW S, NEW s \in Seq(S), NEW i \in 0..Len(s)
    PROVE  /\ UpTo(s, i) \in Seq(S) /\ Len(UpTo(s, i)) = i
           /\ \A j \in 1..i : UpTo(s, i)[j] = s[j]
BY DEF UpTo

\* The elements of a sequence behind place i.
LEMMA AfterIs ==
    ASSUME NEW S, NEW s \in Seq(S), NEW i \in 0..Len(s)
    PROVE  /\ After(s, i) \in Seq(S) /\ Len(After(s, i)) = Len(s) - i
           /\ \A j \in 1..(Len(s) - i) : After(s, i)[j] = s[i + j]
<1>1. After(s, i) \in Seq(S) /\ Len(After(s, i)) = Len(s) - i
  BY DEF After
<1>2. ASSUME NEW j \in 1..(Len(s) - i)
      PROVE  After(s, i)[j] = s[i + j]
  <2>1. After(s, i)[j] = s[((i + 1) + j) - 1] /\ ((i + 1) + j) - 1 = i + j
    BY <1>1 DEF After
  <2>. QED
    BY <2>1
<1>. QED
  BY <1>1, <1>2

\* Two sequences, one behind the other.
LEMMA ConcatIs ==
    ASSUME NEW S, NEW s \in Seq(S), NEW u \in Seq(S)
    PROVE  /\ s \o u \in Seq(S) /\ Len(s \o u) = Len(s) + Len(u)
           /\ \A i \in 1..Len(s) : (s \o u)[i] = s[i]
           /\ \A i \in 1..Len(u) : (s \o u)[Len(s) + i] = u[i]
OBVIOUS

\* A sequence and one more element.
LEMMA AppendIs ==
    ASSUME NEW S, NEW s \in Seq(S), NEW e \in S
    PROVE  /\ Append(s, e) \in Seq(S) /\ Len(Append(s, e)) = Len(s) + 1
           /\ \A i \in 1..Len(s) : Append(s, e)[i] = s[i]
           /\ Append(s, e)[Len(s) + 1] = e
OBVIOUS

\* One element before a sequence.
LEMMA PutBefore ==
    ASSUME NEW S, NEW e \in S, NEW s \in Seq(S), NEW u, u = <<e>> \o s
    PROVE  /\ u \in Seq(S) /\ Len(u) = Len(s) + 1 /\ u[1] = e
           /\ \A i \in 1..Len(s) : u[1 + i] = s[i]
<1>1. <<e>> \in Seq(S) /\ Len(<<e>>) = 1 /\ <<e>>[1] = e
  OBVIOUS
<1>2. u \in Seq(S) /\ Len(u) = 1 + Len(s)
  BY <1>1, ConcatIs
<1>3. u[1] = e
  BY <1>1, ConcatIs
<1>4. \A i \in 1..Len(s) : u[1 + i] = s[i]
  BY <1>1, ConcatIs
<1>. QED
  BY <1>2, <1>3, <1>4

\* A sequence over a set is one over any larger set.
LEMMA WiderSeq ==
    ASSUME NEW S, NEW T, S \subseteq T, NEW s \in Seq(S)
    PROVE  s \in Seq(T)
<1>1. Len(s) \in Nat /\ s \in [1..Len(s) -> S]
  OBVIOUS
<1>2. PICK l \in Nat : s \in [1..l -> S]
  BY <1>1
<1>3. s \in [1..l -> T]
  BY <1>2
<1>. QED
  BY <1>3

\* u is s with e at place i.
IsInserted(s, i, e, u) ==
    /\ Len(u) = Len(s) + 1
    /\ \A j \in 1..(Len(s) + 1) : u[j] = IF j < i THEN s[j] ELSE IF j = i THEN e ELSE s[j - 1]

\* Inserting at a place moves what was there and behind it by one, and nothing else.
LEMMA InsertAtIs ==
    ASSUME NEW S, NEW s \in Seq(S), NEW i \in 1..(Len(s) + 1), NEW e \in S
    PROVE  InsertAt(s, i, e) \in Seq(S) /\ IsInserted(s, i, e, InsertAt(s, i, e))
<1>. DEFINE left == UpTo(s, i - 1)
            right == After(s, i - 1)
            n == Len(s)
<1>1. s \in Seq(S) /\ n \in Nat /\ i \in 1..(n + 1) /\ i - 1 \in 0..n /\ (i - 1) + 1 = i
  OBVIOUS
<1>2. left \in Seq(S) /\ Len(left) = i - 1 /\ \A j \in 1..(i - 1) : left[j] = s[j]
  BY <1>1, UpToIs
<1>3. right \in Seq(S) /\ Len(right) = n - (i - 1)
      /\ \A j \in 1..(n - (i - 1)) : right[j] = s[(i - 1) + j]
  BY <1>1, AfterIs
<1>4. InsertAt(s, i, e) = (left \o <<e>>) \o right
  BY <1>1 DEF InsertAt, UpTo, After
<1>. HIDE DEF left, right, n
<1>5. PICK both : both = left \o <<e>>
  OBVIOUS
<1>6. both \in Seq(S) /\ Len(both) = i /\ both[i] = e /\ \A j \in 1..(i - 1) : both[j] = s[j]
  <2>1. <<e>> \in Seq(S) /\ Len(<<e>>) = 1 /\ <<e>>[1] = e
    OBVIOUS
  <2>2. both \in Seq(S) /\ Len(both) = Len(left) + 1
        /\ (\A j \in 1..Len(left) : both[j] = left[j]) /\ both[Len(left) + 1] = e
    BY <1>2, <1>5, <2>1, ConcatIs
  <2>. QED
    BY <1>1, <1>2, <2>2
<1>7. PICK all : all = both \o right
  OBVIOUS
<1>8. all \in Seq(S) /\ Len(all) = Len(both) + Len(right)
      /\ (\A j \in 1..Len(both) : all[j] = both[j])
      /\ \A j \in 1..Len(right) : all[Len(both) + j] = right[j]
  <2>1. both \in Seq(S) /\ right \in Seq(S)
    BY <1>3, <1>6
  <2>. QED
    BY <1>7, <2>1, ConcatIs
<1>9. Len(all) = n + 1
  BY <1>1, <1>3, <1>6, <1>8
<1>10. ASSUME NEW j \in 1..(n + 1)
       PROVE  all[j] = IF j < i THEN s[j] ELSE IF j = i THEN e ELSE s[j - 1]
  <2>1. CASE j <= i
    BY <1>1, <1>6, <1>8, <2>1
  <2>2. CASE j > i
    <3>1. j - i \in 1..(n - (i - 1)) /\ i + (j - i) = j /\ (i - 1) + (j - i) = j - 1
      BY <1>1, <2>2
    <3>2. all[j] = right[j - i]
      BY <1>3, <1>6, <1>8, <3>1
    <3>. QED
      BY <1>3, <2>2, <3>1, <3>2
  <2>. QED
    BY <1>1, <2>1, <2>2
<1>. QED
  BY <1>4, <1>5, <1>7, <1>8, <1>9, <1>10 DEF n, IsInserted

\* The last of s that are below k come before the first that are not.
LEMMA BelowIs ==
    ASSUME NEW keys \in Seq(Int), IsIncreasing(keys), NEW k \in Int
    PROVE  /\ Below(keys, k) \in 0..Len(keys)
           /\ \A i \in 1..Len(keys) : keys[i] < k <=> i <= Below(keys, k)
<1>. DEFINE n == Len(keys)
            T == {i \in 1..(n + 1) : i = n + 1 \/ keys[i] >= k}
<1>1. n \in Nat /\ DOMAIN keys = 1..n /\ \A i \in 1..n : keys[i] \in Int
  OBVIOUS
<1>2. PICK m \in T : \A i \in T : m <= i
  <2>1. n + 1 \in T /\ T \in SUBSET Nat
    BY <1>1
  <2>. HIDE DEF T
  <2>. QED
    BY <2>1, LeastNumber
<1>3. ASSUME NEW i \in 1..n
      PROVE  keys[i] < k <=> i <= m - 1
  <2>1. CASE i < m
    BY <1>1, <1>2, <2>1
  <2>2. CASE i >= m
    <3>1. m \in 1..n /\ keys[m] >= k
      BY <1>1, <1>2, <2>2
    <3>2. i = m \/ keys[m] < keys[i]
      BY <1>1, <2>2, <3>1 DEF IsIncreasing
    <3>. QED
      BY <1>1, <2>2, <3>1, <3>2
  <2>. QED
    BY <1>1, <1>2, <2>1, <2>2
<1>4. m - 1 \in 0..n
  BY <1>1, <1>2
<1>5. {i \in DOMAIN keys : keys[i] < k} = 1..(m - 1)
  BY <1>1, <1>3, <1>4
<1>6. Cardinality(1..(m - 1)) = m - 1
  <2>1. m - 1 \in Int /\ 1 \in Int /\ (IF 1 > m - 1 THEN 0 ELSE (m - 1) - 1 + 1) = m - 1
    BY <1>4
  <2>. QED
    BY <2>1, FS_Interval
<1>7. Below(keys, k) = m - 1
  BY <1>5, <1>6 DEF Below
<1>. QED
  BY <1>3, <1>4, <1>7

\* The place of the child that k is in.
Place(keys, k) == Below(keys, k) + (IF k \in ToSet(keys) THEN 2 ELSE 1)

\* Every integer lies between two neighbouring keys of a node in exactly one place, the
\* one the search computes.
LEMMA PlaceIs ==
    ASSUME NEW keys \in Seq(Int), IsIncreasing(keys), NEW k \in Int
    PROVE  /\ Place(keys, k) \in 1..(Len(keys) + 1)
           /\ \A i \in 1..(Len(keys) + 1) : Between(keys, i, k) <=> i = Place(keys, k)
<1>. DEFINE n == Len(keys)
            b == Below(keys, k)
            p == Place(keys, k)
<1>1. n \in Nat /\ DOMAIN keys = 1..n /\ \A i \in 1..n : keys[i] \in Int
  OBVIOUS
<1>2. b \in 0..n /\ \A i \in 1..n : keys[i] < k <=> i <= b
  BY BelowIs
<1>3. \A i, j \in 1..n : i < j => keys[i] < keys[j]
  BY <1>1 DEF IsIncreasing
<1>4. p \in 1..(n + 1) /\ \A i \in 1..n : keys[i] <= k <=> i <= p - 1
  <2>1. CASE k \in ToSet(keys)
    <3>1. PICK j \in 1..n : keys[j] = k
      BY <1>1, <2>1 DEF ToSet
    <3>2. p = b + 2
      BY <2>1 DEF Place
    <3>3. ~(j <= b) /\ \A i \in 1..n : i < j => i <= b
      BY <1>1, <1>2, <1>3, <3>1
    <3>4. j = b + 1
      <4>1. CASE j > b + 1
        BY <1>2, <3>3, <4>1
      <4>. QED
        BY <1>2, <3>3, <4>1
    <3>5. ASSUME NEW i \in 1..n
          PROVE  keys[i] <= k <=> i <= p - 1
      <4>1. i = j \/ i < j \/ i > j
        OBVIOUS
      <4>. HIDE DEF b, p, n
      <4>. QED
        BY <1>1, <1>2, <1>3, <3>1, <3>2, <3>4, <4>1
    <3>6. p \in 1..(n + 1)
      <4>1. n \in Nat /\ b \in 0..n /\ j \in 1..n
        BY <1>1, <1>2
      <4>. HIDE DEF b, p, n
      <4>. QED
        BY <3>2, <3>4, <4>1
    <3>. HIDE DEF b, p, n
    <3>. QED
      BY <3>5, <3>6
  <2>2. CASE k \notin ToSet(keys)
    <3>1. p = b + 1
      BY <2>2 DEF Place
    <3>2. \A i \in 1..n : keys[i] # k
      BY <1>1, <2>2 DEF ToSet
    <3>. HIDE DEF b, p, n
    <3>. QED
      BY <1>1, <1>2, <3>1, <3>2
  <2>. QED
    BY <2>1, <2>2
<1>5. ASSUME NEW i \in 1..(n + 1)
      PROVE  Between(keys, i, k) <=> i = p
  <2>1. i > 1 => (keys[i - 1] <= k <=> i - 1 <= p - 1)
    BY <1>1, <1>4
  <2>2. i <= n => (k < keys[i] <=> ~(i <= p - 1))
    BY <1>1, <1>4
  <2>. HIDE DEF p
  <2>3. Between(keys, i, k) <=> (i > 1 => i <= p) /\ (i <= n => i > p - 1)
    BY <1>1, <1>4, <2>1, <2>2 DEF Between
  <2>. HIDE DEF n
  <2>. QED
    BY <1>1, <1>4, <2>3
<1>. QED
  BY <1>4, <1>5

-----------------------------------------------------------------------------
(* The path of a key. *)

\* The types of the fields of every node.
LEMMA Fields ==
    ASSUME NEW t, Typed(t)
    PROVE  /\ t.nodes \in Seq(NodeRecord) /\ Len(t.nodes) \in Nat
           /\ Nodes(t) = 1..Len(t.nodes) /\ t.root \in Nodes(t)
           /\ \A n \in Nodes(t) :
                /\ t.nodes[n] \in NodeRecord
                /\ IsLeaf(t, n) \in BOOLEAN
                /\ Keys(t, n) \in Seq(Int) /\ Len(Keys(t, n)) \in Nat
                /\ Ids(t, n) \in Seq(Nat)
                /\ Kids(t, n) \in Seq(Nodes(t)) /\ Len(Kids(t, n)) \in Nat
                /\ \A i \in 1..Len(Kids(t, n)) : Kids(t, n)[i] \in Nodes(t)
                /\ Link(t, n) \in Nat
<1>1. t.nodes \in Seq(NodeRecord) /\ Nodes(t) = 1..Len(t.nodes) /\ Len(t.nodes) \in Nat
  BY DEF Typed, Nodes
<1>2. ASSUME NEW n \in Nodes(t)
      PROVE  /\ t.nodes[n] \in NodeRecord
             /\ IsLeaf(t, n) \in BOOLEAN
             /\ Keys(t, n) \in Seq(Int)
             /\ Ids(t, n) \in Seq(Nat)
             /\ Link(t, n) \in Nat
  <2>1. t.nodes[n] \in NodeRecord
    BY <1>1
  <2>. QED
    BY <2>1 DEF NodeRecord, IsLeaf, Keys, Ids, Link
<1>3. \A n \in Nodes(t) : Kids(t, n) \in Seq(Nodes(t))
  BY DEF Typed
<1>4. \A n \in Nodes(t) : Len(Keys(t, n)) \in Nat /\ Len(Kids(t, n)) \in Nat
        /\ \A i \in 1..Len(Kids(t, n)) : Kids(t, n)[i] \in Nodes(t)
  BY <1>2, <1>3
<1>. QED
  BY <1>1, <1>2, <1>3, <1>4 DEF Typed

\* The child that the search of k takes is the one child with k in its range.
LEMMA ChildIs ==
    ASSUME NEW t, NEW height, NEW range, Labelled(t, height, range),
           NEW n \in Nodes(t), ~IsLeaf(t, n), NEW k \in Int
    PROVE  LET i == Place(Keys(t, n), k)
           IN  /\ i \in 1..Len(Kids(t, n)) /\ Kids(t, n)[i] \in Nodes(t)
               /\ ChildFor(t.nodes[n], k) = Kids(t, n)[i]
               /\ height[n] = height[Kids(t, n)[i]] + 1
               /\ \A j \in 1..Len(Kids(t, n)) :
                    k \in range[Kids(t, n)[j]] <=> k \in range[n] /\ j = i
<1>0. Typed(t) /\ Levelled(t, height) /\ Ranged(t, range) /\ Rooted(t)
  BY DEF Labelled
<1>. USE <1>0
<1>. DEFINE i == Place(Keys(t, n), k)
<1>1. Keys(t, n) \in Seq(Int) /\ IsIncreasing(Keys(t, n))
  BY Fields DEF Ranged
<1>2. Len(Kids(t, n)) = Len(Keys(t, n)) + 1
  BY DEF Levelled
<1>3. i \in 1..Len(Kids(t, n)) /\ \A j \in 1..Len(Kids(t, n)) : Between(Keys(t, n), j, k) <=> j = i
  BY <1>1, <1>2, PlaceIs
<1>4. ChildFor(t.nodes[n], k) = Kids(t, n)[i]
  BY DEF ChildFor, Kids, Keys, Place
<1>. HIDE DEF i
<1>5. \A j \in 1..Len(Kids(t, n)) : k \in range[Kids(t, n)[j]] <=> k \in range[n] /\ j = i
  BY <1>3 DEF Ranged, Part
<1>6. Kids(t, n)[i] \in Nodes(t)
  BY <1>3, Fields
<1>7. height[n] = height[Kids(t, n)[i]] + 1
  BY <1>3 DEF Levelled
<1>. QED
  BY <1>3, <1>4, <1>5, <1>6, <1>7 DEF i

\* A node of height 0 is a leaf, and a leaf has no other height.
LEMMA LowestIsLeaf ==
    ASSUME NEW t, NEW height, Typed(t), Levelled(t, height), NEW n \in Nodes(t)
    PROVE  IsLeaf(t, n) <=> height[n] = 0
<1>1. CASE ~IsLeaf(t, n)
  <2>1. Len(Kids(t, n)) = Len(Keys(t, n)) + 1 /\ Len(Keys(t, n)) \in Nat
    BY <1>1, Fields DEF Levelled
  <2>2. 1 \in 1..Len(Kids(t, n))
    BY <2>1
  <2>3. height[n] = height[Kids(t, n)[1]] + 1
    BY <1>1, <2>2 DEF Levelled
  <2>4. height[Kids(t, n)[1]] \in Nat
    BY <2>2, Fields DEF Levelled
  <2>. QED
    BY <1>1, <2>3, <2>4
<1>2. CASE IsLeaf(t, n)
  BY <1>2 DEF Levelled
<1>. QED
  BY <1>1, <1>2

\* p goes from n down to a leaf, from each node to the child that k is in.
IsPath(t, height, k, p, n) ==
    /\ p \in Seq(Nodes(t)) /\ Len(p) = height[n] + 1 /\ p[1] = n
    /\ \A i \in 1..Len(p) : height[p[i]] = Len(p) - i
    /\ \A i \in 1..(Len(p) - 1) :
        ~IsLeaf(t, p[i]) /\ p[i + 1] = Kids(t, p[i])[Place(Keys(t, p[i]), k)]

\* One node more at the top of a path.
LEMMA LongerPath ==
    ASSUME NEW t, NEW height, Typed(t), Levelled(t, height), NEW k \in Int,
           NEW n \in Nodes(t), ~IsLeaf(t, n), NEW c \in Nodes(t),
           c = Kids(t, n)[Place(Keys(t, n), k)], height[n] = height[c] + 1,
           NEW p, IsPath(t, height, k, p, c)
    PROVE  IsPath(t, height, k, <<n>> \o p, n)
<1>. DEFINE D == Nodes(t)
            m == Len(p)
<1>1. p \in Seq(D) /\ m = height[c] + 1 /\ p[1] = c /\ height[c] \in Nat /\ m \in Nat /\ m >= 1
  BY DEF IsPath, Levelled
<1>2. PICK q : q = <<n>> \o p
  OBVIOUS
<1>3. /\ q \in Seq(D) /\ Len(q) = m + 1 /\ q[1] = n
      /\ \A i \in 1..m : q[1 + i] = p[i]
  BY <1>1, <1>2, PutBefore
<1>. HIDE DEF D, m
<1>4. \A i \in 1..(m + 1) : i # 1 => i - 1 \in 1..m /\ q[i] = p[i - 1]
  <2>1. \A i \in 1..(m + 1) : i # 1 => i - 1 \in 1..m /\ 1 + (i - 1) = i
    BY <1>1
  <2>. QED
    BY <1>3, <2>1
<1>5. ASSUME NEW i \in 1..(m + 1)
      PROVE  height[q[i]] = (m + 1) - i
  <2>1. CASE i = 1
    <3>1. height[q[i]] = m
      BY <1>1, <1>3, <2>1
    <3>2. (m + 1) - i = m
      BY <1>1, <2>1
    <3>. QED
      BY <3>1, <3>2
  <2>2. CASE i # 1
    <3>1. height[p[i - 1]] = m - (i - 1)
      BY <1>4, <2>2 DEF IsPath, m
    <3>2. m - (i - 1) = (m + 1) - i
      BY <1>1
    <3>3. q[i] = p[i - 1]
      BY <1>4, <2>2
    <3>. QED
      BY <3>1, <3>2, <3>3
  <2>. QED
    BY <2>1, <2>2
<1>6. ASSUME NEW i \in 1..m
      PROVE  ~IsLeaf(t, q[i]) /\ q[i + 1] = Kids(t, q[i])[Place(Keys(t, q[i]), k)]
  <2>1. i + 1 \in 1..(m + 1) /\ i + 1 # 1 /\ (i + 1) - 1 = i /\ i \in 1..(m + 1)
    BY <1>1
  <2>2. q[i + 1] = p[i]
    BY <1>4, <2>1
  <2>3. CASE i = 1
    BY <1>1, <1>3, <2>2, <2>3
  <2>4. CASE i # 1
    <3>1. i - 1 \in 1..(Len(p) - 1) /\ (i - 1) + 1 = i
      BY <1>1, <2>4 DEF m
    <3>2. ~IsLeaf(t, p[i - 1]) /\ p[i] = Kids(t, p[i - 1])[Place(Keys(t, p[i - 1]), k)]
      BY <3>1 DEF IsPath
    <3>. QED
      BY <1>4, <2>1, <2>2, <2>4, <3>2
  <2>. QED
    BY <2>3, <2>4
<1>7. (m + 1) - 1 = m /\ Len(q) = height[n] + 1
  BY <1>1, <1>3
<1>. QED
  BY <1>2, <1>3, <1>5, <1>6, <1>7 DEF IsPath, D

\* The recursive walk of searchNode ends: it goes from the root down to the leaf whose
\* range the key is in, through nodes whose range the key is in.
LEMMA PathIs ==
    ASSUME NEW t, NEW height, NEW range, Labelled(t, height, range),
           NEW k \in Int
    PROVE  IsPath(t, height, k, Path(t, k), t.root)
<1>0. Typed(t) /\ Levelled(t, height) /\ Ranged(t, range) /\ Rooted(t)
  BY DEF Labelled
<1>. USE <1>0
<1>. DEFINE D == Nodes(t)
            S == Seq(D)
            Child(n) == ChildFor(t.nodes[n], k)
            Round(f, n) == IF t.nodes[n].leaf THEN <<n>> ELSE <<n>> \o f[Child(n)]
            walk == CHOOSE f : f = [n \in D |-> Round(f, n)]
            step == [n \in D |-> [f \in [D -> S] |-> Round(f, n)]]
            N == height[t.root]
<1>1. /\ N \in Nat /\ t.root \in D
      /\ height \in [D -> 0..N]
  BY Fields DEF Levelled
<1>2. \A n \in D : t.nodes[n].leaf = IsLeaf(t, n)
  BY DEF IsLeaf
<1>3. ASSUME NEW n \in D, ~IsLeaf(t, n)
      PROVE  /\ Child(n) = Kids(t, n)[Place(Keys(t, n), k)]
             /\ Child(n) \in D /\ height[n] = height[Child(n)] + 1
  <2>1. PICK i : i = Place(Keys(t, n), k)
    OBVIOUS
  <2>2. /\ i \in 1..Len(Kids(t, n)) /\ Kids(t, n)[i] \in Nodes(t)
        /\ ChildFor(t.nodes[n], k) = Kids(t, n)[i]
        /\ height[n] = height[Kids(t, n)[i]] + 1
    BY <1>3, <2>1, ChildIs
  <2>. QED
    BY <2>1, <2>2
<1>. HIDE DEF Child
<1>4. \A n \in D : \A f \in [D -> S] : step[n][f] = Round(f, n) /\ Round(f, n) \in S
  <2>1. ASSUME NEW n \in D, NEW f \in [D -> S] PROVE Round(f, n) \in S
    <3>1. <<n>> \in S
      OBVIOUS
    <3>2. CASE IsLeaf(t, n)
      BY <1>2, <3>1, <3>2
    <3>3. CASE ~IsLeaf(t, n)
      <4>1. f[Child(n)] \in S
        BY <1>3, <3>3
      <4>. HIDE DEF D
      <4>2. <<n>> \o f[Child(n)] \in S
        BY <3>1, <4>1, ConcatIs
      <4>. QED
        BY <1>2, <3>3, <4>2
    <3>. QED
      BY <3>2, <3>3
  <2>. HIDE DEF Round, S, D
  <2>. QED
    BY <2>1
<1>5. step \in [D -> [[D -> S] -> S]]
  <2>. HIDE DEF Round, S, D
  <2>. QED
    BY <1>4
<1>6. \A n \in D : \A f, g \in [D -> S] :
        (\A m \in D : height[m] < height[n] => f[m] = g[m]) => step[n][f] = step[n][g]
  <2>. SUFFICES ASSUME NEW n \in D, NEW f \in [D -> S], NEW g \in [D -> S],
                       \A m \in D : height[m] < height[n] => f[m] = g[m]
                PROVE  Round(f, n) = Round(g, n)
    <3>. HIDE DEF Round, S, D
    <3>. QED
      BY <1>4
  <2>1. CASE IsLeaf(t, n)
    BY <1>2, <2>1
  <2>2. CASE ~IsLeaf(t, n)
    <3>1. height[Child(n)] < height[n] /\ Child(n) \in D
      BY <1>1, <1>3, <2>2
    <3>2. f[Child(n)] = g[Child(n)]
      BY <3>1
    <3>. QED
      BY <3>2
  <2>. QED
    BY <2>1, <2>2
<1>7. S # {}
  <2>1. <<t.root>> \in S
    BY <1>1
  <2>. QED
    BY <2>1
<1>. HIDE DEF step, S, D, N
<1>8. PICK f \in [D -> S] : \A n \in D : f[n] = step[n][f]
  <2>1. PICK Fs : Fs = [D -> S]
    OBVIOUS
  <2>2. step \in [D -> [Fs -> S]]
    BY <1>5, <2>1, Zenon
  <2>3. \A n \in D : \A f, g \in Fs :
            (\A m \in D : height[m] < height[n] => f[m] = g[m]) => step[n][f] = step[n][g]
    BY <1>6, <2>1
  <2>4. IsRanked(D, S, N, height, Fs, step)
    BY <1>1, <1>7, <2>1, <2>2, <2>3 DEF IsRanked
  <2>5. \E f \in Fs : \A n \in D : f[n] = step[n][f]
    BY <2>4, RankedRecursion
  <2>. QED
    BY <2>1, <2>5
<1>. HIDE DEF Round
<1>9. \A n \in D : f[n] = Round(f, n)
  BY <1>4, <1>8
<1>10. f = [n \in D |-> Round(f, n)]
  BY <1>8, <1>9
<1>11. walk = [n \in D |-> Round(walk, n)]
  BY <1>10
<1>12. Path(t, k) = walk[t.root]
  BY DEF Path, Round, D, Nodes, Child
<1>. HIDE DEF walk
<1>13. \A n \in D : walk[n] = IF IsLeaf(t, n) THEN <<n>> ELSE <<n>> \o walk[Child(n)]
  BY <1>2, <1>11 DEF Round
<1>. DEFINE T == {j \in Nat : \A n \in D : height[n] = j => IsPath(t, height, k, walk[n], n)}
<1>14. 0 \in T
  <2>1. ASSUME NEW n \in D, height[n] = 0
        PROVE  IsPath(t, height, k, walk[n], n)
    <3>1. walk[n] = <<n>>
      BY <1>13, <2>1, LowestIsLeaf DEF D
    <3>2. <<n>> \in Seq(D) /\ Len(<<n>>) = 1 /\ <<n>>[1] = n
      OBVIOUS
    <3>. QED
      BY <2>1, <3>1, <3>2 DEF IsPath, D
  <2>. QED
    BY <2>1
<1>15. ASSUME NEW j \in Nat, j \in T
       PROVE  j + 1 \in T
  <2>1. ASSUME NEW n \in D, height[n] = j + 1
        PROVE  IsPath(t, height, k, walk[n], n)
    <3>1. ~IsLeaf(t, n)
      BY <2>1, LowestIsLeaf DEF D
    <3>2. Child(n) \in D /\ height[n] = height[Child(n)] + 1
          /\ Child(n) = Kids(t, n)[Place(Keys(t, n), k)]
      BY <1>3, <3>1
    <3>3. height[Child(n)] = j
      BY <1>1, <2>1, <3>2
    <3>4. IsPath(t, height, k, walk[Child(n)], Child(n))
      BY <1>15, <3>2, <3>3
    <3>5. IsPath(t, height, k, <<n>> \o walk[Child(n)], n)
      BY <3>1, <3>2, <3>4, LongerPath DEF D
    <3>. QED
      BY <1>13, <3>1, <3>5
  <2>. QED
    BY <2>1
<1>16. Nat \subseteq T
  <2>. HIDE DEF T
  <2>. QED
    BY <1>14, <1>15, SetInduction
<1>17. N \in T
  BY <1>1, <1>16
<1>. QED
  BY <1>1, <1>12, <1>17 DEF D, N

\* The path of k is in the ranges that have k.
LEMMA PathHasKey ==
    ASSUME NEW t, NEW height, NEW range, Labelled(t, height, range),
           NEW k \in Int
    PROVE  \A i \in 1..Len(Path(t, k)) : Path(t, k)[i] \in Nodes(t) /\ k \in range[Path(t, k)[i]]
<1>0. Typed(t) /\ Levelled(t, height) /\ Ranged(t, range) /\ Rooted(t)
  BY DEF Labelled
<1>. USE <1>0
<1>. DEFINE p == Path(t, k)
            m == Len(p)
            T == {i \in 0..(m - 1) : k \in range[p[i + 1]]}
<1>1. /\ p \in Seq(Nodes(t)) /\ m = height[t.root] + 1 /\ p[1] = t.root
      /\ \A i \in 1..(m - 1) :
            ~IsLeaf(t, p[i]) /\ p[i + 1] = Kids(t, p[i])[Place(Keys(t, p[i]), k)]
  BY PathIs DEF IsPath
<1>2. m \in Nat /\ m >= 1 /\ \A i \in 1..m : p[i] \in Nodes(t)
  <2>1. height[t.root] \in Nat
    BY Fields DEF Levelled
  <2>. QED
    BY <1>1, <2>1
<1>. HIDE DEF p, m
<1>3. 0 \in T
  BY <1>1, <1>2 DEF Ranged
<1>4. ASSUME NEW i \in 0..((m - 1) - 1), i \in T
      PROVE  i + 1 \in T
  <2>1. i + 1 \in 1..(m - 1) /\ i + 1 \in 0..(m - 1) /\ i + 1 \in 1..m
    BY <1>2
  <2>2. PICK n \in Nodes(t) : n = p[i + 1]
    BY <1>2, <2>1
  <2>3. ~IsLeaf(t, n) /\ p[(i + 1) + 1] = Kids(t, n)[Place(Keys(t, n), k)] /\ k \in range[n]
    BY <1>1, <1>4, <2>1, <2>2
  <2>4. k \in range[Kids(t, n)[Place(Keys(t, n), k)]]
    BY <2>3, ChildIs
  <2>. QED
    BY <2>1, <2>3, <2>4
<1>5. 0..(m - 1) \subseteq T
  <2>1. m - 1 \in Nat
    BY <1>2
  <2>. HIDE DEF T
  <2>. QED
    BY <1>3, <1>4, <2>1, UpInduction
<1>6. ASSUME NEW i \in 1..m
      PROVE  k \in range[p[i]]
  <2>1. i - 1 \in 0..(m - 1) /\ (i - 1) + 1 = i
    BY <1>2
  <2>2. i - 1 \in T
    BY <1>5, <2>1
  <2>. QED
    BY <2>1, <2>2
<1>. QED
  BY <1>2, <1>6 DEF p, m

\* A child's range is a part of its parent's.
LEMMA ChildInParent ==
    ASSUME NEW t, NEW height, NEW range, Labelled(t, height, range),
           NEW n \in Nodes(t), NEW i \in 1..Len(Kids(t, n))
    PROVE  /\ ~IsLeaf(t, n) /\ Kids(t, n)[i] \in Nodes(t)
           /\ height[n] = height[Kids(t, n)[i]] + 1
           /\ range[Kids(t, n)[i]] \subseteq range[n]
<1>0. Typed(t) /\ Levelled(t, height) /\ Ranged(t, range) /\ Rooted(t)
  BY DEF Labelled
<1>. USE <1>0
<1>1. ~IsLeaf(t, n)
  <2>1. SUFFICES ASSUME IsLeaf(t, n) PROVE FALSE
    OBVIOUS
  <2>2. Len(Kids(t, n)) = 0
    BY <2>1 DEF Levelled
  <2>. QED
    BY <2>2
<1>2. range[Kids(t, n)[i]] \subseteq range[n]
  BY <1>1 DEF Ranged, Part
<1>. QED
  BY <1>1, <1>2, Fields DEF Levelled

\* A key of a child's range takes the search from the parent to that child.
LEMMA ParentHasKey ==
    ASSUME NEW t, NEW height, NEW range, Labelled(t, height, range),
           NEW n \in Nodes(t), NEW i \in 1..Len(Kids(t, n)), NEW k \in Int,
           k \in range[Kids(t, n)[i]]
    PROVE  /\ ~IsLeaf(t, n) /\ height[n] = height[Kids(t, n)[i]] + 1
           /\ k \in range[n] /\ i = Place(Keys(t, n), k)
<1>1. ~IsLeaf(t, n) /\ height[n] = height[Kids(t, n)[i]] + 1 /\ k \in range[n]
  BY ChildInParent
<1>2. i = Place(Keys(t, n), k)
  BY <1>1, ChildIs
<1>. QED
  BY <1>1, <1>2

\* Every node with k in its range is on the path of k, at the place that its height
\* gives it.
LEMMA OnPath ==
    ASSUME NEW t, NEW height, NEW range, Labelled(t, height, range), NEW k \in Int, NEW n \in Nodes(t), k \in range[n]
    PROVE  n = Path(t, k)[(height[t.root] - height[n]) + 1]
<1>0. Typed(t) /\ Levelled(t, height) /\ Ranged(t, range) /\ Rooted(t)
  BY DEF Labelled
<1>. USE <1>0
<1>. DEFINE p == Path(t, k)
            H == height[t.root]
            T == {d \in 0..H : \A q \in Nodes(t) :
                    height[q] = H - d /\ k \in range[q] => p[d + 1] = q}
<1>1. /\ H \in Nat /\ Len(p) = H + 1 /\ p[1] = t.root /\ t.root \in Nodes(t)
      /\ \A i \in 1..H : p[i + 1] = Kids(t, p[i])[Place(Keys(t, p[i]), k)]
  <2>1. H \in Nat /\ t.root \in Nodes(t)
    BY Fields DEF Levelled
  <2>2. Len(p) = H + 1 /\ p[1] = t.root
        /\ \A i \in 1..(Len(p) - 1) : p[i + 1] = Kids(t, p[i])[Place(Keys(t, p[i]), k)]
    BY PathIs DEF IsPath
  <2>. HIDE DEF p, H
  <2>3. Len(p) - 1 = H
    BY <2>1, <2>2
  <2>. QED
    BY <2>1, <2>2, <2>3
<1>2. \A q \in Nodes(t) : height[q] \in Nat /\ height[q] <= H
  BY DEF Levelled

\* A parent is one level higher and has every key of the range of the child.
<1>3. ASSUME NEW q \in Nodes(t), q # t.root, k \in range[q]
      PROVE  \E u \in Nodes(t) : /\ height[u] = height[q] + 1 /\ k \in range[u]
                                 /\ q = Kids(t, u)[Place(Keys(t, u), k)]
  <2>0. PICK u \in Nodes(t) : \E i \in 1..Len(Kids(t, u)) : Kids(t, u)[i] = q
    BY <1>3 DEF Rooted
  <2>1. PICK i \in 1..Len(Kids(t, u)) : Kids(t, u)[i] = q
    BY <2>0
  <2>2. ~IsLeaf(t, u) /\ height[u] = height[q] + 1 /\ k \in range[u]
    BY <1>3, <2>1, ChildInParent
  <2>3. i = Place(Keys(t, u), k)
    BY <1>3, <2>1, <2>2, ChildIs
  <2>. QED
    BY <2>1, <2>2, <2>3
<1>. HIDE DEF p, H
<1>4. 0 \in T
  <2>1. ASSUME NEW q \in Nodes(t), height[q] = H - 0, k \in range[q]
        PROVE  q = t.root
    <3>1. SUFFICES ASSUME q # t.root PROVE FALSE
      OBVIOUS
    <3>2. PICK u \in Nodes(t) : height[u] = height[q] + 1
      BY <1>3, <2>1, <3>1
    <3>3. height[u] <= H /\ height[u] \in Nat
      BY <1>2
    <3>. QED
      BY <1>1, <2>1, <3>2, <3>3
  <2>. QED
    BY <1>1, <2>1
<1>5. ASSUME NEW d \in 0..(H - 1), d \in T
      PROVE  d + 1 \in T
  <2>1. ASSUME NEW q \in Nodes(t), height[q] = H - (d + 1), k \in range[q]
        PROVE  p[(d + 1) + 1] = q
    <3>1. q # t.root
      BY <1>1, <2>1 DEF H
    <3>2. PICK u \in Nodes(t) : /\ height[u] = height[q] + 1 /\ k \in range[u]
                                /\ q = Kids(t, u)[Place(Keys(t, u), k)]
      BY <1>3, <2>1, <3>1
    <3>3. height[u] = H - d
      BY <1>1, <2>1, <3>2
    <3>4. p[d + 1] = u /\ d + 1 \in 1..H
      BY <1>1, <1>5, <3>2, <3>3
    <3>. QED
      BY <1>1, <3>2, <3>4
  <2>2. d + 1 \in 0..H
    BY <1>1
  <2>. QED
    BY <2>1, <2>2
<1>6. 0..H \subseteq T
  <2>. HIDE DEF T
  <2>. QED
    BY <1>1, <1>4, <1>5, UpInduction
<1>7. H - height[n] \in 0..H /\ height[n] = H - (H - height[n])
  BY <1>1, <1>2
<1>8. H - height[n] \in T
  BY <1>6, <1>7
<1>9. p[(H - height[n]) + 1] = n
  BY <1>7, <1>8
<1>. QED
  BY <1>9 DEF p, H

\* Two nodes of one height that share a key are one node; the root is no child, and
\* a node is a child of one node, at one place.
LEMMA OneAtEachHeight ==
    ASSUME NEW t, NEW height, NEW range, Labelled(t, height, range)
    PROVE  /\ \A n, m \in Nodes(t) : \A k \in Int :
                height[n] = height[m] /\ k \in range[n] /\ k \in range[m] => n = m
           /\ \A n \in Nodes(t) : \A i \in 1..Len(Kids(t, n)) : Kids(t, n)[i] # t.root
           /\ \A n, m \in Nodes(t) : \A i \in 1..Len(Kids(t, n)) : \A j \in 1..Len(Kids(t, m)) :
                Kids(t, n)[i] = Kids(t, m)[j] => n = m /\ i = j
<1>0. Typed(t) /\ Levelled(t, height) /\ Ranged(t, range) /\ Rooted(t)
  BY DEF Labelled
<1>. USE <1>0
<1>1. ASSUME NEW n \in Nodes(t), NEW m \in Nodes(t), NEW k \in Int,
             height[n] = height[m], k \in range[n], k \in range[m]
      PROVE  n = m
  <2>1. n = Path(t, k)[(height[t.root] - height[n]) + 1]
    BY <1>1, OnPath
  <2>2. m = Path(t, k)[(height[t.root] - height[m]) + 1]
    BY <1>1, OnPath
  <2>. QED
    BY <1>1, <2>1, <2>2
<1>2. ASSUME NEW n \in Nodes(t), NEW i \in 1..Len(Kids(t, n)), Kids(t, n)[i] = t.root
      PROVE  FALSE
  <2>1. height[n] = height[t.root] + 1
    BY <1>2, ChildInParent
  <2>2. height[n] <= height[t.root] /\ height[n] \in Nat /\ height[t.root] \in Nat
    BY Fields DEF Levelled
  <2>. QED
    BY <2>1, <2>2
<1>3. ASSUME NEW n \in Nodes(t), NEW m \in Nodes(t), NEW i \in 1..Len(Kids(t, n)),
             NEW j \in 1..Len(Kids(t, m)), Kids(t, n)[i] = Kids(t, m)[j]
      PROVE  n = m /\ i = j
  <2>1. PICK c \in Nodes(t) : c = Kids(t, n)[i] /\ c = Kids(t, m)[j]
    BY <1>3, Fields
  <2>2. PICK k \in Int : k \in range[c]
    BY DEF Ranged
  <2>6. \A q \in Nodes(t) : \A l \in 1..Len(Kids(t, q)) : Kids(t, q)[l] = c =>
            ~IsLeaf(t, q) /\ height[q] = height[c] + 1 /\ k \in range[q] /\ l = Place(Keys(t, q), k)
    <3>1. SUFFICES ASSUME NEW q \in Nodes(t), NEW l \in 1..Len(Kids(t, q)), Kids(t, q)[l] = c
                   PROVE  ~IsLeaf(t, q) /\ height[q] = height[c] + 1 /\ k \in range[q]
                          /\ l = Place(Keys(t, q), k)
      OBVIOUS
    <3>. QED
      BY <2>2, <3>1, ParentHasKey
  <2>3. /\ ~IsLeaf(t, n) /\ height[n] = height[c] + 1 /\ k \in range[n]
        /\ ~IsLeaf(t, m) /\ height[m] = height[c] + 1 /\ k \in range[m]
    BY <2>1, <2>6
  <2>4. n = m
    BY <1>1, <2>3
  <2>5. i = Place(Keys(t, n), k) /\ j = Place(Keys(t, n), k)
    BY <2>1, <2>6, <2>4
  <2>. QED
    BY <2>4, <2>5
<1>. QED
  BY <1>1, <1>2, <1>3

\* The leaf at the end of the path of k is the one that has k in its range.
LEMMA LeafOfKey ==
    ASSUME NEW t, NEW height, NEW range, Labelled(t, height, range), NEW k \in Int
    PROVE  LET n == Last(Path(t, k))
           IN  /\ n \in Nodes(t) /\ IsLeaf(t, n) /\ k \in range[n]
               /\ \A m \in Nodes(t) : IsLeaf(t, m) /\ k \in range[m] => m = n
<1>0. Typed(t) /\ Levelled(t, height) /\ Ranged(t, range) /\ Rooted(t)
  BY DEF Labelled
<1>. USE <1>0
<1>. DEFINE p == Path(t, k)
            n == Last(p)
<1>1. p \in Seq(Nodes(t)) /\ Len(p) = height[t.root] + 1 /\ \A i \in 1..Len(p) : height[p[i]] = Len(p) - i
  BY PathIs DEF IsPath
<1>2. height[t.root] \in Nat
  BY Fields DEF Levelled
<1>3. Len(p) \in 1..Len(p) /\ n = p[Len(p)]
  <2>. HIDE DEF p
  <2>. QED
    BY <1>1, <1>2 DEF Last
<1>4. n \in Nodes(t) /\ k \in range[n]
  BY <1>3, PathHasKey
<1>5. height[n] = 0
  <2>. HIDE DEF p
  <2>1. height[p[Len(p)]] = Len(p) - Len(p)
    BY <1>1, <1>3
  <2>2. Len(p) \in Nat
    BY <1>1, <1>2
  <2>. QED
    BY <1>3, <2>1, <2>2
<1>6. IsLeaf(t, n)
  BY <1>4, <1>5, LowestIsLeaf
<1>7. ASSUME NEW m \in Nodes(t), IsLeaf(t, m), k \in range[m]
      PROVE  m = n
  <2>1. height[m] = 0
    BY <1>7, LowestIsLeaf
  <2>. HIDE DEF n
  <2>. QED
    BY <1>4, <1>5, <1>7, <2>1, OneAtEachHeight
<1>. QED
  BY <1>4, <1>6, <1>7

-----------------------------------------------------------------------------
(* What a split does to the nodes. *)

\* Where a node of two or more keys is cut, there is a key on its left and one to hand up.
LEMMA HalfIs ==
    ASSUME NEW l \in Nat, l >= 2
    PROVE  l \div 2 \in Nat /\ l \div 2 >= 1 /\ (l \div 2) + 1 <= l
OBVIOUS

\* u is t with node n, child i of parent, cut before and after key m, at place mid + 1.
IsSplit(t, u, n, parent, i, new, mid, m) ==
    /\ new = Len(t.nodes) + 1 /\ Nodes(u) = Nodes(t) \cup {new} /\ u.root = t.root
    /\ mid \in Nat /\ mid >= 1 /\ mid + 1 <= Len(Keys(t, n)) /\ m = Keys(t, n)[mid + 1]
    /\ \A q \in Nodes(t) \ {n, parent} : u.nodes[q] = t.nodes[q]
    /\ IsLeaf(u, n) = IsLeaf(t, n) /\ IsLeaf(u, new) = IsLeaf(t, n) /\ IsLeaf(u, parent) = FALSE
    /\ Keys(u, n) = UpTo(Keys(t, n), mid) /\ Keys(u, new) = After(Keys(t, n), mid + 1)
    /\ Keys(u, parent) = InsertAt(Keys(t, parent), i, m)
    /\ Kids(u, parent) = InsertAt(Kids(t, parent), i + 1, new)
    /\ Ids(u, parent) = <<>> /\ Link(u, parent) = NoLeaf
    /\ IF IsLeaf(t, n)
       THEN /\ Kids(u, n) = <<>> /\ Kids(u, new) = <<>>
            /\ Ids(u, n) = UpTo(Ids(t, n), mid) /\ Ids(u, new) = After(Ids(t, n), mid + 1)
            /\ Link(u, n) = new /\ Link(u, new) = Link(t, n)
       ELSE /\ Kids(u, n) = UpTo(Kids(t, n), mid + 1) /\ Kids(u, new) = After(Kids(t, n), mid + 1)
            /\ Ids(u, n) = <<>> /\ Ids(u, new) = <<>>
            /\ Link(u, n) = NoLeaf /\ Link(u, new) = NoLeaf

\* What split assigns to the node, to its new sibling and to their parent, and that it
\* assigns to nothing else.
LEMMA SplitIs ==
    ASSUME NEW t, NEW height, NEW range, Labelled(t, height, range),
           NEW parent \in Nodes(t), NEW i \in 1..Len(Kids(t, parent)), NEW n \in Nodes(t),
           n = Kids(t, parent)[i], Len(Keys(t, n)) >= 2
    PROVE  LET u == Split(t, n, parent)
               mid == Len(Keys(t, n)) \div 2
           IN  /\ Typed(u)
               /\ IsSplit(t, u, n, parent, i, Len(t.nodes) + 1, mid, Keys(t, n)[mid + 1])
<1>0. Typed(t) /\ Levelled(t, height) /\ Ranged(t, range) /\ Rooted(t)
  BY DEF Labelled
<1>. USE <1>0
<1>. DEFINE N == Len(t.nodes)
            new == N + 1
            mid == Len(Keys(t, n)) \div 2
            m == Keys(t, n)[mid + 1]
            u == Split(t, n, parent)
            low == LeftHalf(t.nodes[n], new)
            high == RightHalf(t.nodes[n])
            above == Internal(InsertAt(Keys(t, parent), i, m), InsertAt(Kids(t, parent), i + 1, new))
<1>1. N \in Nat /\ Nodes(t) = 1..N /\ DOMAIN t.nodes = 1..N /\ t.nodes \in Seq(NodeRecord)
  BY Fields DEF Nodes
<1>2. mid \in Nat /\ mid >= 1 /\ mid + 1 <= Len(Keys(t, n)) /\ m \in Int
  <2>1. Len(Keys(t, n)) \in Nat /\ Keys(t, n) \in Seq(Int)
    BY Fields
  <2>2. mid \in Nat /\ mid >= 1 /\ mid + 1 <= Len(Keys(t, n))
    BY <2>1, HalfIs
  <2>. HIDE DEF mid
  <2>. QED
    BY <2>1, <2>2
<1>3. n # parent /\ ~IsLeaf(t, parent)
  <2>1. height[parent] = height[n] + 1 /\ height[n] \in Nat /\ ~IsLeaf(t, parent)
    BY ChildInParent DEF Levelled
  <2>. QED
    BY <2>1

\* The place of n among the children of its parent is the one that Split chooses.
<1>4. (CHOOSE j \in DOMAIN t.nodes[parent].children : t.nodes[parent].children[j] = n) = i
  <2>1. DOMAIN Kids(t, parent) = 1..Len(Kids(t, parent))
    BY Fields
  <2>2. \A j \in 1..Len(Kids(t, parent)) : Kids(t, parent)[j] = n => j = i
    BY OneAtEachHeight
  <2>3. (CHOOSE j \in DOMAIN Kids(t, parent) : Kids(t, parent)[j] = n) = i
    BY <2>1, <2>2
  <2>. QED
    BY <2>3 DEF Kids
<1>5. Middle(t.nodes[n]) = mid /\ t.nodes[n].keys[mid + 1] = m
  BY DEF Middle, Keys
<1>6. u = [t EXCEPT !.nodes = Append([t.nodes EXCEPT ![n] = low, ![parent] = above], high)]
  BY <1>4, <1>5 DEF Split, Keys, Kids
<1>7. low = IF IsLeaf(t, n)
            THEN Leaf(UpTo(Keys(t, n), mid), UpTo(Ids(t, n), mid), new)
            ELSE Internal(UpTo(Keys(t, n), mid), UpTo(Kids(t, n), mid + 1))
  BY <1>5 DEF LeftHalf, IsLeaf, Keys, Ids, Kids
<1>8. high = IF IsLeaf(t, n)
             THEN Leaf(After(Keys(t, n), mid + 1), After(Ids(t, n), mid + 1), Link(t, n))
             ELSE Internal(After(Keys(t, n), mid + 1), After(Kids(t, n), mid + 1))
  BY <1>5 DEF RightHalf, IsLeaf, Keys, Ids, Kids, Link
<1>. HIDE DEF mid, m, N, u, low, high, above

\* The pieces have their types.
<1>9. /\ UpTo(Keys(t, n), mid) \in Seq(Int) /\ After(Keys(t, n), mid + 1) \in Seq(Int)
      /\ InsertAt(Keys(t, parent), i, m) \in Seq(Int)
  <2>0. Keys(t, n) \in Seq(Int) /\ Len(Keys(t, n)) \in Nat /\ Keys(t, parent) \in Seq(Int)
    BY Fields
  <2>1. mid \in 0..Len(Keys(t, n)) /\ mid + 1 \in 0..Len(Keys(t, n))
    BY <1>2, <2>0
  <2>2. i \in 1..(Len(Keys(t, parent)) + 1)
    BY <1>3 DEF Levelled
  <2>. QED
    BY <1>2, <2>0, <2>1, <2>2, UpToIs, AfterIs, InsertAtIs
<1>27. \A q \in Nodes(t) : Kids(t, q) \in Seq(1..(N + 1))
  <2>1. Nodes(t) \subseteq 1..(N + 1)
    BY <1>1
  <2>2. \A q \in Nodes(t) : Kids(t, q) \in Seq(Nodes(t))
    BY Fields
  <2>. QED
    BY ZenonT(30), <2>1, <2>2, WiderSeq
<1>10. InsertAt(Kids(t, parent), i + 1, new) \in Seq(1..(N + 1))
  <2>1. Kids(t, parent) \in Seq(1..(N + 1))
    BY <1>27
  <2>2. i + 1 \in 1..(Len(Kids(t, parent)) + 1) /\ new \in 1..(N + 1)
    BY <1>1, Fields
  <2>. QED
    BY <2>1, <2>2, InsertAtIs
<1>11. IsLeaf(t, n) =>
        /\ UpTo(Ids(t, n), mid) \in Seq(Nat) /\ After(Ids(t, n), mid + 1) \in Seq(Nat)
        /\ Link(t, n) \in Nat
  <2>1. SUFFICES ASSUME IsLeaf(t, n)
                 PROVE  /\ UpTo(Ids(t, n), mid) \in Seq(Nat)
                        /\ After(Ids(t, n), mid + 1) \in Seq(Nat)
                        /\ Link(t, n) \in Nat
    OBVIOUS
  <2>2. /\ Ids(t, n) \in Seq(Nat) /\ Len(Ids(t, n)) = Len(Keys(t, n)) /\ Link(t, n) \in Nat
        /\ Len(Keys(t, n)) \in Nat
    BY <2>1, Fields DEF Levelled
  <2>3. mid \in 0..Len(Ids(t, n)) /\ mid + 1 \in 0..Len(Ids(t, n))
    BY <1>2, <2>2
  <2>. QED
    BY <2>2, <2>3, UpToIs, AfterIs
<1>12. ~IsLeaf(t, n) =>
        UpTo(Kids(t, n), mid + 1) \in Seq(1..(N + 1)) /\ After(Kids(t, n), mid + 1) \in Seq(1..(N + 1))
  <2>1. SUFFICES ASSUME ~IsLeaf(t, n)
                 PROVE  /\ UpTo(Kids(t, n), mid + 1) \in Seq(1..(N + 1))
                        /\ After(Kids(t, n), mid + 1) \in Seq(1..(N + 1))
    OBVIOUS
  <2>2. Kids(t, n) \in Seq(1..(N + 1)) /\ Len(Kids(t, n)) = Len(Keys(t, n)) + 1
    BY <1>27, <2>1 DEF Levelled
  <2>3. mid + 1 \in 0..Len(Kids(t, n))
    <3>1. Len(Keys(t, n)) \in Nat
      BY Fields
    <3>. QED
      BY <1>2, <2>2, <3>1
  <2>. QED
    BY <2>2, <2>3, UpToIs, AfterIs
<1>13. \A s \in Seq(1..(N + 1)) : s \in Seq(Nat)
  BY <1>1
<1>14. new \in Nat /\ <<>> \in Seq(1..(N + 1)) /\ <<>> \in Seq(Nat) /\ NoLeaf \in Nat
  BY <1>1 DEF NoLeaf
<1>15. above \in NodeRecord /\ above.children \in Seq(1..(N + 1))
  BY <1>9, <1>10, <1>13, <1>14 DEF above, Internal, NodeRecord
<1>16. low \in NodeRecord /\ low.children \in Seq(1..(N + 1))
  <2>1. CASE IsLeaf(t, n)
    BY <1>7, <1>9, <1>11, <1>14, <2>1 DEF Leaf, NodeRecord
  <2>2. CASE ~IsLeaf(t, n)
    BY <1>7, <1>9, <1>12, <1>13, <1>14, <2>2 DEF Internal, NodeRecord
  <2>. QED
    BY <2>1, <2>2
<1>17. high \in NodeRecord /\ high.children \in Seq(1..(N + 1))
  <2>1. CASE IsLeaf(t, n)
    BY <1>8, <1>9, <1>11, <1>14, <2>1 DEF Leaf, NodeRecord
  <2>2. CASE ~IsLeaf(t, n)
    BY <1>8, <1>9, <1>12, <1>13, <1>14, <2>2 DEF Internal, NodeRecord
  <2>. QED
    BY <2>1, <2>2

\* The nodes of the split tree.
<1>18. PICK cut \in Seq(NodeRecord) :
          /\ cut = [t.nodes EXCEPT ![n] = low, ![parent] = above] /\ Len(cut) = N
          /\ cut[n] = low /\ cut[parent] = above
          /\ \A q \in 1..N : q # n /\ q # parent => cut[q] = t.nodes[q]
  <2>1. [t.nodes EXCEPT ![n] = low, ![parent] = above] \in [1..N -> NodeRecord]
    <3>1. t.nodes \in [1..N -> NodeRecord]
      BY <1>1
    <3>. QED
      BY <3>1, <1>15, <1>16
  <2>2. \A f \in [1..N -> NodeRecord] : f \in Seq(NodeRecord) /\ Len(f) = N
    BY <1>1
  <2>. QED
    BY <1>1, <1>3, <2>1, <2>2
<1>19. /\ u.nodes = Append(cut, high) /\ u.root = t.root
       /\ u = [nodes |-> u.nodes, root |-> u.root]
  BY <1>6, <1>18 DEF Typed
<1>20. /\ u.nodes \in Seq(NodeRecord) /\ DOMAIN u.nodes = 1..(N + 1)
       /\ u.nodes[n] = low /\ u.nodes[parent] = above /\ u.nodes[N + 1] = high
       /\ \A q \in Nodes(t) \ {n, parent} : u.nodes[q] = t.nodes[q]
  <2>1. /\ Append(cut, high) \in Seq(NodeRecord) /\ Len(Append(cut, high)) = N + 1
        /\ Append(cut, high)[N + 1] = high
        /\ \A q \in 1..N : Append(cut, high)[q] = cut[q]
    <3>1. cut \in Seq(NodeRecord) /\ Len(cut) = N /\ high \in NodeRecord
      BY <1>17, <1>18
    <3>. QED
      BY <3>1, AppendIs
  <2>2. /\ u.nodes \in Seq(NodeRecord) /\ Len(u.nodes) = N + 1 /\ u.nodes[N + 1] = high
        /\ \A q \in 1..N : u.nodes[q] = cut[q]
    BY <1>19, <2>1
  <2>3. DOMAIN u.nodes = 1..(N + 1)
    BY <1>1, <2>2
  <2>4. n \in 1..N /\ parent \in 1..N /\ Nodes(t) = 1..N
    BY <1>1
  <2>. QED
    BY <1>18, <2>2, <2>3, <2>4
<1>21. Typed(u)
  <2>1. ASSUME NEW q \in Nodes(u)
        PROVE  Kids(u, q) \in Seq(Nodes(u))
    <3>1. Nodes(u) = 1..(N + 1)
      BY <1>20 DEF Nodes
    <3>2. CASE q \in {n, parent, N + 1}
      BY <1>15, <1>16, <1>17, <1>20, <3>1, <3>2 DEF Kids
    <3>3. CASE q \notin {n, parent, N + 1}
      <4>1. q \in Nodes(t) /\ Kids(u, q) = Kids(t, q)
        BY <1>1, <1>20, <3>1, <3>3 DEF Kids
      <4>. QED
        BY <1>27, <3>1, <4>1
    <3>. QED
      BY <3>2, <3>3
  <2>2. u.root \in Nat /\ u.root \in Nodes(u)
    <3>1. t.root \in 1..N /\ Nodes(u) = 1..(N + 1)
      BY <1>1, <1>20, Fields DEF Nodes
    <3>. QED
      BY <1>1, <1>19, <3>1
  <2>. QED
    BY <1>19, <1>20, <2>1, <2>2 DEF Typed
<1>22. Nodes(u) = Nodes(t) \cup {new}
  BY <1>1, <1>20 DEF Nodes
<1>23. IsLeaf(u, n) = IsLeaf(t, n) /\ IsLeaf(u, new) = IsLeaf(t, n) /\ IsLeaf(u, parent) = FALSE
       /\ Keys(u, n) = UpTo(Keys(t, n), mid) /\ Keys(u, new) = After(Keys(t, n), mid + 1)
  <2>1. CASE IsLeaf(t, n)
    BY <1>7, <1>8, <1>20, <2>1 DEF IsLeaf, Keys, Leaf, Internal, above
  <2>2. CASE ~IsLeaf(t, n)
    <3>1. IsLeaf(t, n) = FALSE
      BY <2>2, Fields
    <3>2. /\ low = Internal(UpTo(Keys(t, n), mid), UpTo(Kids(t, n), mid + 1))
          /\ high = Internal(After(Keys(t, n), mid + 1), After(Kids(t, n), mid + 1))
      BY <1>7, <1>8, <2>2
    <3>3. /\ low.leaf = FALSE /\ low.keys = UpTo(Keys(t, n), mid)
          /\ high.leaf = FALSE /\ high.keys = After(Keys(t, n), mid + 1)
      BY <3>2 DEF Internal
    <3>4. above.leaf = FALSE
      BY DEF above, Internal
    <3>. QED
      BY <1>20, <3>1, <3>3, <3>4 DEF IsLeaf, Keys, new
  <2>. QED
    BY <2>1, <2>2
<1>24. /\ Keys(u, parent) = InsertAt(Keys(t, parent), i, m)
       /\ Kids(u, parent) = InsertAt(Kids(t, parent), i + 1, new)
       /\ Ids(u, parent) = <<>> /\ Link(u, parent) = NoLeaf
  BY <1>20 DEF above, Internal, Keys, Kids, Ids, Link
<1>25. CASE IsLeaf(t, n)
  <2>1. /\ Kids(u, n) = <<>> /\ Kids(u, new) = <<>>
        /\ Ids(u, n) = UpTo(Ids(t, n), mid) /\ Ids(u, new) = After(Ids(t, n), mid + 1)
        /\ Link(u, n) = new /\ Link(u, new) = Link(t, n)
    <3>1. /\ low = Leaf(UpTo(Keys(t, n), mid), UpTo(Ids(t, n), mid), new)
          /\ high = Leaf(After(Keys(t, n), mid + 1), After(Ids(t, n), mid + 1), Link(t, n))
      BY <1>7, <1>8, <1>25
    <3>2. /\ low.children = <<>> /\ low.recordIds = UpTo(Ids(t, n), mid) /\ low.next = new
          /\ high.children = <<>> /\ high.recordIds = After(Ids(t, n), mid + 1)
          /\ high.next = Link(t, n)
      BY <3>1 DEF Leaf
    <3>. QED
      BY <1>20, <3>2 DEF Kids, Ids, Link, new
  <2>. QED
    BY <1>2, <1>19, <1>20, <1>21, <1>22, <1>23, <1>24, <1>25, <2>1 DEF IsSplit, u, mid, m, N
<1>26. CASE ~IsLeaf(t, n)
  <2>1. /\ Kids(u, n) = UpTo(Kids(t, n), mid + 1) /\ Kids(u, new) = After(Kids(t, n), mid + 1)
        /\ Ids(u, n) = <<>> /\ Ids(u, new) = <<>>
        /\ Link(u, n) = NoLeaf /\ Link(u, new) = NoLeaf
    <3>1. /\ low = Internal(UpTo(Keys(t, n), mid), UpTo(Kids(t, n), mid + 1))
          /\ high = Internal(After(Keys(t, n), mid + 1), After(Kids(t, n), mid + 1))
      BY <1>7, <1>8, <1>26
    <3>2. /\ low.children = UpTo(Kids(t, n), mid + 1) /\ low.recordIds = <<>> /\ low.next = NoLeaf
          /\ high.children = After(Kids(t, n), mid + 1) /\ high.recordIds = <<>>
          /\ high.next = NoLeaf
      BY <3>1 DEF Internal
    <3>. QED
      BY <1>20, <3>2 DEF Kids, Ids, Link, new
  <2>. QED
    BY <1>2, <1>19, <1>20, <1>21, <1>22, <1>23, <1>24, <1>26, <2>1 DEF IsSplit, u, mid, m, N
<1>. QED
  BY <1>25, <1>26

\* A split of a tree with its labels.
SplitCase(t, height, range, u, n, parent, i, new, mid, m) ==
    /\ Labelled(t, height, range)
    /\ parent \in Nodes(t) /\ i \in 1..Len(Kids(t, parent))
    /\ n \in Nodes(t) /\ n = Kids(t, parent)[i]
    /\ Typed(u) /\ IsSplit(t, u, n, parent, i, new, mid, m)

\* The nodes of both trees.
LEMMA SplitNodes ==
    ASSUME NEW t, NEW height, NEW range, NEW u, NEW n, NEW parent, NEW i, NEW new, NEW mid, NEW m,
           SplitCase(t, height, range, u, n, parent, i, new, mid, m)
    PROVE  /\ Typed(t) /\ Levelled(t, height) /\ Ranged(t, range) /\ Rooted(t)
           /\ n \in Nodes(t) /\ parent \in Nodes(t) /\ new \notin Nodes(t) /\ new \in Nat
           /\ n # parent /\ n # t.root /\ u.root = t.root /\ t.root \in Nodes(t)
           /\ ~IsLeaf(t, parent) /\ ~IsLeaf(u, parent) /\ Nodes(u) = Nodes(t) \cup {new}
           /\ \A q \in Nodes(t) \ {n, parent} :
                /\ IsLeaf(u, q) = IsLeaf(t, q) /\ Keys(u, q) = Keys(t, q) /\ Ids(u, q) = Ids(t, q)
                /\ Kids(u, q) = Kids(t, q) /\ Link(u, q) = Link(t, q)
           /\ IsLeaf(u, n) = IsLeaf(t, n) /\ IsLeaf(u, new) = IsLeaf(t, n)
           /\ Kids(t, parent)[i] = n /\ i \in 1..Len(Kids(t, parent))
<1>0. Labelled(t, height, range) /\ Typed(t) /\ Levelled(t, height) /\ Ranged(t, range) /\ Rooted(t)
      /\ parent \in Nodes(t) /\ n \in Nodes(t) /\ Kids(t, parent)[i] = n /\ i \in 1..Len(Kids(t, parent))
  BY DEF SplitCase, Labelled
<1>1. new \in Nat /\ new \notin Nodes(t) /\ t.root \in Nodes(t)
  <2>1. Nodes(t) = 1..Len(t.nodes) /\ Len(t.nodes) \in Nat
    BY <1>0, Fields
  <2>2. new = Len(t.nodes) + 1
    BY DEF SplitCase, IsSplit
  <2>3. t.root \in Nodes(t)
    BY <1>0, Fields
  <2>. QED
    BY <2>1, <2>2, <2>3
<1>2. n # parent /\ ~IsLeaf(t, parent) /\ n # t.root
  <2>1. height[parent] = height[n] + 1 /\ ~IsLeaf(t, parent)
    BY <1>0, ChildInParent
  <2>2. height[n] \in Nat
    BY <1>0 DEF Levelled
  <2>3. n # t.root
    BY <1>0, OneAtEachHeight
  <2>. QED
    BY <2>1, <2>2, <2>3
<1>3. \A q \in Nodes(t) \ {n, parent} : u.nodes[q] = t.nodes[q]
  BY DEF SplitCase, IsSplit
<1>4. \A q \in Nodes(t) \ {n, parent} :
        /\ IsLeaf(u, q) = IsLeaf(t, q) /\ Keys(u, q) = Keys(t, q) /\ Ids(u, q) = Ids(t, q)
        /\ Kids(u, q) = Kids(t, q) /\ Link(u, q) = Link(t, q)
  BY <1>3 DEF IsLeaf, Keys, Ids, Kids, Link
<1>5. /\ u.root = t.root /\ Nodes(u) = Nodes(t) \cup {new} /\ ~IsLeaf(u, parent)
      /\ IsLeaf(u, n) = IsLeaf(t, n) /\ IsLeaf(u, new) = IsLeaf(t, n)
  BY DEF SplitCase, IsSplit
<1>. QED
  BY <1>0, <1>1, <1>2, <1>4, <1>5

\* The keys of the nodes that a split changes.
LEMMA SplitKeys ==
    ASSUME NEW t, NEW height, NEW range, NEW u, NEW n, NEW parent, NEW i, NEW new, NEW mid, NEW m,
           SplitCase(t, height, range, u, n, parent, i, new, mid, m)
    PROVE  /\ mid \in Nat /\ mid >= 1 /\ mid + 1 <= Len(Keys(t, n)) /\ Len(Keys(t, n)) \in Nat
           /\ m \in Int /\ m = Keys(t, n)[mid + 1] /\ Keys(t, n) \in Seq(Int)
           /\ Len(Keys(t, parent)) \in Nat /\ i \in 1..(Len(Keys(t, parent)) + 1)
           /\ Len(Keys(u, n)) = mid /\ \A j \in 1..mid : Keys(u, n)[j] = Keys(t, n)[j]
           /\ Len(Keys(u, new)) = Len(Keys(t, n)) - (mid + 1)
           /\ \A j \in 1..(Len(Keys(t, n)) - (mid + 1)) : Keys(u, new)[j] = Keys(t, n)[(mid + 1) + j]
           /\ Len(Keys(u, parent)) = Len(Keys(t, parent)) + 1
           /\ \A j \in 1..(Len(Keys(t, parent)) + 1) :
                Keys(u, parent)[j] = IF j < i THEN Keys(t, parent)[j]
                                     ELSE IF j = i THEN m ELSE Keys(t, parent)[j - 1]
<1>1. /\ mid \in Nat /\ mid >= 1 /\ mid + 1 <= Len(Keys(t, n)) /\ m = Keys(t, n)[mid + 1]
      /\ Keys(u, n) = UpTo(Keys(t, n), mid) /\ Keys(u, new) = After(Keys(t, n), mid + 1)
      /\ Keys(u, parent) = InsertAt(Keys(t, parent), i, m)
  BY DEF SplitCase, IsSplit
<1>2. /\ Keys(t, n) \in Seq(Int) /\ Len(Keys(t, n)) \in Nat
      /\ Keys(t, parent) \in Seq(Int) /\ Len(Keys(t, parent)) \in Nat
      /\ Len(Kids(t, parent)) = Len(Keys(t, parent)) + 1 /\ i \in 1..Len(Kids(t, parent))
  BY SplitNodes, Fields DEF Levelled
<1>3. mid \in 0..Len(Keys(t, n)) /\ mid + 1 \in 0..Len(Keys(t, n)) /\ mid + 1 \in 1..Len(Keys(t, n))
  BY <1>1, <1>2
<1>4. m \in Int
  BY <1>1, <1>2, <1>3
<1>8. PICK keys \in Seq(Int) : keys = Keys(t, n) /\ mid \in 0..Len(keys) /\ mid + 1 \in 0..Len(keys)
  BY <1>2, <1>3
<1>5. Len(Keys(u, n)) = mid /\ \A j \in 1..mid : Keys(u, n)[j] = Keys(t, n)[j]
  <2>1. Len(UpTo(keys, mid)) = mid /\ \A j \in 1..mid : UpTo(keys, mid)[j] = keys[j]
    BY <1>8, UpToIs
  <2>. QED
    BY <1>1, <1>8, <2>1
<1>6. /\ Len(Keys(u, new)) = Len(Keys(t, n)) - (mid + 1)
      /\ \A j \in 1..(Len(Keys(t, n)) - (mid + 1)) : Keys(u, new)[j] = Keys(t, n)[(mid + 1) + j]
  <2>1. /\ Len(After(keys, mid + 1)) = Len(keys) - (mid + 1)
        /\ \A j \in 1..(Len(keys) - (mid + 1)) : After(keys, mid + 1)[j] = keys[(mid + 1) + j]
    BY <1>8, AfterIs
  <2>. QED
    BY <1>1, <1>8, <2>1
<1>7. /\ Len(Keys(u, parent)) = Len(Keys(t, parent)) + 1
      /\ \A j \in 1..(Len(Keys(t, parent)) + 1) :
            Keys(u, parent)[j] = IF j < i THEN Keys(t, parent)[j]
                                 ELSE IF j = i THEN m ELSE Keys(t, parent)[j - 1]
  <2>1. PICK seps \in Seq(Int) : seps = Keys(t, parent) /\ i \in 1..(Len(seps) + 1)
    BY <1>2
  <2>2. IsInserted(seps, i, m, InsertAt(seps, i, m))
    BY <1>4, <2>1, InsertAtIs
  <2>. QED
    BY <1>1, <2>1, <2>2 DEF IsInserted
<1>. QED
  BY <1>1, <1>2, <1>4, <1>5, <1>6, <1>7

\* Their children.
LEMMA SplitKids ==
    ASSUME NEW t, NEW height, NEW range, NEW u, NEW n, NEW parent, NEW i, NEW new, NEW mid, NEW m,
           SplitCase(t, height, range, u, n, parent, i, new, mid, m)
    PROVE  /\ Len(Kids(t, parent)) = Len(Keys(t, parent)) + 1 /\ Len(Keys(t, parent)) \in Nat
           /\ Len(Kids(u, parent)) = Len(Kids(t, parent)) + 1
           /\ \A j \in 1..(Len(Kids(t, parent)) + 1) :
                Kids(u, parent)[j] = IF j < i + 1 THEN Kids(t, parent)[j]
                                     ELSE IF j = i + 1 THEN new ELSE Kids(t, parent)[j - 1]
           /\ IsLeaf(t, n) => Kids(u, n) = <<>> /\ Kids(u, new) = <<>>
           /\ ~IsLeaf(t, n) =>
                /\ Len(Kids(t, n)) = Len(Keys(t, n)) + 1
                /\ Len(Kids(u, n)) = mid + 1
                /\ \A j \in 1..(mid + 1) : Kids(u, n)[j] = Kids(t, n)[j]
                /\ Len(Kids(u, new)) = Len(Keys(t, n)) - mid
                /\ \A j \in 1..(Len(Keys(t, n)) - mid) : Kids(u, new)[j] = Kids(t, n)[(mid + 1) + j]
<1>1. Kids(u, parent) = InsertAt(Kids(t, parent), i + 1, new)
      /\ (IsLeaf(t, n) => Kids(u, n) = <<>> /\ Kids(u, new) = <<>>)
      /\ (~IsLeaf(t, n) =>
            Kids(u, n) = UpTo(Kids(t, n), mid + 1) /\ Kids(u, new) = After(Kids(t, n), mid + 1))
  BY DEF SplitCase, IsSplit
<1>2. /\ Kids(t, parent) \in Seq(Nodes(t)) /\ Kids(t, n) \in Seq(Nodes(t))
      /\ Len(Kids(t, parent)) \in Nat /\ Len(Keys(t, parent)) \in Nat
      /\ Len(Kids(t, parent)) = Len(Keys(t, parent)) + 1
      /\ (~IsLeaf(t, n) => Len(Kids(t, n)) = Len(Keys(t, n)) + 1)
      /\ Nodes(t) \subseteq Nat /\ i \in 1..Len(Kids(t, parent)) /\ new \in Nat
  <2>1. Typed(t) /\ Levelled(t, height) /\ n \in Nodes(t) /\ parent \in Nodes(t)
        /\ ~IsLeaf(t, parent) /\ i \in 1..Len(Kids(t, parent)) /\ new \in Nat
    BY SplitNodes
  <2>2. Nodes(t) = 1..Len(t.nodes) /\ Len(t.nodes) \in Nat
    BY <2>1, Fields
  <2>. QED
    BY <2>1, <2>2, Fields DEF Levelled
<1>3. Kids(t, parent) \in Seq(Nat)
  BY <1>2, WiderSeq
<1>4. /\ Len(Kids(u, parent)) = Len(Kids(t, parent)) + 1
      /\ \A j \in 1..(Len(Kids(t, parent)) + 1) :
            Kids(u, parent)[j] = IF j < i + 1 THEN Kids(t, parent)[j]
                                 ELSE IF j = i + 1 THEN new ELSE Kids(t, parent)[j - 1]
  <2>1. PICK kids \in Seq(Nat) : kids = Kids(t, parent) /\ i + 1 \in 1..(Len(kids) + 1)
    BY <1>2, <1>3
  <2>2. IsInserted(kids, i + 1, new, InsertAt(kids, i + 1, new))
    BY <1>2, <2>1, InsertAtIs
  <2>. QED
    BY <1>1, <2>1, <2>2 DEF IsInserted
<1>5. ASSUME ~IsLeaf(t, n)
      PROVE  /\ Len(Kids(u, n)) = mid + 1
             /\ \A j \in 1..(mid + 1) : Kids(u, n)[j] = Kids(t, n)[j]
             /\ Len(Kids(u, new)) = Len(Keys(t, n)) - mid
             /\ \A j \in 1..(Len(Keys(t, n)) - mid) : Kids(u, new)[j] = Kids(t, n)[(mid + 1) + j]
  <2>1. PICK kids : kids = Kids(t, n)
    OBVIOUS
  <2>2. PICK l \in Nat : l = Len(Keys(t, n)) /\ mid \in Nat /\ mid + 1 <= l
    BY SplitKeys
  <2>3. kids \in Seq(Nodes(t)) /\ Len(kids) = l + 1 /\ mid + 1 \in 0..Len(kids)
        /\ Len(kids) - (mid + 1) = l - mid
    BY <1>2, <1>5, <2>1, <2>2
  <2>4. /\ Len(UpTo(kids, mid + 1)) = mid + 1
        /\ \A j \in 1..(mid + 1) : UpTo(kids, mid + 1)[j] = kids[j]
    BY <2>3, UpToIs
  <2>5. /\ Len(After(kids, mid + 1)) = l - mid
        /\ \A j \in 1..(l - mid) : After(kids, mid + 1)[j] = kids[(mid + 1) + j]
    BY ZenonT(30), <2>3, AfterIs
  <2>. QED
    BY <1>1, <1>5, <2>1, <2>2, <2>4, <2>5
<1>. QED
  BY <1>1, <1>2, <1>4, <1>5

-----------------------------------------------------------------------------
(* A split keeps the shape. *)

\* The new node has the height of the one it comes from; the middle key parts the range.
HeightAfter(height, n, new) == [q \in DOMAIN height \cup {new} |-> IF q = new THEN height[n] ELSE height[q]]
RangeAfter(range, n, new, m) ==
    [q \in DOMAIN range \cup {new} |->
        IF q = new THEN {k \in range[n] : m <= k}
        ELSE IF q = n THEN {k \in range[n] : k < m} ELSE range[q]]

\* The labels after a split: the sibling has the height of the node, and the two share
\* its range at the key handed up.
LEMMA SplitLabels ==
    ASSUME NEW t, NEW height, NEW range, NEW u, NEW n, NEW parent, NEW i, NEW new, NEW mid, NEW m,
           SplitCase(t, height, range, u, n, parent, i, new, mid, m)
    PROVE  /\ HeightAfter(height, n, new) \in [Nodes(u) -> Nat]
           /\ HeightAfter(height, n, new)[new] = height[n]
           /\ \A q \in Nodes(t) : HeightAfter(height, n, new)[q] = height[q]
           /\ RangeAfter(range, n, new, m) \in [Nodes(u) -> SUBSET Int]
           /\ RangeAfter(range, n, new, m)[new] = {k \in range[n] : m <= k}
           /\ RangeAfter(range, n, new, m)[n] = {k \in range[n] : k < m}
           /\ \A q \in Nodes(t) \ {n} : RangeAfter(range, n, new, m)[q] = range[q]
<1>1. Levelled(t, height) /\ Ranged(t, range) /\ n \in Nodes(t) /\ new \notin Nodes(t)
      /\ Nodes(u) = Nodes(t) \cup {new}
  BY SplitNodes
<1>2. height \in [Nodes(t) -> Nat] /\ range \in [Nodes(t) -> SUBSET Int]
  BY <1>1 DEF Levelled, Ranged
<1>. QED
  BY <1>1, <1>2 DEF HeightAfter, RangeAfter

\* All leaves still have one height after a split.
LEMMA SplitLevelled ==
    ASSUME NEW t, NEW height, NEW range, NEW u, NEW n, NEW parent, NEW i, NEW new, NEW mid, NEW m,
           SplitCase(t, height, range, u, n, parent, i, new, mid, m)
    PROVE  Levelled(u, HeightAfter(height, n, new))
<1>. DEFINE h == HeightAfter(height, n, new)
<1>1. /\ Typed(t) /\ Levelled(t, height)
      /\ n \in Nodes(t) /\ parent \in Nodes(t) /\ new \notin Nodes(t)
      /\ n # parent /\ n # t.root /\ u.root = t.root /\ t.root \in Nodes(t)
      /\ ~IsLeaf(t, parent) /\ ~IsLeaf(u, parent) /\ Nodes(u) = Nodes(t) \cup {new}
      /\ \A q \in Nodes(t) \ {n, parent} :
            /\ IsLeaf(u, q) = IsLeaf(t, q) /\ Keys(u, q) = Keys(t, q) /\ Ids(u, q) = Ids(t, q)
            /\ Kids(u, q) = Kids(t, q) /\ Link(u, q) = Link(t, q)
      /\ IsLeaf(u, n) = IsLeaf(t, n) /\ IsLeaf(u, new) = IsLeaf(t, n)
      /\ Kids(t, parent)[i] = n /\ i \in 1..Len(Kids(t, parent))
  BY SplitNodes
<1>2. h \in [Nodes(u) -> Nat] /\ h[new] = height[n] /\ \A q \in Nodes(t) : h[q] = height[q]
  BY SplitLabels
<1>. HIDE DEF h
<1>3. \A q \in Nodes(u) : h[q] <= h[u.root]
  BY <1>1, <1>2 DEF Levelled
<1>4. \A q \in Nodes(t) : \A j \in 1..Len(Kids(t, q)) : Kids(t, q)[j] \in Nodes(t)
  BY <1>1, Fields
<1>5. ASSUME NEW q \in Nodes(u), IsLeaf(u, q)
      PROVE  h[q] = 0 /\ Kids(u, q) = <<>> /\ Len(Ids(u, q)) = Len(Keys(u, q))
  <2>1. CASE q \in Nodes(t) \ {n, parent}
    BY <1>1, <1>2, <1>5, <2>1 DEF Levelled
  <2>2. CASE q = n \/ q = new
    <3>1. IsLeaf(t, n)
      BY <1>1, <1>5, <2>2
    <3>2. height[n] = 0 /\ Len(Ids(t, n)) = Len(Keys(t, n))
      BY <1>1, <3>1 DEF Levelled
    <3>3. h[q] = 0 /\ Kids(u, q) = <<>>
      BY <1>1, <1>2, <2>2, <3>1, <3>2, SplitKids
    <3>4. /\ Keys(u, n) = UpTo(Keys(t, n), mid) /\ Keys(u, new) = After(Keys(t, n), mid + 1)
          /\ Ids(u, n) = UpTo(Ids(t, n), mid) /\ Ids(u, new) = After(Ids(t, n), mid + 1)
      BY <3>1 DEF SplitCase, IsSplit
    <3>5. PICK ids \in Seq(Nat), keys \in Seq(Int) : ids = Ids(t, n) /\ keys = Keys(t, n)
      BY <1>1, Fields
    <3>6. mid \in 0..Len(keys) /\ mid + 1 \in 0..Len(keys) /\ Len(ids) = Len(keys)
      <4>1. mid \in Nat /\ mid + 1 <= Len(keys) /\ Len(keys) \in Nat
        BY <3>5, SplitKeys
      <4>. QED
        BY <3>2, <3>5, <4>1
    <3>7. Len(UpTo(ids, mid)) = mid /\ Len(UpTo(keys, mid)) = mid
      BY <3>5, <3>6, UpToIs
    <3>8. Len(After(ids, mid + 1)) = Len(ids) - (mid + 1)
      BY <3>5, <3>6, AfterIs
    <3>9. Len(After(keys, mid + 1)) = Len(keys) - (mid + 1)
      BY <3>5, <3>6, AfterIs
    <3>. QED
      BY <2>2, <3>3, <3>4, <3>5, <3>6, <3>7, <3>8, <3>9
  <2>. QED
    BY <1>1, <1>5, <2>1, <2>2
<1>6. ASSUME NEW q \in Nodes(u), ~IsLeaf(u, q)
      PROVE  /\ Link(u, q) = NoLeaf /\ Ids(u, q) = <<>>
             /\ Len(Kids(u, q)) = Len(Keys(u, q)) + 1
             /\ \A j \in 1..Len(Kids(u, q)) : h[q] = h[Kids(u, q)[j]] + 1
  <2>1. CASE q \in Nodes(t) \ {n, parent}
    <3>1. /\ Link(t, q) = NoLeaf /\ Ids(t, q) = <<>>
          /\ Len(Kids(t, q)) = Len(Keys(t, q)) + 1
          /\ \A j \in 1..Len(Kids(t, q)) : height[q] = height[Kids(t, q)[j]] + 1
      BY <1>1, <1>6, <2>1 DEF Levelled
    <3>. QED
      BY <1>1, <1>2, <1>4, <2>1, <3>1
  <2>2. CASE q = parent
    <3>1. Link(u, q) = NoLeaf /\ Ids(u, q) = <<>>
      BY <2>2 DEF SplitCase, IsSplit
    <3>2. PICK l \in Nat : l = Len(Kids(t, parent)) /\ l = Len(Keys(t, parent)) + 1
      BY SplitKids
    <3>3. Len(Kids(u, q)) = l + 1 /\ Len(Keys(u, q)) = l
      BY <2>2, <3>2, SplitKids, SplitKeys
    <3>4. \A j \in 1..l : height[parent] = height[Kids(t, parent)[j]] + 1
      BY <1>1, <3>2 DEF Levelled
    <3>5. ASSUME NEW j \in 1..(l + 1)
          PROVE  h[parent] = h[Kids(u, parent)[j]] + 1
      <4>1. Kids(u, parent)[j] = IF j < i + 1 THEN Kids(t, parent)[j]
                                 ELSE IF j = i + 1 THEN new ELSE Kids(t, parent)[j - 1]
        BY <3>2, SplitKids
      <4>2. CASE j = i + 1
        BY <1>1, <1>2, <3>2, <3>4, <4>1, <4>2
      <4>3. CASE j # i + 1
        <5>1. PICK a \in 1..l : Kids(u, parent)[j] = Kids(t, parent)[a]
          <6>1. CASE j < i + 1
            BY <1>1, <3>2, <4>1, <6>1
          <6>2. CASE ~(j < i + 1)
            BY <1>1, <3>2, <4>1, <4>3, <6>2
          <6>. QED
            BY <6>1, <6>2
        <5>. QED
          BY <1>1, <1>2, <1>4, <3>2, <3>4, <5>1
      <4>. QED
        BY <4>2, <4>3
    <3>. QED
      BY <2>2, <3>1, <3>2, <3>3, <3>5
  <2>3. CASE q = n \/ q = new
    <3>1. ~IsLeaf(t, n)
      BY <1>1, <1>6, <2>3
    <3>2. Link(u, q) = NoLeaf /\ Ids(u, q) = <<>>
      BY <2>3, <3>1 DEF SplitCase, IsSplit
    <3>3. PICK l \in Nat : l = Len(Keys(t, n)) /\ mid \in Nat /\ mid + 1 <= l
      BY SplitKeys
    <3>4. /\ Len(Kids(t, n)) = l + 1 /\ Len(Kids(u, n)) = mid + 1 /\ Len(Kids(u, new)) = l - mid
          /\ \A j \in 1..(mid + 1) : Kids(u, n)[j] = Kids(t, n)[j]
          /\ \A j \in 1..(l - mid) : Kids(u, new)[j] = Kids(t, n)[(mid + 1) + j]
      <4>1. /\ Len(Kids(t, n)) = Len(Keys(t, n)) + 1 /\ Len(Kids(u, n)) = mid + 1
            /\ \A j \in 1..(mid + 1) : Kids(u, n)[j] = Kids(t, n)[j]
            /\ Len(Kids(u, new)) = Len(Keys(t, n)) - mid
            /\ \A j \in 1..(Len(Keys(t, n)) - mid) : Kids(u, new)[j] = Kids(t, n)[(mid + 1) + j]
        BY <3>1, SplitKids
      <4>. QED
        BY <3>3, <4>1
    <3>5. Len(Keys(u, n)) = mid /\ Len(Keys(u, new)) = l - (mid + 1)
      <4>1. Len(Keys(u, n)) = mid /\ Len(Keys(u, new)) = Len(Keys(t, n)) - (mid + 1)
        BY SplitKeys
      <4>. QED
        BY <3>3, <4>1
    <3>6. \A j \in 1..(l + 1) : height[n] = height[Kids(t, n)[j]] + 1 /\ Kids(t, n)[j] \in Nodes(t)
      BY <1>1, <1>4, <3>1, <3>4 DEF Levelled
    <3>7. \A j \in 1..(mid + 1) : j \in 1..(l + 1)
      BY <3>3
    <3>8. \A j \in 1..(l - mid) : (mid + 1) + j \in 1..(l + 1)
      BY <3>3
    <3>9. CASE q = n
      <4>1. \A j \in 1..(mid + 1) : h[n] = h[Kids(u, n)[j]] + 1
        <5>1. h[n] = height[n]
          BY <1>1, <1>2
        <5>. QED
          BY <1>2, <3>4, <3>6, <3>7, <5>1
      <4>. QED
        BY <3>2, <3>4, <3>5, <3>9, <4>1
    <3>10. CASE q = new
      <4>1. l - mid = (l - (mid + 1)) + 1
        BY <3>3
      <4>2. \A j \in 1..(l - mid) : h[new] = h[Kids(u, new)[j]] + 1
        BY SMTT(30), <1>2, <3>4, <3>6, <3>8
      <4>. QED
        BY <3>2, <3>4, <3>5, <3>10, <4>1, <4>2
    <3>. QED
      BY <2>3, <3>9, <3>10
  <2>. QED
    BY <1>1, <2>1, <2>2, <2>3
<1>. QED
  BY <1>2, <1>3, <1>5, <1>6 DEF Levelled, h

\* The middle key is in the range of the node that is split, and not its first key.
LEMMA MiddleKey ==
    ASSUME NEW t, NEW height, NEW range, NEW u, NEW n, NEW parent, NEW i, NEW new, NEW mid, NEW m,
           SplitCase(t, height, range, u, n, parent, i, new, mid, m)
    PROVE  /\ m \in range[n] /\ range[n] \subseteq Int /\ IsInterval(range[n])
           /\ \A j \in 1..mid : Keys(t, n)[j] \in range[n] /\ Keys(t, n)[j] < m
           /\ Keys(t, n)[1] \in range[n] /\ Keys(t, n)[1] < m
           /\ range[n] = Part(Keys(t, parent), range[parent], i)
<1>1. /\ Ranged(t, range) /\ n \in Nodes(t) /\ parent \in Nodes(t) /\ ~IsLeaf(t, parent)
      /\ Kids(t, parent)[i] = n /\ i \in 1..Len(Kids(t, parent))
  BY SplitNodes
<1>2. PICK l \in Nat : l = Len(Keys(t, n)) /\ mid \in Nat /\ mid >= 1 /\ mid + 1 <= l
  BY SplitKeys
<1>3. Keys(t, n) \in Seq(Int) /\ m = Keys(t, n)[mid + 1]
  BY SplitKeys
<1>4. /\ IsInterval(range[n]) /\ range[n] \subseteq Int /\ IsIncreasing(Keys(t, n))
      /\ \A j \in 1..l : Keys(t, n)[j] \in range[n]
      /\ range[n] = Part(Keys(t, parent), range[parent], i)
  BY <1>1, <1>2 DEF Ranged
<1>5. mid + 1 \in 1..l /\ 1 \in 1..mid
  BY <1>2
<1>6. ASSUME NEW j \in 1..mid
      PROVE  Keys(t, n)[j] \in range[n] /\ Keys(t, n)[j] < m
  <2>1. j \in 1..l /\ j < mid + 1 /\ j \in DOMAIN Keys(t, n) /\ mid + 1 \in DOMAIN Keys(t, n)
    BY <1>2, <1>3, <1>5
  <2>. QED
    BY <1>3, <1>4, <2>1 DEF IsIncreasing
<1>. QED
  BY <1>3, <1>4, <1>5, <1>6

\* Keys in order, with one put in between.
LEMMA InsertedInOrder ==
    ASSUME NEW keys \in Seq(Int), IsIncreasing(keys), NEW i \in 1..(Len(keys) + 1), NEW m \in Int,
           i > 1 => keys[i - 1] < m, i <= Len(keys) => m < keys[i],
           NEW all \in Seq(Int), IsInserted(keys, i, m, all)
    PROVE  IsIncreasing(all)
<1>1. PICK l \in Nat : l = Len(keys) /\ DOMAIN keys = 1..l
  OBVIOUS
<1>2. DOMAIN all = 1..(l + 1) /\ i \in 1..(l + 1)
      /\ \A j \in 1..(l + 1) : all[j] = IF j < i THEN keys[j] ELSE IF j = i THEN m ELSE keys[j - 1]
  BY <1>1 DEF IsInserted
<1>3. \A j \in 1..l : keys[j] \in Int
  BY <1>1
<1>4. \A a, b \in 1..l : a < b => keys[a] < keys[b]
  BY <1>1 DEF IsIncreasing
<1>5. \A a \in 1..l : (a < i => keys[a] < m) /\ (a >= i => m < keys[a])
  <2>1. ASSUME NEW a \in 1..l, a < i
        PROVE  keys[a] < m
    <3>1. i > 1 /\ i - 1 \in 1..l /\ (a = i - 1 \/ a < i - 1) /\ keys[i - 1] < m
      BY <1>1, <2>1
    <3>. QED
      BY <1>3, <1>4, <3>1
  <2>2. ASSUME NEW a \in 1..l, a >= i
        PROVE  m < keys[a]
    <3>1. i \in 1..l /\ (a = i \/ i < a) /\ m < keys[i]
      BY <1>1, <2>2
    <3>. QED
      BY <1>3, <1>4, <3>1
  <2>. QED
    BY <2>1, <2>2
<1>6. ASSUME NEW a \in 1..(l + 1), NEW b \in 1..(l + 1), a < b
      PROVE  all[a] < all[b]
  <2>1. CASE a < i /\ b < i
    <3>0. a \in 1..l /\ b \in 1..l
      <4>1. i \in 1..(l + 1)
        BY <1>2
      <4>. QED
        BY <1>1, <2>1, <4>1
    <3>1. a \in 1..l /\ b \in 1..l /\ all[a] = keys[a] /\ all[b] = keys[b]
      BY <1>2, <2>1, <3>0
    <3>. QED
      BY <1>4, <1>6, <3>1
  <2>2. CASE a < i /\ b = i
    <3>1. a \in 1..l /\ all[a] = keys[a] /\ all[b] = m
      BY <1>1, <1>2, <2>2
    <3>. QED
      BY <1>5, <2>2, <3>1
  <2>3. CASE a < i /\ b > i
    <3>0. a \in 1..l /\ b - 1 \in 1..l /\ a < b - 1 /\ ~(b < i) /\ b # i
      BY <1>1, <1>2, <1>6, <2>3
    <3>1. a \in 1..l /\ b - 1 \in 1..l /\ a < b - 1 /\ all[a] = keys[a] /\ all[b] = keys[b - 1]
      BY <1>2, <2>3, <3>0
    <3>. QED
      BY <1>4, <3>1
  <2>4. CASE a = i
    <3>1. b - 1 \in 1..l /\ b - 1 >= i /\ all[a] = m /\ all[b] = keys[b - 1]
      BY <1>2, <1>6, <2>4
    <3>. QED
      BY <1>5, <3>1
  <2>5. CASE a > i
    <3>1. a - 1 \in 1..l /\ b - 1 \in 1..l /\ a - 1 < b - 1
      BY <1>1, <1>2, <1>6, <2>5
    <3>2. all[a] = keys[a - 1]
      BY <1>2, <2>5
    <3>3. all[b] = keys[b - 1]
      BY <1>2, <1>6, <2>5
    <3>. QED
      BY <1>4, <3>1, <3>2, <3>3
  <2>. QED
    BY <1>2, <1>6, <2>1, <2>2, <2>3, <2>4, <2>5
<1>. QED
  BY <1>2, <1>6 DEF IsIncreasing

\* The three nodes that a split changes, by themselves.
LEMMA SplitOrder ==
    ASSUME NEW t, NEW height, NEW range, NEW u, NEW n, NEW parent, NEW i, NEW new, NEW mid, NEW m,
           SplitCase(t, height, range, u, n, parent, i, new, mid, m)
    PROVE  /\ IsIncreasing(Keys(u, n)) /\ IsIncreasing(Keys(u, new)) /\ IsIncreasing(Keys(u, parent))
           /\ \A j \in 1..Len(Keys(u, n)) : Keys(u, n)[j] \in {k \in range[n] : k < m}
           /\ \A j \in 1..Len(Keys(u, new)) : Keys(u, new)[j] \in {k \in range[n] : m <= k}
           /\ \A j \in 1..Len(Keys(u, parent)) : Keys(u, parent)[j] \in range[parent]
<1>1. /\ Typed(u) /\ Ranged(t, range) /\ n \in Nodes(t) /\ parent \in Nodes(t)
      /\ n \in Nodes(u) /\ parent \in Nodes(u) /\ new \in Nodes(u) /\ Typed(t)
  <2>1. Typed(u)
    BY DEF SplitCase
  <2>2. Nodes(u) = Nodes(t) \cup {new} /\ n \in Nodes(t) /\ parent \in Nodes(t)
        /\ Typed(t) /\ Ranged(t, range)
    BY SplitNodes
  <2>. QED
    BY <2>1, <2>2
<1>2. PICK l \in Nat : l = Len(Keys(t, n)) /\ mid \in Nat /\ mid >= 1 /\ mid + 1 <= l
  BY SplitKeys
<1>3. PICK keys \in Seq(Int) : keys = Keys(t, n) /\ m = keys[mid + 1] /\ m \in Int
  BY SplitKeys
<1>4. IsIncreasing(keys) /\ DOMAIN keys = 1..l /\ \A j \in 1..l : keys[j] \in range[n] /\ keys[j] \in Int
  BY <1>1, <1>2, <1>3 DEF Ranged
<1>5. PICK low \in Seq(Int) : low = Keys(u, n)
  BY <1>1, Fields
<1>6. PICK high \in Seq(Int) : high = Keys(u, new)
  BY <1>1, Fields
<1>7. PICK h : h = l - (mid + 1)
  OBVIOUS
<1>8. h \in Nat /\ Len(low) = mid /\ DOMAIN low = 1..mid /\ Len(high) = h /\ DOMAIN high = 1..h
  <2>1. Len(Keys(u, n)) = mid /\ Len(Keys(u, new)) = Len(Keys(t, n)) - (mid + 1)
    BY SplitKeys
  <2>2. h \in Nat
    BY <1>2, <1>7
  <2>3. Len(low) = mid /\ Len(high) = h
    BY <1>2, <1>5, <1>6, <1>7, <2>1
  <2>. QED
    BY <1>5, <1>6, <2>2, <2>3
<1>9. \A j \in 1..mid : low[j] = keys[j] /\ j \in 1..l /\ keys[j] < m
  <2>1. \A j \in 1..mid : Keys(u, n)[j] = Keys(t, n)[j]
    BY SplitKeys
  <2>2. \A j \in 1..mid : Keys(t, n)[j] < m
    BY MiddleKey
  <2>. QED
    BY <1>2, <1>3, <1>5, <2>1, <2>2
<1>10. \A j \in 1..h : high[j] = keys[(mid + 1) + j] /\ (mid + 1) + j \in 1..l /\ m < keys[(mid + 1) + j]
  <2>1. \A j \in 1..(Len(Keys(t, n)) - (mid + 1)) : Keys(u, new)[j] = Keys(t, n)[(mid + 1) + j]
    BY SplitKeys
  <2>2. \A j \in 1..h : high[j] = keys[(mid + 1) + j]
    BY <1>2, <1>3, <1>6, <1>7, <2>1
  <2>3. ASSUME NEW j \in 1..h
        PROVE  (mid + 1) + j \in 1..l /\ mid + 1 \in 1..l /\ mid + 1 < (mid + 1) + j
    BY <1>2, <1>7
  <2>. QED
    BY <1>3, <1>4, <2>2, <2>3 DEF IsIncreasing
<1>11. IsIncreasing(low)
  BY <1>4, <1>8, <1>9 DEF IsIncreasing
<1>12. IsIncreasing(high)
  <2>1. ASSUME NEW a \in 1..h, NEW b \in 1..h, a < b
        PROVE  high[a] < high[b]
    <3>1. (mid + 1) + a < (mid + 1) + b
      BY <1>2, <1>8, <2>1
    <3>. QED
      BY <1>4, <1>10, <3>1 DEF IsIncreasing
  <2>. QED
    BY <1>8, <2>1 DEF IsIncreasing
<1>13. PICK seps \in Seq(Int) : seps = Keys(t, parent)
  BY <1>1, Fields
<1>14. PICK above \in Seq(Int) : above = Keys(u, parent)
  BY <1>1, Fields
<1>15. IsInserted(seps, i, m, above) /\ i \in 1..(Len(seps) + 1)
  <2>1. /\ i \in 1..(Len(Keys(t, parent)) + 1) /\ Len(Keys(u, parent)) = Len(Keys(t, parent)) + 1
        /\ \A j \in 1..(Len(Keys(t, parent)) + 1) :
                Keys(u, parent)[j] = IF j < i THEN Keys(t, parent)[j]
                                     ELSE IF j = i THEN m ELSE Keys(t, parent)[j - 1]
    BY SplitKeys
  <2>. QED
    BY <1>13, <1>14, <2>1 DEF IsInserted
<1>16. /\ IsIncreasing(seps) /\ \A j \in 1..Len(seps) : seps[j] \in range[parent]
  BY <1>1, <1>13 DEF Ranged
<1>17. Between(seps, i, m) /\ Between(seps, i, keys[1]) /\ m \in range[parent] /\ keys[1] < m
  <2>1. /\ m \in Part(seps, range[parent], i) /\ keys[1] < m
        /\ keys[1] \in Part(seps, range[parent], i)
    <3>1. /\ m \in range[n] /\ Keys(t, n)[1] \in range[n] /\ Keys(t, n)[1] < m
          /\ range[n] = Part(Keys(t, parent), range[parent], i)
      BY MiddleKey
    <3>. QED
      BY <1>3, <1>13, <3>1
  <2>. QED
    BY <2>1 DEF Part
<1>18. /\ i > 1 => seps[i - 1] < m
       /\ i <= Len(seps) => m < seps[i]
  <2>1. 1 \in 1..l
    BY <1>2
  <2>2. keys[1] \in Int
    BY <1>4, <2>1
  <2>3. i > 1 => seps[i - 1] \in Int
    BY <1>15
  <2>. QED
    BY <1>3, <1>17, <2>2, <2>3 DEF Between
<1>19. IsIncreasing(above)
  BY <1>3, <1>15, <1>16, <1>18, InsertedInOrder
<1>20. \A j \in 1..Len(above) : above[j] \in range[parent]
  <2>1. Len(above) = Len(seps) + 1
    BY <1>15 DEF IsInserted
  <2>2. ASSUME NEW j \in 1..(Len(seps) + 1)
        PROVE  above[j] \in range[parent]
    <3>1. above[j] = IF j < i THEN seps[j] ELSE IF j = i THEN m ELSE seps[j - 1]
      BY <1>15 DEF IsInserted
    <3>2. (j < i => j \in 1..Len(seps)) /\ (j > i => j - 1 \in 1..Len(seps))
      BY <1>15
    <3>. QED
      BY <1>15, <1>16, <1>17, <3>1, <3>2
  <2>. QED
    BY <2>1, <2>2
<1>21. \A j \in 1..h : m <= high[j]
  BY <1>3, <1>4, <1>10
<1>. QED
  BY <1>4, <1>5, <1>6, <1>8, <1>9, <1>10, <1>11, <1>12, <1>14, <1>19, <1>20, <1>21

\* Part i is cut at m, the others stay.
PartCut(keys, r, i, m, all) ==
    /\ \A j \in 1..(i - 1) : Part(all, r, j) = Part(keys, r, j)
    /\ Part(all, r, i) = {k \in Part(keys, r, i) : k < m}
    /\ Part(all, r, i + 1) = {k \in Part(keys, r, i) : m <= k}
    /\ \A j \in (i + 2)..(Len(keys) + 2) : Part(all, r, j) = Part(keys, r, j - 1)

\* A key put among those of the parent cuts one of the parts of its range in two.
LEMMA SplitParts ==
    ASSUME NEW keys \in Seq(Int), NEW i \in 1..(Len(keys) + 1), NEW m \in Int, NEW r, r \subseteq Int,
           m \in Part(keys, r, i), NEW all \in Seq(Int), IsInserted(keys, i, m, all)
    PROVE  PartCut(keys, r, i, m, all)
<1>1. PICK l \in Nat : l = Len(keys)
  OBVIOUS
<1>2. Len(all) = l + 1 /\ i \in 1..(l + 1)
      /\ \A j \in 1..(l + 1) : all[j] = IF j < i THEN keys[j] ELSE IF j = i THEN m ELSE keys[j - 1]
  BY <1>1 DEF IsInserted
<1>3. \A j \in 1..l : keys[j] \in Int
  BY <1>1
<1>4. (i > 1 => keys[i - 1] <= m) /\ (i <= l => m < keys[i])
  BY <1>1 DEF Part, Between
<1>5. (i > 1 => i - 1 \in 1..l) /\ (i <= l => i \in 1..l)
  BY <1>2
<1>6. ASSUME NEW j \in 1..(i - 1)
      PROVE  Part(all, r, j) = Part(keys, r, j)
  <2>1. j <= l /\ j \in 1..(l + 1) /\ all[j] = keys[j] /\ (j > 1 => j - 1 \in 1..(l + 1))
    BY <1>1, <1>2
  <2>2. j > 1 => all[j - 1] = keys[j - 1]
    BY <1>1, <1>2, <2>1
  <2>3. j <= Len(all) /\ j <= Len(keys)
    BY <1>1, <1>2, <2>1
  <2>4. \A k : Between(all, j, k) <=> Between(keys, j, k)
    BY <2>1, <2>2, <2>3 DEF Between
  <2>. QED
    BY <2>4 DEF Part
<1>7. ASSUME NEW k \in r
      PROVE  Between(all, i, k) <=> Between(keys, i, k) /\ k < m
  <2>1. all[i] = m /\ i <= Len(all) /\ (i > 1 => all[i - 1] = keys[i - 1])
    BY SMTT(30), <1>1, <1>2
  <2>2. k \in Int /\ (i <= l => keys[i] \in Int) /\ (i > 1 => keys[i - 1] \in Int)
    BY <1>3, <1>5
  <2>. QED
    BY SMTT(30), <1>1, <1>4, <2>1, <2>2 DEF Between
<1>8. ASSUME NEW k \in r
      PROVE  Between(all, i + 1, k) <=> Between(keys, i, k) /\ m <= k
  <2>1. all[(i + 1) - 1] = m /\ i + 1 > 1
    BY <1>1, <1>2
  <2>2. i + 1 <= Len(all) <=> i <= l
    BY <1>1, <1>2
  <2>3. i <= l => all[i + 1] = keys[i]
    <3>1. SUFFICES ASSUME i <= l PROVE all[i + 1] = keys[i]
      OBVIOUS
    <3>2. i + 1 \in 1..(l + 1) /\ ~(i + 1 < i) /\ i + 1 # i /\ (i + 1) - 1 = i
      BY <1>2, <3>1
    <3>. QED
      BY <1>2, <3>2
  <2>4. k \in Int /\ (i <= l => keys[i] \in Int) /\ (i > 1 => keys[i - 1] \in Int)
    BY <1>3, <1>5
  <2>5. i <= Len(keys) <=> i <= l
    BY <1>1
  <2>6. Between(all, i + 1, k) <=> m <= k /\ (i <= l => k < keys[i])
    BY <2>1, <2>2, <2>3 DEF Between
  <2>7. Between(keys, i, k) <=> (i > 1 => keys[i - 1] <= k) /\ (i <= l => k < keys[i])
    BY <2>5 DEF Between
  <2>. QED
    BY <1>4, <2>4, <2>6, <2>7
<1>9. ASSUME NEW j \in (i + 2)..(Len(keys) + 2)
      PROVE  Part(all, r, j) = Part(keys, r, j - 1)
  <2>1. j - 1 \in 1..(l + 1) /\ ~(j - 1 < i) /\ j - 1 # i /\ (j <= l + 1 => j \in 1..(l + 1) /\ ~(j < i) /\ j # i)
    BY <1>1, <1>2
  <2>2. all[j - 1] = keys[(j - 1) - 1] /\ (j <= l + 1 => all[j] = keys[j - 1])
    BY <1>2, <2>1
  <2>3. j > 1 /\ j - 1 > 1 /\ (j <= Len(all) <=> j <= l + 1) /\ (j - 1 <= Len(keys) <=> j <= l + 1)
    BY <1>1, <1>2
  <2>. QED
    BY <2>2, <2>3 DEF Part, Between
<1>10. Part(all, r, i) = {k \in Part(keys, r, i) : k < m}
  BY <1>7 DEF Part
<1>11. Part(all, r, i + 1) = {k \in Part(keys, r, i) : m <= k}
  BY <1>8 DEF Part
<1>. QED
  BY <1>6, <1>9, <1>10, <1>11 DEF PartCut

\* The parts of the two halves of an inner node.
AreHalves(keys, mid, m, low, high) ==
    /\ mid \in Nat /\ mid >= 1 /\ mid + 1 <= Len(keys) /\ m = keys[mid + 1]
    /\ Len(low) = mid /\ \A j \in 1..mid : low[j] = keys[j]
    /\ Len(high) = Len(keys) - (mid + 1)
    /\ \A j \in 1..(Len(keys) - (mid + 1)) : high[j] = keys[(mid + 1) + j]

PartsHalved(keys, r, mid, m, low, high) ==
    /\ \A j \in 1..(mid + 1) : Part(low, {k \in r : k < m}, j) = Part(keys, r, j)
    /\ \A j \in 1..(Len(keys) - mid) :
            Part(high, {k \in r : m <= k}, j) = Part(keys, r, (mid + 1) + j)

\* Cut at one of its keys, a node leaves its parts to the two halves.
LEMMA HalfParts ==
    ASSUME NEW keys \in Seq(Int), IsIncreasing(keys), NEW r, r \subseteq Int, NEW mid, NEW m,
           NEW low \in Seq(Int), NEW high \in Seq(Int), AreHalves(keys, mid, m, low, high)
    PROVE  PartsHalved(keys, r, mid, m, low, high)
<1>0. /\ mid \in Nat /\ mid >= 1 /\ mid + 1 <= Len(keys) /\ m = keys[mid + 1]
      /\ Len(low) = mid /\ \A j \in 1..mid : low[j] = keys[j]
      /\ Len(high) = Len(keys) - (mid + 1)
      /\ \A j \in 1..(Len(keys) - (mid + 1)) : high[j] = keys[(mid + 1) + j]
  BY DEF AreHalves
<1>. USE <1>0
<1>1. PICK l \in Nat : l = Len(keys) /\ DOMAIN keys = 1..l /\ mid + 1 <= l
  OBVIOUS
<1>2. \A j \in 1..l : keys[j] \in Int
  BY <1>1
<1>3. m \in Int /\ mid + 1 \in 1..l
  BY <1>1, <1>2
<1>4. \A a, b \in 1..l : a < b => keys[a] < keys[b]
  BY <1>1 DEF IsIncreasing
<1>5. ASSUME NEW j \in 1..(mid + 1), NEW k \in r
      PROVE  Between(keys, j, k) <=> Between(low, j, k) /\ k < m
  <2>1. k \in Int /\ j \in 1..l /\ (j > 1 => j - 1 \in 1..mid /\ low[j - 1] = keys[j - 1])
    BY <1>1
  <2>2. CASE j = mid + 1
    <3>1. ~(j <= Len(low)) /\ j <= Len(keys) /\ keys[j] = m
      BY <1>1, <2>2
    <3>. QED
      BY <2>1, <3>1 DEF Between
  <2>3. CASE j # mid + 1
    <3>1. j \in 1..mid /\ j <= Len(low) /\ j <= Len(keys) /\ low[j] = keys[j] /\ j < mid + 1
      BY <1>1, <2>3
    <3>2. keys[j] < m /\ keys[j] \in Int
      BY <1>2, <1>3, <1>4, <2>1, <3>1
    <3>3. k < keys[j] => k < m
      BY <1>3, <2>1, <3>2
    <3>. QED
      BY <2>1, <3>1, <3>3 DEF Between
  <2>. QED
    BY <2>2, <2>3
<1>6. PICK h \in Nat : h = l - (mid + 1) /\ Len(high) = h
                       /\ \A j \in 1..h : high[j] = keys[(mid + 1) + j]
  <2>1. l - (mid + 1) \in Nat
    BY <1>1
  <2>. QED
    BY <1>1, <2>1
<1>7. ASSUME NEW j \in 1..(h + 1), NEW k \in r
      PROVE  Between(keys, (mid + 1) + j, k) <=> Between(high, j, k) /\ m <= k
  <2>1. PICK c \in Nat : c = (mid + 1) + j
    OBVIOUS
  <2>2. k \in Int /\ c > 1 /\ c - 1 = mid + j /\ c - 1 \in 1..l /\ (c <= Len(keys) <=> j <= h)
    <3>1. c \in Nat /\ c = (mid + 1) + j /\ mid \in Nat /\ h = l - (mid + 1) /\ h \in Nat /\ j \in 1..(h + 1)
          /\ l \in Nat /\ Len(keys) = l
      BY <1>1, <1>6, <2>1
    <3>. QED
      BY <3>1
  <2>3. j <= h => high[j] = keys[c]
    <3>1. SUFFICES ASSUME j <= h PROVE high[j] = keys[c]
      OBVIOUS
    <3>2. j \in 1..h
      BY <1>6, <3>1
    <3>3. high[j] = keys[(mid + 1) + j]
      BY <1>6, <3>2
    <3>. QED
      BY <2>1, <3>3
  <2>4. CASE j = 1
    <3>1. keys[c - 1] = m
      BY <2>2, <2>4
    <3>2. Between(keys, c, k) <=> m <= k /\ (j <= h => k < keys[c])
      BY <2>2, <3>1 DEF Between
    <3>3. Between(high, j, k) <=> (j <= h => k < high[j])
      <4>1. ~(j > 1) /\ Len(high) = h
        BY <1>6, <2>4
      <4>. QED
        BY <4>1 DEF Between
    <3>. QED
      BY <2>1, <2>3, <3>2, <3>3
  <2>5. CASE j # 1
    <3>1. j > 1 /\ j - 1 \in 1..h /\ (mid + 1) + (j - 1) = c - 1
      BY <1>6, <2>1, <2>5
    <3>2. high[j - 1] = keys[c - 1]
      BY <1>6, <3>1
    <3>3. m < keys[c - 1] /\ keys[c - 1] \in Int
      <4>1. mid + 1 < c - 1
        BY <2>1, <3>1
      <4>. QED
        BY <1>2, <1>3, <1>4, <2>2, <4>1
    <3>4. keys[c - 1] <= k => m <= k
      BY SMTT(30), <1>3, <2>2, <3>3
    <3>. QED
      BY <1>6, <2>1, <2>2, <2>3, <3>1, <3>2, <3>4 DEF Between
  <2>. QED
    BY <2>4, <2>5
<1>8. ASSUME NEW j \in 1..(mid + 1)
      PROVE  Part(low, {k \in r : k < m}, j) = Part(keys, r, j)
  BY <1>5 DEF Part
<1>9. ASSUME NEW j \in 1..(h + 1)
      PROVE  Part(high, {k \in r : m <= k}, j) = Part(keys, r, (mid + 1) + j)
  BY <1>7 DEF Part
<1>10. Len(keys) - mid = h + 1
  BY <1>1, <1>6
<1>. QED
  BY <1>8, <1>9, <1>10 DEF PartsHalved

\* After a split the range of every child of the parent is the part its place gives it.
LEMMA SplitRangedParent ==
    ASSUME NEW t, NEW height, NEW range, NEW u, NEW n, NEW parent, NEW i, NEW new, NEW mid, NEW m,
           SplitCase(t, height, range, u, n, parent, i, new, mid, m),
           NEW j \in 1..Len(Kids(u, parent))
    PROVE  RangeAfter(range, n, new, m)[Kids(u, parent)[j]]
                = Part(Keys(u, parent), range[parent], j)
<1>. DEFINE r == RangeAfter(range, n, new, m)
            old == range[parent]
<1>1. /\ Typed(t) /\ Ranged(t, range) /\ n \in Nodes(t) /\ parent \in Nodes(t)
      /\ ~IsLeaf(t, parent) /\ Kids(t, parent)[i] = n /\ i \in 1..Len(Kids(t, parent))
  BY SplitNodes
<1>2. /\ r[new] = {k \in range[n] : m <= k} /\ r[n] = {k \in range[n] : k < m}
      /\ \A q \in Nodes(t) \ {n} : r[q] = range[q]
  BY SplitLabels
<1>3. PICK seps \in Seq(Int) : seps = Keys(t, parent)
  BY <1>1, Fields
<1>4. PICK above \in Seq(Int) : above = Keys(u, parent)
  <2>1. parent \in Nodes(u)
    BY SplitNodes
  <2>2. Typed(u)
    BY DEF SplitCase
  <2>. QED
    BY <2>1, <2>2, Fields
<1>5. PICK l \in Nat : l = Len(seps)
  BY <1>3
<1>6. /\ Len(Kids(t, parent)) = l + 1 /\ Len(Kids(u, parent)) = l + 2
      /\ \A a \in 1..(l + 2) :
            Kids(u, parent)[a] = IF a < i + 1 THEN Kids(t, parent)[a]
                                 ELSE IF a = i + 1 THEN new ELSE Kids(t, parent)[a - 1]
  <2>1. /\ Len(Kids(t, parent)) = Len(Keys(t, parent)) + 1
        /\ Len(Kids(u, parent)) = Len(Kids(t, parent)) + 1
        /\ \A a \in 1..(Len(Kids(t, parent)) + 1) :
            Kids(u, parent)[a] = IF a < i + 1 THEN Kids(t, parent)[a]
                                 ELSE IF a = i + 1 THEN new ELSE Kids(t, parent)[a - 1]
    BY SplitKids
  <2>2. Len(Kids(t, parent)) + 1 = l + 2 /\ Len(Kids(t, parent)) = l + 1
    BY <1>3, <1>5, <2>1
  <2>. QED
    BY <2>1, <2>2
<1>7. IsInserted(seps, i, m, above) /\ i \in 1..(l + 1) /\ m \in Int
  <2>1. /\ i \in 1..(Len(Keys(t, parent)) + 1) /\ Len(Keys(u, parent)) = Len(Keys(t, parent)) + 1
        /\ m \in Int
        /\ \A a \in 1..(Len(Keys(t, parent)) + 1) :
                Keys(u, parent)[a] = IF a < i THEN Keys(t, parent)[a]
                                     ELSE IF a = i THEN m ELSE Keys(t, parent)[a - 1]
    BY SplitKeys
  <2>. QED
    BY <1>3, <1>4, <1>5, <2>1 DEF IsInserted
<1>8. m \in Part(seps, old, i) /\ range[n] = Part(seps, old, i)
  BY <1>3, MiddleKey
<1>9. old \subseteq Int
  BY <1>1 DEF Ranged
<1>. HIDE DEF r, old
<1>10. /\ \A a \in 1..(i - 1) : Part(above, old, a) = Part(seps, old, a)
       /\ Part(above, old, i) = {k \in Part(seps, old, i) : k < m}
       /\ Part(above, old, i + 1) = {k \in Part(seps, old, i) : m <= k}
       /\ \A a \in (i + 2)..(l + 2) : Part(above, old, a) = Part(seps, old, a - 1)
  <2>1. PartCut(seps, old, i, m, above)
    BY <1>3, <1>4, <1>5, <1>7, <1>8, <1>9, SplitParts
  <2>. QED
    BY <1>5, <2>1 DEF PartCut

\* The other children of the parent are not n.
<1>11. ASSUME NEW a \in 1..(l + 1), a # i
       PROVE  r[Kids(t, parent)[a]] = Part(seps, old, a)
  <2>1. Kids(t, parent)[a] \in Nodes(t)
    BY <1>1, <1>6, Fields
  <2>2. Kids(t, parent)[a] # n
    <3>1. Labelled(t, height, range)
      BY DEF SplitCase
    <3>2. a \in 1..Len(Kids(t, parent))
      BY <1>6
    <3>. QED
      BY <1>1, <1>11, <3>1, <3>2, OneAtEachHeight
  <2>3. range[Kids(t, parent)[a]] = Part(seps, old, a)
    BY <1>1, <1>3, <1>6 DEF Ranged, old
  <2>. QED
    BY <1>2, <2>1, <2>2, <2>3
<1>12. j \in 1..(l + 2)
  BY <1>6
<1>13. CASE j < i
  <2>1. j \in 1..(i - 1) /\ j \in 1..(l + 1) /\ j # i /\ j < i + 1
    BY <1>7, <1>12, <1>13
  <2>. QED
    BY <1>4, <1>6, <1>10, <1>11, <1>12, <2>1 DEF r, old
<1>14. CASE j = i
  <2>1. j < i + 1
    BY <1>7, <1>14
  <2>2. Kids(u, parent)[j] = n
    BY <1>1, <1>6, <1>12, <1>14, <2>1
  <2>. QED
    BY <1>2, <1>4, <1>8, <1>10, <1>14, <2>2 DEF r, old
<1>15. CASE j = i + 1
  <2>1. ~(j < i + 1)
    BY <1>7, <1>15
  <2>2. Kids(u, parent)[j] = new
    BY <1>6, <1>12, <1>15, <2>1
  <2>. QED
    BY <1>2, <1>4, <1>8, <1>10, <1>15, <2>2 DEF r, old
<1>16. CASE j > i + 1
  <2>1. j \in (i + 2)..(l + 2) /\ j - 1 \in 1..(l + 1) /\ j - 1 # i /\ ~(j < i + 1) /\ j # i + 1
    BY <1>7, <1>12, <1>16
  <2>2. Kids(u, parent)[j] = Kids(t, parent)[j - 1]
    BY <1>6, <1>12, <2>1
  <2>3. r[Kids(u, parent)[j]] = Part(seps, old, j - 1)
    BY <1>11, <2>1, <2>2
  <2>4. Part(above, old, j) = Part(seps, old, j - 1)
    BY <1>10, <2>1
  <2>. QED
    BY <1>4, <2>3, <2>4 DEF r, old
<1>17. j < i \/ j = i \/ j = i + 1 \/ j > i + 1
  BY <1>7, <1>12
<1>. QED
  BY <1>13, <1>14, <1>15, <1>16, <1>17

\* After the split of an inner node the same holds of both halves.
LEMMA SplitRangedHalves ==
    ASSUME NEW t, NEW height, NEW range, NEW u, NEW n, NEW parent, NEW i, NEW new, NEW mid, NEW m,
           SplitCase(t, height, range, u, n, parent, i, new, mid, m), ~IsLeaf(t, n)
    PROVE  /\ \A j \in 1..Len(Kids(u, n)) :
                RangeAfter(range, n, new, m)[Kids(u, n)[j]]
                    = Part(Keys(u, n), {k \in range[n] : k < m}, j)
           /\ \A j \in 1..Len(Kids(u, new)) :
                RangeAfter(range, n, new, m)[Kids(u, new)[j]]
                    = Part(Keys(u, new), {k \in range[n] : m <= k}, j)
<1>. DEFINE r == RangeAfter(range, n, new, m)
            old == range[n]
<1>1. /\ Typed(t) /\ Ranged(t, range) /\ n \in Nodes(t) /\ parent \in Nodes(t) /\ n # parent
      /\ Nodes(u) = Nodes(t) \cup {new} /\ Kids(t, parent)[i] = n /\ i \in 1..Len(Kids(t, parent))
  BY SplitNodes
<1>2. \A q \in Nodes(t) \ {n} : r[q] = range[q]
  BY SplitLabels
<1>3. PICK keys \in Seq(Int) : keys = Keys(t, n)
  BY <1>1, Fields
<1>4. Typed(u)
  BY DEF SplitCase
<1>5. PICK low \in Seq(Int) : low = Keys(u, n)
  BY <1>1, <1>4, Fields
<1>6. PICK high \in Seq(Int) : high = Keys(u, new)
  BY <1>1, <1>4, Fields
<1>7. /\ mid \in Nat /\ mid >= 1 /\ mid + 1 <= Len(keys) /\ m = keys[mid + 1] /\ Len(keys) \in Nat
      /\ Len(low) = mid /\ \A j \in 1..mid : low[j] = keys[j]
      /\ Len(high) = Len(keys) - (mid + 1)
      /\ \A j \in 1..(Len(keys) - (mid + 1)) : high[j] = keys[(mid + 1) + j]
  <2>1. /\ mid \in Nat /\ mid >= 1 /\ mid + 1 <= Len(Keys(t, n)) /\ m = Keys(t, n)[mid + 1]
        /\ Len(Keys(u, n)) = mid /\ \A j \in 1..mid : Keys(u, n)[j] = Keys(t, n)[j]
        /\ Len(Keys(u, new)) = Len(Keys(t, n)) - (mid + 1)
        /\ \A j \in 1..(Len(Keys(t, n)) - (mid + 1)) : Keys(u, new)[j] = Keys(t, n)[(mid + 1) + j]
    BY SplitKeys
  <2>. QED
    BY <1>3, <1>5, <1>6, <2>1
<1>8. IsIncreasing(keys) /\ old \subseteq Int
  BY <1>1, <1>3 DEF Ranged
<1>. HIDE DEF r, old
<1>9. /\ \A j \in 1..(mid + 1) : Part(low, {k \in old : k < m}, j) = Part(keys, old, j)
      /\ \A j \in 1..(Len(keys) - mid) : Part(high, {k \in old : m <= k}, j) = Part(keys, old, (mid + 1) + j)
  <2>1. AreHalves(keys, mid, m, low, high)
    BY <1>7 DEF AreHalves
  <2>2. PartsHalved(keys, old, mid, m, low, high)
    BY <1>3, <1>5, <1>6, <1>8, <2>1, HalfParts
  <2>. QED
    BY <2>2 DEF PartsHalved
<1>10. /\ Len(Kids(t, n)) = Len(keys) + 1 /\ Len(Kids(u, n)) = mid + 1
       /\ Len(Kids(u, new)) = Len(keys) - mid
       /\ \A j \in 1..(mid + 1) : Kids(u, n)[j] = Kids(t, n)[j]
       /\ \A j \in 1..(Len(keys) - mid) : Kids(u, new)[j] = Kids(t, n)[(mid + 1) + j]
  <2>1. /\ Len(Kids(t, n)) = Len(Keys(t, n)) + 1 /\ Len(Kids(u, n)) = mid + 1
        /\ \A j \in 1..(mid + 1) : Kids(u, n)[j] = Kids(t, n)[j]
        /\ Len(Kids(u, new)) = Len(Keys(t, n)) - mid
        /\ \A j \in 1..(Len(Keys(t, n)) - mid) : Kids(u, new)[j] = Kids(t, n)[(mid + 1) + j]
    BY SplitKids
  <2>. QED
    BY <1>3, <2>1
<1>11. ASSUME NEW a \in 1..Len(Kids(t, n))
       PROVE  r[Kids(t, n)[a]] = Part(keys, old, a)
  <2>1. Kids(t, n)[a] \in Nodes(t)
    BY <1>1, Fields
  <2>2. Kids(t, n)[a] # n
    <3>1. Labelled(t, height, range)
      BY DEF SplitCase
    <3>. QED
      BY <1>1, <3>1, OneAtEachHeight
  <2>3. range[Kids(t, n)[a]] = Part(keys, old, a)
    BY <1>1, <1>3 DEF Ranged, old
  <2>. QED
    BY <1>2, <2>1, <2>2, <2>3
<1>12. ASSUME NEW j \in 1..(mid + 1)
       PROVE  r[Kids(u, n)[j]] = Part(low, {k \in old : k < m}, j)
  <2>1. j \in 1..(Len(keys) + 1)
    BY <1>7
  <2>. QED
    BY <1>9, <1>10, <1>11, <2>1
<1>13. ASSUME NEW j \in 1..(Len(keys) - mid)
       PROVE  r[Kids(u, new)[j]] = Part(high, {k \in old : m <= k}, j)
  <2>1. (mid + 1) + j \in 1..(Len(keys) + 1)
    BY SMTT(30), <1>7
  <2>2. r[Kids(t, n)[(mid + 1) + j]] = Part(keys, old, (mid + 1) + j)
    BY <1>10, <1>11, <2>1
  <2>. QED
    BY <1>9, <1>10, <2>2
<1>. QED
  BY <1>5, <1>6, <1>10, <1>12, <1>13 DEF r, old

\* After a split a key still reaches exactly the leaf whose range it is in.
LEMMA SplitRanged ==
    ASSUME NEW t, NEW height, NEW range, NEW u, NEW n, NEW parent, NEW i, NEW new, NEW mid, NEW m,
           SplitCase(t, height, range, u, n, parent, i, new, mid, m)
    PROVE  Ranged(u, RangeAfter(range, n, new, m))
<1>. DEFINE r == RangeAfter(range, n, new, m)
<1>1. /\ Typed(t) /\ Ranged(t, range)
      /\ n \in Nodes(t) /\ parent \in Nodes(t) /\ new \notin Nodes(t)
      /\ n # parent /\ n # t.root /\ u.root = t.root /\ t.root \in Nodes(t)
      /\ ~IsLeaf(t, parent) /\ Nodes(u) = Nodes(t) \cup {new}
      /\ IsLeaf(u, n) = IsLeaf(t, n) /\ IsLeaf(u, new) = IsLeaf(t, n)
      /\ Kids(t, parent)[i] = n /\ i \in 1..Len(Kids(t, parent))
  BY SplitNodes
<1>2. \A q \in Nodes(t) \ {n, parent} :
        IsLeaf(u, q) = IsLeaf(t, q) /\ Keys(u, q) = Keys(t, q) /\ Kids(u, q) = Kids(t, q)
  BY SplitNodes
<1>3. /\ r \in [Nodes(u) -> SUBSET Int]
      /\ r[new] = {k \in range[n] : m <= k} /\ r[n] = {k \in range[n] : k < m}
      /\ \A q \in Nodes(t) \ {n} : r[q] = range[q]
  BY SplitLabels
<1>. HIDE DEF r
<1>4. r[u.root] = Int
  BY <1>1, <1>3 DEF Ranged
<1>5. ASSUME NEW q \in Nodes(u)
      PROVE  /\ IsInterval(r[q]) /\ r[q] # {}
             /\ IsIncreasing(Keys(u, q))
             /\ \A j \in 1..Len(Keys(u, q)) : Keys(u, q)[j] \in r[q]
  <2>1. CASE q \in Nodes(t) \ {n, parent}
    <3>1. r[q] = range[q] /\ Keys(u, q) = Keys(t, q)
      BY <1>2, <1>3, <2>1
    <3>. QED
      BY <1>1, <2>1, <3>1 DEF Ranged
  <2>2. CASE q = parent
    <3>1. r[q] = range[q] /\ IsInterval(range[q]) /\ range[q] # {}
      BY <1>1, <1>3, <2>2 DEF Ranged
    <3>2. IsIncreasing(Keys(u, parent))
          /\ \A j \in 1..Len(Keys(u, parent)) : Keys(u, parent)[j] \in range[parent]
      BY SplitOrder
    <3>. QED
      BY <2>2, <3>1, <3>2
  <2>3. /\ m \in range[n] /\ range[n] \subseteq Int /\ IsInterval(range[n])
        /\ Keys(t, n)[1] \in range[n] /\ Keys(t, n)[1] < m
    BY MiddleKey
  <2>4. CASE q = n
    <3>1. IsInterval(r[n])
      BY <1>3, <2>3 DEF IsInterval
    <3>2. r[n] # {}
      BY <1>3, <2>3
    <3>3. IsIncreasing(Keys(u, n))
          /\ \A j \in 1..Len(Keys(u, n)) : Keys(u, n)[j] \in {k \in range[n] : k < m}
      BY SplitOrder
    <3>. QED
      BY <1>3, <2>4, <3>1, <3>2, <3>3
  <2>5. CASE q = new
    <3>1. IsInterval(r[new])
      BY <1>3, <2>3 DEF IsInterval
    <3>2. r[new] # {}
      BY <1>3, <2>3
    <3>3. IsIncreasing(Keys(u, new))
          /\ \A j \in 1..Len(Keys(u, new)) : Keys(u, new)[j] \in {k \in range[n] : m <= k}
      BY SplitOrder
    <3>. QED
      BY <1>3, <2>5, <3>1, <3>2, <3>3
  <2>. QED
    BY <1>1, <2>1, <2>2, <2>4, <2>5
<1>6. ASSUME NEW q \in Nodes(u), ~IsLeaf(u, q), NEW j \in 1..Len(Kids(u, q))
      PROVE  r[Kids(u, q)[j]] = Part(Keys(u, q), r[q], j)
  <2>1. CASE q \in Nodes(t) \ {n, parent}
    <3>1. r[q] = range[q] /\ Keys(u, q) = Keys(t, q) /\ Kids(u, q) = Kids(t, q) /\ ~IsLeaf(t, q)
      BY <1>2, <1>3, <1>6, <2>1
    <3>2. range[Kids(t, q)[j]] = Part(Keys(t, q), range[q], j)
      BY <1>1, <1>6, <2>1, <3>1 DEF Ranged
    <3>3. Kids(t, q)[j] \in Nodes(t)
      BY <1>1, <1>6, <2>1, <3>1, Fields
    <3>4. Kids(t, q)[j] # n
      <4>1. Labelled(t, height, range)
        BY DEF SplitCase
      <4>2. q # parent /\ q \in Nodes(t) /\ j \in 1..Len(Kids(t, q))
        BY <1>6, <2>1, <3>1
      <4>. QED
        BY <1>1, <4>1, <4>2, OneAtEachHeight
    <3>. QED
      BY <1>3, <3>1, <3>2, <3>3, <3>4
  <2>2. CASE q = parent
    <3>1. r[parent] = range[parent]
      BY <1>1, <1>3
    <3>. QED
      BY <1>6, <2>2, <3>1, SplitRangedParent DEF r
  <2>3. CASE q = n \/ q = new
    <3>1. ~IsLeaf(t, n)
      BY <1>1, <1>6, <2>3
    <3>2. /\ \A a \in 1..Len(Kids(u, n)) : r[Kids(u, n)[a]] = Part(Keys(u, n), r[n], a)
          /\ \A a \in 1..Len(Kids(u, new)) : r[Kids(u, new)[a]] = Part(Keys(u, new), r[new], a)
      <4>1. /\ \A a \in 1..Len(Kids(u, n)) :
                r[Kids(u, n)[a]] = Part(Keys(u, n), {k \in range[n] : k < m}, a)
            /\ \A a \in 1..Len(Kids(u, new)) :
                r[Kids(u, new)[a]] = Part(Keys(u, new), {k \in range[n] : m <= k}, a)
        BY <3>1, SplitRangedHalves DEF r
      <4>. QED
        BY <1>3, <4>1
    <3>. QED
      BY <1>6, <2>3, <3>2
  <2>. QED
    BY <1>1, <2>1, <2>2, <2>3
<1>. QED
  BY <1>3, <1>4, <1>5, <1>6 DEF Ranged, r

\* A split gives every node but the root one parent, in one place.
LEMMA SplitRooted ==
    ASSUME NEW t, NEW height, NEW range, NEW u, NEW n, NEW parent, NEW i, NEW new, NEW mid, NEW m,
           SplitCase(t, height, range, u, n, parent, i, new, mid, m)
    PROVE  Rooted(u)
<1>1. /\ Typed(t) /\ Levelled(t, height) /\ Rooted(t)
      /\ n \in Nodes(t) /\ parent \in Nodes(t) /\ new \notin Nodes(t)
      /\ u.root = t.root /\ Nodes(u) = Nodes(t) \cup {new} /\ i \in 1..Len(Kids(t, parent))
      /\ \A q \in Nodes(t) \ {n, parent} : Kids(u, q) = Kids(t, q)
  BY SplitNodes
<1>2. PICK l \in Nat : l = Len(Kids(t, parent))
  BY <1>1, Fields
<1>3. /\ Len(Kids(u, parent)) = l + 1
      /\ \A j \in 1..(l + 1) :
            Kids(u, parent)[j] = IF j < i + 1 THEN Kids(t, parent)[j]
                                 ELSE IF j = i + 1 THEN new ELSE Kids(t, parent)[j - 1]
  <2>1. /\ Len(Kids(u, parent)) = Len(Kids(t, parent)) + 1
        /\ \A j \in 1..(Len(Kids(t, parent)) + 1) :
            Kids(u, parent)[j] = IF j < i + 1 THEN Kids(t, parent)[j]
                                 ELSE IF j = i + 1 THEN new ELSE Kids(t, parent)[j - 1]
    BY SplitKids
  <2>. QED
    BY <1>2, <2>1
<1>4. \E j \in 1..Len(Kids(u, parent)) : Kids(u, parent)[j] = new
  <2>1. i + 1 \in 1..(l + 1) /\ ~(i + 1 < i + 1)
    BY <1>1, <1>2
  <2>2. Kids(u, parent)[i + 1] = new
    BY <1>3, <2>1
  <2>. QED
    BY <1>3, <2>1, <2>2
<1>5. ASSUME NEW p \in Nodes(t), NEW j \in 1..Len(Kids(t, p))
      PROVE  \E q \in Nodes(u) : \E a \in 1..Len(Kids(u, q)) : Kids(u, q)[a] = Kids(t, p)[j]
  <2>1. CASE p \in Nodes(t) \ {n, parent}
    BY <1>1, <2>1
  <2>2. CASE p = parent
    <3>1. j \in 1..l
      BY <1>2, <2>2
    <3>2. CASE j < i + 1
      <4>1. j \in 1..(l + 1)
        BY <1>2, <3>1
      <4>. QED
        BY <1>1, <1>3, <2>2, <3>2, <4>1
    <3>3. CASE ~(j < i + 1)
      <4>1. j + 1 \in 1..(l + 1) /\ ~(j + 1 < i + 1) /\ j + 1 # i + 1 /\ (j + 1) - 1 = j
        BY <1>1, <1>2, <3>1, <3>3
      <4>2. Kids(u, parent)[j + 1] = Kids(t, parent)[j]
        BY <1>3, <4>1
      <4>. QED
        BY <1>1, <1>3, <2>2, <4>1, <4>2
    <3>. QED
      BY <3>2, <3>3
  <2>3. CASE p = n
    <3>1. ~IsLeaf(t, n)
      <4>1. Labelled(t, height, range)
        BY DEF SplitCase
      <4>. QED
        BY <1>1, <2>3, <4>1, ChildInParent
    <3>2. PICK s \in Nat : s = Len(Keys(t, n)) /\ mid \in Nat /\ mid + 1 <= s
      BY SplitKeys
    <3>3. /\ Len(Kids(t, n)) = s + 1 /\ Len(Kids(u, n)) = mid + 1 /\ Len(Kids(u, new)) = s - mid
          /\ \A a \in 1..(mid + 1) : Kids(u, n)[a] = Kids(t, n)[a]
          /\ \A a \in 1..(s - mid) : Kids(u, new)[a] = Kids(t, n)[(mid + 1) + a]
      <4>1. /\ Len(Kids(t, n)) = Len(Keys(t, n)) + 1 /\ Len(Kids(u, n)) = mid + 1
            /\ \A a \in 1..(mid + 1) : Kids(u, n)[a] = Kids(t, n)[a]
            /\ Len(Kids(u, new)) = Len(Keys(t, n)) - mid
            /\ \A a \in 1..(Len(Keys(t, n)) - mid) : Kids(u, new)[a] = Kids(t, n)[(mid + 1) + a]
        BY <3>1, SplitKids
      <4>. QED
        BY <3>2, <4>1
    <3>4. CASE j <= mid + 1
      <4>1. j \in 1..(mid + 1)
        BY <3>2, <3>4
      <4>. QED
        BY <1>1, <2>3, <3>3, <4>1
    <3>5. CASE ~(j <= mid + 1)
      <4>1. j \in 1..(s + 1)
        BY <2>3, <3>3
      <4>2. j - (mid + 1) \in 1..(s - mid) /\ (mid + 1) + (j - (mid + 1)) = j
        BY <3>2, <3>5, <4>1
      <4>3. Kids(u, new)[j - (mid + 1)] = Kids(t, n)[j]
        BY <3>3, <4>2
      <4>. QED
        BY <1>1, <2>3, <3>3, <4>2, <4>3
    <3>. QED
      BY <3>4, <3>5
  <2>. QED
    BY <2>1, <2>2, <2>3
<1>6. ASSUME NEW q \in Nodes(u) \ {u.root}
      PROVE  \E p \in Nodes(u) : \E j \in 1..Len(Kids(u, p)) : Kids(u, p)[j] = q
  <2>1. CASE q = new
    BY <1>1, <1>4, <2>1
  <2>2. CASE q # new
    <3>1. q \in Nodes(t) \ {t.root}
      BY <1>1, <1>6, <2>2
    <3>2. PICK p \in Nodes(t) : \E j \in 1..Len(Kids(t, p)) : Kids(t, p)[j] = q
      BY <1>1, <3>1 DEF Rooted
    <3>. QED
      BY <1>5, <3>2
  <2>. QED
    BY <2>1, <2>2
<1>. QED
  BY <1>6 DEF Rooted

\* A key of one interval and not of the next below: it is the least of the interval.
LEMMA EndOfInterval ==
    ASSUME NEW r, r \subseteq Int, IsInterval(r)
    PROVE  /\ \A s \in r : s - 1 \notin r => \A x \in r : s <= x
           /\ \A s \in r : s + 1 \notin r => \A x \in r : x <= s
BY DEF IsInterval

\* A split of a leaf puts the sibling behind it in the chain, where its range belongs.
LEMMA SplitChained ==
    ASSUME NEW t, NEW height, NEW range, NEW u, NEW n, NEW parent, NEW i, NEW new, NEW mid, NEW m,
           SplitCase(t, height, range, u, n, parent, i, new, mid, m), Chained(t, range)
    PROVE  Chained(u, RangeAfter(range, n, new, m))
<1>. DEFINE r == RangeAfter(range, n, new, m)
            NoNext(rr, q) == \A a \in rr[q], b \in Int : a <= b => b \in rr[q]
<1>1. /\ Typed(t) /\ Ranged(t, range)
      /\ n \in Nodes(t) /\ parent \in Nodes(t) /\ new \notin Nodes(t)
      /\ n # parent /\ ~IsLeaf(t, parent) /\ ~IsLeaf(u, parent) /\ Nodes(u) = Nodes(t) \cup {new}
      /\ IsLeaf(u, n) = IsLeaf(t, n) /\ IsLeaf(u, new) = IsLeaf(t, n)
      /\ \A q \in Nodes(t) \ {n, parent} : IsLeaf(u, q) = IsLeaf(t, q) /\ Link(u, q) = Link(t, q)
  BY SplitNodes
<1>2. /\ r[new] = {k \in range[n] : m <= k} /\ r[n] = {k \in range[n] : k < m}
      /\ \A q \in Nodes(t) \ {n} : r[q] = range[q]
  BY SplitLabels
<1>. HIDE DEF r
<1>3. /\ m \in range[n] /\ range[n] \subseteq Int /\ IsInterval(range[n]) /\ m \in Int
      /\ Keys(t, n)[1] \in range[n] /\ Keys(t, n)[1] < m
  BY MiddleKey
<1>4. \A q \in Nodes(t) : range[q] \subseteq Int /\ IsInterval(range[q])
  BY <1>1 DEF Ranged
<1>5. /\ \A s \in range[n] : s - 1 \notin range[n] => \A x \in range[n] : s <= x
      /\ \A s \in range[n] : s + 1 \notin range[n] => \A x \in range[n] : x <= s
  BY <1>3, EndOfInterval
<1>6. IsLeaf(t, n) => Link(u, n) = new /\ Link(u, new) = Link(t, n)
  BY DEF SplitCase, IsSplit
<1>7. \A l \in Nodes(t) : IsLeaf(t, l) => IsLeaf(u, l)
  BY <1>1
<1>8. \A q \in Nodes(t) : IsLeaf(t, q) =>
        \/ Link(t, q) = NoLeaf /\ NoNext(range, q)
        \/ Link(t, q) \in Nodes(t) /\ IsLeaf(t, Link(t, q)) /\ Adjacent(range, q, Link(t, q))
  BY DEF Chained
<1>9. ASSUME NEW q \in Nodes(t) \ {n}, IsLeaf(u, q)
      PROVE  \/ Link(u, q) = NoLeaf /\ NoNext(r, q)
             \/ Link(u, q) \in Nodes(u) /\ IsLeaf(u, Link(u, q)) /\ Adjacent(r, q, Link(u, q))
  <2>1. q # parent /\ IsLeaf(t, q) /\ Link(u, q) = Link(t, q) /\ r[q] = range[q]
    BY <1>1, <1>2, <1>9
  <2>2. CASE Link(t, q) = NoLeaf /\ NoNext(range, q)
    BY <2>1, <2>2
  <2>3. CASE Link(t, q) \in Nodes(t) /\ IsLeaf(t, Link(t, q)) /\ Adjacent(range, q, Link(t, q))
    <3>1. PICK l \in Nodes(t) : l = Link(t, q)
      BY <2>3
    <3>2. PICK s \in range[l] \ range[q] : s - 1 \in range[q] \ range[l]
      BY <2>3, <3>1 DEF Adjacent
    <3>3. s \in r[l] \ r[q] /\ s - 1 \in r[q] \ r[l]
      <4>1. CASE l = n
        <5>1. s \in range[n] /\ s - 1 \notin range[n] /\ s \in Int
          BY <1>3, <3>2, <4>1
        <5>2. s <= Keys(t, n)[1] /\ Keys(t, n)[1] \in Int
          BY <1>3, <1>5, <5>1
        <5>3. s < m
          BY <1>3, <5>1, <5>2
        <5>. QED
          BY <1>2, <2>1, <3>2, <4>1, <5>3
      <4>2. CASE l # n
        BY <1>2, <2>1, <3>2, <4>2
      <4>. QED
        BY <4>1, <4>2
    <3>4. Adjacent(r, q, l)
      BY <3>3 DEF Adjacent
    <3>. QED
      BY <1>1, <1>7, <2>1, <2>3, <3>1, <3>4
  <2>. QED
    BY <1>8, <2>1, <2>2, <2>3
<1>10. ASSUME IsLeaf(u, n)
       PROVE  Link(u, n) \in Nodes(u) /\ IsLeaf(u, Link(u, n)) /\ Adjacent(r, n, Link(u, n))
  <2>1. m - 1 \in range[n]
    BY <1>3 DEF IsInterval
  <2>2. m \in r[new] \ r[n] /\ m - 1 \in r[n] \ r[new]
    BY <1>2, <1>3, <2>1
  <2>3. Adjacent(r, n, new)
    BY <2>2 DEF Adjacent
  <2>. QED
    BY <1>1, <1>6, <1>10, <2>3
<1>11. ASSUME IsLeaf(u, new)
       PROVE  \/ Link(u, new) = NoLeaf /\ NoNext(r, new)
              \/ Link(u, new) \in Nodes(u) /\ IsLeaf(u, Link(u, new)) /\ Adjacent(r, new, Link(u, new))
  <2>1. IsLeaf(t, n) /\ Link(u, new) = Link(t, n)
    BY <1>1, <1>6, <1>11
  <2>2. CASE Link(t, n) = NoLeaf /\ NoNext(range, n)
    <3>1. \A a \in r[new], b \in Int : a <= b => b \in r[new]
      BY <1>2, <1>3, <2>2
    <3>. QED
      BY <2>1, <2>2, <3>1
  <2>3. CASE Link(t, n) \in Nodes(t) /\ IsLeaf(t, Link(t, n)) /\ Adjacent(range, n, Link(t, n))
    <3>1. PICK l \in Nodes(t) : l = Link(t, n)
      BY <2>3
    <3>2. PICK s \in range[l] \ range[n] : s - 1 \in range[n] \ range[l]
      BY <2>3, <3>1 DEF Adjacent
    <3>3. l # n
      BY <3>2
    <3>4. s \in Int /\ (s - 1) + 1 = s
      BY <1>4, <3>2
    <3>5. m <= s - 1
      BY <1>3, <1>5, <3>2, <3>4
    <3>6. s \in r[l] \ r[new] /\ s - 1 \in r[new] \ r[l]
      BY <1>2, <3>2, <3>3, <3>5
    <3>7. Adjacent(r, new, l)
      BY <3>6 DEF Adjacent
    <3>. QED
      BY <1>1, <1>7, <2>1, <2>3, <3>1, <3>7
  <2>. QED
    BY <1>1, <1>8, <2>1, <2>2, <2>3
<1>12. ASSUME NEW q \in Nodes(u), IsLeaf(u, q)
       PROVE  \/ Link(u, q) = NoLeaf /\ NoNext(r, q)
              \/ Link(u, q) \in Nodes(u) /\ IsLeaf(u, Link(u, q)) /\ Adjacent(r, q, Link(u, q))
  BY <1>1, <1>9, <1>10, <1>11, <1>12
<1>. QED
  BY <1>12 DEF Chained, r

-----------------------------------------------------------------------------
(* What the tree holds. *)

\* The keys of the leaves.
HeldIn(t) == UNION {ToSet(Keys(t, n)) : n \in {q \in Nodes(t) : IsLeaf(t, q)}}

\* Every key was accepted and every accepted key is somewhere; a leaf has the record id
\* of the last insertion of its keys.
Stored(t, acc) ==
    /\ \A n \in Nodes(t) : \A i \in 1..Len(Keys(t, n)) : Keys(t, n)[i] \in DOMAIN acc
    /\ \A n \in Nodes(t) : IsLeaf(t, n) =>
        \A i \in 1..Len(Keys(t, n)) : Ids(t, n)[i] = acc[Keys(t, n)[i]]
    /\ \A k \in DOMAIN acc : \E n \in Nodes(t) : \E i \in 1..Len(Keys(t, n)) : Keys(t, n)[i] = k

\* Every leaf has fewer than b keys; node n, which is about to be split, may have b.
LeavesFit(t, b) == \A q \in Nodes(t) : IsLeaf(t, q) => Len(Keys(t, q)) < b
OthersFit(t, n, b) ==
    \A q \in Nodes(t) : IsLeaf(t, q) => Len(Keys(t, q)) < b \/ (q = n /\ Len(Keys(t, q)) <= b)

\* The tree holds what its leaves hold.
LEMMA HeldIs ==
    ASSUME NEW t, Typed(t)
    PROVE  \A k : k \in HeldIn(t) <=>
                \E n \in Nodes(t) : IsLeaf(t, n) /\ \E i \in 1..Len(Keys(t, n)) : Keys(t, n)[i] = k
<1>1. ASSUME NEW n \in Nodes(t), NEW k
      PROVE  k \in ToSet(Keys(t, n)) <=> \E i \in 1..Len(Keys(t, n)) : Keys(t, n)[i] = k
  <2>1. DOMAIN Keys(t, n) = 1..Len(Keys(t, n))
    BY Fields
  <2>. QED
    BY <2>1 DEF ToSet
<1>. QED
  BY <1>1 DEF HeldIn

\* The keys of n are those of its two halves and the middle one, which goes to the
\* parent.
Redistributed(t, u, n, parent, new, mid, m) ==
    /\ \A j \in 1..Len(Keys(t, n)) :
         \/ Keys(t, n)[j] = m
         \/ \E a \in 1..Len(Keys(u, n)) : Keys(u, n)[a] = Keys(t, n)[j]
         \/ \E a \in 1..Len(Keys(u, new)) : Keys(u, new)[a] = Keys(t, n)[j]
    /\ \A j \in 1..Len(Keys(t, parent)) :
         \E a \in 1..Len(Keys(u, parent)) : Keys(u, parent)[a] = Keys(t, parent)[j]
    /\ \E a \in 1..Len(Keys(u, parent)) : Keys(u, parent)[a] = m
    /\ \A j \in 1..Len(Keys(u, n)) :
         j \in 1..Len(Keys(t, n)) /\ Keys(u, n)[j] = Keys(t, n)[j]
    /\ \A j \in 1..Len(Keys(u, new)) :
         (mid + 1) + j \in 1..Len(Keys(t, n)) /\ Keys(u, new)[j] = Keys(t, n)[(mid + 1) + j]
    /\ \A j \in 1..Len(Keys(u, parent)) :
         \/ Keys(u, parent)[j] = m
         \/ \E a \in 1..Len(Keys(t, parent)) : Keys(t, parent)[a] = Keys(u, parent)[j]
    /\ mid + 1 \in 1..Len(Keys(t, n)) /\ Keys(t, n)[mid + 1] = m

\* Where the keys and record ids of a node are after a split, and which key is left out.
LEMMA SplitSameKeys ==
    ASSUME NEW t, NEW height, NEW range, NEW u, NEW n, NEW parent, NEW i, NEW new, NEW mid, NEW m,
           SplitCase(t, height, range, u, n, parent, i, new, mid, m)
    PROVE  Redistributed(t, u, n, parent, new, mid, m)
<1>1. /\ mid \in Nat /\ mid >= 1 /\ mid + 1 <= Len(Keys(t, n)) /\ m = Keys(t, n)[mid + 1]
      /\ Len(Keys(u, n)) = mid /\ \A j \in 1..mid : Keys(u, n)[j] = Keys(t, n)[j]
      /\ Len(Keys(u, new)) = Len(Keys(t, n)) - (mid + 1)
      /\ \A j \in 1..(Len(Keys(t, n)) - (mid + 1)) : Keys(u, new)[j] = Keys(t, n)[(mid + 1) + j]
  BY SplitKeys
<1>2. /\ Len(Keys(t, parent)) \in Nat /\ i \in 1..(Len(Keys(t, parent)) + 1)
      /\ Len(Keys(u, parent)) = Len(Keys(t, parent)) + 1
      /\ \A j \in 1..(Len(Keys(t, parent)) + 1) :
            Keys(u, parent)[j] = IF j < i THEN Keys(t, parent)[j]
                                 ELSE IF j = i THEN m ELSE Keys(t, parent)[j - 1]
  BY SplitKeys
<1>3. PICK l \in Nat : l = Len(Keys(t, n))
  BY SplitKeys
<1>4. PICK s \in Nat : s = Len(Keys(t, parent))
  BY <1>2
<1>5. ASSUME NEW j \in 1..l
      PROVE  \/ Keys(t, n)[j] = m
             \/ \E a \in 1..Len(Keys(u, n)) : Keys(u, n)[a] = Keys(t, n)[j]
             \/ \E a \in 1..Len(Keys(u, new)) : Keys(u, new)[a] = Keys(t, n)[j]
  <2>1. CASE j <= mid
    <3>1. j \in 1..mid
      BY <1>1, <2>1
    <3>. QED
      BY <1>1, <3>1
  <2>2. CASE j = mid + 1
    BY <1>1, <2>2
  <2>3. CASE j > mid + 1
    <3>1. j - (mid + 1) \in 1..(l - (mid + 1)) /\ (mid + 1) + (j - (mid + 1)) = j
      BY <1>1, <1>3, <2>3
    <3>2. Keys(u, new)[j - (mid + 1)] = Keys(t, n)[j]
      BY <1>1, <1>3, <3>1
    <3>. QED
      BY <1>1, <1>3, <3>1, <3>2
  <2>. QED
    BY <1>1, <2>1, <2>2, <2>3
<1>6. ASSUME NEW j \in 1..s
      PROVE  \E a \in 1..Len(Keys(u, parent)) : Keys(u, parent)[a] = Keys(t, parent)[j]
  <2>1. CASE j < i
    <3>1. j \in 1..(s + 1)
      OBVIOUS
    <3>. QED
      BY <1>2, <1>4, <2>1, <3>1
  <2>2. CASE ~(j < i)
    <3>1. j + 1 \in 1..(s + 1) /\ ~(j + 1 < i) /\ j + 1 # i /\ (j + 1) - 1 = j
      BY <1>2, <2>2
    <3>2. Keys(u, parent)[j + 1] = Keys(t, parent)[j]
      BY <1>2, <1>4, <3>1
    <3>. QED
      BY <1>2, <1>4, <3>1, <3>2
  <2>. QED
    BY <2>1, <2>2
<1>7. i \in 1..Len(Keys(u, parent)) /\ Keys(u, parent)[i] = m
  <2>1. ~(i < i)
    BY <1>2
  <2>. QED
    BY <1>2, <2>1
<1>8. \A j \in 1..Len(Keys(u, n)) : j \in 1..Len(Keys(t, n)) /\ Keys(u, n)[j] = Keys(t, n)[j]
  BY <1>1, <1>3
<1>9. \A j \in 1..Len(Keys(u, new)) :
        (mid + 1) + j \in 1..Len(Keys(t, n)) /\ Keys(u, new)[j] = Keys(t, n)[(mid + 1) + j]
  <2>1. \A j \in 1..(l - (mid + 1)) : (mid + 1) + j \in 1..l
    BY <1>1, <1>3
  <2>. QED
    BY <1>1, <1>3, <2>1
<1>10. ASSUME NEW j \in 1..(s + 1)
       PROVE  \/ Keys(u, parent)[j] = m
              \/ \E a \in 1..Len(Keys(t, parent)) : Keys(t, parent)[a] = Keys(u, parent)[j]
  <2>1. Keys(u, parent)[j] = IF j < i THEN Keys(t, parent)[j]
                             ELSE IF j = i THEN m ELSE Keys(t, parent)[j - 1]
    BY <1>2, <1>4
  <2>2. (j < i => j \in 1..s) /\ (j > i => j - 1 \in 1..s)
    BY <1>2, <1>4
  <2>3. j < i \/ j = i \/ j > i
    BY <1>2
  <2>. QED
    BY <1>4, <2>1, <2>2, <2>3
<1>11. mid + 1 \in 1..Len(Keys(t, n))
  BY <1>1, <1>3
<1>. QED
  BY <1>1, <1>2, <1>3, <1>4, <1>5, <1>6, <1>7, <1>8, <1>9, <1>10, <1>11 DEF Redistributed

\* What a split leaves in a leaf stays beside the record id it was inserted with, and
\* every separator is still a key that was accepted.
LEMMA SplitStored ==
    ASSUME NEW t, NEW height, NEW range, NEW u, NEW n, NEW parent, NEW i, NEW new, NEW mid, NEW m,
           SplitCase(t, height, range, u, n, parent, i, new, mid, m),
           NEW acc, Stored(t, acc)
    PROVE  Stored(u, acc)
<1>1. /\ Typed(t) /\ Levelled(t, height)
      /\ n \in Nodes(t) /\ parent \in Nodes(t)
      /\ Nodes(u) = Nodes(t) \cup {new} /\ ~IsLeaf(u, parent)
      /\ IsLeaf(u, n) = IsLeaf(t, n) /\ IsLeaf(u, new) = IsLeaf(t, n)
      /\ \A q \in Nodes(t) \ {n, parent} :
            IsLeaf(u, q) = IsLeaf(t, q) /\ Keys(u, q) = Keys(t, q) /\ Ids(u, q) = Ids(t, q)
  BY SplitNodes
<1>2. /\ \A j \in 1..Len(Keys(t, n)) :
            \/ Keys(t, n)[j] = m
            \/ \E a \in 1..Len(Keys(u, n)) : Keys(u, n)[a] = Keys(t, n)[j]
            \/ \E a \in 1..Len(Keys(u, new)) : Keys(u, new)[a] = Keys(t, n)[j]
      /\ \A j \in 1..Len(Keys(t, parent)) :
            \E a \in 1..Len(Keys(u, parent)) : Keys(u, parent)[a] = Keys(t, parent)[j]
      /\ \E a \in 1..Len(Keys(u, parent)) : Keys(u, parent)[a] = m
  <2>1. Redistributed(t, u, n, parent, new, mid, m)
    BY SplitSameKeys
  <2>. QED
    BY <2>1, Zenon DEF Redistributed
<1>3. /\ \A j \in 1..Len(Keys(u, n)) :
            j \in 1..Len(Keys(t, n)) /\ Keys(u, n)[j] = Keys(t, n)[j]
      /\ \A j \in 1..Len(Keys(u, new)) :
            (mid + 1) + j \in 1..Len(Keys(t, n)) /\ Keys(u, new)[j] = Keys(t, n)[(mid + 1) + j]
      /\ \A j \in 1..Len(Keys(u, parent)) :
            \/ Keys(u, parent)[j] = m
            \/ \E a \in 1..Len(Keys(t, parent)) : Keys(t, parent)[a] = Keys(u, parent)[j]
      /\ mid + 1 \in 1..Len(Keys(t, n)) /\ Keys(t, n)[mid + 1] = m
  BY SplitSameKeys DEF Redistributed
<1>4. \A q \in Nodes(t) : \A j \in 1..Len(Keys(t, q)) : Keys(t, q)[j] \in DOMAIN acc
  BY DEF Stored
<1>5. ASSUME NEW q \in Nodes(u), NEW j \in 1..Len(Keys(u, q))
      PROVE  Keys(u, q)[j] \in DOMAIN acc
  <2>1. CASE q \in Nodes(t) \ {n, parent}
    BY <1>1, <1>4, <2>1
  <2>2. CASE q = parent
    BY <1>1, <1>3, <1>4, <2>2
  <2>3. CASE q = n
    BY <1>1, <1>3, <1>4, <2>3
  <2>4. CASE q = new
    BY <1>1, <1>3, <1>4, <2>4
  <2>. QED
    BY <1>1, <2>1, <2>2, <2>3, <2>4
<1>6. ASSUME NEW q \in Nodes(u), IsLeaf(u, q), NEW j \in 1..Len(Keys(u, q))
      PROVE  Ids(u, q)[j] = acc[Keys(u, q)[j]]
  <2>1. CASE q \in Nodes(t) \ {n, parent}
    BY SMTT(30), <1>1, <1>6, <2>1 DEF Stored
  <2>2. CASE q = n \/ q = new
    <3>1. IsLeaf(t, n)
      BY <1>1, <1>6, <2>2
    <3>2. Ids(u, n) = UpTo(Ids(t, n), mid) /\ Ids(u, new) = After(Ids(t, n), mid + 1)
      BY <3>1 DEF SplitCase, IsSplit
    <3>3. PICK ids \in Seq(Nat) : ids = Ids(t, n)
      BY <1>1, Fields
    <3>4. PICK l \in Nat : l = Len(Keys(t, n)) /\ l = Len(ids) /\ mid \in Nat /\ mid + 1 <= l
      <4>1. Len(ids) = Len(Keys(t, n))
        BY <1>1, <3>1, <3>3 DEF Levelled
      <4>2. mid \in Nat /\ mid + 1 <= Len(Keys(t, n)) /\ Len(Keys(t, n)) \in Nat
        BY SplitKeys
      <4>. QED
        BY <4>1, <4>2
    <3>5. \A a \in 1..l : ids[a] = acc[Keys(t, n)[a]]
      BY <1>1, <3>1, <3>3, <3>4 DEF Stored
    <3>6. CASE q = n
      <4>1. mid \in 0..Len(ids)
        BY <3>4
      <4>2. \A a \in 1..mid : UpTo(ids, mid)[a] = ids[a]
        BY <3>3, <4>1, UpToIs
      <4>3. j \in 1..mid /\ j \in 1..l
        <5>1. Len(Keys(u, n)) = mid
          BY SplitKeys
        <5>. QED
          BY <3>4, <3>6, <5>1
      <4>4. Ids(u, n)[j] = ids[j]
        BY <3>2, <3>3, <4>2, <4>3
      <4>. QED
        BY <1>3, <3>5, <3>6, <4>3, <4>4
    <3>7. CASE q = new
      <4>1. mid + 1 \in 0..Len(ids)
        BY <3>4
      <4>2. \A a \in 1..(Len(ids) - (mid + 1)) : After(ids, mid + 1)[a] = ids[(mid + 1) + a]
        BY <3>3, <4>1, AfterIs
      <4>3. j \in 1..(Len(ids) - (mid + 1)) /\ (mid + 1) + j \in 1..l
        <5>1. Len(Keys(u, new)) = Len(Keys(t, n)) - (mid + 1)
          BY SplitKeys
        <5>2. j \in 1..(l - (mid + 1))
          BY <3>4, <3>7, <5>1
        <5>. QED
          BY <3>4, <5>2
      <4>4. Ids(u, new)[j] = ids[(mid + 1) + j]
        BY <3>2, <3>3, <4>2, <4>3
      <4>. QED
        BY <1>3, <3>5, <3>7, <4>3, <4>4
    <3>. QED
      BY <2>2, <3>6, <3>7
  <2>. QED
    BY <1>1, <1>6, <2>1, <2>2
<1>7. ASSUME NEW k \in DOMAIN acc
      PROVE  \E q \in Nodes(u) : \E j \in 1..Len(Keys(u, q)) : Keys(u, q)[j] = k
  <2>1. PICK q \in Nodes(t) : \E j \in 1..Len(Keys(t, q)) : Keys(t, q)[j] = k
    BY DEF Stored
  <2>2. CASE q \in Nodes(t) \ {n, parent}
    BY <1>1, <2>1, <2>2
  <2>3. CASE q = n \/ q = parent
    BY <1>1, <1>2, <2>1, <2>3
  <2>. QED
    BY <2>2, <2>3
<1>. QED
  BY <1>5, <1>6, <1>7 DEF Stored

\* The split of a leaf loses its middle key, that of an inner node none.
LEMMA SplitHeld ==
    ASSUME NEW t, NEW height, NEW range, NEW u, NEW n, NEW parent, NEW i, NEW new, NEW mid, NEW m,
           SplitCase(t, height, range, u, n, parent, i, new, mid, m)
    PROVE  /\ ~IsLeaf(t, n) => HeldIn(u) = HeldIn(t)
           /\ IsLeaf(t, n) => m \in HeldIn(t) /\ HeldIn(u) = HeldIn(t) \ {m}
<1>1. /\ Typed(t) /\ Ranged(t, range)
      /\ n \in Nodes(t) /\ parent \in Nodes(t)
      /\ Nodes(u) = Nodes(t) \cup {new} /\ ~IsLeaf(u, parent) /\ ~IsLeaf(t, parent)
      /\ IsLeaf(u, n) = IsLeaf(t, n) /\ IsLeaf(u, new) = IsLeaf(t, n)
      /\ \A q \in Nodes(t) \ {n, parent} : IsLeaf(u, q) = IsLeaf(t, q) /\ Keys(u, q) = Keys(t, q)
  BY SplitNodes
<1>2. /\ \A k : k \in HeldIn(t) <=>
            \E q \in Nodes(t) : IsLeaf(t, q) /\ \E j \in 1..Len(Keys(t, q)) : Keys(t, q)[j] = k
      /\ \A k : k \in HeldIn(u) <=>
            \E q \in Nodes(u) : IsLeaf(u, q) /\ \E j \in 1..Len(Keys(u, q)) : Keys(u, q)[j] = k
  <2>1. Typed(u)
    BY DEF SplitCase
  <2>. QED
    BY <1>1, <2>1, HeldIs
<1>3. CASE ~IsLeaf(t, n)
  <2>1. \A k : k \in HeldIn(t) <=> k \in HeldIn(u)
    BY <1>1, <1>2, <1>3
  <2>. QED
    BY <1>3, <2>1
<1>4. CASE IsLeaf(t, n)
  <2>1. /\ \A j \in 1..Len(Keys(t, n)) :
            \/ Keys(t, n)[j] = m
            \/ \E a \in 1..Len(Keys(u, n)) : Keys(u, n)[a] = Keys(t, n)[j]
            \/ \E a \in 1..Len(Keys(u, new)) : Keys(u, new)[a] = Keys(t, n)[j]
        /\ \A j \in 1..Len(Keys(u, n)) :
            j \in 1..Len(Keys(t, n)) /\ Keys(u, n)[j] = Keys(t, n)[j]
        /\ \A j \in 1..Len(Keys(u, new)) :
            (mid + 1) + j \in 1..Len(Keys(t, n)) /\ Keys(u, new)[j] = Keys(t, n)[(mid + 1) + j]
        /\ mid + 1 \in 1..Len(Keys(t, n)) /\ Keys(t, n)[mid + 1] = m
    BY SMTT(30), SplitSameKeys DEF Redistributed
  <2>2. m \in HeldIn(t)
    BY <1>1, <1>2, <1>4, <2>1
  <2>3. \A k : k \in HeldIn(t) => k = m \/ k \in HeldIn(u)
    <3>1. ASSUME NEW q \in Nodes(t), IsLeaf(t, q), NEW j \in 1..Len(Keys(t, q)), Keys(t, q)[j] # m
          PROVE  Keys(t, q)[j] \in HeldIn(u)
      <4>1. CASE q = n
        BY <1>1, <1>2, <1>4, <2>1, <3>1, <4>1
      <4>2. CASE q # n
        BY <1>1, <1>2, <3>1, <4>2
      <4>. QED
        BY <4>1, <4>2
    <3>. QED
      BY <1>2, <3>1
  <2>4. \A k : k \in HeldIn(u) => k \in HeldIn(t)
    <3>1. ASSUME NEW q \in Nodes(u), IsLeaf(u, q), NEW j \in 1..Len(Keys(u, q))
          PROVE  Keys(u, q)[j] \in HeldIn(t)
      <4>1. CASE q = n \/ q = new
        BY <1>1, <1>2, <1>4, <2>1, <3>1, <4>1
      <4>2. CASE q \in Nodes(t) \ {n, parent}
        BY <1>1, <1>2, <3>1, <4>2
      <4>. QED
        BY <1>1, <3>1, <4>1, <4>2
    <3>. QED
      BY <1>2, <3>1

\* The middle key is in no leaf of u: not in the halves, whose keys are below or above
\* it, and not elsewhere, since it is in the range of no other leaf.
  <2>5. m \notin HeldIn(u)
    <3>1. SUFFICES ASSUME NEW q \in Nodes(u), IsLeaf(u, q), NEW j \in 1..Len(Keys(u, q)),
                          Keys(u, q)[j] = m
                   PROVE  FALSE
      BY <1>2
    <3>2. PICK keys \in Seq(Int) : keys = Keys(t, n)
      BY <1>1, Fields
    <3>3. IsIncreasing(keys) /\ mid \in Nat /\ m = keys[mid + 1] /\ mid + 1 \in DOMAIN keys /\ m \in Int
      <4>1. IsIncreasing(keys)
        BY <1>1, <3>2 DEF Ranged
      <4>2. mid \in Nat /\ mid + 1 <= Len(keys) /\ m = keys[mid + 1] /\ m \in Int
        BY <3>2, SplitKeys
      <4>3. mid + 1 \in DOMAIN keys
        BY <3>2, <4>2
      <4>. QED
        BY <4>1, <4>2, <4>3
    <3>4. CASE q = n
      <4>1. Keys(u, n)[j] < m
        BY <3>1, <3>4, SplitOrder
      <4>. QED
        BY <3>1, <3>3, <3>4, <4>1
    <3>5. CASE q = new
      <4>1. (mid + 1) + j \in DOMAIN keys /\ m = keys[(mid + 1) + j]
        BY <2>1, <3>1, <3>2, <3>5
      <4>2. mid + 1 < (mid + 1) + j
        <5>1. j >= 1 /\ j \in Int
          OBVIOUS
        <5>. QED
          BY <3>3, <5>1
      <4>3. keys[mid + 1] < keys[(mid + 1) + j]
        BY <3>3, <4>1, <4>2 DEF IsIncreasing
      <4>. QED
        BY <3>3, <4>1, <4>3
    <3>6. CASE q \in Nodes(t) \ {n, parent}
      <4>1. IsLeaf(t, q) /\ m \in range[q]
        BY <1>1, <3>1, <3>6 DEF Ranged
      <4>2. m \in range[n]
        BY MiddleKey
      <4>3. Labelled(t, height, range)
        BY DEF SplitCase
      <4>4. q = Last(Path(t, m)) /\ n = Last(Path(t, m))
        BY <1>1, <1>4, <3>3, <3>6, <4>1, <4>2, <4>3, LeafOfKey
      <4>. QED
        BY <3>6, <4>4
    <3>. QED
      BY <1>1, <3>1, <3>4, <3>5, <3>6
  <2>. QED
    BY <1>4, <2>2, <2>3, <2>4, <2>5
<1>. QED
  BY <1>3, <1>4

\* A split of the only leaf that is too large leaves none.
LEMMA SplitFits ==
    ASSUME NEW t, NEW height, NEW range, NEW u, NEW n, NEW parent, NEW i, NEW new, NEW mid, NEW m,
           SplitCase(t, height, range, u, n, parent, i, new, mid, m),
           NEW b \in Int, OthersFit(t, n, b)
    PROVE  LeavesFit(u, b)
<1>1. /\ n \in Nodes(t) /\ Nodes(u) = Nodes(t) \cup {new} /\ ~IsLeaf(u, parent)
      /\ IsLeaf(u, n) = IsLeaf(t, n) /\ IsLeaf(u, new) = IsLeaf(t, n)
      /\ \A q \in Nodes(t) \ {n, parent} : IsLeaf(u, q) = IsLeaf(t, q) /\ Keys(u, q) = Keys(t, q)
  BY SplitNodes
<1>2. PICK l \in Nat : l = Len(Keys(t, n)) /\ mid \in Nat /\ mid + 1 <= l
  BY SplitKeys
<1>3. Len(Keys(u, n)) = mid /\ Len(Keys(u, new)) = Len(Keys(t, n)) - (mid + 1)
  BY SplitKeys
<1>4. ASSUME NEW q \in Nodes(u), IsLeaf(u, q)
      PROVE  Len(Keys(u, q)) < b
  <2>1. CASE q = n \/ q = new
    <3>1. l <= b
      BY <1>1, <1>2, <1>4, <2>1 DEF OthersFit
    <3>2. mid < b /\ l - (mid + 1) < b
      BY <1>2, <3>1
    <3>. QED
      BY <1>2, <1>3, <2>1, <3>2
  <2>2. CASE q \in Nodes(t) \ {n, parent}
    BY <1>1, <1>4, <2>2 DEF OthersFit
  <2>. QED
    BY <1>1, <1>4, <2>1, <2>2
<1>. QED
  BY <1>4 DEF LeavesFit

-----------------------------------------------------------------------------
(* Each step of an insertion. *)

WellFormed(t, acc) == Stored(t, acc) /\ \E height, range : Shape(t, height, range)

\* u holds what t does, or one key less; t is the split of a node that is a leaf or not.
SplitLoses(t, u, leaf) ==
    /\ ~leaf => HeldIn(u) = HeldIn(t)
    /\ HeldIn(u) = HeldIn(t) \/ \E m \in HeldIn(t) : HeldIn(u) = HeldIn(t) \ {m}

\* What an insertion counts on after it has split node n.
Divided(t, u, n, acc) ==
    /\ WellFormed(u, acc) /\ SplitLoses(t, u, IsLeaf(t, n))
    /\ \A b \in Int : OthersFit(t, n, b) => LeavesFit(u, b)

\* Split keeps a tree well formed, and takes at most the key it hands up out of the
\* leaves; an inner node loses nothing.
LEMMA SplitKeeps ==
    ASSUME NEW t, NEW height, NEW range, Shape(t, height, range), NEW acc, Stored(t, acc),
           NEW parent \in Nodes(t), NEW i \in 1..Len(Kids(t, parent)), NEW n \in Nodes(t),
           n = Kids(t, parent)[i], Len(Keys(t, n)) >= 2
    PROVE  /\ Divided(t, Split(t, n, parent), n, acc)
           /\ Split(t, n, parent).root = t.root
           /\ Len(Keys(Split(t, n, parent), t.root)) =
                IF parent = t.root THEN Len(Keys(t, t.root)) + 1 ELSE Len(Keys(t, t.root))
<1>. DEFINE u == Split(t, n, parent)
            new == Len(t.nodes) + 1
            mid == Len(Keys(t, n)) \div 2
            m == Keys(t, n)[mid + 1]
<1>1. Labelled(t, height, range) /\ Chained(t, range)
  BY DEF Shape
<1>2. Typed(u) /\ IsSplit(t, u, n, parent, i, new, mid, m)
  BY <1>1, SplitIs
<1>. HIDE DEF u, new, mid, m
<1>3. SplitCase(t, height, range, u, n, parent, i, new, mid, m)
  BY <1>1, <1>2 DEF SplitCase
<1>4. Shape(u, HeightAfter(height, n, new), RangeAfter(range, n, new, m))
  <2>1. Levelled(u, HeightAfter(height, n, new))
    BY <1>3, SplitLevelled
  <2>2. Ranged(u, RangeAfter(range, n, new, m))
    BY <1>3, SplitRanged
  <2>3. Rooted(u)
    BY <1>3, SplitRooted
  <2>4. Chained(u, RangeAfter(range, n, new, m))
    BY <1>1, <1>3, SplitChained
  <2>. QED
    BY <1>2, <2>1, <2>2, <2>3, <2>4 DEF Shape, Labelled
<1>5. Stored(u, acc)
  BY <1>3, SplitStored
<1>6. SplitLoses(t, u, IsLeaf(t, n))
  <2>1. /\ ~IsLeaf(t, n) => HeldIn(u) = HeldIn(t)
        /\ IsLeaf(t, n) => m \in HeldIn(t) /\ HeldIn(u) = HeldIn(t) \ {m}
    BY <1>3, SplitHeld
  <2>. QED
    BY <2>1 DEF SplitLoses
<1>7. \A b \in Int : OthersFit(t, n, b) => LeavesFit(u, b)
  <2>1. ASSUME NEW b \in Int, OthersFit(t, n, b)
        PROVE  LeavesFit(u, b)
    BY <1>3, <2>1, SplitFits
  <2>. QED
    BY <2>1
<1>8. u.root = t.root
  BY <1>2 DEF IsSplit
<1>9. Len(Keys(u, t.root)) = IF parent = t.root THEN Len(Keys(t, t.root)) + 1 ELSE Len(Keys(t, t.root))
  <2>1. t.root \in Nodes(t) /\ n # t.root
        /\ \A q \in Nodes(t) \ {n, parent} : Keys(u, q) = Keys(t, q)
    BY <1>3, SplitNodes
  <2>2. Len(Keys(u, parent)) = Len(Keys(t, parent)) + 1
    BY <1>3, SplitKeys
  <2>. QED
    BY <2>1, <2>2
<1>. QED
  BY <1>4, <1>5, <1>6, <1>7, <1>8, <1>9 DEF Divided, WellFormed, u

\* A root with no key and one child over the old one.
AddRoot(t) ==
    [nodes |-> Append(t.nodes, Internal(<<>>, <<t.root>>)), root |-> Len(t.nodes) + 1]

\* What a root over the root changes.
LEMMA AddRootIs ==
    ASSUME NEW t, Typed(t)
    PROVE  LET u == AddRoot(t)
               above == Len(t.nodes) + 1
           IN  /\ Typed(u) /\ u.root = above /\ Nodes(u) = Nodes(t) \cup {above}
               /\ above \notin Nodes(t) /\ above \in Nat
               /\ \A q \in Nodes(t) : u.nodes[q] = t.nodes[q]
               /\ IsLeaf(u, above) = FALSE /\ Keys(u, above) = <<>> /\ Ids(u, above) = <<>>
               /\ Kids(u, above) = <<t.root>> /\ Link(u, above) = NoLeaf
<1>. DEFINE u == AddRoot(t)
            N == Len(t.nodes)
            top == Internal(<<>>, <<t.root>>)
<1>1. N \in Nat /\ Nodes(t) = 1..N /\ t.nodes \in Seq(NodeRecord) /\ t.root \in Nodes(t)
  BY Fields
<1>. HIDE DEF N
<1>2. top \in NodeRecord
  <2>1. t.root \in Nat
    BY <1>1
  <2>. QED
    BY <2>1 DEF Internal, NodeRecord, NoLeaf
<1>. HIDE DEF top
<1>3. u.nodes = Append(t.nodes, top) /\ u.root = N + 1 /\ u = [nodes |-> u.nodes, root |-> u.root]
  BY DEF AddRoot, top, N
<1>. HIDE DEF u
<1>4. PICK s : s = Append(t.nodes, top)
  OBVIOUS
<1>5. /\ s \in Seq(NodeRecord) /\ Len(s) = N + 1 /\ s[N + 1] = top
      /\ \A q \in 1..N : s[q] = t.nodes[q]
  BY <1>1, <1>2, <1>4, AppendIs DEF N
<1>6. Nodes(u) = 1..(N + 1)
  BY <1>3, <1>4, <1>5 DEF Nodes
<1>7. /\ IsLeaf(u, N + 1) = FALSE /\ Keys(u, N + 1) = <<>> /\ Ids(u, N + 1) = <<>>
      /\ Kids(u, N + 1) = <<t.root>> /\ Link(u, N + 1) = NoLeaf
  BY <1>3, <1>4, <1>5 DEF IsLeaf, Keys, Ids, Kids, Link, top, Internal
<1>8. \A q \in Nodes(t) : u.nodes[q] = t.nodes[q]
  BY <1>1, <1>3, <1>4, <1>5
<1>9. ASSUME NEW q \in Nodes(u)
      PROVE  Kids(u, q) \in Seq(Nodes(u))
  <2>1. CASE q = N + 1
    <3>1. t.root \in Nodes(u)
      BY <1>1, <1>6
    <3>2. <<t.root>> \in Seq(Nodes(u))
      BY <3>1
    <3>. QED
      BY <1>7, <2>1, <3>2
  <2>2. CASE q # N + 1
    <3>1. q \in Nodes(t) /\ Nodes(t) \subseteq Nodes(u)
      BY <1>1, <1>6, <2>2
    <3>2. Kids(u, q) = Kids(t, q)
      BY <1>8, <3>1 DEF Kids
    <3>3. Kids(t, q) \in Seq(Nodes(t))
      BY <3>1, Fields
    <3>. QED
      BY <3>1, <3>2, <3>3, WiderSeq
  <2>. QED
    BY <2>1, <2>2
<1>10. Typed(u)
  <2>1. u.nodes \in Seq(NodeRecord) /\ u.root \in Nat /\ u.root \in Nodes(u)
    BY <1>1, <1>3, <1>4, <1>5, <1>6
  <2>. QED
    BY <1>3, <1>9, <2>1 DEF Typed
<1>11. Nodes(u) = Nodes(t) \cup {N + 1} /\ N + 1 \notin Nodes(t) /\ N + 1 \in Nat
  BY <1>1, <1>6
<1>. QED
  BY <1>3, <1>7, <1>8, <1>10, <1>11 DEF u, N

\* A root over the root keeps a tree well formed and what it holds.
LEMMA AddRootKeeps ==
    ASSUME NEW t, NEW height, NEW range, Shape(t, height, range), NEW acc, Stored(t, acc)
    PROVE  /\ Stored(AddRoot(t), acc) /\ \E h, r : Shape(AddRoot(t), h, r)
           /\ HeldIn(AddRoot(t)) = HeldIn(t)
<1>0. Typed(t) /\ Levelled(t, height) /\ Ranged(t, range) /\ Rooted(t) /\ Chained(t, range)
  BY DEF Shape, Labelled
<1>1. PICK u : u = AddRoot(t)
  OBVIOUS
<1>2. PICK above : above = Len(t.nodes) + 1
  OBVIOUS
<1>3. /\ Typed(u) /\ u.root = above /\ Nodes(u) = Nodes(t) \cup {above}
      /\ above \notin Nodes(t) /\ above \in Nat
      /\ \A q \in Nodes(t) : u.nodes[q] = t.nodes[q]
      /\ IsLeaf(u, above) = FALSE /\ Keys(u, above) = <<>> /\ Ids(u, above) = <<>>
      /\ Kids(u, above) = <<t.root>> /\ Link(u, above) = NoLeaf
  BY <1>0, <1>1, <1>2, AddRootIs
<1>4. \A q \in Nodes(t) :
        /\ IsLeaf(u, q) = IsLeaf(t, q) /\ Keys(u, q) = Keys(t, q) /\ Ids(u, q) = Ids(t, q)
        /\ Kids(u, q) = Kids(t, q) /\ Link(u, q) = Link(t, q)
  BY <1>3 DEF IsLeaf, Keys, Ids, Kids, Link
<1>5. /\ t.root \in Nodes(t) /\ height \in [Nodes(t) -> Nat] /\ range \in [Nodes(t) -> SUBSET Int]
      /\ range[t.root] = Int
      /\ \A q \in Nodes(t) : \A j \in 1..Len(Kids(t, q)) : Kids(t, q)[j] \in Nodes(t)
  BY <1>0, Fields DEF Levelled, Ranged
<1>6. Len(<<t.root>>) = 1 /\ <<t.root>>[1] = t.root /\ Len(<<>>) = 0
  OBVIOUS
<1>. DEFINE h == [q \in Nodes(u) |-> IF q = above THEN height[t.root] + 1 ELSE height[q]]
            r == [q \in Nodes(u) |-> IF q = above THEN Int ELSE range[q]]
<1>7. /\ h \in [Nodes(u) -> Nat] /\ h[above] = height[t.root] + 1
      /\ \A q \in Nodes(t) : h[q] = height[q]
  BY <1>3, <1>5
<1>8. /\ r \in [Nodes(u) -> SUBSET Int] /\ r[above] = Int
      /\ \A q \in Nodes(t) : r[q] = range[q]
  BY <1>3, <1>5
<1>. HIDE DEF h, r
<1>9. Levelled(u, h)
  <2>1. \A q \in Nodes(u) : h[q] <= h[u.root]
    <3>1. \A q \in Nodes(t) : height[q] <= height[t.root] /\ height[q] \in Nat
      BY <1>0, <1>5 DEF Levelled
    <3>2. \A q \in Nodes(t) : height[q] <= height[t.root] + 1
      BY <1>5, <3>1
    <3>. QED
      BY <1>3, <1>5, <1>7, <3>2
  <2>2. ASSUME NEW q \in Nodes(u), IsLeaf(u, q)
        PROVE  h[q] = 0 /\ Kids(u, q) = <<>> /\ Len(Ids(u, q)) = Len(Keys(u, q))
    BY <1>0, <1>3, <1>4, <1>7, <2>2 DEF Levelled
  <2>3. ASSUME NEW q \in Nodes(u), ~IsLeaf(u, q)
        PROVE  /\ Link(u, q) = NoLeaf /\ Ids(u, q) = <<>>
               /\ Len(Kids(u, q)) = Len(Keys(u, q)) + 1
               /\ \A i \in 1..Len(Kids(u, q)) : h[q] = h[Kids(u, q)[i]] + 1
    <3>1. CASE q = above
      <4>1. Len(Kids(u, q)) = 1 /\ Len(Keys(u, q)) = 0 /\ Kids(u, q)[1] = t.root
        BY <1>3, <1>6, <3>1
      <4>2. \A i \in 1..Len(Kids(u, q)) : i = 1
        BY <4>1
      <4>3. Link(u, q) = NoLeaf /\ Ids(u, q) = <<>>
        BY <1>3, <3>1
      <4>4. h[q] = h[t.root] + 1
        BY <1>5, <1>7, <3>1
      <4>. QED
        BY <4>1, <4>2, <4>3, <4>4
    <3>2. CASE q # above
      <4>1. q \in Nodes(t) /\ ~IsLeaf(t, q)
        BY <1>3, <1>4, <2>3, <3>2
      <4>2. /\ Link(t, q) = NoLeaf /\ Ids(t, q) = <<>>
            /\ Len(Kids(t, q)) = Len(Keys(t, q)) + 1
            /\ \A i \in 1..Len(Kids(t, q)) : height[q] = height[Kids(t, q)[i]] + 1
        BY <1>0, <4>1 DEF Levelled
      <4>. QED
        BY <1>4, <1>5, <1>7, <4>1, <4>2
    <3>. QED
      BY <3>1, <3>2
  <2>. QED
    BY <1>7, <2>1, <2>2, <2>3 DEF Levelled
<1>10. Ranged(u, r)
  <2>1. r[u.root] = Int
    BY <1>3, <1>8
  <2>2. ASSUME NEW q \in Nodes(u)
        PROVE  /\ IsInterval(r[q]) /\ r[q] # {}
               /\ IsIncreasing(Keys(u, q))
               /\ \A i \in 1..Len(Keys(u, q)) : Keys(u, q)[i] \in r[q]
    <3>1. CASE q = above
      <4>1. IsInterval(Int) /\ Int # {}
        BY DEF IsInterval
      <4>2. IsIncreasing(<<>>)
        BY DEF IsIncreasing
      <4>3. 1..Len(Keys(u, above)) = {}
        BY <1>3, <1>6
      <4>. QED
        BY <1>3, <1>8, <3>1, <4>1, <4>2, <4>3
    <3>2. CASE q # above
      BY <1>0, <1>3, <1>4, <1>8, <3>2 DEF Ranged
    <3>. QED
      BY <3>1, <3>2
  <2>3. ASSUME NEW q \in Nodes(u), ~IsLeaf(u, q), NEW i \in 1..Len(Kids(u, q))
        PROVE  r[Kids(u, q)[i]] = Part(Keys(u, q), r[q], i)
    <3>1. CASE q = above
      <4>0. Len(Kids(u, q)) = 1 /\ Kids(u, q)[1] = t.root
        BY <1>3, <1>6, <3>1
      <4>1. i = 1 /\ Kids(u, q)[i] = t.root
        BY <4>0
      <4>2. Part(<<>>, Int, 1) = Int
        BY <1>6 DEF Part, Between
      <4>. QED
        BY <1>3, <1>5, <1>8, <3>1, <4>1, <4>2
    <3>2. CASE q # above
      <4>1. q \in Nodes(t) /\ ~IsLeaf(t, q) /\ i \in 1..Len(Kids(t, q))
        BY <1>3, <1>4, <2>3, <3>2
      <4>2. range[Kids(t, q)[i]] = Part(Keys(t, q), range[q], i)
        BY <1>0, <4>1 DEF Ranged
      <4>. QED
        BY <1>4, <1>5, <1>8, <4>1, <4>2
    <3>. QED
      BY <3>1, <3>2
  <2>. QED
    BY <1>8, <2>1, <2>2, <2>3 DEF Ranged
<1>11. Rooted(u)
  <2>1. ASSUME NEW q \in Nodes(u) \ {u.root}
        PROVE  \E p \in Nodes(u) : \E i \in 1..Len(Kids(u, p)) : Kids(u, p)[i] = q
    <3>1. q \in Nodes(t)
      BY <1>3, <2>1
    <3>2. CASE q = t.root
      <4>1. 1 \in 1..Len(Kids(u, above)) /\ Kids(u, above)[1] = q
        BY <1>3, <1>6, <3>2
      <4>. QED
        BY <1>3, <4>1
    <3>3. CASE q # t.root
      <4>1. PICK p \in Nodes(t) : \E i \in 1..Len(Kids(t, p)) : Kids(t, p)[i] = q
        BY <1>0, <3>1, <3>3 DEF Rooted
      <4>. QED
        BY <1>3, <1>4, <4>1
    <3>. QED
      BY <3>2, <3>3
  <2>. QED
    BY <2>1 DEF Rooted
<1>12. Chained(u, r)
  <2>1. ASSUME NEW q \in Nodes(u), IsLeaf(u, q)
        PROVE  \/ Link(u, q) = NoLeaf /\ \A a \in r[q], b \in Int : a <= b => b \in r[q]
               \/ Link(u, q) \in Nodes(u) /\ IsLeaf(u, Link(u, q)) /\ Adjacent(r, q, Link(u, q))
    <3>1. q \in Nodes(t) /\ IsLeaf(t, q)
      BY <1>3, <1>4, <2>1
    <3>2. CASE Link(t, q) = NoLeaf /\ \A a \in range[q], b \in Int : a <= b => b \in range[q]
      BY <1>4, <1>8, <3>1, <3>2
    <3>3. CASE Link(t, q) \in Nodes(t) /\ IsLeaf(t, Link(t, q)) /\ Adjacent(range, q, Link(t, q))
      BY <1>3, <1>4, <1>8, <3>1, <3>3 DEF Adjacent
    <3>. QED
      BY <1>0, <3>1, <3>2, <3>3 DEF Chained
  <2>. QED
    BY <2>1 DEF Chained
<1>13. Stored(u, acc)
  <2>1. 1..Len(Keys(u, above)) = {}
    BY <1>3, <1>6
  <2>2. \A q \in Nodes(u) : \A i \in 1..Len(Keys(u, q)) : Keys(u, q)[i] \in DOMAIN acc
    BY <1>3, <1>4, <2>1 DEF Stored
  <2>3. \A q \in Nodes(u) : IsLeaf(u, q) =>
            \A i \in 1..Len(Keys(u, q)) : Ids(u, q)[i] = acc[Keys(u, q)[i]]
    <3>1. \A q \in Nodes(u) : IsLeaf(u, q) =>
            q \in Nodes(t) /\ IsLeaf(t, q) /\ Keys(u, q) = Keys(t, q) /\ Ids(u, q) = Ids(t, q)
      BY <1>3, <1>4
    <3>2. \A q \in Nodes(t) : IsLeaf(t, q) =>
            \A i \in 1..Len(Keys(t, q)) : Ids(t, q)[i] = acc[Keys(t, q)[i]]
      BY DEF Stored
    <3>. QED
      BY <3>1, <3>2
  <2>4. ASSUME NEW k \in DOMAIN acc
        PROVE  \E q \in Nodes(u) : \E i \in 1..Len(Keys(u, q)) : Keys(u, q)[i] = k
    <3>1. PICK q \in Nodes(t) : \E i \in 1..Len(Keys(t, q)) : Keys(t, q)[i] = k
      BY DEF Stored
    <3>. QED
      BY <1>3, <1>4, <3>1
  <2>. QED
    BY <2>2, <2>3, <2>4 DEF Stored
<1>14. HeldIn(u) = HeldIn(t)
  <2>1. {q \in Nodes(u) : IsLeaf(u, q)} = {q \in Nodes(t) : IsLeaf(t, q)}
    BY <1>3, <1>4
  <2>. QED
    BY <1>4, <2>1 DEF HeldIn
<1>15. Shape(u, h, r)
  BY <1>3, <1>9, <1>10, <1>11, <1>12 DEF Shape, Labelled
<1>. QED
  BY <1>1, <1>13, <1>14, <1>15

\* The node n that Grow splits is the old root; the new one gets its middle key.
LEMMA GrowKeeps ==
    ASSUME NEW t, NEW acc, WellFormed(t, acc), Len(Keys(t, t.root)) >= 2
    PROVE  /\ Divided(t, Grow(t), t.root, acc)
           /\ Len(Keys(Grow(t), Grow(t).root)) = 1
<1>1. PICK height, range : Shape(t, height, range)
  BY DEF WellFormed
<1>2. Stored(t, acc) /\ Typed(t)
  BY <1>1 DEF WellFormed, Shape, Labelled
<1>3. PICK u : u = AddRoot(t)
  OBVIOUS
<1>4. PICK above : above = Len(t.nodes) + 1
  OBVIOUS
<1>5. PICK h, r : Shape(u, h, r)
  BY <1>1, <1>2, <1>3, AddRootKeeps
<1>6. Stored(u, acc) /\ HeldIn(u) = HeldIn(t)
  BY <1>1, <1>2, <1>3, AddRootKeeps
<1>7. /\ u.root = above /\ Nodes(u) = Nodes(t) \cup {above} /\ above \notin Nodes(t)
      /\ \A q \in Nodes(t) : u.nodes[q] = t.nodes[q]
      /\ IsLeaf(u, above) = FALSE /\ Keys(u, above) = <<>> /\ Kids(u, above) = <<t.root>>
  BY <1>2, <1>3, <1>4, AddRootIs
<1>8. \A q \in Nodes(t) : IsLeaf(u, q) = IsLeaf(t, q) /\ Keys(u, q) = Keys(t, q)
  BY <1>7 DEF IsLeaf, Keys
<1>9. t.root \in Nodes(t)
  BY <1>2, Fields
<1>10. PICK n : n = t.root
  OBVIOUS
<1>11. /\ above \in Nodes(u) /\ n \in Nodes(u) /\ 1 \in 1..Len(Kids(u, above))
       /\ Kids(u, above)[1] = n /\ Len(Keys(u, n)) >= 2 /\ Len(Keys(u, above)) = 0
  <2>1. Len(<<t.root>>) = 1 /\ <<t.root>>[1] = t.root /\ Len(<<>>) = 0
    OBVIOUS
  <2>. QED
    BY <1>7, <1>8, <1>9, <1>10, <2>1
<1>12. Grow(t) = Split(u, n, above)
  BY <1>3, <1>4, <1>10 DEF Grow, AddRoot
<1>13. PICK v : v = Split(u, n, above)
  OBVIOUS
<1>14. Divided(u, v, n, acc) /\ v.root = u.root
       /\ Len(Keys(v, u.root)) = IF above = u.root THEN Len(Keys(u, u.root)) + 1 ELSE Len(Keys(u, u.root))
  <2>1. PICK i : i = 1 /\ i \in 1..Len(Kids(u, above)) /\ n = Kids(u, above)[i]
    BY <1>11
  <2>. QED
    BY <1>5, <1>6, <1>11, <1>13, <2>1, SplitKeeps
<1>15. Len(Keys(v, v.root)) = 1
  BY <1>7, <1>11, <1>14
<1>16. \A b \in Int : OthersFit(t, n, b) => OthersFit(u, n, b)
  BY <1>7, <1>8 DEF OthersFit
<1>17. SplitLoses(t, v, IsLeaf(t, n))
  BY <1>6, <1>8, <1>9, <1>10, <1>14 DEF Divided, SplitLoses
<1>. QED
  BY <1>10, <1>12, <1>13, <1>14, <1>15, <1>16, <1>17 DEF Divided

\* A key that the leaf n of its range lacks goes into n; nothing else changes.
LEMMA AddToLeafIs ==
    ASSUME NEW t, NEW height, NEW range, Labelled(t, height, range),
           NEW n \in Nodes(t), IsLeaf(t, n), NEW k \in Int, NEW recordId \in Nat
    PROVE  LET u == AddToLeaf(t, n, k, recordId)
               pos == Below(Keys(t, n), k) + 1
           IN  /\ Typed(u) /\ u.root = t.root /\ Nodes(u) = Nodes(t)
               /\ pos \in 1..(Len(Keys(t, n)) + 1)
               /\ Keys(u, n) = InsertAt(Keys(t, n), pos, k)
               /\ Ids(u, n) = InsertAt(Ids(t, n), pos, recordId)
               /\ \A q \in Nodes(t) :
                    /\ IsLeaf(u, q) = IsLeaf(t, q) /\ Kids(u, q) = Kids(t, q) /\ Link(u, q) = Link(t, q)
                    /\ q # n => Keys(u, q) = Keys(t, q) /\ Ids(u, q) = Ids(t, q)
<1>0. Typed(t) /\ Levelled(t, height) /\ Ranged(t, range)
  BY DEF Labelled
<1>. DEFINE u == AddToLeaf(t, n, k, recordId)
            pos == Below(Keys(t, n), k) + 1
            N == Len(t.nodes)
            keys == InsertAt(Keys(t, n), pos, k)
            ids == InsertAt(Ids(t, n), pos, recordId)
            full == [t.nodes[n] EXCEPT !.keys = keys, !.recordIds = ids]
<1>1. N \in Nat /\ Nodes(t) = 1..N /\ t.nodes \in Seq(NodeRecord) /\ t.root \in Nodes(t)
      /\ DOMAIN t.nodes = 1..N /\ t.nodes[n] \in NodeRecord
  BY <1>0, Fields DEF Nodes
<1>2. /\ Keys(t, n) \in Seq(Int) /\ Ids(t, n) \in Seq(Nat) /\ Len(Ids(t, n)) = Len(Keys(t, n))
      /\ IsIncreasing(Keys(t, n))
  BY <1>0, Fields DEF Levelled, Ranged
<1>3. pos \in 1..(Len(Keys(t, n)) + 1) /\ pos \in 1..(Len(Ids(t, n)) + 1)
  <2>1. Below(Keys(t, n), k) \in 0..Len(Keys(t, n))
    BY <1>2, BelowIs
  <2>. QED
    BY <1>2, <2>1
<1>. HIDE DEF pos
<1>4. keys \in Seq(Int)
  BY <1>2, <1>3, InsertAtIs
<1>5. ids \in Seq(Nat)
  BY <1>2, <1>3, InsertAtIs
<1>6. u = [t EXCEPT !.nodes = [t.nodes EXCEPT ![n] = full]]
  <2>1. t.nodes[n].keys = Keys(t, n) /\ t.nodes[n].recordIds = Ids(t, n)
    BY DEF Keys, Ids
  <2>. QED
    BY <1>1, <2>1 DEF AddToLeaf, pos, Nodes, NodeRecord, Typed
<1>. HIDE DEF keys, ids, u, N
<1>7. /\ full \in NodeRecord /\ full.keys = keys /\ full.recordIds = ids
      /\ full.leaf = t.nodes[n].leaf /\ full.children = t.nodes[n].children
      /\ full.next = t.nodes[n].next
  BY <1>1, <1>4, <1>5 DEF NodeRecord
<1>. HIDE DEF full
<1>8. /\ u.nodes = [t.nodes EXCEPT ![n] = full] /\ u.root = t.root
      /\ u = [nodes |-> u.nodes, root |-> u.root]
  BY <1>0, <1>6 DEF Typed
<1>9. u.nodes \in Seq(NodeRecord) /\ Nodes(u) = Nodes(t)
  <2>1. t.nodes \in [1..N -> NodeRecord]
    BY <1>1
  <2>2. u.nodes \in [1..N -> NodeRecord]
    BY <1>7, <1>8, <2>1
  <2>3. \A f \in [1..N -> NodeRecord] : f \in Seq(NodeRecord) /\ DOMAIN f = 1..N
    BY <1>1
  <2>. QED
    BY <1>1, <2>2, <2>3 DEF Nodes
<1>10. u.nodes[n] = full /\ \A q \in Nodes(t) : q # n => u.nodes[q] = t.nodes[q]
  BY <1>8 DEF Nodes
<1>11. \A q \in Nodes(t) :
        /\ IsLeaf(u, q) = IsLeaf(t, q) /\ Kids(u, q) = Kids(t, q) /\ Link(u, q) = Link(t, q)
        /\ q # n => Keys(u, q) = Keys(t, q) /\ Ids(u, q) = Ids(t, q)
  <2>1. ASSUME NEW q \in Nodes(t)
        PROVE  /\ IsLeaf(u, q) = IsLeaf(t, q) /\ Kids(u, q) = Kids(t, q) /\ Link(u, q) = Link(t, q)
               /\ q # n => Keys(u, q) = Keys(t, q) /\ Ids(u, q) = Ids(t, q)
    <3>1. CASE q = n
      BY <1>7, <1>10, <3>1 DEF IsLeaf, Kids, Link
    <3>2. CASE q # n
      BY <1>10, <3>2 DEF IsLeaf, Kids, Link, Keys, Ids
    <3>. QED
      BY <3>1, <3>2
  <2>. QED
    BY <2>1
<1>12. Keys(u, n) = keys /\ Ids(u, n) = ids
  BY <1>7, <1>10 DEF Keys, Ids
<1>13. Typed(u)
  <2>1. \A q \in Nodes(u) : Kids(u, q) \in Seq(Nodes(u))
    BY <1>0, <1>9, <1>11 DEF Typed
  <2>2. u.root \in Nat /\ u.root \in Nodes(u)
    BY <1>0, <1>8, <1>9 DEF Typed
  <2>. QED
    BY <1>8, <1>9, <2>1, <2>2 DEF Typed
<1>. QED
  BY <1>3, <1>8, <1>9, <1>11, <1>12, <1>13 DEF u, keys, ids, pos

\* The record ids after an accepted insertion.
AcceptedAfter(acc, k, recordId) ==
    [j \in DOMAIN acc \cup {k} |-> IF j = k THEN recordId ELSE acc[j]]

\* A new key put into the leaf whose range it is in keeps a tree well formed, and is all
\* that the tree holds more.
LEMMA AddToLeafKeeps ==
    ASSUME NEW t, NEW height, NEW range, Shape(t, height, range), NEW acc, Stored(t, acc),
           NEW n \in Nodes(t), IsLeaf(t, n), NEW k \in Int, k \in range[n],
           k \notin ToSet(Keys(t, n)), NEW recordId \in Nat
    PROVE  LET u == AddToLeaf(t, n, k, recordId)
           IN  /\ Shape(u, height, range) /\ Stored(u, AcceptedAfter(acc, k, recordId))
               /\ HeldIn(u) = HeldIn(t) \cup {k}
               /\ Len(Keys(u, n)) = Len(Keys(t, n)) + 1
<1>0. Labelled(t, height, range) /\ Typed(t) /\ Levelled(t, height) /\ Ranged(t, range)
      /\ Rooted(t) /\ Chained(t, range)
  BY DEF Shape, Labelled
<1>1. PICK u : u = AddToLeaf(t, n, k, recordId)
  OBVIOUS
<1>2. PICK pos : pos = Below(Keys(t, n), k) + 1
  OBVIOUS
<1>3. /\ Typed(u) /\ u.root = t.root /\ Nodes(u) = Nodes(t)
      /\ pos \in 1..(Len(Keys(t, n)) + 1)
      /\ Keys(u, n) = InsertAt(Keys(t, n), pos, k)
      /\ Ids(u, n) = InsertAt(Ids(t, n), pos, recordId)
      /\ \A q \in Nodes(t) :
            /\ IsLeaf(u, q) = IsLeaf(t, q) /\ Kids(u, q) = Kids(t, q) /\ Link(u, q) = Link(t, q)
            /\ q # n => Keys(u, q) = Keys(t, q) /\ Ids(u, q) = Ids(t, q)
  BY <1>0, <1>1, <1>2, AddToLeafIs
<1>4. PICK keys \in Seq(Int) : keys = Keys(t, n)
  BY <1>0, Fields
<1>5. PICK ids \in Seq(Nat) : ids = Ids(t, n) /\ Len(ids) = Len(keys)
  BY <1>0, <1>4, Fields DEF Levelled
<1>6. PICK l \in Nat : l = Len(keys)
  BY <1>4
<1>7. PICK all \in Seq(Int) : all = Keys(u, n) /\ IsInserted(keys, pos, k, all)
  <2>1. pos \in 1..(Len(keys) + 1)
    BY <1>3, <1>4
  <2>2. InsertAt(keys, pos, k) \in Seq(Int) /\ IsInserted(keys, pos, k, InsertAt(keys, pos, k))
    BY <1>4, <2>1, InsertAtIs
  <2>. QED
    BY <1>3, <1>4, <2>2
<1>8. PICK every \in Seq(Nat) : every = Ids(u, n) /\ IsInserted(ids, pos, recordId, every)
  <2>1. pos \in 1..(Len(ids) + 1)
    BY <1>3, <1>4, <1>5
  <2>2. InsertAt(ids, pos, recordId) \in Seq(Nat)
        /\ IsInserted(ids, pos, recordId, InsertAt(ids, pos, recordId))
    BY <1>5, <2>1, InsertAtIs
  <2>. QED
    BY <1>3, <1>5, <2>2
<1>9. pos \in 1..(l + 1) /\ IsIncreasing(keys) /\ DOMAIN keys = 1..l /\ \A j \in 1..l : keys[j] \in Int
  BY <1>0, <1>3, <1>4, <1>6 DEF Ranged
<1>10. /\ Len(all) = l + 1 /\ Len(every) = l + 1
       /\ \A j \in 1..(l + 1) : all[j] = IF j < pos THEN keys[j] ELSE IF j = pos THEN k ELSE keys[j - 1]
       /\ \A j \in 1..(l + 1) : every[j] = IF j < pos THEN ids[j] ELSE IF j = pos THEN recordId ELSE ids[j - 1]
  BY <1>5, <1>6, <1>7, <1>8 DEF IsInserted
<1>11. \A j \in 1..l : keys[j] # k
  BY <1>4, <1>9 DEF ToSet

\* The keys of u in n: one of t, with its record id, or k.
<1>12. ASSUME NEW j \in 1..(l + 1)
       PROVE  \/ all[j] = k /\ every[j] = recordId
              \/ \E a \in 1..l : all[j] = keys[a] /\ every[j] = ids[a]
  <2>1. CASE j < pos
    <3>1. j \in 1..l
      BY <1>9, <2>1
    <3>. QED
      BY <1>10, <2>1, <3>1
  <2>2. CASE j = pos
    <3>1. ~(j < pos)
      BY <1>9, <2>2
    <3>. QED
      BY <1>10, <2>2, <3>1
  <2>3. CASE j > pos
    <3>1. j - 1 \in 1..l /\ ~(j < pos) /\ j # pos
      BY <1>9, <2>3
    <3>. QED
      BY <1>10, <3>1
  <2>. QED
    BY <1>9, <2>1, <2>2, <2>3
<1>13. ASSUME NEW a \in 1..l
       PROVE  \E j \in 1..(l + 1) : all[j] = keys[a]
  <2>1. CASE a < pos
    <3>1. a \in 1..(l + 1)
      OBVIOUS
    <3>. QED
      BY <1>10, <2>1, <3>1
  <2>2. CASE ~(a < pos)
    <3>1. a + 1 \in 1..(l + 1) /\ ~(a + 1 < pos) /\ a + 1 # pos /\ (a + 1) - 1 = a
      BY <1>9, <2>2
    <3>2. all[a + 1] = keys[a]
      BY SMTT(30), <1>10, <3>1
    <3>. QED
      BY <3>1, <3>2
  <2>. QED
    BY <2>1, <2>2
<1>14. all[pos] = k /\ every[pos] = recordId
  <2>1. ~(pos < pos)
    BY <1>9
  <2>. QED
    BY <1>9, <1>10, <2>1
<1>15. IsIncreasing(all)
  <2>1. \A i \in 1..l : keys[i] < k <=> i <= pos - 1
    <3>1. Below(keys, k) \in 0..Len(keys) /\ \A i \in 1..Len(keys) : keys[i] < k <=> i <= Below(keys, k)
      BY <1>4, <1>9, BelowIs
    <3>2. pos - 1 = Below(keys, k)
      BY <1>2, <1>4, <3>1
    <3>. QED
      BY <1>6, <3>1, <3>2
  <2>2. pos > 1 => keys[pos - 1] < k
    <3>1. pos > 1 => pos - 1 \in 1..l /\ pos - 1 <= pos - 1
      BY <1>9
    <3>. QED
      BY <2>1, <3>1
  <2>3. pos <= Len(keys) => k < keys[pos]
    <3>1. pos <= l => pos \in 1..l /\ ~(pos <= pos - 1)
      BY <1>9
    <3>2. pos <= l => ~(keys[pos] < k) /\ keys[pos] # k /\ keys[pos] \in Int
      BY <1>9, <1>11, <2>1, <3>1
    <3>. QED
      BY <1>6, <3>2
  <2>4. pos \in 1..(Len(keys) + 1)
    BY <1>6, <1>9
  <2>. QED
    BY <1>4, <1>7, <1>9, <2>2, <2>3, <2>4, InsertedInOrder
<1>16. \A j \in 1..(l + 1) : all[j] \in range[n]
  <2>1. \A a \in 1..l : keys[a] \in range[n]
    BY <1>0, <1>4, <1>6 DEF Ranged
  <2>. QED
    BY <1>12, <2>1
<1>17. Levelled(u, height)
  <2>1. \A q \in Nodes(t) : Len(Ids(u, q)) = Len(Keys(u, q)) \/ ~IsLeaf(t, q)
    <3>1. Len(Ids(u, n)) = Len(Keys(u, n))
      BY <1>7, <1>8, <1>10
    <3>. QED
      BY <1>0, <1>3, <3>1 DEF Levelled
  <2>2. \A q \in Nodes(t) : ~IsLeaf(t, q) => q # n
    OBVIOUS
  <2>. QED
    BY <1>0, <1>3, <2>1, <2>2 DEF Levelled
<1>18. Ranged(u, range)
  <2>1. /\ range \in [Nodes(u) -> SUBSET Int] /\ range[u.root] = Int
    BY <1>0, <1>3 DEF Ranged
  <2>2. ASSUME NEW q \in Nodes(u)
        PROVE  /\ IsInterval(range[q]) /\ range[q] # {} /\ IsIncreasing(Keys(u, q))
               /\ \A j \in 1..Len(Keys(u, q)) : Keys(u, q)[j] \in range[q]
    <3>1. CASE q = n
      BY <1>0, <1>7, <1>10, <1>15, <1>16, <3>1 DEF Ranged
    <3>2. CASE q # n
      BY <1>0, <1>3, <3>2 DEF Ranged
    <3>. QED
      BY <3>1, <3>2
  <2>3. ASSUME NEW q \in Nodes(u), ~IsLeaf(u, q)
        PROVE  \A i \in 1..Len(Kids(u, q)) : range[Kids(u, q)[i]] = Part(Keys(u, q), range[q], i)
    <3>1. q # n /\ q \in Nodes(t) /\ ~IsLeaf(t, q) /\ Keys(u, q) = Keys(t, q) /\ Kids(u, q) = Kids(t, q)
      BY <1>3, <2>3
    <3>. QED
      BY <1>0, <3>1 DEF Ranged
  <2>. QED
    BY <2>1, <2>2, <2>3 DEF Ranged
<1>19. Rooted(u)
  BY <1>0, <1>3 DEF Rooted
<1>20. Chained(u, range)
  BY <1>0, <1>3 DEF Chained
<1>21. PICK after : after = AcceptedAfter(acc, k, recordId)
  OBVIOUS
<1>22. /\ DOMAIN after = DOMAIN acc \cup {k} /\ after[k] = recordId
       /\ \A j \in DOMAIN acc : j # k => after[j] = acc[j]
  BY <1>21 DEF AcceptedAfter
<1>23. \A q \in Nodes(t) : \A j \in 1..Len(Keys(t, q)) : Keys(t, q)[j] \in DOMAIN acc
  BY DEF Stored

\* k is in no leaf of t.
<1>24. ASSUME NEW q \in Nodes(t), IsLeaf(t, q), NEW j \in 1..Len(Keys(t, q))
       PROVE  Keys(t, q)[j] # k
  <2>1. SUFFICES ASSUME Keys(t, q)[j] = k PROVE FALSE
    OBVIOUS
  <2>2. k \in range[q]
    BY <1>0, <2>1 DEF Ranged
  <2>3. q = Last(Path(t, k)) /\ n = Last(Path(t, k))
    BY <1>0, <1>24, <2>2, LeafOfKey
  <2>. QED
    BY <1>4, <1>6, <1>11, <2>1, <2>3
<1>25. Stored(u, after)
  <2>1. ASSUME NEW q \in Nodes(u), NEW j \in 1..Len(Keys(u, q))
        PROVE  Keys(u, q)[j] \in DOMAIN after
    <3>1. CASE q = n
      <4>1. j \in 1..(l + 1) /\ Keys(u, q)[j] = all[j]
        BY <1>7, <1>10, <2>1, <3>1
      <4>2. \A a \in 1..l : keys[a] \in DOMAIN acc
        BY <1>4, <1>6, <1>23
      <4>. QED
        BY <1>12, <1>22, <4>1, <4>2
    <3>2. CASE q # n
      BY <1>3, <1>22, <1>23, <3>2
    <3>. QED
      BY <3>1, <3>2
  <2>2. ASSUME NEW q \in Nodes(u), IsLeaf(u, q), NEW j \in 1..Len(Keys(u, q))
        PROVE  Ids(u, q)[j] = after[Keys(u, q)[j]]
    <3>1. CASE q = n
      <4>1. j \in 1..(l + 1) /\ Keys(u, q)[j] = all[j] /\ Ids(u, q)[j] = every[j]
        BY <1>7, <1>8, <1>10, <2>2, <3>1
      <4>2. \A a \in 1..l : keys[a] \in DOMAIN acc /\ ids[a] = acc[keys[a]]
        BY <1>4, <1>5, <1>6, <1>23 DEF Stored
      <4>3. \A a \in 1..l : ids[a] = after[keys[a]]
        BY <1>11, <1>22, <4>2
      <4>4. every[j] = after[all[j]]
        <5>1. CASE all[j] = k /\ every[j] = recordId
          BY <1>22, <5>1
        <5>2. CASE \E a \in 1..l : all[j] = keys[a] /\ every[j] = ids[a]
          BY <4>3, <5>2
        <5>. QED
          BY <1>12, <4>1, <5>1, <5>2
      <4>. QED
        BY <4>1, <4>4
    <3>2. CASE q # n
      <4>1. q \in Nodes(t) /\ IsLeaf(t, q) /\ Keys(u, q) = Keys(t, q) /\ Ids(u, q) = Ids(t, q)
        BY <1>3, <2>2, <3>2
      <4>2. Ids(t, q)[j] = acc[Keys(t, q)[j]] /\ Keys(t, q)[j] \in DOMAIN acc /\ Keys(t, q)[j] # k
        BY <1>23, <1>24, <2>2, <4>1 DEF Stored
      <4>. QED
        BY <1>22, <4>1, <4>2
    <3>. QED
      BY <3>1, <3>2
  <2>3. ASSUME NEW x \in DOMAIN after
        PROVE  \E q \in Nodes(u) : \E j \in 1..Len(Keys(u, q)) : Keys(u, q)[j] = x
    <3>1. CASE x = k
      <4>1. pos \in 1..Len(Keys(u, n)) /\ Keys(u, n)[pos] = k
        BY <1>7, <1>9, <1>10, <1>14
      <4>. QED
        BY <1>3, <3>1, <4>1
    <3>2. CASE x # k
      <4>1. PICK q \in Nodes(t) : \E j \in 1..Len(Keys(t, q)) : Keys(t, q)[j] = x
        BY <1>22, <3>2 DEF Stored
      <4>2. CASE q = n
        <5>1. PICK a \in 1..l : keys[a] = x
          BY <1>4, <1>6, <4>1, <4>2
        <5>2. PICK j \in 1..(l + 1) : all[j] = x
          BY <1>13, <5>1
        <5>. QED
          BY <1>3, <1>7, <1>10, <5>2
      <4>3. CASE q # n
        BY <1>3, <4>1, <4>3
      <4>. QED
        BY <4>2, <4>3
    <3>. QED
      BY <3>1, <3>2
  <2>. QED
    BY <2>1, <2>2, <2>3 DEF Stored
<1>26. HeldIn(u) = HeldIn(t) \cup {k}
  <2>1. /\ \A x : x \in HeldIn(t) <=>
            \E q \in Nodes(t) : IsLeaf(t, q) /\ \E j \in 1..Len(Keys(t, q)) : Keys(t, q)[j] = x
        /\ \A x : x \in HeldIn(u) <=>
            \E q \in Nodes(u) : IsLeaf(u, q) /\ \E j \in 1..Len(Keys(u, q)) : Keys(u, q)[j] = x
    BY <1>0, <1>3, HeldIs
  <2>2. k \in HeldIn(u)
    <3>1. pos \in 1..Len(Keys(u, n)) /\ Keys(u, n)[pos] = k
      BY <1>7, <1>9, <1>10, <1>14
    <3>. QED
      BY <1>3, <2>1, <3>1
  <2>3. ASSUME NEW q \in Nodes(t), IsLeaf(t, q), NEW j \in 1..Len(Keys(t, q))
        PROVE  Keys(t, q)[j] \in HeldIn(u)
    <3>1. CASE q = n
      <4>1. j \in 1..l /\ Keys(t, q)[j] = keys[j]
        BY <1>4, <1>6, <2>3, <3>1
      <4>2. PICK a \in 1..(l + 1) : all[a] = keys[j]
        BY <1>13, <4>1
      <4>. QED
        BY <1>3, <1>7, <1>10, <2>1, <4>1, <4>2
    <3>2. CASE q # n
      BY <1>3, <2>1, <2>3, <3>2
    <3>. QED
      BY <3>1, <3>2
  <2>4. ASSUME NEW q \in Nodes(u), IsLeaf(u, q), NEW j \in 1..Len(Keys(u, q))
        PROVE  Keys(u, q)[j] \in HeldIn(t) \cup {k}
    <3>1. CASE q = n
      <4>1. j \in 1..(l + 1) /\ Keys(u, q)[j] = all[j]
        BY <1>7, <1>10, <2>4, <3>1
      <4>2. \A a \in 1..l : keys[a] \in HeldIn(t)
        BY <1>4, <1>6, <2>1
      <4>. QED
        BY <1>12, <4>1, <4>2
    <3>2. CASE q # n
      BY <1>3, <2>1, <2>4, <3>2
    <3>. QED
      BY <3>1, <3>2
  <2>. QED
    BY <2>1, <2>2, <2>3, <2>4
<1>27. Shape(u, height, range)
  BY <1>3, <1>17, <1>18, <1>19, <1>20 DEF Shape, Labelled
<1>28. Len(Keys(u, n)) = Len(Keys(t, n)) + 1
  BY <1>4, <1>6, <1>7, <1>10
<1>. QED
  BY <1>1, <1>21, <1>25, <1>26, <1>27, <1>28

-----------------------------------------------------------------------------
(* The invariant. *)

\* What was accepted has a key and a record id.
Accepted ==
    /\ accepted = [k \in DOMAIN accepted |-> accepted[k]]
    /\ DOMAIN accepted \subseteq Key
    /\ \A k \in DOMAIN accepted : accepted[k] \in RecordId

\* While the order was never reduced, every leaf has room for a key and the root has at
\* most the keys that fill it.
Fits(t, b) == LeavesFit(t, b) /\ Len(Keys(t, t.root)) <= b

\* The inductive invariant: the tree is well formed, its leaves hold accepted keys beside
\* their record ids and lack only separators, and no node is full before an insertion.
IInv ==
    /\ order \in Order /\ fits \in BOOLEAN
    /\ Accepted
    /\ WellFormed(tree, accepted)
    /\ fits => Fits(tree, order - 1)

\* Keys, record ids and orders are numbers, and an order is at least 3.
LEMMA Integers ==
    /\ \A k \in Key : k \in Int
    /\ \A r \in RecordId : r \in Nat
    /\ \A b \in Order : b \in Nat /\ b >= 3
<1>1. \A b \in Order : b \in Nat /\ b \notin 0..2
  BY BTreeAssumption
<1>2. \A b \in Nat : b \notin 0..2 => b >= 3
  OBVIOUS
<1>. QED
  BY <1>1, <1>2, BTreeAssumption

\* The tree in which insert looks for the leaf.
LEMMA RoomKeeps ==
    ASSUME IInv
    PROVE  /\ WellFormed(RoomAtRoot, accepted)
           /\ SplitLoses(tree, RoomAtRoot, ~fits)
           /\ fits => LeavesFit(RoomAtRoot, order - 1)
                      /\ Len(Keys(RoomAtRoot, RoomAtRoot.root)) < order - 1
<1>1. PICK u : u = RoomAtRoot
  OBVIOUS
<1>2. PICK b \in Int : b = order - 1 /\ b >= 2
  <2>1. order \in Nat /\ order >= 3
    BY Integers DEF IInv
  <2>. QED
    BY <2>1
<1>3. WellFormed(tree, accepted) /\ (fits => LeavesFit(tree, b) /\ Len(Keys(tree, tree.root)) <= b)
  BY <1>2 DEF IInv, Fits
<1>4. PICK height, range : Shape(tree, height, range)
  BY <1>3 DEF WellFormed
<1>5. tree.root \in Nodes(tree) /\ Len(Keys(tree, tree.root)) \in Nat
  <2>1. Typed(tree)
    BY <1>4 DEF Shape, Labelled
  <2>. QED
    BY <2>1, Fields
<1>6. Full(tree.nodes[tree.root]) <=> Len(Keys(tree, tree.root)) >= b
  BY <1>2 DEF Full, Keys
<1>7. CASE Full(tree.nodes[tree.root])
  <2>1. u = Grow(tree)
    BY <1>1, <1>7 DEF RoomAtRoot
  <2>2. Len(Keys(tree, tree.root)) >= 2
    BY <1>2, <1>5, <1>6, <1>7
  <2>3. Divided(tree, u, tree.root, accepted) /\ Len(Keys(u, u.root)) = 1
    BY <1>3, <2>1, <2>2, GrowKeeps
  <2>4. fits => ~IsLeaf(tree, tree.root)
    BY <1>2, <1>3, <1>5, <1>6, <1>7 DEF LeavesFit
  <2>5. fits => LeavesFit(u, b)
    <3>1. fits => OthersFit(tree, tree.root, b)
      BY <1>3 DEF LeavesFit, OthersFit
    <3>. QED
      BY <2>3, <3>1 DEF Divided
  <2>6. 1 < b
    BY <1>2
  <2>7. SplitLoses(tree, u, ~fits)
    BY <2>3, <2>4 DEF Divided, SplitLoses
  <2>. QED
    BY <1>1, <1>2, <2>3, <2>5, <2>6, <2>7 DEF Divided
<1>8. CASE ~Full(tree.nodes[tree.root])
  <2>1. u = tree
    BY <1>1, <1>8 DEF RoomAtRoot
  <2>2. Len(Keys(tree, tree.root)) < b
    BY <1>2, <1>5, <1>6, <1>8
  <2>3. SplitLoses(tree, u, ~fits)
    BY <2>1 DEF SplitLoses
  <2>. QED
    BY <1>1, <1>2, <1>3, <2>1, <2>2, <2>3
<1>. QED
  BY <1>7, <1>8

\* The last step of insert: the key goes into its leaf, which is split if it is full.
LEMMA LeafStepKeeps ==
    ASSUME NEW t, NEW acc, WellFormed(t, acc), order \in Nat, order >= 3,
           NEW k \in Int, NEW recordId \in Nat,
           k \notin ToSet(t.nodes[Last(Path(t, k))].keys)
    PROVE  LET u == SplitLeafIfFull(AddToLeaf(t, Last(Path(t, k)), k, recordId), Path(t, k))
           IN  /\ WellFormed(u, AcceptedAfter(acc, k, recordId))
               /\ \/ HeldIn(u) = HeldIn(t) \cup {k}
                  \/ \E m \in HeldIn(t) \cup {k} : HeldIn(u) = (HeldIn(t) \cup {k}) \ {m}
               /\ LeavesFit(t, order - 1) /\ Len(Keys(t, t.root)) < order - 1 => Fits(u, order - 1)
<1>1. PICK b \in Int : b = order - 1 /\ b >= 2
  OBVIOUS
<1>2. PICK height, range : Shape(t, height, range)
  BY DEF WellFormed
<1>3. Stored(t, acc) /\ Labelled(t, height, range) /\ Typed(t) /\ Levelled(t, height)
  BY <1>2 DEF WellFormed, Shape, Labelled
<1>4. PICK p : p = Path(t, k)
  OBVIOUS
<1>5. PICK n : n = Last(p)
  OBVIOUS
<1>6. n \in Nodes(t) /\ IsLeaf(t, n) /\ k \in range[n]
  BY <1>3, <1>4, <1>5, LeafOfKey
<1>7. k \notin ToSet(Keys(t, n))
  BY <1>4, <1>5 DEF Keys
<1>8. PICK a : a = AddToLeaf(t, n, k, recordId)
  OBVIOUS
<1>9. PICK after : after = AcceptedAfter(acc, k, recordId)
  OBVIOUS
<1>10. /\ Shape(a, height, range) /\ Stored(a, after)
       /\ HeldIn(a) = HeldIn(t) \cup {k} /\ Len(Keys(a, n)) = Len(Keys(t, n)) + 1
  BY <1>2, <1>3, <1>6, <1>7, <1>8, <1>9, AddToLeafKeeps
<1>11. WellFormed(a, after) /\ Typed(a)
  BY <1>10 DEF WellFormed, Shape, Labelled
<1>12. /\ a.root = t.root /\ Nodes(a) = Nodes(t)
       /\ \A q \in Nodes(t) :
            /\ IsLeaf(a, q) = IsLeaf(t, q) /\ Kids(a, q) = Kids(t, q)
            /\ q # n => Keys(a, q) = Keys(t, q)
  <2>0. PICK pos : pos = Below(Keys(t, n), k) + 1
    OBVIOUS
  <2>1. /\ Typed(a) /\ a.root = t.root /\ Nodes(a) = Nodes(t)
        /\ pos \in 1..(Len(Keys(t, n)) + 1)
        /\ Keys(a, n) = InsertAt(Keys(t, n), pos, k)
        /\ Ids(a, n) = InsertAt(Ids(t, n), pos, recordId)
        /\ \A q \in Nodes(t) :
            /\ IsLeaf(a, q) = IsLeaf(t, q) /\ Kids(a, q) = Kids(t, q) /\ Link(a, q) = Link(t, q)
            /\ q # n => Keys(a, q) = Keys(t, q) /\ Ids(a, q) = Ids(t, q)
    BY <1>3, <1>6, <1>8, <2>0, AddToLeafIs
  <2>. QED
    BY <2>1
<1>13. /\ Len(Keys(a, n)) \in Nat /\ Len(Keys(t, n)) \in Nat /\ t.root \in Nodes(t)
       /\ Len(Keys(t, t.root)) \in Nat /\ Len(Keys(a, t.root)) \in Nat
  BY <1>3, <1>6, <1>11, <1>12, Fields
<1>14. PICK u : u = SplitLeafIfFull(a, p)
  OBVIOUS
<1>15. Full(a.nodes[n]) <=> Len(Keys(a, n)) >= b
  BY <1>1 DEF Full, Keys
<1>16. LeavesFit(t, b) => OthersFit(a, n, b)
  <2>1. SUFFICES ASSUME LeavesFit(t, b), NEW q \in Nodes(a), IsLeaf(a, q)
                 PROVE  Len(Keys(a, q)) < b \/ (q = n /\ Len(Keys(a, q)) <= b)
    BY DEF OthersFit
  <2>2. Len(Keys(t, q)) < b
    BY <1>12, <2>1 DEF LeavesFit
  <2>3. CASE q = n
    BY <1>10, <1>13, <2>2, <2>3
  <2>4. CASE q # n
    BY <1>12, <2>1, <2>2, <2>4
  <2>. QED
    BY <2>3, <2>4
<1>17. p \in Seq(Nodes(t)) /\ Len(p) = height[t.root] + 1 /\ p[1] = t.root
       /\ \A i \in 1..(Len(p) - 1) :
            ~IsLeaf(t, p[i]) /\ p[i + 1] = Kids(t, p[i])[Place(Keys(t, p[i]), k)]
  BY <1>3, <1>4, PathIs DEF IsPath
<1>18. PICK l \in Nat : l = Len(p) /\ l >= 1 /\ n = p[l]
  <2>1. height[t.root] \in Nat
    BY <1>3, <1>13 DEF Levelled
  <2>2. Len(p) \in Nat /\ Len(p) >= 1 /\ n = p[Len(p)]
    BY <1>5, <1>17, <2>1 DEF Last
  <2>. QED
    BY <2>2

\* What each of the three cases shows.
<1>19. SUFFICES /\ WellFormed(u, after)
                /\ HeldIn(u) = HeldIn(a) \/ \E m \in HeldIn(a) : HeldIn(u) = HeldIn(a) \ {m}
                /\ LeavesFit(t, b) /\ Len(Keys(t, t.root)) < b => Fits(u, b)
  BY <1>1, <1>4, <1>5, <1>8, <1>9, <1>10, <1>14
<1>20. CASE ~Full(a.nodes[n])
  <2>1. u = a
    BY <1>5, <1>14, <1>20 DEF SplitLeafIfFull
  <2>2. Len(Keys(a, n)) < b
    BY <1>13, <1>15, <1>20
  <2>3. LeavesFit(t, b) => LeavesFit(a, b)
    BY <1>16, <2>2 DEF LeavesFit, OthersFit
  <2>4. Len(Keys(t, t.root)) < b => Len(Keys(a, a.root)) <= b
    <3>1. CASE t.root = n
      BY <1>12, <1>13, <2>2, <3>1
    <3>2. CASE t.root # n
      <4>1. Keys(a, a.root) = Keys(t, t.root)
        BY <1>12, <1>13, <3>2
      <4>. QED
        BY <1>13, <4>1
    <3>. QED
      BY <3>1, <3>2
  <2>. QED
    BY <1>11, <2>1, <2>3, <2>4 DEF Fits
<1>21. CASE Full(a.nodes[n]) /\ l = 1
  <2>1. u = Grow(a) /\ n = a.root
    BY <1>5, <1>12, <1>14, <1>17, <1>18, <1>21 DEF SplitLeafIfFull
  <2>2. Len(Keys(a, a.root)) >= 2
    BY <1>1, <1>13, <1>15, <1>21, <2>1
  <2>3. Divided(a, u, n, after) /\ Len(Keys(u, u.root)) = 1
    BY <1>11, <2>1, <2>2, GrowKeeps
  <2>4. LeavesFit(t, b) => LeavesFit(u, b)
    BY <1>16, <2>3 DEF Divided
  <2>5. 1 <= b
    BY <1>1
  <2>. QED
    BY <2>3, <2>4, <2>5 DEF Divided, SplitLoses, Fits
<1>22. CASE Full(a.nodes[n]) /\ l # 1
  <2>1. PICK parent : parent = p[l - 1]
    OBVIOUS
  <2>2. l - 1 \in 1..(Len(p) - 1) /\ (l - 1) + 1 = l /\ l - 1 \in 1..Len(p)
    BY <1>18, <1>22
  <2>3. parent \in Nodes(t) /\ ~IsLeaf(t, parent) /\ n = Kids(t, parent)[Place(Keys(t, parent), k)]
    <3>1. p[l - 1] \in Nodes(t)
      BY <1>17, <2>2
    <3>2. ~IsLeaf(t, p[l - 1]) /\ p[(l - 1) + 1] = Kids(t, p[l - 1])[Place(Keys(t, p[l - 1]), k)]
      BY <1>17, <2>2
    <3>. QED
      BY <1>18, <2>1, <2>2, <3>1, <3>2
  <2>4. PICK i : i = Place(Keys(t, parent), k)
    OBVIOUS
  <2>5. i \in 1..Len(Kids(t, parent))
    BY <1>3, <2>3, <2>4, ChildIs
  <2>6. /\ parent \in Nodes(a) /\ i \in 1..Len(Kids(a, parent)) /\ n \in Nodes(a)
        /\ n = Kids(a, parent)[i]
    BY <1>6, <1>12, <2>3, <2>4, <2>5
  <2>7. Len(Keys(a, n)) >= 2
    BY <1>1, <1>13, <1>15, <1>22
  <2>8. u = Split(a, n, parent)
    BY <1>5, <1>14, <1>18, <1>22, <2>1 DEF SplitLeafIfFull
  <2>9. /\ Divided(a, u, n, after) /\ u.root = a.root
        /\ Len(Keys(u, a.root)) =
                IF parent = a.root THEN Len(Keys(a, a.root)) + 1 ELSE Len(Keys(a, a.root))
    BY <1>10, <2>6, <2>7, <2>8, SplitKeeps
  <2>10. n # t.root
    BY <1>3, <2>3, <2>4, <2>5, OneAtEachHeight
  <2>11. Keys(a, a.root) = Keys(t, t.root)
    BY <1>12, <1>13, <2>10
  <2>12. LeavesFit(t, b) => LeavesFit(u, b)
    BY <1>16, <2>9 DEF Divided
  <2>13. Len(Keys(t, t.root)) < b => Len(Keys(u, u.root)) <= b
    BY <1>13, <2>9, <2>11
  <2>. QED
    BY <2>9, <2>12, <2>13 DEF Divided, SplitLoses, Fits
<1>. QED
  BY <1>20, <1>21, <1>22

\* The empty index, one leaf that is the root, satisfies the invariant.
LEMMA InitIInv == Init => IInv
<1>. SUFFICES ASSUME Init PROVE IInv
  OBVIOUS
<1>1. PICK leaf : leaf = Leaf(<<>>, <<>>, NoLeaf)
  OBVIOUS
<1>2. tree = [nodes |-> <<leaf>>, root |-> 1] /\ DOMAIN accepted = {} /\ fits = TRUE /\ order \in Order
      /\ accepted = [k \in DOMAIN accepted |-> accepted[k]]
  BY <1>1 DEF Init
<1>3. Len(<<leaf>>) = 1 /\ <<leaf>>[1] = leaf /\ DOMAIN <<leaf>> = 1..1 /\ 1..1 = {1}
  OBVIOUS
<1>4. /\ Nodes(tree) = {1} /\ tree.root = 1 /\ tree.nodes = <<leaf>> /\ tree.nodes[1] = leaf
      /\ IsLeaf(tree, 1) = TRUE /\ Keys(tree, 1) = <<>> /\ Ids(tree, 1) = <<>>
      /\ Kids(tree, 1) = <<>> /\ Link(tree, 1) = NoLeaf
  BY <1>1, <1>2, <1>3 DEF Nodes, IsLeaf, Keys, Ids, Kids, Link, Leaf
<1>5. Len(<<>>) = 0 /\ 1..0 = {} /\ <<>> \in Seq({1})
  OBVIOUS
<1>6. Typed(tree)
  <2>1. leaf \in NodeRecord
    BY <1>1 DEF Leaf, NodeRecord, NoLeaf
  <2>2. <<leaf>> \in Seq(NodeRecord) /\ 1 \in Nat
    BY <2>1
  <2>. QED
    BY <1>2, <1>4, <1>5, <2>2 DEF Typed
<1>. DEFINE h == [q \in {1} |-> 0]
            r == [q \in {1} |-> Int]
<1>7. Levelled(tree, h)
  BY <1>4, <1>5 DEF Levelled
<1>8. Ranged(tree, r)
  <2>1. IsInterval(Int) /\ Int # {} /\ IsIncreasing(<<>>)
    BY DEF IsInterval, IsIncreasing
  <2>. QED
    BY <1>4, <1>5, <2>1 DEF Ranged
<1>9. Rooted(tree)
  BY <1>4 DEF Rooted
<1>10. Chained(tree, r)
  BY <1>4 DEF Chained
<1>11. Stored(tree, accepted)
  BY <1>2, <1>4, <1>5 DEF Stored
<1>12. WellFormed(tree, accepted)
  BY <1>6, <1>7, <1>8, <1>9, <1>10, <1>11 DEF WellFormed, Shape, Labelled
<1>13. Fits(tree, order - 1)
  <2>1. order \in Nat /\ order >= 3
    BY <1>2, Integers
  <2>. QED
    BY <1>4, <1>5, <2>1 DEF Fits, LeavesFit
<1>. QED
  BY <1>2, <1>12, <1>13 DEF IInv, Accepted

\* Every insertion and every new index keeps the invariant.
LEMMA NextIInv == IInv /\ [Next]_vars => IInv'
<1>. SUFFICES ASSUME IInv, [Next]_vars PROVE IInv'
  OBVIOUS
<1>1. order \in Nat /\ order >= 3 /\ order \in Order /\ fits \in BOOLEAN /\ Accepted
  BY Integers DEF IInv
<1>2. ASSUME NEW k \in Key, NEW recordId \in RecordId, insert(k, recordId)
      PROVE  IInv'
  <2>1. PICK t : t = RoomAtRoot
    OBVIOUS
  <2>2. WellFormed(t, accepted)
        /\ (fits => LeavesFit(t, order - 1) /\ Len(Keys(t, t.root)) < order - 1)
    BY <2>1, RoomKeeps
  <2>3. UNCHANGED <<order, fits>>
    BY <1>2 DEF insert
  <2>4. CASE tree' = t /\ UNCHANGED accepted
    <3>1. fits => Fits(t, order - 1)
      <4>1. Typed(t)
        BY <2>2 DEF WellFormed, Shape, Labelled
      <4>2. Len(Keys(t, t.root)) \in Nat
        BY <4>1, Fields
      <4>. QED
        BY <1>1, <2>2, <4>2 DEF Fits
    <3>. QED
      BY <1>1, <2>2, <2>3, <2>4, <3>1 DEF IInv, Accepted
  <2>5. CASE /\ k \notin ToSet(t.nodes[Last(Path(t, k))].keys)
             /\ tree' = SplitLeafIfFull(AddToLeaf(t, Last(Path(t, k)), k, recordId), Path(t, k))
             /\ accepted' = AcceptedAfter(accepted, k, recordId)
    <3>1. k \in Int /\ recordId \in Nat
      BY Integers
    <3>2. PICK after : after = AcceptedAfter(accepted, k, recordId)
      OBVIOUS
    <3>3. PICK u : u = SplitLeafIfFull(AddToLeaf(t, Last(Path(t, k)), k, recordId), Path(t, k))
      OBVIOUS
    <3>4. /\ WellFormed(u, after)
          /\ LeavesFit(t, order - 1) /\ Len(Keys(t, t.root)) < order - 1 => Fits(u, order - 1)
      BY <1>1, <2>2, <2>5, <3>1, <3>2, <3>3, LeafStepKeeps
    <3>5. /\ after = [j \in DOMAIN after |-> after[j]] /\ DOMAIN after \subseteq Key
          /\ \A j \in DOMAIN after : after[j] \in RecordId
      BY <1>1, <3>2 DEF AcceptedAfter, Accepted
    <3>6. tree' = u /\ accepted' = after
      BY <2>5, <3>2, <3>3
    <3>7. Accepted'
      BY <3>5, <3>6 DEF Accepted
    <3>8. WellFormed(tree', accepted') /\ (fits' => Fits(tree', order' - 1))
      BY <2>2, <2>3, <3>4, <3>6
    <3>9. WellFormed(tree, accepted)' /\ (fits => Fits(tree, order - 1))'
      BY <3>8
    <3>. QED
      BY <1>1, <2>3, <3>7, <3>9 DEF IInv
  <2>. QED
    BY <1>2, <2>1, <2>4, <2>5 DEF insert, AcceptedAfter
<1>3. ASSUME NEW savedOrder \in Order, loadFromFile(savedOrder)
      PROVE  IInv'
  <2>1. order' = savedOrder /\ fits' = (fits /\ savedOrder >= order) /\ UNCHANGED <<tree, accepted>>
    BY <1>3 DEF loadFromFile
  <2>2. savedOrder \in Nat
    BY Integers
  <2>3. ASSUME fits'
        PROVE  Fits(tree, savedOrder - 1)
    <3>0. fits /\ savedOrder >= order
      BY <2>1, <2>3, Zenon
    <3>1. fits /\ order - 1 <= savedOrder - 1
      BY <1>1, <2>2, <3>0
    <3>2. LeavesFit(tree, order - 1) /\ Len(Keys(tree, tree.root)) <= order - 1
      BY <3>1 DEF IInv, Fits
    <3>3. Typed(tree)
      BY DEF IInv, WellFormed, Shape, Labelled
    <3>4. \A q \in Nodes(tree) : Len(Keys(tree, q)) \in Nat
      BY <3>3, Fields
    <3>5. Len(Keys(tree, tree.root)) <= savedOrder - 1
      <4>1. Len(Keys(tree, tree.root)) \in Nat
        BY <3>3, <3>4, Fields
      <4>. QED
        BY <1>1, <2>2, <3>1, <3>2, <4>1
    <3>6. LeavesFit(tree, savedOrder - 1)
      BY <1>1, <2>2, <3>1, <3>2, <3>4 DEF LeavesFit
    <3>. QED
      BY <3>5, <3>6 DEF Fits
  <2>4. fits' => Fits(tree', order' - 1)
    BY <2>1, <2>3
  <2>5. (fits => Fits(tree, order - 1))'
    BY <2>4
  <2>6. fits' \in BOOLEAN
    BY <1>1, <2>1
  <2>7. WellFormed(tree', accepted')
    BY <2>1 DEF IInv
  <2>8. WellFormed(tree, accepted)'
    BY <2>7
  <2>9. Accepted'
    BY <1>1, <2>1 DEF Accepted
  <2>. QED
    BY <2>1, <2>5, <2>6, <2>8, <2>9 DEF IInv
<1>4. CASE UNCHANGED vars
  <2>1. order' = order /\ tree' = tree /\ accepted' = accepted /\ fits' = fits
    BY <1>4 DEF vars
  <2>2. WellFormed(tree', accepted') /\ (fits' => Fits(tree', order' - 1))
    BY <2>1 DEF IInv
  <2>3. WellFormed(tree, accepted)' /\ (fits => Fits(tree, order - 1))'
    BY <2>2
  <2>4. Accepted'
    BY <1>1, <2>1 DEF Accepted
  <2>. QED
    BY <1>1, <2>1, <2>3, <2>4 DEF IInv
<1>. QED
  BY <1>2, <1>3, <1>4 DEF Next

\* In every state the index can be in, for any keys, orders and number of insertions, the
\* tree is well formed, stores what was accepted, and no leaf is too large for the
\* order unless a smaller order was loaded.
THEOREM SpecIInv == Spec => []IInv
<1>. QED
  BY InitIInv, NextIInv, PTL DEF Spec

-----------------------------------------------------------------------------
(* The views of the tree. *)

\* Both recursive views go from a node to lower ones.
LEMMA SubtreeIs ==
    ASSUME NEW height, NEW range, Labelled(tree, height, range)
    PROVE  \A n \in Nodes(tree) :
            /\ Subtree[n] \subseteq Nodes(tree)
            /\ Subtree[n] = {n} \cup UNION {Subtree[Kids(tree, n)[i]] : i \in 1..Len(Kids(tree, n))}
<1>0. Typed(tree) /\ Levelled(tree, height)
  BY DEF Labelled
<1>. DEFINE D == Nodes(tree)
            S == SUBSET D
            Children(n) == tree.nodes[n].children
            Round(f, n) == {n} \cup UNION {f[Children(n)[i]] : i \in DOMAIN Children(n)}
            below == CHOOSE f : f = [n \in D |-> Round(f, n)]
            step == [n \in D |-> [f \in [D -> S] |-> Round(f, n)]]
            N == height[tree.root]
<1>1. N \in Nat /\ height \in [D -> 0..N]
  BY <1>0, Fields DEF Levelled
<1>2. ASSUME NEW n \in D, NEW i \in DOMAIN Children(n)
      PROVE  /\ i \in 1..Len(Kids(tree, n)) /\ Children(n)[i] = Kids(tree, n)[i]
             /\ Children(n)[i] \in D /\ height[Children(n)[i]] < height[n]
  <2>1. Kids(tree, n) \in Seq(D) /\ Children(n) = Kids(tree, n)
    BY <1>0, Fields DEF Kids
  <2>2. i \in 1..Len(Kids(tree, n))
    BY <2>1
  <2>3. Kids(tree, n)[i] \in D /\ height[n] = height[Kids(tree, n)[i]] + 1
    BY <2>2, ChildInParent
  <2>4. height[Kids(tree, n)[i]] \in Nat
    BY <1>0, <2>3 DEF Levelled
  <2>. QED
    BY <2>1, <2>2, <2>3, <2>4
<1>. HIDE DEF Children
<1>3. ASSUME NEW n \in D, NEW f \in [D -> S]
      PROVE  Round(f, n) \in S
  <2>1. \A i \in DOMAIN Children(n) : f[Children(n)[i]] \subseteq D
    BY <1>2
  <2>. QED
    BY <2>1
<1>4. ASSUME NEW n \in D, NEW f \in [D -> S], NEW g \in [D -> S],
             \A m \in D : height[m] < height[n] => f[m] = g[m]
      PROVE  Round(f, n) = Round(g, n)
  <2>1. \A i \in DOMAIN Children(n) : f[Children(n)[i]] = g[Children(n)[i]]
    BY <1>2, <1>4
  <2>. QED
    BY <2>1
<1>. HIDE DEF Round
<1>5. \A n \in D : \A f \in [D -> S] : step[n][f] = Round(f, n)
  OBVIOUS
<1>6. PICK Fs : Fs = [D -> S]
  OBVIOUS
<1>7. step \in [D -> [Fs -> S]]
  <2>1. \A n \in D : \A f \in Fs : Round(f, n) \in S
    BY <1>3, <1>6
  <2>2. step = [n \in D |-> [f \in Fs |-> Round(f, n)]]
    BY <1>6
  <2>. HIDE DEF step, S, D
  <2>. QED
    BY <2>1, <2>2
<1>8. S # {}
  BY DEF S
<1>. HIDE DEF step, S, D, N
<1>9. IsRanked(D, S, N, height, Fs, step)
  <2>1. \A n \in D : \A f, g \in Fs :
            (\A m \in D : height[m] < height[n] => f[m] = g[m]) => step[n][f] = step[n][g]
    BY <1>4, <1>5, <1>6
  <2>. QED
    BY <1>1, <1>6, <1>7, <1>8, <2>1 DEF IsRanked
<1>10. PICK f \in Fs : \A n \in D : f[n] = step[n][f]
  BY <1>9, RankedRecursion
<1>11. f = [n \in D |-> Round(f, n)]
  BY <1>5, <1>6, <1>10
<1>12. below = [n \in D |-> Round(below, n)]
  BY <1>11
<1>13. Subtree = below
  BY DEF Subtree, Round, D, Nodes, Node, Children
<1>. HIDE DEF below
<1>14. \A n \in D : Subtree[n] = Round(Subtree, n)
  BY <1>12, <1>13
<1>15. ASSUME NEW n \in D
       PROVE  Subtree[n] = {n} \cup UNION {Subtree[Kids(tree, n)[i]] : i \in 1..Len(Kids(tree, n))}
  <2>1. DOMAIN Children(n) = 1..Len(Kids(tree, n))
    BY <1>0, Fields DEF D, Children, Kids
  <2>2. \A i \in DOMAIN Children(n) : Children(n)[i] = Kids(tree, n)[i]
    BY <1>2
  <2>. QED
    BY <1>14, <2>1, <2>2 DEF Round

\* By induction on the height.
<1>. DEFINE T == {j \in Nat : \A n \in D : height[n] = j => Subtree[n] \subseteq D}
<1>16. ASSUME NEW n \in D, \A i \in DOMAIN Children(n) : Subtree[Children(n)[i]] \subseteq D
       PROVE  Subtree[n] \subseteq D
  BY <1>14, <1>16 DEF Round
<1>17. 0 \in T
  <2>1. ASSUME NEW n \in D, height[n] = 0
        PROVE  Subtree[n] \subseteq D
    <3>1. DOMAIN Children(n) = {}
      <4>1. SUFFICES ASSUME NEW i \in DOMAIN Children(n) PROVE FALSE
        OBVIOUS
      <4>2. height[Children(n)[i]] < 0 /\ Children(n)[i] \in D
        BY <1>2, <2>1
      <4>. QED
        BY <1>1, <4>2
    <3>. QED
      BY <1>16, <3>1
  <2>. QED
    BY <2>1
<1>18. ASSUME NEW j \in Nat, j \in T
       PROVE  j + 1 \in T
  <2>1. ASSUME NEW n \in D, height[n] = j + 1
        PROVE  Subtree[n] \subseteq D
    <3>1. ASSUME NEW i \in DOMAIN Children(n)
          PROVE  Subtree[Children(n)[i]] \subseteq D
      <4>1. PICK c \in D : c = Children(n)[i]
        BY <1>2
      <4>2. height[c] = j
        <5>1. Labelled(tree, height, range) /\ i \in 1..Len(Kids(tree, n)) /\ c = Kids(tree, n)[i]
          BY <1>2, <4>1
        <5>2. height[n] = height[c] + 1 /\ height[c] \in Nat
          BY <1>0, <4>1, <5>1, ChildInParent DEF D, Levelled
        <5>. QED
          BY <2>1, <5>2
      <4>. QED
        BY <1>18, <4>1, <4>2
    <3>. QED
      BY <1>16, <3>1
  <2>. QED
    BY <2>1
<1>19. Nat \subseteq T
  <2>. HIDE DEF T
  <2>. QED
    BY <1>17, <1>18, SetInduction
<1>20. \A n \in D : Subtree[n] \subseteq D
  BY <1>1, <1>19
<1>. QED
  BY <1>15, <1>20 DEF D

\* The recursive height of a node is its label.
LEMMA HeightIs ==
    ASSUME NEW height, NEW range, Labelled(tree, height, range)
    PROVE  \A n \in Nodes(tree) : Height[n] = height[n]
<1>0. Typed(tree) /\ Levelled(tree, height)
  BY DEF Labelled
<1>. DEFINE D == Nodes(tree)
            First(n) == Head(tree.nodes[n].children)
            Round(f, n) == IF n \in Leaves THEN 0 ELSE 1 + f[First(n)]
            high == CHOOSE f : f = [n \in D |-> Round(f, n)]
<1>1. ASSUME NEW n \in D
      PROVE  n \in Leaves <=> IsLeaf(tree, n)
  BY DEF Leaves, Node, Nodes, IsLeaf
<1>2. ASSUME NEW n \in D, ~IsLeaf(tree, n)
      PROVE  First(n) \in D /\ height[n] = 1 + height[First(n)] /\ height[First(n)] \in Nat
  <2>1. Kids(tree, n) \in Seq(D) /\ Len(Kids(tree, n)) = Len(Keys(tree, n)) + 1 /\ Len(Keys(tree, n)) \in Nat
    BY <1>0, <1>2, Fields DEF Levelled
  <2>2. 1 \in 1..Len(Kids(tree, n))
    BY <2>1
  <2>3. Kids(tree, n)[1] \in D /\ height[n] = height[Kids(tree, n)[1]] + 1
    BY <2>2, ChildInParent
  <2>4. First(n) = Kids(tree, n)[1]
    BY <2>1, <2>2 DEF Kids
  <2>5. height[Kids(tree, n)[1]] \in Nat
    BY <1>0, <2>3 DEF Levelled
  <2>. QED
    BY <2>3, <2>4, <2>5
<1>. HIDE DEF First
<1>3. height = [n \in D |-> Round(height, n)]
  <2>1. \A n \in D : height[n] = Round(height, n)
    <3>1. \A n \in D : IsLeaf(tree, n) => height[n] = 0
      BY <1>0 DEF Levelled
    <3>. QED
      BY <1>1, <1>2, <3>1
  <2>2. height \in [D -> Nat]
    BY <1>0 DEF Levelled
  <2>. HIDE DEF Round
  <2>. QED
    BY <2>1, <2>2
<1>. HIDE DEF Round
<1>4. high = [n \in D |-> Round(high, n)]
  BY <1>3
<1>5. Height = high
  BY DEF Height, Round, D, Nodes, Node, First
<1>. HIDE DEF high
<1>. DEFINE T == {j \in Nat : \A n \in D : height[n] = j => high[n] = height[n]}
<1>6. \A n \in D : high[n] = IF IsLeaf(tree, n) THEN 0 ELSE 1 + high[First(n)]
  BY <1>1, <1>4 DEF Round
<1>7. 0 \in T
  <2>1. ASSUME NEW n \in D, height[n] = 0
        PROVE  high[n] = height[n]
    BY <1>0, <1>6, <2>1, LowestIsLeaf
  <2>. QED
    BY <2>1
<1>8. ASSUME NEW j \in Nat, j \in T
      PROVE  j + 1 \in T
  <2>1. ASSUME NEW n \in D, height[n] = j + 1
        PROVE  high[n] = height[n]
    <3>1. ~IsLeaf(tree, n)
      BY <1>0, <2>1, LowestIsLeaf
    <3>2. First(n) \in D /\ height[First(n)] = j
      BY <1>2, <2>1, <3>1
    <3>3. high[First(n)] = height[First(n)]
      BY <1>8, <3>2
    <3>. QED
      BY <1>2, <1>6, <3>1, <3>3
  <2>. QED
    BY <2>1
<1>9. Nat \subseteq T
  <2>. HIDE DEF T
  <2>. QED
    BY <1>7, <1>8, SetInduction
<1>10. \A n \in D : height[n] \in Nat
  BY <1>0 DEF Levelled
<1>. QED
  BY <1>5, <1>9, <1>10 DEF D

\* What holds of a node and itself, and goes from a child to its parent, holds of a node
\* and all below it.
HandedUp(R) ==
    /\ \A n \in Nodes(tree) : <<n, n>> \in R
    /\ \A n, m \in Nodes(tree) : \A i \in 1..Len(Kids(tree, n)) :
            m \in Subtree[Kids(tree, n)[i]] /\ <<Kids(tree, n)[i], m>> \in R => <<n, m>> \in R

\* What holds of a node and itself, and is handed up from children, holds of a node and
\* everything below it.
LEMMA SubtreeInduction ==
    ASSUME NEW height, NEW range, Labelled(tree, height, range), NEW R, HandedUp(R)
    PROVE  \A n \in Nodes(tree) : \A m \in Subtree[n] : <<n, m>> \in R
<1>0. /\ Levelled(tree, height)
      /\ \A n \in Nodes(tree) : <<n, n>> \in R
      /\ \A n, m \in Nodes(tree) : \A i \in 1..Len(Kids(tree, n)) :
            m \in Subtree[Kids(tree, n)[i]] /\ <<Kids(tree, n)[i], m>> \in R => <<n, m>> \in R
  BY DEF Labelled, HandedUp
<1>. DEFINE D == Nodes(tree)
            T == {j \in Nat : \A n \in D : height[n] < j => \A m \in Subtree[n] : <<n, m>> \in R}
<1>1. \A n \in D : height[n] \in Nat
  BY <1>0 DEF Levelled
<1>2. 0 \in T
  BY <1>1
<1>3. ASSUME NEW j \in Nat, j \in T
      PROVE  j + 1 \in T
  <2>1. SUFFICES ASSUME NEW n \in D, height[n] < j + 1, NEW m \in Subtree[n]
                 PROVE  <<n, m>> \in R
    OBVIOUS
  <2>2. /\ m \in Nodes(tree)
        /\ m = n \/ \E i \in 1..Len(Kids(tree, n)) : m \in Subtree[Kids(tree, n)[i]]
    BY SubtreeIs
  <2>3. CASE m = n
    BY <1>0, <2>3
  <2>4. ASSUME NEW i \in 1..Len(Kids(tree, n)), m \in Subtree[Kids(tree, n)[i]]
        PROVE  <<n, m>> \in R
    <3>1. PICK c : c = Kids(tree, n)[i]
      OBVIOUS
    <3>2. c \in D /\ height[n] = height[c] + 1
      BY <3>1, ChildInParent
    <3>3. height[c] < j
      BY <1>1, <2>1, <3>2
    <3>4. <<c, m>> \in R
      BY <1>3, <2>4, <3>1, <3>2, <3>3
    <3>. QED
      BY <1>0, <2>2, <2>4, <3>1, <3>4
  <2>. QED
    BY <2>2, <2>3, <2>4
<1>4. Nat \subseteq T
  <2>. HIDE DEF T
  <2>. QED
    BY <1>2, <1>3, SetInduction
<1>5. ASSUME NEW n \in D
      PROVE  \A m \in Subtree[n] : <<n, m>> \in R
  <2>1. height[n] + 1 \in T /\ height[n] < height[n] + 1
    BY <1>1, <1>4
  <2>. QED
    BY <2>1
<1>. QED
  BY <1>5

\* Every node is below the root.
LEMMA SubtreeOfRoot ==
    ASSUME NEW height, NEW range, Labelled(tree, height, range)
    PROVE  Subtree[tree.root] = Nodes(tree)
<1>0. Typed(tree) /\ Levelled(tree, height) /\ Rooted(tree)
  BY DEF Labelled
<1>. DEFINE D == Nodes(tree)
            R == {q \in D \X D : \A i \in 1..Len(Kids(tree, q[2])) : Kids(tree, q[2])[i] \in Subtree[q[1]]}
<1>1. tree.root \in D /\ \A n \in D : height[n] \in Nat /\ height[n] <= height[tree.root]
  BY <1>0, Fields DEF Levelled
<1>2. ASSUME NEW n \in D
      PROVE  n \in Subtree[n] /\ Subtree[n] \subseteq D
             /\ \A i \in 1..Len(Kids(tree, n)) : Subtree[Kids(tree, n)[i]] \subseteq Subtree[n]
  BY SubtreeIs
<1>3. \A n \in D : \A i \in 1..Len(Kids(tree, n)) : Kids(tree, n)[i] \in D
  BY ChildInParent
<1>4. \A n \in D : \A m \in Subtree[n] : <<n, m>> \in R
  <2>1. \A n \in D : <<n, n>> \in R
    BY <1>2, <1>3
  <2>2. ASSUME NEW n \in D, NEW m \in D, NEW i \in 1..Len(Kids(tree, n)),
               m \in Subtree[Kids(tree, n)[i]], <<Kids(tree, n)[i], m>> \in R
        PROVE  <<n, m>> \in R
    BY <1>2, <2>2
  <2>3. \A n, m \in Nodes(tree) : \A i \in 1..Len(Kids(tree, n)) :
            m \in Subtree[Kids(tree, n)[i]] /\ <<Kids(tree, n)[i], m>> \in R => <<n, m>> \in R
    <3>. HIDE DEF R
    <3>. QED
      BY <2>2
  <2>4. HandedUp(R)
    <3>. HIDE DEF R
    <3>. QED
      BY <2>1, <2>3 DEF HandedUp
  <2>. HIDE DEF R
  <2>. QED
    BY <2>4, SubtreeInduction
<1>5. \A m \in Subtree[tree.root] : \A i \in 1..Len(Kids(tree, m)) : Kids(tree, m)[i] \in Subtree[tree.root]
  BY <1>1, <1>4
<1>. DEFINE T == {d \in Nat : \A n \in D : height[tree.root] - height[n] <= d => n \in Subtree[tree.root]}
<1>6. ASSUME NEW n \in D, n # tree.root
      PROVE  \E p \in D : height[p] = height[n] + 1 /\ (p \in Subtree[tree.root] => n \in Subtree[tree.root])
  <2>1. PICK p \in D : \E i \in 1..Len(Kids(tree, p)) : Kids(tree, p)[i] = n
    BY <1>0, <1>6 DEF Rooted
  <2>2. PICK i \in 1..Len(Kids(tree, p)) : Kids(tree, p)[i] = n
    BY <2>1
  <2>3. height[p] = height[n] + 1
    BY <2>2, ChildInParent
  <2>. QED
    BY <1>5, <2>2, <2>3
<1>7. 0 \in T
  <2>1. SUFFICES ASSUME NEW n \in D, height[tree.root] - height[n] <= 0
                 PROVE  n \in Subtree[tree.root]
    OBVIOUS
  <2>2. n = tree.root
    BY <1>1, <1>6, <2>1
  <2>. QED
    BY <1>2, <2>2
<1>8. ASSUME NEW d \in Nat, d \in T
      PROVE  d + 1 \in T
  <2>1. SUFFICES ASSUME NEW n \in D, height[tree.root] - height[n] <= d + 1
                 PROVE  n \in Subtree[tree.root]
    OBVIOUS
  <2>2. CASE n = tree.root
    BY <1>2, <2>2
  <2>3. CASE n # tree.root
    <3>1. PICK p \in D : height[p] = height[n] + 1 /\ (p \in Subtree[tree.root] => n \in Subtree[tree.root])
      BY <1>6, <2>3
    <3>2. height[tree.root] - height[p] <= d
      BY <1>1, <2>1, <3>1
    <3>. QED
      BY <1>8, <3>1, <3>2
  <2>. QED
    BY <2>2, <2>3
<1>9. Nat \subseteq T
  <2>. HIDE DEF T
  <2>. QED
    BY <1>7, <1>8, SetInduction
<1>10. ASSUME NEW n \in D
       PROVE  n \in Subtree[tree.root]
  <2>1. height[tree.root] - height[n] \in T /\ height[tree.root] - height[n] <= height[tree.root] - height[n]
    BY <1>1, <1>9
  <2>. QED
    BY <2>1
<1>. QED
  BY <1>1, <1>2, <1>10

\* What is below a node is passed only by searches that pass the node.
LEMMA RangeOfSubtree ==
    ASSUME NEW height, NEW range, Labelled(tree, height, range)
    PROVE  \A n \in Nodes(tree) : \A m \in Subtree[n] : range[m] \subseteq range[n]
<1>. DEFINE D == Nodes(tree)
            R == {q \in D \X D : range[q[2]] \subseteq range[q[1]]}
<1>1. \A n \in D : <<n, n>> \in R
  OBVIOUS
<1>2. ASSUME NEW n \in D, NEW m \in D, NEW i \in 1..Len(Kids(tree, n)),
             m \in Subtree[Kids(tree, n)[i]], <<Kids(tree, n)[i], m>> \in R
      PROVE  <<n, m>> \in R
  BY <1>2, ChildInParent
<1>3. \A n \in D : \A m \in Subtree[n] : <<n, m>> \in R
  <2>. HIDE DEF R
  <2>1. \A n, m \in Nodes(tree) : \A i \in 1..Len(Kids(tree, n)) :
            m \in Subtree[Kids(tree, n)[i]] /\ <<Kids(tree, n)[i], m>> \in R => <<n, m>> \in R
    BY <1>2
  <2>2. HandedUp(R)
    BY <1>1, <2>1 DEF HandedUp
  <2>. QED
    BY <2>2, SubtreeInduction
<1>. QED
  BY <1>3

-----------------------------------------------------------------------------
(* The properties. *)

\* The invariant gives the types.
LEMMA TypeFromIInv == IInv => TypeOK
<1>. SUFFICES ASSUME IInv PROVE TypeOK
  OBVIOUS
<1>1. PICK height, range : Labelled(tree, height, range)
  BY DEF IInv, WellFormed, Shape
<1>2. Typed(tree) /\ Levelled(tree, height) /\ Ranged(tree, range)
  BY <1>1 DEF Labelled
<1>3. Node = Nodes(tree) /\ \A n \in Nodes(tree) : n \in Leaves <=> IsLeaf(tree, n)
  BY DEF Leaves, Node, Nodes, IsLeaf
<1>4. Subtree[tree.root] = Node
  BY <1>1, <1>3, SubtreeOfRoot
<1>5. \A n \in Node : IsIncreasing(tree.nodes[n].keys)
  BY <1>2, <1>3 DEF Ranged, Keys
<1>6. PICK b \in Int : b = order - 1
  BY Integers DEF IInv
<1>7. fits => LeavesFit(tree, b) /\ Len(Keys(tree, tree.root)) <= b
  BY <1>6 DEF IInv, Fits
<1>8. ASSUME NEW n \in Leaves
      PROVE  /\ Len(tree.nodes[n].recordIds) = Len(tree.nodes[n].keys)
             /\ fits => ~Full(tree.nodes[n])
  <2>1. n \in Nodes(tree) /\ IsLeaf(tree, n)
    BY <1>3 DEF Leaves
  <2>2. Len(Ids(tree, n)) = Len(Keys(tree, n)) /\ Len(Keys(tree, n)) \in Nat
    BY <1>2, <2>1, Fields DEF Levelled
  <2>3. Full(tree.nodes[n]) <=> Len(Keys(tree, n)) >= b
    BY <1>6 DEF Full, Keys
  <2>4. fits => Len(Keys(tree, n)) < b
    BY <1>7, <2>1 DEF LeavesFit
  <2>. QED
    BY <2>2, <2>3, <2>4 DEF Ids, Keys
<1>9. ASSUME NEW n \in Inner
      PROVE  /\ Len(tree.nodes[n].children) = Len(tree.nodes[n].keys) + 1
             /\ \A m \in ToSet(tree.nodes[n].children) : Height[m] = Height[n] - 1
  <2>1. n \in Nodes(tree) /\ ~IsLeaf(tree, n)
    BY <1>3 DEF Inner
  <2>2. Len(Kids(tree, n)) = Len(Keys(tree, n)) + 1
    BY <1>2, <2>1 DEF Levelled
  <2>3. Kids(tree, n) \in Seq(Nodes(tree)) /\ DOMAIN Kids(tree, n) = 1..Len(Kids(tree, n))
    BY <1>2, <2>1, Fields
  <2>4. ASSUME NEW i \in 1..Len(Kids(tree, n))
        PROVE  Height[Kids(tree, n)[i]] = Height[n] - 1
    <3>1. PICK c : c = Kids(tree, n)[i]
      OBVIOUS
    <3>2. c \in Nodes(tree) /\ height[n] = height[c] + 1
      BY <1>1, <2>1, <3>1, ChildInParent
    <3>3. height[c] \in Nat
      BY <1>2, <3>2 DEF Levelled
    <3>4. Height[c] = height[c] /\ Height[n] = height[n]
      BY <1>1, <2>1, <3>2, HeightIs
    <3>. QED
      BY <3>1, <3>2, <3>3, <3>4
  <2>. QED
    BY <2>2, <2>3, <2>4 DEF Kids, Keys, ToSet
<1>10. fits => Len(tree.nodes[tree.root].keys) <= order - 1
  BY <1>6, <1>7 DEF Keys
<1>. QED
  BY <1>4, <1>5, <1>8, <1>9, <1>10 DEF TypeOK

\* The shape of the tree, for any keys and orders: every node below the root, keys in
\* increasing order, a record id per key of a leaf, a child more than keys in an inner
\* node, all leaves at one depth, and no full leaf while the order was never reduced.
THEOREM TypeCorrect == Spec => []TypeOK
<1>. QED
  BY SpecIInv, TypeFromIInv, PTL

\* The invariant gives the search tree.
LEMMA SearchTreeFromIInv == IInv => SearchTree
<1>. SUFFICES ASSUME IInv PROVE SearchTree
  OBVIOUS
<1>1. PICK height, range : Labelled(tree, height, range)
  BY DEF IInv, WellFormed, Shape
<1>2. Typed(tree) /\ Ranged(tree, range)
  BY <1>1 DEF Labelled
<1>3. ASSUME NEW n \in Inner
      PROVE  n \in Nodes(tree) /\ ~IsLeaf(tree, n)
  BY DEF Inner, Leaves, Node, Nodes, IsLeaf
<1>4. ASSUME NEW n \in Inner, NEW i \in DOMAIN tree.nodes[n].children,
             NEW m \in Subtree[tree.nodes[n].children[i]], NEW k \in ToSet(tree.nodes[m].keys)
      PROVE  Between(Keys(tree, n), i, k)
  <2>1. n \in Nodes(tree) /\ ~IsLeaf(tree, n) /\ Kids(tree, n) \in Seq(Nodes(tree))
    BY <1>2, <1>3, Fields
  <2>2. PICK c : c = Kids(tree, n)[i]
    OBVIOUS
  <2>3. i \in 1..Len(Kids(tree, n)) /\ c \in Nodes(tree) /\ m \in Subtree[c]
    BY <2>1, <2>2 DEF Kids
  <2>4. range[c] = Part(Keys(tree, n), range[n], i)
    BY <1>2, <2>1, <2>2, <2>3 DEF Ranged
  <2>5. m \in Nodes(tree) /\ range[m] \subseteq range[c]
    BY <1>1, <2>3, SubtreeIs, RangeOfSubtree
  <2>6. k \in range[m]
    <3>1. PICK j \in DOMAIN Keys(tree, m) : Keys(tree, m)[j] = k
      BY DEF ToSet, Keys
    <3>2. j \in 1..Len(Keys(tree, m))
      BY SMTT(30), <1>2, <2>5, <3>1, Fields
    <3>. QED
      BY <1>2, <2>5, <3>1, <3>2 DEF Ranged
  <2>. QED
    BY <2>4, <2>5, <2>6 DEF Part
<1>. QED
  BY <1>4 DEF SearchTree, Between, Keys

\* For any keys and orders, everything in and below a child lies between the separators
\* on both sides of it.
THEOREM InOrder == Spec => []SearchTree
<1>. QED
  BY SpecIInv, SearchTreeFromIInv, PTL

\* What search answers.
LEMMA SearchIs ==
    ASSUME NEW height, NEW range, Labelled(tree, height, range), NEW acc, Stored(tree, acc), NEW k \in Int
    PROVE  search(k) = IF k \in HeldIn(tree) THEN acc[k] ELSE NotFound
<1>0. Typed(tree) /\ Ranged(tree, range)
  BY DEF Labelled
<1>1. PICK n : n = Last(Path(tree, k))
  OBVIOUS
<1>2. /\ n \in Nodes(tree) /\ IsLeaf(tree, n)
      /\ \A m \in Nodes(tree) : IsLeaf(tree, m) /\ k \in range[m] => m = n
  BY <1>1, LeafOfKey
<1>3. PICK keys \in Seq(Int) : keys = Keys(tree, n)
  BY <1>0, <1>2, Fields
<1>4. DOMAIN keys = 1..Len(keys) /\ Len(keys) \in Nat /\ \A i \in 1..Len(keys) : keys[i] \in Int
  BY <1>3
<1>5. search(k) = IF k \in ToSet(keys) THEN Ids(tree, n)[Below(keys, k) + 1] ELSE NotFound
  BY <1>1, <1>3 DEF search, searchNode, Keys, Ids
<1>6. ASSUME NEW j \in 1..Len(keys), keys[j] = k
      PROVE  search(k) = acc[k] /\ k \in HeldIn(tree)
  <2>1. IsIncreasing(keys)
    BY <1>0, <1>2, <1>3 DEF Ranged
  <2>2. PICK b \in 0..Len(keys) : b = Below(keys, k) /\ \A i \in 1..Len(keys) : keys[i] < k <=> i <= b
    BY <2>1, BelowIs
  <2>3. b < j
    BY <1>4, <1>6, <2>2
  <2>4. j > 1 => j - 1 <= b
    <3>1. j > 1 => j - 1 \in 1..Len(keys) /\ keys[j - 1] < keys[j]
      BY <1>4, <2>1 DEF IsIncreasing
    <3>. QED
      BY <1>6, <2>2, <3>1
  <2>5. b + 1 = j
    BY <1>4, <2>2, <2>3, <2>4
  <2>6. Ids(tree, n)[j] = acc[k]
    BY <1>2, <1>3, <1>6 DEF Stored
  <2>7. k \in ToSet(keys)
    BY <1>4, <1>6 DEF ToSet
  <2>8. k \in HeldIn(tree)
    BY <1>0, <1>2, <1>3, <1>6, HeldIs
  <2>. QED
    BY <1>5, <2>2, <2>5, <2>6, <2>7, <2>8
<1>7. k \in ToSet(keys) <=> \E j \in 1..Len(keys) : keys[j] = k
  BY <1>4 DEF ToSet
<1>8. ASSUME k \in HeldIn(tree)
      PROVE  \E j \in 1..Len(keys) : keys[j] = k
  <2>1. PICK m \in Nodes(tree) : IsLeaf(tree, m) /\ \E i \in 1..Len(Keys(tree, m)) : Keys(tree, m)[i] = k
    BY <1>0, <1>8, HeldIs
  <2>2. k \in range[m]
    BY <1>0, <2>1 DEF Ranged
  <2>. QED
    BY <1>2, <1>3, <2>1, <2>2
<1>. QED
  BY <1>5, <1>6, <1>7, <1>8

\* The model's name and the proof's name for what the tree holds.
LEMMA HeldIsHeldIn == Held = HeldIn(tree)
BY DEF Held, HeldIn, Leaves, Node, Nodes, IsLeaf, Keys

\* What was accepted and is not held is a separator.
LEMMA LostFromIInv == IInv => OnlySeparatorsAreLost
<1>. SUFFICES ASSUME IInv PROVE OnlySeparatorsAreLost
  OBVIOUS
<1>1. PICK height, range : Labelled(tree, height, range) /\ Stored(tree, accepted)
  BY DEF IInv, WellFormed, Shape
<1>2. Typed(tree)
  BY <1>1 DEF Labelled
<1>3. ASSUME NEW k \in Key
      PROVE  IF k \in DOMAIN accepted /\ k \in Held THEN search(k) = accepted[k]
             ELSE search(k) = NotFound /\ (k \in DOMAIN accepted => k \in Separators)
  <2>1. search(k) = IF k \in Held THEN accepted[k] ELSE NotFound
    BY <1>1, SearchIs, HeldIsHeldIn, Integers
  <2>2. k \in Held => k \in DOMAIN accepted
    BY <1>1, <1>2, HeldIs, HeldIsHeldIn DEF Stored
  <2>3. ASSUME k \in DOMAIN accepted, k \notin Held
        PROVE  k \in Separators
    <3>1. PICK n \in Nodes(tree) : \E i \in 1..Len(Keys(tree, n)) : Keys(tree, n)[i] = k
      BY <1>1, <2>3 DEF Stored
    <3>2. ~IsLeaf(tree, n)
      BY <1>2, <2>3, <3>1, HeldIs, HeldIsHeldIn
    <3>3. n \in Inner
      BY <3>2 DEF Inner, Leaves, Node, Nodes, IsLeaf
    <3>4. DOMAIN Keys(tree, n) = 1..Len(Keys(tree, n))
      BY <1>2, Fields
    <3>5. k \in ToSet(tree.nodes[n].keys)
      BY <3>1, <3>4 DEF ToSet, Keys
    <3>. QED
      BY <3>3, <3>5 DEF Separators
  <2>. QED
    BY <2>1, <2>2, <2>3
<1>. QED
  BY <1>3 DEF OnlySeparatorsAreLost

\* For any keys and orders, a key whose insertion was answered true is found with the
\* record id of its last insertion, or it went up in a split; no other key is found.
THEOREM OnlySplitsLose == Spec => []OnlySeparatorsAreLost
<1>. QED
  BY SpecIInv, LostFromIInv, PTL

-----------------------------------------------------------------------------
(* The map that callers see. *)

\* What search shows of the tree.
View(t, acc) == [k \in HeldIn(t) |-> acc[k]]

\* A search finds every key the tree holds, with the record id it was accepted with.
LEMMA ViewIs == IInv => /\ [k \in Held |-> search(k)] = View(tree, accepted)
                        /\ HeldIn(tree) \subseteq DOMAIN accepted
<1>. SUFFICES ASSUME IInv
              PROVE  /\ [k \in Held |-> search(k)] = View(tree, accepted)
                     /\ HeldIn(tree) \subseteq DOMAIN accepted
  OBVIOUS
<1>1. PICK height, range : Labelled(tree, height, range) /\ Stored(tree, accepted)
  BY DEF IInv, WellFormed, Shape
<1>2. Typed(tree)
  BY <1>1 DEF Labelled
<1>3. HeldIn(tree) \subseteq DOMAIN accepted
  <2>1. ASSUME NEW k \in HeldIn(tree)
        PROVE  k \in DOMAIN accepted
    <3>1. PICK n \in Nodes(tree) : \E i \in 1..Len(Keys(tree, n)) : Keys(tree, n)[i] = k
      BY <1>2, HeldIs
    <3>. QED
      BY <1>1, <3>1 DEF Stored
  <2>. QED
    BY <2>1
<1>4. ASSUME NEW k \in HeldIn(tree)
      PROVE  search(k) = accepted[k]
  <2>1. k \in Int
    BY <1>3, Integers DEF IInv, Accepted
  <2>. QED
    BY <1>1, <2>1, SearchIs
<1>. QED
  BY <1>3, <1>4, HeldIsHeldIn DEF View

\* What an insertion does to the map.
AddsTo(left, acc, after, k, recordId) ==
    \/ k \in left /\ after = [j \in left |-> acc[j]]
    \/ /\ k \notin left
       /\ \E pushed \in Map!AtMostOne(left \cup {k}) :
            after = [j \in (left \cup {k}) \ pushed |-> IF j = k THEN recordId ELSE acc[j]]

\* A change of the keys that adds one and takes out at most those pushed up, one for
\* each split, is an insertion into the map.
LEMMA InsertInMap ==
    ASSUME NEW keys, NEW left, NEW acc, NEW after, NEW k \in Key, NEW recordId \in RecordId,
           left \in Map!KeysLeft(keys), left \subseteq keys, AddsTo(left, acc, after, k, recordId)
    PROVE  Map!insert(k, [j \in keys |-> acc[j]], after)
<1>1. PICK before : before = [j \in keys |-> acc[j]]
  OBVIOUS
<1>2. DOMAIN before = keys /\ \A j \in left : before[j] = acc[j]
  BY <1>1
<1>3. CASE k \in left /\ after = [j \in left |-> acc[j]]
  <2>1. after = [j \in left |-> before[j]]
    BY <1>2, <1>3
  <2>. QED
    BY <1>1, <1>2, <1>3, <2>1 DEF Map!insert
<1>4. ASSUME k \notin left, NEW pushed \in Map!AtMostOne(left \cup {k}),
             after = [j \in (left \cup {k}) \ pushed |-> IF j = k THEN recordId ELSE acc[j]]
      PROVE  Map!insert(k, before, after)
  <2>1. after = [j \in (left \cup {k}) \ pushed |-> IF j = k THEN recordId ELSE before[j]]
    BY <1>2, <1>4
  <2>2. \E r \in RecordId : \E p \in Map!AtMostOne(left \cup {k}) :
            after = [j \in (left \cup {k}) \ p |-> IF j = k THEN r ELSE before[j]]
    BY <2>1
  <2>3. left \in Map!KeysLeft(DOMAIN before)
    BY <1>2
  <2>. QED
    BY <1>4, <2>2, <2>3, Zenon DEF Map!insert
<1>5. \/ k \in left /\ after = [j \in left |-> acc[j]]
      \/ /\ k \notin left
         /\ \E pushed \in Map!AtMostOne(left \cup {k}) :
                after = [j \in (left \cup {k}) \ pushed |-> IF j = k THEN recordId ELSE acc[j]]
  BY DEF AddsTo
<1>6. Map!insert(k, before, after)
  BY <1>1, <1>3, <1>4, <1>5
<1>. QED
  BY <1>1, <1>6

\* A key is held if and only if it is in the leaf that its search ends at.
LEMMA HeldInLeaf ==
    ASSUME NEW t, NEW height, NEW range, Labelled(t, height, range), NEW k \in Int
    PROVE  k \in HeldIn(t) <=> k \in ToSet(t.nodes[Last(Path(t, k))].keys)
<1>0. Typed(t) /\ Ranged(t, range)
  BY DEF Labelled
<1>1. PICK n : n = Last(Path(t, k))
  OBVIOUS
<1>2. /\ n \in Nodes(t) /\ IsLeaf(t, n)
      /\ \A m \in Nodes(t) : IsLeaf(t, m) /\ k \in range[m] => m = n
  BY <1>1, LeafOfKey
<1>3. PICK keys \in Seq(Int) : keys = Keys(t, n)
  BY <1>0, <1>2, Fields
<1>4. k \in ToSet(keys) <=> \E j \in 1..Len(keys) : keys[j] = k
  BY <1>3 DEF ToSet
<1>5. k \in HeldIn(t) <=>
        \E m \in Nodes(t) : IsLeaf(t, m) /\ \E i \in 1..Len(Keys(t, m)) : Keys(t, m)[i] = k
  BY <1>0, HeldIs
<1>6. ASSUME NEW m \in Nodes(t), IsLeaf(t, m), NEW i \in 1..Len(Keys(t, m)), Keys(t, m)[i] = k
      PROVE  m = n
  BY <1>0, <1>2, <1>6 DEF Ranged
<1>7. k \in HeldIn(t) <=> k \in ToSet(keys)
  BY <1>2, <1>3, <1>4, <1>5, <1>6
<1>. QED
  BY <1>1, <1>3, <1>7 DEF Keys

\* What an insertion does to the keys that are held.
InsertsIn(t, u, k) ==
    \/ k \in HeldIn(t) /\ u = t
    \/ /\ k \notin HeldIn(t)
       /\ \/ HeldIn(u) = HeldIn(t) \cup {k}
          \/ \E m \in HeldIn(t) \cup {k} : HeldIn(u) = (HeldIn(t) \cup {k}) \ {m}

\* What one call of insert does: to the tree, to the keys it holds, to what was accepted.
LEMMA InsertKeeps ==
    ASSUME IInv, NEW k \in Key, NEW recordId \in RecordId, insert(k, recordId)
    PROVE  /\ InsertsIn(RoomAtRoot, tree', k)
           /\ SplitLoses(tree, RoomAtRoot, ~fits)
           /\ k \in HeldIn(RoomAtRoot) => accepted' = accepted
           /\ k \notin HeldIn(RoomAtRoot) => accepted' = AcceptedAfter(accepted, k, recordId)
           /\ fits' = fits
<1>1. PICK t : t = RoomAtRoot
  OBVIOUS
<1>2. WellFormed(t, accepted) /\ SplitLoses(tree, t, ~fits)
  BY <1>1, RoomKeeps
<1>3. k \in Int /\ recordId \in Nat /\ order \in Nat /\ order >= 3
  BY Integers DEF IInv
<1>4. k \in HeldIn(t) <=> k \in ToSet(t.nodes[Last(Path(t, k))].keys)
  <2>1. PICK height, range : Labelled(t, height, range)
    BY <1>2 DEF WellFormed, Shape
  <2>. QED
    BY <1>3, <2>1, HeldInLeaf
<1>5. fits' = fits
  BY DEF insert
<1>6. CASE tree' = t /\ accepted' = accepted /\ k \in ToSet(t.nodes[Last(Path(t, k))].keys)
  BY <1>1, <1>2, <1>4, <1>5, <1>6 DEF InsertsIn
<1>7. CASE /\ k \notin ToSet(t.nodes[Last(Path(t, k))].keys)
           /\ tree' = SplitLeafIfFull(AddToLeaf(t, Last(Path(t, k)), k, recordId), Path(t, k))
           /\ accepted' = AcceptedAfter(accepted, k, recordId)
  <2>1. PICK u : u = SplitLeafIfFull(AddToLeaf(t, Last(Path(t, k)), k, recordId), Path(t, k))
    OBVIOUS
  <2>2. /\ WellFormed(u, AcceptedAfter(accepted, k, recordId))
        /\ \/ HeldIn(u) = HeldIn(t) \cup {k}
           \/ \E m \in HeldIn(t) \cup {k} : HeldIn(u) = (HeldIn(t) \cup {k}) \ {m}
        /\ LeavesFit(t, order - 1) /\ Len(Keys(t, t.root)) < order - 1 => Fits(u, order - 1)
    BY <1>2, <1>3, <1>7, <2>1, LeafStepKeeps
  <2>. QED
    BY <1>1, <1>2, <1>4, <1>5, <1>7, <2>1, <2>2 DEF InsertsIn
<1>. QED
  BY <1>1, <1>6, <1>7 DEF insert, AcceptedAfter

\* An insertion is one of the map.
LEMMA InsertRefines ==
    ASSUME IInv, NEW k \in Key, NEW recordId \in RecordId, insert(k, recordId)
    PROVE  Map!insert(k, View(tree, accepted), View(tree', accepted'))
<1>1. PICK t : t = RoomAtRoot
  OBVIOUS
<1>2. PICK u, after : u = tree' /\ after = accepted'
  OBVIOUS
<1>3. PICK left : left = HeldIn(t)
  OBVIOUS
<1>4. /\ InsertsIn(t, u, k) /\ SplitLoses(tree, t, ~fits)
      /\ k \in left => after = accepted
      /\ k \notin left => after = AcceptedAfter(accepted, k, recordId)
  BY <1>1, <1>2, <1>3, InsertKeeps
<1>5. left \subseteq HeldIn(tree) /\ left \in Map!KeysLeft(HeldIn(tree))
  <2>1. CASE left = HeldIn(tree)
    <3>1. {} \in Map!AtMostOne(HeldIn(tree)) /\ left \ {} = left
      BY DEF Map!AtMostOne
    <3>. QED
      BY <2>1, <3>1 DEF Map!KeysLeft
  <2>2. ASSUME ~fits, NEW m \in HeldIn(tree), left = HeldIn(tree) \ {m}
        PROVE  left \subseteq HeldIn(tree) /\ left \in Map!KeysLeft(HeldIn(tree))
    <3>1. {m} \in Map!AtMostOne(HeldIn(tree))
      BY DEF Map!AtMostOne
    <3>. QED
      BY <2>2, <3>1 DEF Map!KeysLeft
  <2>3. left = HeldIn(tree) \/ (~fits /\ \E m \in HeldIn(tree) : left = HeldIn(tree) \ {m})
    BY <1>3, <1>4 DEF SplitLoses
  <2>. QED
    BY <2>1, <2>2, <2>3
<1>6. \/ k \in left /\ View(u, after) = [j \in left |-> accepted[j]]
      \/ /\ k \notin left
         /\ \E pushed \in Map!AtMostOne(left \cup {k}) :
                View(u, after) = [j \in (left \cup {k}) \ pushed |-> IF j = k THEN recordId ELSE accepted[j]]
  <2>1. CASE k \in left
    BY <1>3, <1>4, <2>1 DEF InsertsIn, View
  <2>2. CASE k \notin left
    <3>1. PICK pushed \in Map!AtMostOne(left \cup {k}) : HeldIn(u) = (left \cup {k}) \ pushed
      <4>1. CASE HeldIn(u) = left \cup {k}
        <5>1. {} \in Map!AtMostOne(left \cup {k}) /\ (left \cup {k}) \ {} = left \cup {k}
          BY DEF Map!AtMostOne
        <5>. QED
          BY <4>1, <5>1
      <4>2. ASSUME NEW m \in left \cup {k}, HeldIn(u) = (left \cup {k}) \ {m}
            PROVE  \E pushed \in Map!AtMostOne(left \cup {k}) : HeldIn(u) = (left \cup {k}) \ pushed
        <5>1. {m} \in Map!AtMostOne(left \cup {k})
          BY DEF Map!AtMostOne
        <5>. QED
          BY <4>2, <5>1
      <4>. QED
        BY <1>3, <1>4, <2>2, <4>1, <4>2 DEF InsertsIn
    <3>2. left \subseteq DOMAIN accepted
      BY <1>5, ViewIs
    <3>3. ASSUME NEW j \in HeldIn(u)
          PROVE  after[j] = IF j = k THEN recordId ELSE accepted[j]
      <4>1. j \in DOMAIN accepted \cup {k}
        BY <3>1, <3>2
      <4>. QED
        BY <1>4, <2>2, <4>1 DEF AcceptedAfter
    <3>4. View(u, after) = [j \in (left \cup {k}) \ pushed |-> IF j = k THEN recordId ELSE accepted[j]]
      BY <3>1, <3>3 DEF View
    <3>. QED
      BY <2>2, <3>4
  <2>. QED
    BY <2>1, <2>2
<1>7. Map!insert(k, [j \in HeldIn(tree) |-> accepted[j]], View(u, after))
  <2>1. PICK keys, seen, acc : keys = HeldIn(tree) /\ seen = View(u, after) /\ acc = accepted
    OBVIOUS
  <2>2. left \in Map!KeysLeft(keys) /\ left \subseteq keys
    BY <1>5, <2>1
  <2>3. AddsTo(left, acc, seen, k, recordId)
    BY <1>6, <2>1 DEF AddsTo
  <2>4. Map!insert(k, [j \in keys |-> acc[j]], seen)
    BY <2>2, <2>3, InsertInMap
  <2>. QED
    BY <2>1, <2>4
<1>. QED
  BY <1>2, <1>7 DEF View

\* The empty index shows the empty map.
LEMMA InitRefines == Init => Map!Init
<1>. SUFFICES ASSUME Init PROVE Map!Init
  OBVIOUS
<1>1. HeldIn(tree) \subseteq DOMAIN accepted /\ [k \in Held |-> search(k)] = View(tree, accepted)
  BY InitIInv, ViewIs
<1>2. DOMAIN accepted = {} /\ fits = TRUE
  BY DEF Init
<1>3. HeldIn(tree) = {}
  BY <1>1, <1>2
<1>4. View(tree, accepted) = [k \in {} |-> RecordId]
  BY <1>3 DEF View
<1>. QED
  BY <1>1, <1>2, <1>4 DEF Map!Init

\* Every step of the index is a step of the map, or leaves its view alone.
LEMMA NextRefines ==
    ASSUME IInv, [Next]_vars,
           [k \in Held |-> search(k)] = View(tree, accepted),
           [k \in Held |-> search(k)]' = View(tree', accepted')
    PROVE  [Map!Next]_(Map!vars)
<1>1. PICK before, after : before = [k \in Held |-> search(k)] /\ after = [k \in Held |-> search(k)]'
  OBVIOUS
<1>2. before = View(tree, accepted) /\ after = View(tree', accepted')
  BY <1>1
<1>3. ASSUME NEW k \in Key, NEW recordId \in RecordId, insert(k, recordId)
      PROVE  Map!Next
  <2>1. Map!insert(k, before, after)
    BY <1>2, <1>3, InsertRefines
  <2>2. fits' = fits
    BY <1>3 DEF insert
  <2>. QED
    BY <1>1, <2>1, <2>2, Zenon DEF Map!Next
<1>4. ASSUME NEW savedOrder \in Order, loadFromFile(savedOrder)
      PROVE  Map!Next
  <2>1. (fits' => fits) /\ tree' = tree /\ accepted' = accepted
    BY <1>4, Zenon DEF loadFromFile
  <2>2. after = before
    BY <1>2, <2>1
  <2>. QED
    BY <1>1, <2>1, <2>2, Zenon DEF Map!Next
<1>5. CASE UNCHANGED vars
  <2>1. fits' = fits /\ tree' = tree /\ accepted' = accepted
    BY <1>5 DEF vars
  <2>2. after = before
    BY <1>2, <2>1
  <2>. QED
    BY <1>1, <2>1, <2>2 DEF Map!vars
<1>. QED
  BY <1>3, <1>4, <1>5 DEF Next

\* For any keys, record ids and orders: the index is the map of IndexMap to whoever
\* asks it what it finds.  An insertion overwrites nothing and pushes out at most one
\* entry, however many nodes it splits; a refused one pushes out none unless the order
\* was reduced.
THEOREM RefinesMap == Spec => ImplementsMap
<1>1. Init => Map!Init
  BY InitRefines
<1>2. IInv /\ IInv' /\ [Next]_vars => [Map!Next]_(Map!vars)
  <2>1. IInv' => ([k \in Held |-> search(k)] = View(tree, accepted))'
    BY ViewIs, PTL
  <2>2. IInv => [k \in Held |-> search(k)] = View(tree, accepted)
    BY ViewIs
  <2>3. IInv' => [k \in Held |-> search(k)]' = View(tree', accepted')
    BY <2>1 DEF View, HeldIn, Keys, IsLeaf, Nodes
  <2>. QED
    BY <2>2, <2>3, NextRefines
<1>. QED
  BY <1>1, <1>2, SpecIInv, PTL DEF Spec, ImplementsMap, Map!Spec

-----------------------------------------------------------------------------
(* The order of the leaves and the chain. *)


\* FlattenSeq adds one sequence after the other.
IsFlattening(f, S, ss) ==
    /\ f \in [1..Len(ss) -> Seq(S)]
    /\ f[1] = ss[1] /\ FlattenSeq(ss) = f[Len(ss)]
    /\ \A i \in 1..(Len(ss) - 1) : f[i + 1] = f[i] \o ss[i + 1]

\* A sequence of sequences is flattened one behind the other.
LEMMA FlattenIs ==
    ASSUME NEW S, NEW ss \in Seq(Seq(S)), Len(ss) >= 1
    PROVE  \E f : IsFlattening(f, S, ss)
<1>. DEFINE Q == Seq(S)
            Round(f, i) == IF i = 1 THEN ss[i] ELSE f[i-1] \o ss[i]
            flatten == CHOOSE f : f = [i \in 1..Len(ss) |-> Round(f, i)]
<1>1. PICK n \in Nat : n = Len(ss) /\ n >= 1
  OBVIOUS
<1>2. \A i \in 1..n : ss[i] \in Q
  BY <1>1
<1>3. PICK step \in [1..n -> [Q -> Q]] : \A i \in 1..n : \A u \in Q : step[i][u] = u \o ss[i]
  <2>. DEFINE st == [i \in 1..n |-> [u \in Q |-> u \o ss[i]]]
  <2>1. \A i \in 1..n : \A u \in Q : u \o ss[i] \in Q
    BY <1>2
  <2>2. st \in [1..n -> [Q -> Q]]
    BY <2>1
  <2>3. \A i \in 1..n : \A u \in Q : st[i][u] = u \o ss[i]
    OBVIOUS
  <2>. HIDE DEF st
  <2>. QED
    BY <2>2, <2>3
<1>4. PICK empty \in Q : empty = <<>>
  <2>1. <<>> \in Q
    OBVIOUS
  <2>. HIDE DEF Q
  <2>. QED
    BY <2>1
<1>. HIDE DEF Q
<1>5. PICK g : IsLoopUp(g, Q, n, empty, step)
  BY <1>3, LoopUp
<1>6. /\ \A i \in 0..n : g[i] \in Q
      /\ g[0] = <<>> /\ \A i \in 1..n : g[i] = g[i - 1] \o ss[i]
  <2>1. \A i \in 0..n : g[i] \in Q
    BY <1>5 DEF IsLoopUp
  <2>2. ASSUME NEW i \in 1..n
        PROVE  g[i] = g[i - 1] \o ss[i]
    <3>1. g[i] = step[i][g[i - 1]] /\ i - 1 \in 0..n
      BY <1>5 DEF IsLoopUp
    <3>. QED
      BY <1>3, <2>1, <3>1
  <2>. QED
    BY <1>4, <1>5, <2>1, <2>2 DEF IsLoopUp
<1>. DEFINE f == [i \in 1..n |-> g[i]]
<1>7. f \in [1..n -> Q]
  BY <1>6
<1>8. f[1] = ss[1]
  <2>1. 1 \in 1..n /\ 1 - 1 = 0
    BY <1>1
  <2>2. f[1] = <<>> \o ss[1] /\ ss[1] \in Q
    BY <1>2, <1>6, <2>1
  <2>. QED
    BY <2>2 DEF Q
<1>9. ASSUME NEW i \in 1..n, i # 1
      PROVE  f[i] = f[i - 1] \o ss[i]
  <2>1. i - 1 \in 1..n
    BY <1>9
  <2>2. f[i] = g[i] /\ f[i - 1] = g[i - 1]
    BY <2>1
  <2>. HIDE DEF f
  <2>. QED
    BY <1>6, <2>2
<1>10. f = [i \in 1..Len(ss) |-> Round(f, i)]
  <2>1. \A i \in 1..n : f[i] = Round(f, i)
    BY <1>8, <1>9
  <2>. HIDE DEF Round
  <2>. QED
    BY <1>1, <2>1
<1>. HIDE DEF f
<1>11. flatten = [i \in 1..Len(ss) |-> Round(flatten, i)]
  <2>. HIDE DEF Round
  <2>. QED
    BY <1>10
<1>12. FlattenSeq(ss) = flatten[n]
  BY <1>1 DEF FlattenSeq
<1>. HIDE DEF flatten
<1>13. \A i \in 1..n : flatten[i] = f[i]
  <2>. DEFINE T == {i \in 0..n : i # 0 => flatten[i] = f[i]}
  <2>1. \A i \in 1..n : flatten[i] = Round(flatten, i) /\ f[i] = Round(f, i)
    <3>. HIDE DEF Round
    <3>. QED
      BY <1>1, <1>10, <1>11
  <2>2. 0 \in T
    OBVIOUS
  <2>3. ASSUME NEW i \in 0..(n - 1), i \in T
        PROVE  i + 1 \in T
    <3>1. i + 1 \in 1..n /\ (i + 1) - 1 = i
      OBVIOUS
    <3>2. flatten[i + 1] = f[i + 1]
      BY <2>1, <2>3, <3>1
    <3>. QED
      BY <3>1, <3>2
  <2>4. 0..n \subseteq T
    <3>. HIDE DEF T
    <3>. QED
      BY <2>2, <2>3, UpInduction
  <2>. QED
    BY <2>4
<1>14. \A i \in 1..(n - 1) : f[i + 1] = f[i] \o ss[i + 1]
  <2>1. ASSUME NEW i \in 1..(n - 1)
        PROVE  f[i + 1] = f[i] \o ss[i + 1]
    <3>1. i + 1 \in 1..n /\ i + 1 # 1 /\ (i + 1) - 1 = i
      OBVIOUS
    <3>. QED
      BY <1>9, <3>1
  <2>. QED
    BY <2>1
<1>15. FlattenSeq(ss) = f[n]
  BY <1>1, <1>12, <1>13
<1>16. IsFlattening(f, S, ss)
  BY <1>1, <1>7, <1>8, <1>14, <1>15 DEF IsFlattening, Q
<1>. QED
  BY <1>16
Before(r, q) == \A a \in r, b \in q : a < b

\* s lists the leaves whose ranges make up r, from the lowest to the highest.
IsRun(t, range, s, r) ==
    /\ s \in Seq(Nodes(t))
    /\ \A i \in 1..Len(s) : IsLeaf(t, s[i]) /\ range[s[i]] \subseteq r
    /\ \A a \in r : \E i \in 1..Len(s) : a \in range[s[i]]
    /\ \A i, j \in 1..Len(s) : i < j => Before(range[s[i]], range[s[j]])

\* Two runs of leaves, the first below the second, make one.
LEMMA RunsJoined ==
    ASSUME NEW t, NEW range, NEW s, NEW u, NEW r, NEW q,
           IsRun(t, range, s, r), IsRun(t, range, u, q), Before(r, q)
    PROVE  IsRun(t, range, s \o u, r \cup q)
<1>. DEFINE D == Nodes(t)
<1>1. PICK a, b \in Nat : a = Len(s) /\ b = Len(u)
  BY DEF IsRun
<1>2. PICK w : w = s \o u
  OBVIOUS
<1>3. s \in Seq(D) /\ u \in Seq(D)
  BY DEF IsRun
<1>. HIDE DEF D
<1>4. /\ w \in Seq(D) /\ Len(w) = a + b
      /\ \A i \in 1..a : w[i] = s[i]
      /\ \A i \in 1..b : w[a + i] = u[i]
  BY <1>1, <1>2, <1>3, ConcatIs
<1>5. ASSUME NEW i \in 1..(a + b)
      PROVE  \/ i \in 1..a /\ w[i] = s[i]
             \/ i - a \in 1..b /\ w[i] = u[i - a] /\ i > a
  <2>1. CASE i <= a
    BY <1>4, <2>1
  <2>2. CASE i > a
    <3>1. i - a \in 1..b /\ a + (i - a) = i
      BY <2>2
    <3>. QED
      BY <1>4, <2>2, <3>1
  <2>. QED
    BY <2>1, <2>2
<1>6. /\ \A i \in 1..a : IsLeaf(t, s[i]) /\ range[s[i]] \subseteq r
      /\ \A i \in 1..b : IsLeaf(t, u[i]) /\ range[u[i]] \subseteq q
      /\ \A x \in r : \E i \in 1..a : x \in range[s[i]]
      /\ \A x \in q : \E i \in 1..b : x \in range[u[i]]
      /\ \A i, j \in 1..a : i < j => Before(range[s[i]], range[s[j]])
      /\ \A i, j \in 1..b : i < j => Before(range[u[i]], range[u[j]])
  BY <1>1 DEF IsRun
<1>7. \A i \in 1..(a + b) : IsLeaf(t, w[i]) /\ range[w[i]] \subseteq r \cup q
  BY <1>5, <1>6
<1>8. \A i \in 1..b : a + i \in 1..(a + b)
  OBVIOUS
<1>9. ASSUME NEW x \in r \cup q
      PROVE  \E i \in 1..(a + b) : x \in range[w[i]]
  <2>1. CASE x \in r
    <3>1. PICK i \in 1..a : x \in range[s[i]]
      BY <1>6, <2>1
    <3>2. i \in 1..(a + b) /\ w[i] = s[i]
      BY <1>4
    <3>. QED
      BY <3>1, <3>2
  <2>2. CASE x \in q
    <3>1. PICK i \in 1..b : x \in range[u[i]]
      BY <1>6, <2>2
    <3>2. a + i \in 1..(a + b) /\ w[a + i] = u[i]
      BY <1>4
    <3>. QED
      BY <3>1, <3>2
  <2>. QED
    BY <2>1, <2>2
<1>10. ASSUME NEW i \in 1..(a + b), NEW j \in 1..(a + b), i < j
       PROVE  Before(range[w[i]], range[w[j]])
  <2>1. CASE i \in 1..a /\ w[i] = s[i] /\ j \in 1..a /\ w[j] = s[j]
    BY <1>6, <1>10, <2>1
  <2>2. CASE i \in 1..a /\ w[i] = s[i] /\ j - a \in 1..b /\ w[j] = u[j - a]
    BY <1>6, <2>2 DEF Before
  <2>3. CASE i - a \in 1..b /\ w[i] = u[i - a] /\ j - a \in 1..b /\ w[j] = u[j - a]
    <3>1. i - a < j - a
      BY <1>10
    <3>. QED
      BY <1>6, <2>3, <3>1
  <2>4. ~(j \in 1..a /\ i > a)
    BY <1>10
  <2>. QED
    BY <1>5, <2>1, <2>2, <2>3, <2>4
<1>. QED
  BY <1>1, <1>2, <1>4, <1>7, <1>9, <1>10 DEF IsRun, D

\* The runs of its children, one after the other, are the run of an inner node.
LEMMA RunOfChildren ==
    ASSUME NEW t, NEW height, NEW range, Labelled(t, height, range),
           NEW n \in Nodes(t), ~IsLeaf(t, n), NEW ss \in Seq(Seq(Nodes(t))),
           Len(ss) = Len(Kids(t, n)),
           \A i \in 1..Len(ss) : IsRun(t, range, ss[i], range[Kids(t, n)[i]])
    PROVE  IsRun(t, range, FlattenSeq(ss), range[n])
<1>0. Typed(t) /\ Levelled(t, height) /\ Ranged(t, range)
  BY DEF Labelled
<1>1. PICK keys \in Seq(Int) : keys = Keys(t, n)
  BY <1>0, Fields
<1>2. PICK l \in Nat : l = Len(keys)
  BY <1>1
<1>3. /\ \A i \in 1..l : keys[i] \in Int
      /\ \A i, j \in 1..l : i < j => keys[i] < keys[j]
  <2>1. IsIncreasing(keys) /\ DOMAIN keys = 1..l
    BY <1>0, <1>1, <1>2 DEF Ranged
  <2>2. \A i \in 1..l : keys[i] \in Int
    BY <1>2
  <2>3. \A i, j \in 1..l : i < j => keys[i] < keys[j]
    BY <2>1 DEF IsIncreasing
  <2>. QED
    BY <2>2, <2>3
<1>4. Len(ss) = l + 1
  BY <1>0, <1>1, <1>2 DEF Levelled
<1>5. PICK r \in SUBSET Int : r = range[n]
  BY <1>0 DEF Ranged
<1>6. \A i \in 1..(l + 1) : IsRun(t, range, ss[i], Part(keys, r, i))
  <2>1. ASSUME NEW i \in 1..(l + 1)
        PROVE  IsRun(t, range, ss[i], Part(keys, r, i))
    <3>1. range[Kids(t, n)[i]] = Part(keys, r, i)
      BY <1>0, <1>1, <1>4, <1>5 DEF Ranged
    <3>. QED
      BY <1>4, <3>1
  <2>. QED
    BY <2>1
<1>7. PICK f \in [1..(l + 1) -> Seq(Nodes(t))] :
        /\ f[1] = ss[1] /\ FlattenSeq(ss) = f[l + 1]
        /\ \A i \in 1..((l + 1) - 1) : f[i + 1] = f[i] \o ss[i + 1]
  <2>1. Len(ss) >= 1
    BY <1>4
  <2>2. \E f : IsFlattening(f, Nodes(t), ss)
    BY <2>1, FlattenIs
  <2>. QED
    BY <1>4, <2>2 DEF IsFlattening
<1>. DEFINE Up(i) == {k \in r : i <= l => k < keys[i]}
<1>8. Up(1) = Part(keys, r, 1)
  BY <1>2 DEF Part, Between
<1>9. ASSUME NEW i \in 1..l
      PROVE  Up(i + 1) = Up(i) \cup Part(keys, r, i + 1) /\ Before(Up(i), Part(keys, r, i + 1))
  <2>1. keys[i] \in Int /\ (i + 1 <= l => keys[i + 1] \in Int /\ keys[i] < keys[i + 1])
    <3>1. i + 1 <= l => i + 1 \in 1..l /\ i < i + 1
      OBVIOUS
    <3>. QED
      BY <1>3, <3>1
  <2>2. Part(keys, r, i + 1) = {k \in r : keys[i] <= k /\ (i + 1 <= l => k < keys[i + 1])}
    BY <1>2 DEF Part, Between
  <2>3. \A k \in Up(i + 1) : k \in Up(i) \/ k \in Part(keys, r, i + 1)
    BY <2>1, <2>2
  <2>4. ASSUME NEW k \in Up(i)
        PROVE  k \in Up(i + 1)
    <3>1. k \in Int /\ k \in r /\ k < keys[i]
      BY <1>5
    <3>2. i + 1 <= l => k < keys[i + 1]
      <4>. HIDE DEF Up
      <4>. QED
        BY <2>1, <3>1
    <3>. QED
      BY <3>1, <3>2
  <2>5. \A k \in Part(keys, r, i + 1) : k \in Up(i + 1)
    BY <2>2
  <2>6. Before(Up(i), Part(keys, r, i + 1))
    <3>1. ASSUME NEW a \in Up(i), NEW b \in Part(keys, r, i + 1)
          PROVE  a < b
      <4>1. a \in Int /\ b \in Int /\ a < keys[i] /\ keys[i] <= b
        BY <1>5, <2>2
      <4>. QED
        BY <2>1, <4>1
    <3>. QED
      BY <3>1 DEF Before
  <2>. HIDE DEF Up
  <2>. QED
    BY <2>3, <2>4, <2>5, <2>6
<1>10. Up(l + 1) = r
  OBVIOUS
<1>. HIDE DEF Up
<1>. DEFINE T == {i \in 0..l : IsRun(t, range, f[i + 1], Up(i + 1))}
<1>11. 0 \in T
  <2>1. 0 + 1 = 1 /\ 1 \in 1..(l + 1)
    OBVIOUS
  <2>2. IsRun(t, range, f[1], Up(1))
    BY <1>6, <1>7, <1>8, <2>1
  <2>. QED
    BY <2>1, <2>2
<1>12. ASSUME NEW i \in 0..(l - 1), i \in T
       PROVE  i + 1 \in T
  <2>1. PICK j \in 1..l : j = i + 1
    OBVIOUS
  <2>2. IsRun(t, range, f[j], Up(j))
    BY <1>12, <2>1
  <2>3. j + 1 \in 1..(l + 1) /\ j \in 1..((l + 1) - 1)
    OBVIOUS
  <2>4. IsRun(t, range, ss[j + 1], Part(keys, r, j + 1)) /\ f[j + 1] = f[j] \o ss[j + 1]
    BY <1>6, <1>7, <2>3
  <2>5. IsRun(t, range, f[j] \o ss[j + 1], Up(j) \cup Part(keys, r, j + 1))
    BY <1>9, <2>2, <2>4, RunsJoined
  <2>6. IsRun(t, range, f[j + 1], Up(j + 1))
    BY <1>9, <2>4, <2>5
  <2>. QED
    BY <2>1, <2>6
<1>13. 0..l \subseteq T
  <2>. HIDE DEF T
  <2>. QED
    BY <1>11, <1>12, UpInduction
<1>14. IsRun(t, range, f[l + 1], Up(l + 1))
  BY <1>13
<1>. QED
  BY <1>5, <1>7, <1>10, <1>14

\* The order of the tree is the order of the ranges.
LEMMA LeafOrderIs ==
    ASSUME NEW height, NEW range, Labelled(tree, height, range)
    PROVE  IsRun(tree, range, LeafOrder, Int)
<1>0. Typed(tree) /\ Levelled(tree, height) /\ Ranged(tree, range)
  BY DEF Labelled
<1>. DEFINE D == Nodes(tree)
            S == Seq(D)
            Lists(f, n) == [i \in DOMAIN tree.nodes[n].children |-> f[tree.nodes[n].children[i]]]
            Round(f, n) == IF n \in Leaves THEN <<n>> ELSE FlattenSeq(Lists(f, n))
            list == CHOOSE f : f = [n \in D |-> Round(f, n)]
            step == [n \in D |-> [f \in [D -> S] |-> Round(f, n)]]
            N == height[tree.root]
<1>1. N \in Nat /\ height \in [D -> 0..N] /\ tree.root \in D
  BY <1>0, Fields DEF Levelled
<1>2. \A n \in D : n \in Leaves <=> IsLeaf(tree, n)
  BY DEF Leaves, Node, Nodes, IsLeaf
<1>3. ASSUME NEW n \in D, NEW i \in 1..Len(Kids(tree, n))
      PROVE  Kids(tree, n)[i] \in D /\ height[n] = height[Kids(tree, n)[i]] + 1
             /\ height[Kids(tree, n)[i]] \in Nat
  <2>1. Kids(tree, n)[i] \in D /\ height[n] = height[Kids(tree, n)[i]] + 1
    BY ChildInParent
  <2>. QED
    BY <1>1, <2>1
<1>4. ASSUME NEW f, NEW n \in D
      PROVE  Lists(f, n) = [i \in 1..Len(Kids(tree, n)) |-> f[Kids(tree, n)[i]]]
  <2>1. DOMAIN Kids(tree, n) = 1..Len(Kids(tree, n))
    BY <1>0, Fields
  <2>. QED
    BY <2>1 DEF Kids
<1>. HIDE DEF Lists
<1>5. ASSUME NEW n \in D, ~IsLeaf(tree, n), NEW f \in [D -> S]
      PROVE  /\ Lists(f, n) \in Seq(S) /\ Len(Lists(f, n)) = Len(Kids(tree, n))
             /\ Len(Lists(f, n)) >= 1
             /\ \A i \in 1..Len(Kids(tree, n)) : Lists(f, n)[i] = f[Kids(tree, n)[i]]
  <2>1. PICK l \in Nat : l = Len(Kids(tree, n)) /\ l >= 1
    <3>1. Len(Kids(tree, n)) = Len(Keys(tree, n)) + 1 /\ Len(Keys(tree, n)) \in Nat
      BY <1>0, <1>5, Fields DEF Levelled
    <3>. QED
      BY <3>1
  <2>2. \A i \in 1..l : f[Kids(tree, n)[i]] \in S
    BY <1>3, <2>1
  <2>3. PICK s : s = [i \in 1..l |-> f[Kids(tree, n)[i]]]
    OBVIOUS
  <2>. HIDE DEF S
  <2>4. s \in [1..l -> S]
    BY <2>2, <2>3
  <2>5. s \in Seq(S) /\ Len(s) = l
    BY <2>1, <2>4
  <2>6. s = Lists(f, n)
    BY <1>4, <2>1, <2>3
  <2>. QED
    BY <2>1, <2>3, <2>5, <2>6
<1>6. ASSUME NEW n \in D, NEW f \in [D -> S]
      PROVE  Round(f, n) \in S
  <2>1. CASE IsLeaf(tree, n)
    BY <1>2, <2>1
  <2>2. CASE ~IsLeaf(tree, n)
    <3>1. Lists(f, n) \in Seq(Seq(D)) /\ Len(Lists(f, n)) >= 1
      BY <1>5, <2>2
    <3>2. PICK g \in [1..Len(Lists(f, n)) -> Seq(D)] : FlattenSeq(Lists(f, n)) = g[Len(Lists(f, n))]
      <4>1. PICK ss \in Seq(Seq(D)) : ss = Lists(f, n)
        BY <3>1
      <4>3. Len(ss) >= 1
        BY <3>1, <4>1
      <4>. HIDE DEF D
      <4>2. \E g : IsFlattening(g, D, ss)
        BY <4>1, <4>3, FlattenIs
      <4>. QED
        BY <4>1, <4>2 DEF IsFlattening
    <3>3. Len(Lists(f, n)) \in 1..Len(Lists(f, n))
      BY <3>1
    <3>. QED
      BY <1>2, <2>2, <3>2, <3>3
  <2>. QED
    BY <2>1, <2>2
<1>7. ASSUME NEW n \in D, NEW f \in [D -> S], NEW g \in [D -> S],
             \A m \in D : height[m] < height[n] => f[m] = g[m]
      PROVE  Round(f, n) = Round(g, n)
  <2>1. ASSUME NEW i \in 1..Len(Kids(tree, n))
        PROVE  f[Kids(tree, n)[i]] = g[Kids(tree, n)[i]]
    <3>1. PICK c \in D : c = Kids(tree, n)[i] /\ height[n] = height[c] + 1 /\ height[c] \in Nat
      BY <1>3
    <3>2. height[c] < height[n]
      BY <3>1
    <3>. QED
      BY <1>7, <3>1, <3>2
  <2>2. Lists(f, n) = Lists(g, n)
    BY <1>4, <2>1
  <2>. QED
    BY <2>2
<1>. HIDE DEF Round
<1>8. \A n \in D : \A f \in [D -> S] : step[n][f] = Round(f, n)
  OBVIOUS
<1>9. PICK Fs : Fs = [D -> S]
  OBVIOUS
<1>10. step \in [D -> [Fs -> S]]
  <2>1. \A n \in D : \A f \in Fs : Round(f, n) \in S
    BY <1>6, <1>9
  <2>2. step = [n \in D |-> [f \in Fs |-> Round(f, n)]]
    BY <1>9
  <2>. HIDE DEF step, S, D
  <2>. QED
    BY <2>1, <2>2
<1>11. S # {}
  <2>1. <<>> \in S
    OBVIOUS
  <2>. HIDE DEF S
  <2>. QED
    BY <2>1
<1>. HIDE DEF step, S, D, N
<1>12. IsRanked(D, S, N, height, Fs, step)
  <2>1. \A n \in D : \A f, g \in Fs :
            (\A m \in D : height[m] < height[n] => f[m] = g[m]) => step[n][f] = step[n][g]
    BY <1>7, <1>8, <1>9
  <2>. QED
    BY <1>1, <1>9, <1>10, <1>11, <2>1 DEF IsRanked
<1>13. PICK f \in Fs : \A n \in D : f[n] = step[n][f]
  BY <1>12, RankedRecursion
<1>14. f = [n \in D |-> Round(f, n)]
  BY <1>8, <1>9, <1>13
<1>15. list = [n \in D |-> Round(list, n)]
  BY <1>14
<1>16. LeafOrder = list[tree.root]
  BY DEF LeafOrder, Round, Lists, D, Nodes, Node
<1>. HIDE DEF list

\* By induction on the height.
<1>17. \A n \in D : list[n] = Round(list, n)
  BY <1>15
<1>. DEFINE T == {j \in Nat : \A n \in D : height[n] < j =>
                    IsRun(tree, range, list[n], range[n])}
<1>18. 0 \in T
  BY <1>1
<1>19. ASSUME NEW j \in Nat, j \in T
       PROVE  j + 1 \in T
  <2>1. SUFFICES ASSUME NEW n \in D, height[n] < j + 1
                 PROVE  IsRun(tree, range, list[n], range[n])
    OBVIOUS
  <2>2. CASE IsLeaf(tree, n)
    <3>1. list[n] = <<n>>
      BY <1>2, <1>17, <2>2 DEF Round
    <3>2. <<n>> \in Seq(Nodes(tree)) /\ Len(<<n>>) = 1 /\ <<n>>[1] = n
      BY DEF D
    <3>3. IsRun(tree, range, <<n>>, range[n])
      BY <2>2, <3>2 DEF IsRun
    <3>. QED
      BY <3>1, <3>3
  <2>3. CASE ~IsLeaf(tree, n)
    <3>1. ASSUME NEW i \in 1..Len(Kids(tree, n))
          PROVE  IsRun(tree, range, list[Kids(tree, n)[i]], range[Kids(tree, n)[i]])
      <4>1. PICK c \in D : c = Kids(tree, n)[i] /\ height[c] < j
        BY <1>1, <1>3, <2>1
      <4>. QED
        BY <1>19, <4>1
    <3>2. PICK l \in Nat : l = Len(Kids(tree, n))
      BY <1>0, Fields DEF D
    <3>3. PICK ss : ss = Lists(list, n)
      OBVIOUS
    <3>4. ss = [i \in 1..l |-> list[Kids(tree, n)[i]]]
      BY <1>4, <3>2, <3>3
    <3>5. ss \in Seq(S) /\ Len(ss) = l
      <4>1. \A i \in 1..l : list[Kids(tree, n)[i]] \in S
        BY <3>1, <3>2 DEF IsRun, S, D
      <4>2. ss \in [1..l -> S]
        BY <3>4, <4>1
      <4>. QED
        BY <4>2
    <3>6. \A i \in 1..Len(ss) : IsRun(tree, range, ss[i], range[Kids(tree, n)[i]])
      BY <3>1, <3>2, <3>4, <3>5
    <3>7. IsRun(tree, range, FlattenSeq(ss), range[n])
      BY <2>3, <3>2, <3>5, <3>6, RunOfChildren DEF S, D
    <3>. QED
      BY <1>2, <1>17, <2>3, <3>3, <3>7 DEF Round
  <2>. QED
    BY <2>2, <2>3
<1>20. Nat \subseteq T
  <2>. HIDE DEF T
  <2>. QED
    BY <1>18, <1>19, SetInduction
<1>21. IsRun(tree, range, list[tree.root], range[tree.root])
  <2>1. N + 1 \in T /\ height[tree.root] < N + 1
    BY <1>1, <1>20 DEF N
  <2>. QED
    BY <1>1, <2>1
<1>22. range[tree.root] = Int
  BY <1>0 DEF Ranged
<1>. QED
  BY <1>16, <1>21, <1>22

\* The chain goes through the leaves in this order.
LEMMA NextLeaf ==
    ASSUME NEW height, NEW range, Shape(tree, height, range), NEW s, IsRun(tree, range, s, Int)
    PROVE  /\ Len(s) \in Nat /\ Len(s) >= 1 /\ \A i \in 1..Len(s) : s[i] \in Nodes(tree)
           /\ \A m \in Nodes(tree) : IsLeaf(tree, m) => \E i \in 1..Len(s) : s[i] = m
           /\ \A i, j \in 1..Len(s) : s[i] = s[j] => i = j
           /\ \A i \in 1..Len(s) : Link(tree, s[i]) = IF i = Len(s) THEN NoLeaf ELSE s[i + 1]
<1>0. /\ Labelled(tree, height, range) /\ Chained(tree, range)
      /\ Typed(tree) /\ Levelled(tree, height) /\ Ranged(tree, range)
  BY DEF Shape, Labelled
<1>1. PICK l \in Nat : l = Len(s)
  BY DEF IsRun
<1>2. /\ \A i \in 1..l : s[i] \in Nodes(tree) /\ IsLeaf(tree, s[i])
      /\ \A a \in Int : \E i \in 1..l : a \in range[s[i]]
      /\ \A i, j \in 1..l : i < j => \A a \in range[s[i]], b \in range[s[j]] : a < b
  <2>1. /\ s \in Seq(Nodes(tree))
        /\ \A i \in 1..l : IsLeaf(tree, s[i])
        /\ \A a \in Int : \E i \in 1..l : a \in range[s[i]]
        /\ \A i, j \in 1..l : i < j => Before(range[s[i]], range[s[j]])
    BY <1>1 DEF IsRun
  <2>2. PICK D : D = Nodes(tree)
    OBVIOUS
  <2>3. \A i \in 1..l : s[i] \in D
    BY <1>1, <2>1, <2>2
  <2>. QED
    BY <2>1, <2>2, <2>3 DEF Before
<1>3. \A m \in Nodes(tree) : range[m] \subseteq Int /\ range[m] # {}
  BY <1>0 DEF Ranged
<1>4. l >= 1
  <2>1. PICK i \in 1..l : 0 \in range[s[i]]
    BY <1>2
  <2>. QED
    BY <2>1

\* Two leaves with an integer in common are the same.
<1>5. ASSUME NEW n \in Nodes(tree), NEW m \in Nodes(tree), IsLeaf(tree, n), IsLeaf(tree, m),
             NEW a \in Int, a \in range[n], a \in range[m]
      PROVE  n = m
  <2>1. n = Last(Path(tree, a)) /\ m = Last(Path(tree, a))
    BY <1>0, <1>5, LeafOfKey
  <2>. QED
    BY <2>1
<1>6. ASSUME NEW m \in Nodes(tree), IsLeaf(tree, m)
      PROVE  \E i \in 1..l : s[i] = m
  <2>1. PICK a \in Int : a \in range[m]
    BY <1>3
  <2>2. PICK i \in 1..l : a \in range[s[i]]
    BY <1>2
  <2>3. s[i] = m
    BY <1>2, <1>5, <1>6, <2>1, <2>2
  <2>. QED
    BY <2>3
<1>7. ASSUME NEW i \in 1..l, NEW j \in 1..l, i < j
      PROVE  s[i] # s[j]
  <2>1. PICK a \in Int : a \in range[s[i]]
    BY <1>2, <1>3
  <2>2. SUFFICES ASSUME s[i] = s[j] PROVE FALSE
    OBVIOUS
  <2>3. a < a
    BY <1>2, <1>7, <2>1, <2>2
  <2>. QED
    BY <2>1, <2>3
<1>8. ASSUME NEW i \in 1..l, NEW j \in 1..l, s[i] = s[j]
      PROVE  i = j
  <2>1. i < j \/ j < i \/ i = j
    OBVIOUS
  <2>. QED
    BY <1>7, <1>8, <2>1
<1>9. ASSUME NEW i \in 1..l
      PROVE  Link(tree, s[i]) = IF i = l THEN NoLeaf ELSE s[i + 1]
  <2>1. PICK m : m = s[i]
    OBVIOUS
  <2>2. m \in Nodes(tree) /\ IsLeaf(tree, m)
    BY <1>2, <2>1
  <2>3. CASE Link(tree, m) = NoLeaf /\ \A a \in range[m], b \in Int : a <= b => b \in range[m]
    <3>1. SUFFICES ASSUME i # l PROVE FALSE
      BY <2>1, <2>3
    <3>2. i + 1 \in 1..l /\ i < i + 1
      BY <3>1
    <3>3. PICK a \in Int, b \in Int : a \in range[m] /\ b \in range[s[i + 1]]
      BY <1>2, <1>3, <2>2, <3>2
    <3>4. a < b
      BY <1>2, <2>1, <3>2, <3>3
    <3>5. b \in range[m]
      BY <2>3, <3>3, <3>4
    <3>6. b < b
      BY <1>2, <2>1, <3>2, <3>3, <3>5
    <3>. QED
      BY <3>3, <3>6
  <2>4. CASE Link(tree, m) \in Nodes(tree) /\ IsLeaf(tree, Link(tree, m)) /\ Adjacent(range, m, Link(tree, m))
    <3>1. PICK next \in Nodes(tree) : next = Link(tree, m) /\ IsLeaf(tree, next)
      BY <2>4
    <3>2. PICK j \in 1..l : s[j] = next
      BY <1>6, <3>1
    <3>3. PICK a \in Int : a \in range[next] /\ a \notin range[m] /\ a - 1 \in range[m]
      <4>1. \E a \in range[next] \ range[m] : a - 1 \in range[m] \ range[next]
        BY <2>4, <3>1 DEF Adjacent
      <4>. QED
        BY <1>3, <4>1
    <3>4. j > i
      <4>1. j # i
        BY <2>1, <3>2, <3>3
      <4>2. SUFFICES ASSUME j < i PROVE FALSE
        BY <4>1
      <4>3. a < a - 1
        BY <1>2, <2>1, <3>2, <3>3, <4>2
      <4>. QED
        BY <3>3, <4>3
    <3>5. i # l /\ i + 1 \in 1..l
      BY <3>4
    <3>6. j = i + 1
      <4>1. SUFFICES ASSUME i + 1 < j PROVE FALSE
        BY <3>4
      <4>2. PICK b \in Int : b \in range[s[i + 1]]
        BY <1>2, <1>3, <3>5
      <4>3. a - 1 < b
        <5>1. i < i + 1 /\ a - 1 \in range[s[i]]
          BY <2>1, <3>3
        <5>. QED
          BY <1>2, <3>5, <4>2, <5>1
      <4>4. b < a
        BY <1>2, <3>2, <3>3, <3>5, <4>1, <4>2
      <4>. QED
        BY <3>3, <4>2, <4>3, <4>4
    <3>. QED
      BY <2>1, <3>1, <3>2, <3>5, <3>6
  <2>. QED
    BY <1>0, <2>2, <2>3, <2>4 DEF Chained
<1>. QED
  BY <1>1, <1>2, <1>4, <1>6, <1>8, <1>9

\* A function that adds up what the leaves of the chain have exists.
AddsUp(f, head) ==
    f = [m \in {NoLeaf} \cup Nodes(tree) |-> IF m = NoLeaf THEN <<>> ELSE head[m] \o f[Link(tree, m)]]

\* A definition that adds up along the chain has a solution: the chain ends.
LEMMA AlongChain ==
    ASSUME NEW height, NEW range, Shape(tree, height, range), NEW s, IsRun(tree, range, s, Int),
           NEW S, NEW head, \A m \in Nodes(tree) : head[m] \in Seq(S)
    PROVE  \E f : AddsUp(f, head)
<1>. DEFINE D == {NoLeaf} \cup Nodes(tree)
            Q == Seq(S)
            Round(f, m) == IF m = NoLeaf THEN <<>> ELSE head[m] \o f[Link(tree, m)]
            step == [m \in D |-> [f \in [D -> Q] |-> Round(f, m)]]
            l == Len(s)
            rank == [m \in D |-> IF m = NoLeaf THEN 0
                                 ELSE IF IsLeaf(tree, m) THEN (l + 1) - (CHOOSE i \in 1..l : s[i] = m)
                                 ELSE 1]
<1>0. Typed(tree) /\ Levelled(tree, height)
  BY DEF Shape, Labelled
<1>1. /\ l \in Nat /\ l >= 1 /\ \A i \in 1..l : s[i] \in Nodes(tree)
      /\ \A m \in Nodes(tree) : IsLeaf(tree, m) => \E i \in 1..l : s[i] = m
      /\ \A i, j \in 1..l : s[i] = s[j] => i = j
      /\ \A i \in 1..l : Link(tree, s[i]) = IF i = l THEN NoLeaf ELSE s[i + 1]
  BY NextLeaf
<1>. HIDE DEF l
<1>2. NoLeaf \notin Nodes(tree) /\ NoLeaf = 0
  <2>1. Nodes(tree) = 1..Len(tree.nodes) /\ Len(tree.nodes) \in Nat
    BY <1>0, Fields
  <2>. QED
    BY <2>1 DEF NoLeaf
<1>3. ASSUME NEW m \in Nodes(tree), IsLeaf(tree, m)
      PROVE  \E i \in 1..l : s[i] = m /\ rank[m] = (l + 1) - i
  BY <1>1, <1>2, <1>3
<1>4. rank[NoLeaf] = 0 /\ \A m \in Nodes(tree) : ~IsLeaf(tree, m) => rank[m] = 1
  BY <1>2
<1>5. rank \in [D -> 0..l]
  <2>1. \A m \in D : rank[m] \in 0..l
    <3>1. ASSUME NEW m \in Nodes(tree) PROVE rank[m] \in 0..l
      <4>1. CASE IsLeaf(tree, m)
        <5>1. PICK i \in 1..l : rank[m] = (l + 1) - i
          BY <1>3, <4>1
        <5>. QED
          BY <1>1, <5>1
      <4>2. CASE ~IsLeaf(tree, m)
        BY <1>1, <1>4, <4>2
      <4>. QED
        BY <4>1, <4>2
    <3>. QED
      BY <1>1, <1>4, <3>1
  <2>2. rank = [m \in D |-> rank[m]]
    OBVIOUS
  <2>. HIDE DEF rank
  <2>. QED
    BY <2>1, <2>2
<1>6. ASSUME NEW m \in Nodes(tree)
      PROVE  Link(tree, m) \in D /\ rank[Link(tree, m)] < rank[m]
  <2>1. CASE IsLeaf(tree, m)
    <3>1. PICK i \in 1..l : s[i] = m /\ rank[m] = (l + 1) - i
      BY <1>3, <2>1
    <3>2. CASE i = l
      <4>1. Link(tree, m) = NoLeaf
        BY <1>1, <3>1, <3>2
      <4>. QED
        BY <1>1, <1>4, <3>1, <4>1
    <3>3. CASE i # l
      <4>1. Link(tree, m) = s[i + 1] /\ i + 1 \in 1..l
        BY <1>1, <3>1, <3>3
      <4>2. CASE ~IsLeaf(tree, s[i + 1])
        BY <1>1, <1>4, <3>1, <3>3, <4>1, <4>2
      <4>3. CASE IsLeaf(tree, s[i + 1])
        <5>1. PICK j \in 1..l : s[j] = s[i + 1] /\ rank[s[i + 1]] = (l + 1) - j
          BY <1>1, <1>3, <4>1, <4>3
        <5>2. j = i + 1
          BY <1>1, <4>1, <5>1
        <5>. QED
          BY <1>1, <3>1, <4>1, <5>1, <5>2
      <4>. QED
        BY <4>2, <4>3
    <3>. QED
      BY <3>2, <3>3
  <2>2. CASE ~IsLeaf(tree, m)
    <3>1. Link(tree, m) = NoLeaf
      BY <1>0, <2>2 DEF Levelled
    <3>. QED
      BY <1>4, <2>2, <3>1
  <2>. QED
    BY <2>1, <2>2
<1>. HIDE DEF rank
<1>7. ASSUME NEW m \in D, NEW f \in [D -> Q]
      PROVE  Round(f, m) \in Q
  <2>1. CASE m = NoLeaf
    <3>1. <<>> \in Q
      OBVIOUS
    <3>. HIDE DEF Q
    <3>. QED
      BY <2>1, <3>1
  <2>2. CASE m # NoLeaf
    <3>1. head[m] \in Q /\ f[Link(tree, m)] \in Q
      <4>. HIDE DEF Q
      <4>1. f[Link(tree, m)] \in Q
        BY <1>6, <2>2
      <4>2. head[m] \in Q
        BY <2>2 DEF Q
      <4>. QED
        BY <4>1, <4>2
    <3>2. head[m] \o f[Link(tree, m)] \in Q
      BY <3>1
    <3>. HIDE DEF Q
    <3>. QED
      BY <2>2, <3>2
  <2>. QED
    BY <2>1, <2>2
<1>8. ASSUME NEW m \in D, NEW f \in [D -> Q], NEW g \in [D -> Q],
             \A q \in D : rank[q] < rank[m] => f[q] = g[q]
      PROVE  Round(f, m) = Round(g, m)
  BY <1>6, <1>8
<1>. HIDE DEF Round
<1>9. PICK Fs : Fs = [D -> Q]
  OBVIOUS
<1>10. \A n \in D : \A f \in Fs : step[n][f] = Round(f, n)
  BY <1>9
<1>11. step \in [D -> [Fs -> Q]]
  <2>1. \A n \in D : \A f \in Fs : Round(f, n) \in Q
    BY <1>7, <1>9
  <2>2. step = [n \in D |-> [f \in Fs |-> Round(f, n)]]
    BY <1>9
  <2>. HIDE DEF step, Q, D
  <2>. QED
    BY <2>1, <2>2
<1>12. Q # {}
  <2>1. <<>> \in Q
    OBVIOUS
  <2>. HIDE DEF Q
  <2>. QED
    BY <2>1
<1>. HIDE DEF step, Q, D
<1>13. IsRanked(D, Q, l, rank, Fs, step)
  <2>1. \A n \in D : \A f, g \in Fs :
            (\A m \in D : rank[m] < rank[n] => f[m] = g[m]) => step[n][f] = step[n][g]
    BY <1>8, <1>9, <1>10
  <2>. QED
    BY <1>1, <1>5, <1>9, <1>11, <1>12, <2>1 DEF IsRanked
<1>14. PICK f \in Fs : \A n \in D : f[n] = step[n][f]
  BY <1>13, RankedRecursion
<1>15. f = [n \in D |-> Round(f, n)]
  BY <1>9, <1>10, <1>14
<1>. QED
  BY <1>15 DEF AddsUp, Round, D

\* The chain from the first leaf visits the leaves in their order.
LEMMA ChainIs ==
    ASSUME NEW height, NEW range, Shape(tree, height, range)
    PROVE  Chain(LeafOrder[1]) = LeafOrder
<1>1. PICK s : s = LeafOrder
  OBVIOUS
<1>2. IsRun(tree, range, s, Int)
  BY <1>1, LeafOrderIs DEF Shape
<1>3. PICK l \in Nat : l = Len(s)
  BY <1>2 DEF IsRun
<1>4. /\ l >= 1 /\ \A i \in 1..l : s[i] \in Nodes(tree)
      /\ \A i \in 1..l : Link(tree, s[i]) = IF i = l THEN NoLeaf ELSE s[i + 1]
  BY <1>2, <1>3, NextLeaf
<1>5. NoLeaf \notin Nodes(tree)
  <2>1. Typed(tree)
    BY DEF Shape, Labelled
  <2>2. Nodes(tree) = 1..Len(tree.nodes) /\ Len(tree.nodes) \in Nat
    BY <2>1, Fields
  <2>. QED
    BY <2>2 DEF NoLeaf
<1>. DEFINE follow == CHOOSE f : f = [m \in {NoLeaf} \cup DOMAIN tree.nodes |->
                IF m = NoLeaf THEN <<>> ELSE <<m>> \o f[tree.nodes[m].next]]
<1>6. follow = [m \in {NoLeaf} \cup DOMAIN tree.nodes |->
                IF m = NoLeaf THEN <<>> ELSE <<m>> \o follow[tree.nodes[m].next]]
  <2>1. PICK head : head = [m \in Nodes(tree) |-> <<m>>]
    OBVIOUS
  <2>2. \A m \in Nodes(tree) : head[m] = <<m>>
    BY <2>1
  <2>5. PICK D : D = Nodes(tree)
    OBVIOUS
  <2>6. \A m \in Nodes(tree) : head[m] \in Seq(D)
    <3>1. \A m \in D : <<m>> \in Seq(D)
      OBVIOUS
    <3>. QED
      BY <2>2, <2>5, <3>1
  <2>3. PICK f : AddsUp(f, head)
    BY <1>2, <2>6, AlongChain
  <2>4. f = [m \in {NoLeaf} \cup DOMAIN tree.nodes |->
                IF m = NoLeaf THEN <<>> ELSE <<m>> \o f[tree.nodes[m].next]]
    BY <2>2, <2>3 DEF AddsUp, Nodes, Link
  <2>. QED
    BY <2>4
<1>7. \A n : Chain(n) = follow[n]
  BY DEF Chain
<1>. HIDE DEF follow
<1>8. follow[NoLeaf] = <<>> /\ \A m \in Nodes(tree) : follow[m] = <<m>> \o follow[Link(tree, m)]
  BY <1>5, <1>6 DEF Nodes, Link

\* From leaf i on, the chain has the rest of the run.
<1>. DEFINE Rest(w, i) == /\ w \in Seq(Nodes(tree)) /\ Len(w) = (l - i) + 1
                          /\ \A j \in 1..((l - i) + 1) : w[j] = s[(i - 1) + j]
            T == {i \in 1..l : Rest(follow[s[i]], i)}
<1>9. ASSUME NEW i \in 1..l, NEW w, w \in Seq(Nodes(tree)), Len(w) = l - i,
             \A j \in 1..(l - i) : w[j] = s[i + j], follow[s[i]] = <<s[i]>> \o w
      PROVE  Rest(follow[s[i]], i)
  <2>1. PICK u : u = <<s[i]>>
    OBVIOUS
  <2>2. u \in Seq(Nodes(tree)) /\ Len(u) = 1 /\ u[1] = s[i]
    BY <1>4, <2>1
  <2>3. PICK v : v = u \o w
    OBVIOUS
  <2>4. /\ v \in Seq(Nodes(tree)) /\ Len(v) = 1 + (l - i) /\ v[1] = s[i]
        /\ \A j \in 1..(l - i) : v[1 + j] = w[j]
    <3>1. /\ v \in Seq(Nodes(tree)) /\ Len(v) = Len(u) + Len(w)
          /\ \A j \in 1..Len(u) : v[j] = u[j]
          /\ \A j \in 1..Len(w) : v[Len(u) + j] = w[j]
      <4>1. PICK D : D = Nodes(tree)
        OBVIOUS
      <4>2. u \in Seq(D) /\ w \in Seq(D)
        BY <1>9, <2>2, <4>1
      <4>. QED
        BY <2>3, <4>1, <4>2, ConcatIs
    <3>. QED
      BY <1>9, <2>2, <3>1
  <2>5. ASSUME NEW j \in 1..((l - i) + 1)
        PROVE  v[j] = s[(i - 1) + j]
    <3>1. CASE j = 1
      BY <2>4, <3>1
    <3>2. CASE j # 1
      <4>1. j - 1 \in 1..(l - i) /\ 1 + (j - 1) = j /\ (i - 1) + j = i + (j - 1)
        BY <3>2
      <4>. QED
        BY <1>9, <2>4, <4>1
    <3>. QED
      BY <3>1, <3>2
  <2>6. follow[s[i]] = v /\ 1 + (l - i) = (l - i) + 1
    BY <1>9, <2>1, <2>3
  <2>. QED
    BY <2>4, <2>5, <2>6
<1>10. l \in T
  <2>1. l \in 1..l /\ l - l = 0
    BY <1>4
  <2>2. follow[s[l]] = <<s[l]>> \o <<>>
    BY <1>4, <1>8, <2>1
  <2>3. PICK w : w = <<>>
    OBVIOUS
  <2>4. w \in Seq(Nodes(tree)) /\ Len(w) = l - l /\ \A j \in 1..(l - l) : w[j] = s[l + j]
    BY <2>1, <2>3
  <2>5. follow[s[l]] = <<s[l]>> \o w
    BY <2>2, <2>3
  <2>6. Rest(follow[s[l]], l)
    <3>. HIDE DEF Rest
    <3>. QED
      BY <1>9, <2>1, <2>4, <2>5
  <2>. HIDE DEF Rest
  <2>. QED
    BY <2>1, <2>6
<1>11. ASSUME NEW i \in 1..(l - 1), i + 1 \in T
       PROVE  i \in T
  <2>1. i \in 1..l /\ i # l /\ i + 1 \in 1..l /\ (l - (i + 1)) + 1 = l - i /\ (i + 1) - 1 = i
    OBVIOUS
  <2>2. follow[s[i]] = <<s[i]>> \o follow[s[i + 1]]
    BY <1>4, <1>8, <2>1
  <2>3. /\ follow[s[i + 1]] \in Seq(Nodes(tree)) /\ Len(follow[s[i + 1]]) = l - i
        /\ \A j \in 1..(l - i) : follow[s[i + 1]][j] = s[i + j]
    BY <1>11, <2>1
  <2>4. Rest(follow[s[i]], i)
    <3>. HIDE DEF Rest
    <3>. QED
      BY <1>9, <2>1, <2>2, <2>3
  <2>. HIDE DEF Rest
  <2>. QED
    BY <2>1, <2>4
<1>12. 1 \in T
  <2>1. 1..l \subseteq T
    <3>1. l \in Nat \ {0}
      BY <1>4
    <3>. HIDE DEF T
    <3>. QED
      BY <1>10, <1>11, <3>1, DownInduction
  <2>. QED
    BY <1>4, <2>1
<1>13. PICK w : w = follow[s[1]]
  OBVIOUS
<1>14. w \in Seq(Nodes(tree)) /\ Len(w) = l /\ \A j \in 1..l : w[j] = s[j]
  <2>1. (l - 1) + 1 = l /\ \A j \in 1..l : (1 - 1) + j = j
    OBVIOUS
  <2>. QED
    BY <1>12, <1>13, <2>1
<1>15. s \in Seq(Nodes(tree))
  BY <1>2 DEF IsRun
<1>16. w = s
  BY <1>3, <1>14, <1>15
<1>. QED
  BY <1>1, <1>7, <1>13, <1>16

\* keys are the keys of the leaves of s from leaf i on, in increasing order.
AreKeysFrom(keys, s, i) ==
    /\ keys \in Seq(Int) /\ IsIncreasing(keys)
    /\ \A k \in Int : k \in ToSet(keys) <=> \E a \in i..Len(s) : k \in ToSet(Keys(tree, s[a]))

\* Increasing keys behind smaller increasing keys are increasing.
LEMMA IncreasingConcat ==
    ASSUME NEW s \in Seq(Int), NEW u \in Seq(Int), IsIncreasing(s), IsIncreasing(u),
           Before(ToSet(s), ToSet(u))
    PROVE  IsIncreasing(s \o u) /\ \A k \in Int : k \in ToSet(s \o u) <=> k \in ToSet(s) \/ k \in ToSet(u)
<1>1. PICK a \in Nat, b \in Nat : a = Len(s) /\ b = Len(u)
  OBVIOUS
<1>2. PICK w : w = s \o u
  OBVIOUS
<1>3. /\ w \in Seq(Int) /\ Len(w) = a + b
      /\ \A i \in 1..a : w[i] = s[i]
      /\ \A i \in 1..b : w[a + i] = u[i]
  BY <1>1, <1>2, ConcatIs
<1>4. /\ DOMAIN s = 1..a /\ DOMAIN u = 1..b /\ DOMAIN w = 1..(a + b)
      /\ \A i \in 1..a : s[i] \in ToSet(s)
      /\ \A i \in 1..b : u[i] \in ToSet(u)
  <2>1. DOMAIN s = 1..a /\ DOMAIN u = 1..b /\ DOMAIN w = 1..(a + b)
    BY <1>1, <1>3
  <2>. QED
    BY <2>1 DEF ToSet
<1>5. ASSUME NEW i \in 1..(a + b)
      PROVE  \/ i \in 1..a /\ w[i] = s[i]
             \/ i - a \in 1..b /\ w[i] = u[i - a] /\ i > a
  <2>1. CASE i <= a
    BY <1>3, <2>1
  <2>2. CASE i > a
    <3>1. i - a \in 1..b /\ a + (i - a) = i
      BY <2>2
    <3>. QED
      BY <1>3, <2>2, <3>1
  <2>. QED
    BY <2>1, <2>2
<1>6. /\ \A i, j \in 1..a : i < j => s[i] < s[j]
      /\ \A i, j \in 1..b : i < j => u[i] < u[j]
      /\ \A i \in 1..a : \A j \in 1..b : s[i] < u[j]
  BY <1>4 DEF IsIncreasing, Before
<1>7. ASSUME NEW i \in 1..(a + b), NEW j \in 1..(a + b), i < j
      PROVE  w[i] < w[j]
  <2>1. CASE i \in 1..a /\ w[i] = s[i] /\ j \in 1..a /\ w[j] = s[j]
    BY <1>6, <1>7, <2>1
  <2>2. CASE i \in 1..a /\ w[i] = s[i] /\ j - a \in 1..b /\ w[j] = u[j - a]
    BY <1>6, <2>2
  <2>3. CASE i - a \in 1..b /\ w[i] = u[i - a] /\ j - a \in 1..b /\ w[j] = u[j - a]
    <3>1. i - a < j - a
      BY <1>7
    <3>. QED
      BY <1>6, <2>3, <3>1
  <2>4. ~(j \in 1..a /\ i > a)
    BY <1>7
  <2>. QED
    BY <1>5, <2>1, <2>2, <2>3, <2>4
<1>8. ASSUME NEW k \in Int
      PROVE  k \in ToSet(w) <=> k \in ToSet(s) \/ k \in ToSet(u)
  <2>1. ASSUME k \in ToSet(w) PROVE k \in ToSet(s) \/ k \in ToSet(u)
    <3>1. PICK i \in 1..(a + b) : w[i] = k
      BY <1>4, <2>1 DEF ToSet
    <3>. QED
      BY <1>4, <1>5, <3>1
  <2>2. ASSUME k \in ToSet(s) PROVE k \in ToSet(w)
    <3>1. PICK i \in 1..a : s[i] = k
      BY <1>4, <2>2 DEF ToSet
    <3>2. i \in 1..(a + b) /\ w[i] = k
      BY <1>3, <3>1
    <3>. QED
      BY <1>4, <3>2 DEF ToSet
  <2>3. ASSUME k \in ToSet(u) PROVE k \in ToSet(w)
    <3>1. PICK i \in 1..b : u[i] = k
      BY <1>4, <2>3 DEF ToSet
    <3>2. a + i \in 1..(a + b) /\ w[a + i] = k
      BY <1>3, <3>1
    <3>. QED
      BY <1>4, <3>2 DEF ToSet
  <2>. QED
    BY <2>1, <2>2, <2>3
<1>. QED
  BY <1>2, <1>4, <1>7, <1>8 DEF IsIncreasing

\* The keys from a leaf on are those of the leaves behind it in the order, increasing.
LEMMA KeysFromIs ==
    ASSUME NEW height, NEW range, Shape(tree, height, range), NEW s, IsRun(tree, range, s, Int)
    PROVE  \A i \in 1..Len(s) : AreKeysFrom(KeysFrom(s[i]), s, i)
<1>0. Typed(tree) /\ Ranged(tree, range)
  BY DEF Shape, Labelled
<1>1. PICK l \in Nat : l = Len(s)
  BY DEF IsRun
<1>2. /\ l >= 1 /\ \A i \in 1..l : s[i] \in Nodes(tree)
      /\ \A i \in 1..l : Link(tree, s[i]) = IF i = l THEN NoLeaf ELSE s[i + 1]
  BY <1>1, NextLeaf
<1>3. NoLeaf \notin Nodes(tree)
  <2>1. Nodes(tree) = 1..Len(tree.nodes) /\ Len(tree.nodes) \in Nat
    BY <1>0, Fields
  <2>. QED
    BY <2>1 DEF NoLeaf
<1>. DEFINE keys == CHOOSE f : f = [m \in {NoLeaf} \cup DOMAIN tree.nodes |->
                IF m = NoLeaf THEN <<>> ELSE tree.nodes[m].keys \o f[tree.nodes[m].next]]
<1>4. keys = [m \in {NoLeaf} \cup DOMAIN tree.nodes |->
                IF m = NoLeaf THEN <<>> ELSE tree.nodes[m].keys \o keys[tree.nodes[m].next]]
  <2>1. PICK head : head = [m \in Nodes(tree) |-> Keys(tree, m)]
    OBVIOUS
  <2>2. \A m \in Nodes(tree) : head[m] \in Seq(Int) /\ head[m] = Keys(tree, m)
    BY <1>0, <2>1, Fields
  <2>3. PICK f : AddsUp(f, head)
    BY <2>2, AlongChain
  <2>4. f = [m \in {NoLeaf} \cup DOMAIN tree.nodes |->
                IF m = NoLeaf THEN <<>> ELSE tree.nodes[m].keys \o f[tree.nodes[m].next]]
    BY <2>2, <2>3 DEF AddsUp, Nodes, Keys, Link
  <2>. QED
    BY <2>4
<1>5. \A n : KeysFrom(n) = keys[n]
  BY DEF KeysFrom
<1>. HIDE DEF keys
<1>6. keys[NoLeaf] = <<>> /\ \A m \in Nodes(tree) : keys[m] = Keys(tree, m) \o keys[Link(tree, m)]
  BY <1>3, <1>4 DEF Nodes, Keys, Link
<1>7. \A i \in 1..l : Keys(tree, s[i]) \in Seq(Int) /\ IsIncreasing(Keys(tree, s[i]))
  BY <1>0, <1>2, Fields DEF Ranged
<1>8. ASSUME NEW i \in 1..l, NEW k \in ToSet(Keys(tree, s[i]))
      PROVE  k \in Int /\ k \in range[s[i]]
  <2>1. DOMAIN Keys(tree, s[i]) = 1..Len(Keys(tree, s[i]))
    BY <1>7
  <2>2. PICK j \in 1..Len(Keys(tree, s[i])) : Keys(tree, s[i])[j] = k
    BY <2>1 DEF ToSet
  <2>. QED
    BY <1>0, <1>2, <1>7, <2>2 DEF Ranged
<1>9. \A i, j \in 1..l : i < j => Before(range[s[i]], range[s[j]])
  BY <1>1 DEF IsRun
<1>. DEFINE T == {i \in 1..l : AreKeysFrom(keys[s[i]], s, i)}
<1>10. l \in T
  <2>1. l \in 1..l /\ l..l = {l}
    BY <1>2
  <2>2. PICK w \in Seq(Int) : w = Keys(tree, s[l]) /\ IsIncreasing(w)
    BY <1>7, <2>1
  <2>3. w \o <<>> = w
    BY <2>2
  <2>4. keys[s[l]] = w
    BY <1>2, <1>6, <2>1, <2>2, <2>3
  <2>5. AreKeysFrom(w, s, l)
    BY <1>1, <2>1, <2>2 DEF AreKeysFrom
  <2>. QED
    BY <2>1, <2>4, <2>5
<1>11. ASSUME NEW i \in 1..(l - 1), i + 1 \in T
       PROVE  i \in T
  <2>1. i \in 1..l /\ i # l /\ i + 1 \in 1..l /\ i..l = {i} \cup (i + 1)..l
    OBVIOUS
  <2>2. PICK w \in Seq(Int) : w = Keys(tree, s[i]) /\ IsIncreasing(w)
    BY <1>7, <2>1
  <2>3. PICK u : u = keys[s[i + 1]]
    OBVIOUS
  <2>4. /\ u \in Seq(Int) /\ IsIncreasing(u)
        /\ \A k \in Int : k \in ToSet(u) <=> \E a \in (i + 1)..l : k \in ToSet(Keys(tree, s[a]))
    BY <1>1, <1>11, <2>3 DEF AreKeysFrom
  <2>5. keys[s[i]] = w \o u
    BY <1>2, <1>6, <2>1, <2>2, <2>3
  <2>6. Before(ToSet(w), ToSet(u))
    <3>1. ASSUME NEW x \in ToSet(w), NEW y \in ToSet(u)
          PROVE  x < y
      <4>1. x \in range[s[i]]
        BY <1>8, <2>1, <2>2
      <4>2. y \in Int
        <5>1. DOMAIN u = 1..Len(u)
          BY <2>4
        <5>. QED
          BY <2>4, <5>1 DEF ToSet
      <4>3. PICK a \in (i + 1)..l : y \in ToSet(Keys(tree, s[a]))
        BY <2>4, <4>2
      <4>4. a \in 1..l /\ i < a
        OBVIOUS
      <4>5. y \in range[s[a]]
        BY <1>8, <4>3, <4>4
      <4>. QED
        BY <1>9, <2>1, <4>1, <4>4, <4>5 DEF Before
    <3>. QED
      BY <3>1 DEF Before
  <2>7. PICK v : v = w \o u
    OBVIOUS
  <2>8. v \in Seq(Int)
    BY <2>2, <2>4, <2>7
  <2>9. IsIncreasing(v) /\ \A k \in Int : k \in ToSet(v) <=> k \in ToSet(w) \/ k \in ToSet(u)
    BY <2>2, <2>4, <2>6, <2>7, IncreasingConcat
  <2>10. ASSUME NEW k \in Int
         PROVE  k \in ToSet(v) <=> \E a \in i..l : k \in ToSet(Keys(tree, s[a]))
    BY <2>1, <2>2, <2>4, <2>9
  <2>11. AreKeysFrom(v, s, i)
    BY <1>1, <2>8, <2>9, <2>10 DEF AreKeysFrom
  <2>. QED
    BY <2>1, <2>5, <2>7, <2>11
<1>12. 1..l \subseteq T
  <2>. HIDE DEF T
  <2>. QED
    BY <1>10, <1>11, DownInduction
<1>. QED
  BY <1>1, <1>5, <1>12

\* Of increasing keys, those up to the first above last are those that are not above it.
UpToFirstAbove(keys, last) ==
    UpTo(keys, Cardinality({i \in DOMAIN keys : \A j \in 1..i : keys[j] <= last}))

\* Of increasing keys, those before the first one above last are those up to last.
LEMMA UpToLast ==
    ASSUME NEW keys \in Seq(Int), IsIncreasing(keys), NEW last \in Int, NEW answer,
           answer = UpToFirstAbove(keys, last)
    PROVE  /\ answer \in Seq(Int) /\ IsIncreasing(answer)
           /\ \A k \in Int : k \in ToSet(answer) <=> k \in ToSet(keys) /\ k <= last
<1>1. PICK n \in Nat : n = Len(keys)
  OBVIOUS
<1>2. DOMAIN keys = 1..n /\ \A i \in 1..n : keys[i] \in Int
  BY <1>1
<1>3. \A i, j \in 1..n : i < j => keys[i] < keys[j]
  BY <1>2 DEF IsIncreasing
<1>4. PICK b \in 0..n : b = Below(keys, last + 1) /\ \A i \in 1..n : keys[i] < last + 1 <=> i <= b
  <2>1. Below(keys, last + 1) \in 0..Len(keys)
        /\ \A i \in 1..Len(keys) : keys[i] < last + 1 <=> i <= Below(keys, last + 1)
    <3>1. PICK k \in Int : k = last + 1
      OBVIOUS
    <3>. QED
      BY <3>1, BelowIs
  <2>. QED
    BY <1>1, <2>1
<1>5. {i \in DOMAIN keys : \A j \in 1..i : keys[j] <= last} = {i \in DOMAIN keys : keys[i] < last + 1}
  <2>1. ASSUME NEW i \in 1..n
        PROVE  (\A j \in 1..i : keys[j] <= last) <=> keys[i] < last + 1
    <3>1. i \in 1..i /\ \A j \in 1..i : j \in 1..n /\ (j = i \/ j < i)
      OBVIOUS
    <3>2. \A j \in 1..i : keys[j] <= keys[i]
      BY <1>2, <1>3, <3>1
    <3>. QED
      BY <1>2, <3>1, <3>2
  <2>. QED
    BY <1>2, <2>1
<1>6. answer = UpTo(keys, b)
  BY <1>4, <1>5 DEF Below, UpToFirstAbove
<1>7. answer \in Seq(Int) /\ Len(answer) = b /\ \A j \in 1..b : answer[j] = keys[j]
  <2>1. b \in 0..Len(keys)
    BY <1>1, <1>4
  <2>. QED
    BY <1>6, <2>1, UpToIs
<1>8. DOMAIN answer = 1..b
  BY <1>7
<1>9. IsIncreasing(answer)
  <2>1. ASSUME NEW i \in 1..b, NEW j \in 1..b, i < j
        PROVE  answer[i] < answer[j]
    <3>1. i \in 1..n /\ j \in 1..n
      BY <1>4
    <3>. QED
      BY <1>3, <1>7, <2>1, <3>1
  <2>. QED
    BY <1>8, <2>1 DEF IsIncreasing
<1>10. ASSUME NEW k \in Int
       PROVE  k \in ToSet(answer) <=> k \in ToSet(keys) /\ k <= last
  <2>1. k \in ToSet(answer) <=> \E j \in 1..b : keys[j] = k
    BY <1>7, <1>8 DEF ToSet
  <2>2. k \in ToSet(keys) <=> \E j \in 1..n : keys[j] = k
    BY <1>2 DEF ToSet
  <2>3. \A j \in 1..n : keys[j] <= last <=> j <= b
    BY <1>2, <1>4
  <2>4. \A j : j \in 1..b <=> j \in 1..n /\ j <= b
    BY <1>4
  <2>. QED
    BY <2>1, <2>2, <2>3, <2>4
<1>. QED
  BY <1>7, <1>9, <1>10

\* rangeSearch answers, in order, the keys held between its bounds, and below the first
\* bound only such as stand in the leaf where it starts.
LEMMA RangeSearchIs ==
    ASSUME NEW height, NEW range, Shape(tree, height, range), NEW first \in Int, NEW last \in Int
    PROVE  LET answer == rangeSearch(first, last)
           IN  /\ answer \in Seq(Int) /\ IsIncreasing(answer)
               /\ \A k \in Int : k >= first => (k \in ToSet(answer) <=> k \in HeldIn(tree) /\ k <= last)
               /\ \A k \in ToSet(answer) : k < first => k \in ToSet(searchNode(tree, first).keys)
<1>0. Labelled(tree, height, range) /\ Typed(tree) /\ Ranged(tree, range)
  BY DEF Shape, Labelled
<1>1. PICK s : s = LeafOrder /\ IsRun(tree, range, s, Int)
  BY <1>0, LeafOrderIs
<1>2. PICK l \in Nat : l = Len(s)
  BY <1>1 DEF IsRun
<1>3. /\ \A i \in 1..l : s[i] \in Nodes(tree) /\ IsLeaf(tree, s[i])
      /\ \A m \in Nodes(tree) : IsLeaf(tree, m) => \E i \in 1..l : s[i] = m
      /\ \A i, j \in 1..l : i < j => \A a \in range[s[i]], b \in range[s[j]] : a < b
  <2>1. \A i \in 1..l : IsLeaf(tree, s[i])
    BY <1>1, <1>2 DEF IsRun
  <2>2. \A i, j \in 1..l : i < j => Before(range[s[i]], range[s[j]])
    BY <1>1, <1>2 DEF IsRun
  <2>3. /\ \A i \in 1..l : s[i] \in Nodes(tree)
        /\ \A m \in Nodes(tree) : IsLeaf(tree, m) => \E i \in 1..l : s[i] = m
    BY <1>1, <1>2, NextLeaf
  <2>. QED
    BY <2>1, <2>2, <2>3 DEF Before
<1>4. PICK i \in 1..l : s[i] = Last(Path(tree, first)) /\ first \in range[s[i]]
  <2>1. PICK n \in Nodes(tree) : n = Last(Path(tree, first)) /\ IsLeaf(tree, n) /\ first \in range[n]
    BY <1>0, LeafOfKey
  <2>. QED
    BY <1>3, <2>1
<1>5. PICK keys : keys = KeysFrom(s[i])
  OBVIOUS
<1>6. /\ keys \in Seq(Int) /\ IsIncreasing(keys)
      /\ \A k \in Int : k \in ToSet(keys) <=> \E a \in i..l : k \in ToSet(Keys(tree, s[a]))
  <2>1. AreKeysFrom(keys, s, i)
    BY <1>1, <1>2, <1>5, KeysFromIs
  <2>. QED
    BY <1>2, <2>1 DEF AreKeysFrom
<1>7. PICK answer : answer = rangeSearch(first, last)
  OBVIOUS
<1>8. /\ answer \in Seq(Int) /\ IsIncreasing(answer)
      /\ \A k \in Int : k \in ToSet(answer) <=> k \in ToSet(keys) /\ k <= last
  <2>1. answer = UpToFirstAbove(keys, last)
    BY <1>4, <1>5, <1>7 DEF rangeSearch, UpToFirstAbove
  <2>2. keys \in Seq(Int) /\ IsIncreasing(keys)
    BY <1>6
  <2>. QED
    BY <2>1, <2>2, UpToLast
<1>9. ASSUME NEW a \in 1..l, NEW k \in ToSet(Keys(tree, s[a]))
      PROVE  k \in Int /\ k \in range[s[a]] /\ k \in HeldIn(tree)
  <2>1. s[a] \in Nodes(tree) /\ DOMAIN Keys(tree, s[a]) = 1..Len(Keys(tree, s[a]))
    BY <1>0, <1>3, Fields
  <2>2. PICK j \in 1..Len(Keys(tree, s[a])) : Keys(tree, s[a])[j] = k
    BY <2>1 DEF ToSet
  <2>3. k \in range[s[a]]
    BY <1>0, <2>1, <2>2 DEF Ranged
  <2>4. k \in Int
    BY <1>0, <2>1, <2>3 DEF Ranged
  <2>5. k \in HeldIn(tree)
    BY <1>0, <1>3, <2>1, <2>2, HeldIs
  <2>. QED
    BY <2>3, <2>4, <2>5
<1>10. ASSUME NEW k \in HeldIn(tree)
       PROVE  \E a \in 1..l : k \in ToSet(Keys(tree, s[a]))
  BY <1>3 DEF HeldIn
<1>11. ASSUME NEW k \in Int, k >= first
       PROVE  k \in ToSet(answer) <=> k \in HeldIn(tree) /\ k <= last
  <2>1. ASSUME k \in ToSet(answer)
        PROVE  k \in HeldIn(tree) /\ k <= last
    <3>1. PICK a \in i..l : k \in ToSet(Keys(tree, s[a]))
      BY <1>6, <1>8, <2>1
    <3>2. a \in 1..l
      OBVIOUS
    <3>. QED
      BY <1>8, <1>9, <2>1, <3>1, <3>2
  <2>2. ASSUME k \in HeldIn(tree), k <= last
        PROVE  k \in ToSet(answer)
    <3>1. PICK a \in 1..l : k \in ToSet(Keys(tree, s[a]))
      BY <1>10, <2>2
    <3>2. k \in range[s[a]]
      BY <1>9, <3>1
    <3>3. a >= i
      <4>1. a < i => k < first
        BY <1>3, <1>4, <3>2
      <4>. QED
        BY <1>11, <4>1
    <3>4. a \in i..l
      BY <3>3
    <3>. QED
      BY <1>6, <1>8, <2>2, <3>1, <3>4
  <2>. QED
    BY <2>1, <2>2
<1>12. ASSUME NEW k \in ToSet(answer), k < first
       PROVE  k \in ToSet(searchNode(tree, first).keys)
  <2>1. k \in Int
    <3>1. DOMAIN answer = 1..Len(answer)
      BY <1>8
    <3>. QED
      BY <1>8, <3>1 DEF ToSet
  <2>2. PICK a \in i..l : k \in ToSet(Keys(tree, s[a]))
    BY <1>6, <1>8, <2>1
  <2>3. a \in 1..l
    OBVIOUS
  <2>4. k \in range[s[a]]
    BY <1>9, <2>2, <2>3
  <2>5. a = i
    <3>1. i < a => first < k
      BY <1>3, <1>4, <2>3, <2>4
    <3>. QED
      BY <1>12, <2>1, <3>1
  <2>. QED
    BY <1>4, <2>2, <2>5 DEF searchNode, Keys
<1>. QED
  BY <1>7, <1>8, <1>11, <1>12

\* The invariant gives the answers of range searches.
LEMMA RangeFromIInv == IInv => RangeIsComplete
<1>. SUFFICES ASSUME IInv PROVE RangeIsComplete
  OBVIOUS
<1>1. PICK height, range : Shape(tree, height, range)
  BY DEF IInv, WellFormed
<1>2. Chain(LeafOrder[1]) = LeafOrder
  BY <1>1, ChainIs
<1>3. ASSUME NEW first \in Key, NEW last \in Key
      PROVE  LET answer == rangeSearch(first, last)
             IN  /\ IsIncreasing(answer)
                 /\ {k \in ToSet(answer) : k >= first} = {k \in Held : first <= k /\ k <= last}
                 /\ \A k \in ToSet(answer) : k < first => k \in ToSet(searchNode(tree, first).keys)
  <2>1. first \in Int /\ last \in Int
    BY Integers
  <2>2. PICK answer : answer = rangeSearch(first, last)
    OBVIOUS
  <2>3. /\ answer \in Seq(Int) /\ IsIncreasing(answer)
        /\ \A k \in Int : k >= first => (k \in ToSet(answer) <=> k \in HeldIn(tree) /\ k <= last)
        /\ \A k \in ToSet(answer) : k < first => k \in ToSet(searchNode(tree, first).keys)
    BY <1>1, <2>1, <2>2, RangeSearchIs
  <2>4. ToSet(answer) \subseteq Int
    <3>1. DOMAIN answer = 1..Len(answer)
      BY <2>3
    <3>. QED
      BY <2>3, <3>1 DEF ToSet
  <2>5. Held \subseteq Int
    BY ViewIs, HeldIsHeldIn, Integers DEF IInv, Accepted
  <2>6. {k \in ToSet(answer) : k >= first} = {k \in Held : first <= k /\ k <= last}
    <3>1. ASSUME NEW k \in Int
          PROVE  k \in ToSet(answer) /\ k >= first <=> k \in Held /\ first <= k /\ k <= last
      BY <2>1, <2>3, HeldIsHeldIn
    <3>. QED
      BY <2>4, <2>5, <3>1
  <2>. QED
    BY <2>2, <2>3, <2>6
<1>. QED
  BY <1>2, <1>3 DEF RangeIsComplete

\* For any keys and orders: the chain goes through the leaves in the order of the tree,
\* and a range search answers every key that leaves hold in its range, in increasing
\* order, after keys below the range only from the leaf of its first key.
THEOREM CompleteRanges == Spec => []RangeIsComplete
<1>. QED
  BY SpecIInv, RangeFromIInv, PTL
=============================================================================
