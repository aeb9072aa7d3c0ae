----------------------------- MODULE Induction -------------------------------
(***************************************************************************)
(* Induction over the natural numbers, stated about sets instead of         *)
(* predicates, so that a proof can cite it, and the existence of the        *)
(* functions that a loop computes.  A recursive function definition stands  *)
(* for a CHOOSE; a proof about one first has to show that a function with   *)
(* its equation exists, and LoopUp and LoopDown give it for loops whose     *)
(* state stays in a set.                                                    *)
(***************************************************************************)
EXTENDS Integers, WellFoundedInduction, TLAPS

\* A set of natural numbers that is not empty has a least element.
LEMMA LeastNumber ==
    ASSUME NEW T \in SUBSET Nat, T # {}
    PROVE  \E m \in T : \A k \in T : m <= k
<1>1. PICK m \in T : \A k \in T : <<k, m>> \notin OpToRel(<, Nat)
  BY WFMin, NatLessThanWellFounded, Zenon
<1>2. ASSUME NEW k \in T, k < m
      PROVE  FALSE
  <2>1. <<k, m>> \in Nat \X Nat
    OBVIOUS
  <2>2. <<k, m>> \in OpToRel(<, Nat)
    BY <2>1, <1>2, Zenon DEF OpToRel
  <2>. QED
    BY <1>1, <2>2
<1>. QED
  BY <1>2

\* A set that has 0, and with every natural number its successor, has them all.
LEMMA SetInduction ==
    ASSUME NEW T, 0 \in T, \A n \in Nat : n \in T => n + 1 \in T
    PROVE  Nat \subseteq T
<1>1. SUFFICES ASSUME Nat \ T # {}
               PROVE  FALSE
  OBVIOUS
<1>2. PICK m \in Nat \ T : \A k \in Nat \ T : m <= k
  BY <1>1, LeastNumber
<1>3. m # 0 /\ m - 1 \in Nat
  BY <1>2
<1>4. m - 1 \in T
  BY <1>2, <1>3
<1>. QED
  BY <1>2, <1>3, <1>4

\* From 0 up to N.
LEMMA UpInduction ==
    ASSUME NEW N \in Nat, NEW T, 0 \in T, \A n \in 0..(N - 1) : n \in T => n + 1 \in T
    PROVE  0..N \subseteq T
<1>. DEFINE U == {n \in Nat : n <= N => n \in T}
<1>1. 0 \in U
  OBVIOUS
<1>2. ASSUME NEW n \in Nat, n \in U
      PROVE  n + 1 \in U
  BY <1>2
<1>3. Nat \subseteq U
  <2>. HIDE DEF U
  <2>. QED
    BY <1>1, <1>2, SetInduction
<1>. QED
  BY <1>3

\* From N down to 1.
LEMMA DownInduction ==
    ASSUME NEW N \in Nat, NEW T, N \in T, \A i \in 1..(N - 1) : i + 1 \in T => i \in T
    PROVE  1..N \subseteq T
<1>. DEFINE U == {n \in Nat : n < N => N - n \in T}
<1>1. 0 \in U
  OBVIOUS
<1>2. ASSUME NEW n \in Nat, n \in U
      PROVE  n + 1 \in U
  <2>. SUFFICES ASSUME n + 1 < N
                PROVE  N - (n + 1) \in T
    OBVIOUS
  <2>1. N - (n + 1) \in 1..(N - 1) /\ (N - (n + 1)) + 1 = N - n
    OBVIOUS
  <2>2. N - n \in T
    BY <1>2
  <2>. QED
    BY <2>1, <2>2
<1>3. Nat \subseteq U
  <2>. HIDE DEF U
  <2>. QED
    BY <1>1, <1>2, SetInduction
<1>4. ASSUME NEW i \in 1..N
      PROVE  i \in T
  <2>1. N - i \in Nat /\ N - i < N /\ N - (N - i) = i
    OBVIOUS
  <2>. QED
    BY <2>1, <1>3
<1>. QED
  BY <1>4

\* f is what a loop over 1..N goes through: base before it, and after round i what
\* step[i] makes of the state before the round.
IsLoopUp(f, S, N, base, step) ==
    f \in [0..N -> S] /\ f[0] = base /\ \A i \in 1..N : f[i] = step[i][f[i - 1]]

\* The same for a loop that starts at N and ends at 1.
IsLoopDown(f, S, N, base, step) ==
    f \in [1..N -> S] /\ \A i \in 1..N : f[i] = IF i = N THEN base ELSE step[i][f[i + 1]]

\* A loop whose rounds stay in S has a run.
LEMMA LoopUp ==
    ASSUME NEW S, NEW base \in S, NEW N \in Nat, NEW step \in [1..N -> [S -> S]]
    PROVE  \E f : IsLoopUp(f, S, N, base, step)
<1>. DEFINE Upto(n, f) == f[0] = base /\ \A i \in 1..n : f[i] = step[i][f[i - 1]]
            T == {n \in Nat : n <= N => \E f \in [0..n -> S] : Upto(n, f)}
<1>1. 0 \in T
  <2>1. [i \in 0..0 |-> base] \in [0..0 -> S]
    OBVIOUS
  <2>2. Upto(0, [i \in 0..0 |-> base])
    OBVIOUS
  <2>. QED
    BY <2>1, <2>2
<1>2. ASSUME NEW n \in Nat, n \in T
      PROVE  n + 1 \in T
  <2>. SUFFICES ASSUME n + 1 <= N
                PROVE  \E f \in [0..(n + 1) -> S] : Upto(n + 1, f)
    OBVIOUS
  <2>1. PICK f \in [0..n -> S] : Upto(n, f)
    BY <1>2
  <2>. DEFINE g == [i \in 0..(n + 1) |-> IF i = n + 1 THEN step[n + 1][f[n]] ELSE f[i]]
  <2>2. step[n + 1] \in [S -> S] /\ f[n] \in S
    OBVIOUS
  <2>3. g \in [0..(n + 1) -> S]
    BY <2>2
  <2>4. Upto(n + 1, g)
    BY <2>1
  <2>. HIDE DEF g
  <2>. QED
    BY <2>3, <2>4
<1>3. N \in T
  <2>. HIDE DEF T
  <2>1. \A n \in Nat : n \in T => n + 1 \in T
    BY <1>2
  <2>. QED
    BY <1>1, <2>1, SetInduction
<1>. QED
  BY <1>3 DEF IsLoopUp

\* So has one that goes down.
LEMMA LoopDown ==
    ASSUME NEW S, NEW base \in S, NEW N \in Nat, NEW step \in [1..N -> [S -> S]]
    PROVE  \E f : IsLoopDown(f, S, N, base, step)
<1>. PICK M \in Nat : M = IF N = 0 THEN 0 ELSE N - 1
  OBVIOUS
<1>1. PICK back \in [1..M -> [S -> S]] : \A i \in 1..M : back[i] = step[N - i]
  <2>. DEFINE b == [i \in 1..M |-> step[N - i]]
  <2>1. b \in [1..M -> [S -> S]] /\ \A i \in 1..M : b[i] = step[N - i]
    OBVIOUS
  <2>. HIDE DEF b
  <2>. QED
    BY <2>1
<1>2. PICK g : IsLoopUp(g, S, M, base, back)
  BY LoopUp
<1>. DEFINE f == [i \in 1..N |-> g[N - i]]
<1>3. f \in [1..N -> S]
  BY <1>2 DEF IsLoopUp
<1>4. ASSUME NEW i \in 1..N
      PROVE  f[i] = IF i = N THEN base ELSE step[i][f[i + 1]]
  <2>1. CASE i = N
    BY <2>1, <1>2 DEF IsLoopUp
  <2>2. CASE i # N
    <3>1. N - i \in 1..M /\ N - (N - i) = i /\ (N - i) - 1 = N - (i + 1) /\ i + 1 \in 1..N
      BY <2>2
    <3>2. g[N - i] = back[N - i][g[(N - i) - 1]]
      BY <3>1, <1>2 DEF IsLoopUp
    <3>3. f[i] = g[N - i] /\ f[i + 1] = g[(N - i) - 1]
      BY <3>1
    <3>4. back[N - i] = step[i]
      BY <3>1, <1>1
    <3>. QED
      BY <3>2, <3>3, <3>4, <2>2
  <2>. QED
    BY <2>1, <2>2
<1>. HIDE DEF f
<1>. QED
  BY <1>3, <1>4 DEF IsLoopDown

\* A recursive definition over D with values in S: step[n][f] is the value at n when
\* f has the values at the elements of a lower rank, and it looks at no others.
IsRanked(D, S, N, rank, Fs, step) ==
    /\ S # {} /\ N \in Nat /\ rank \in [D -> 0..N]
    /\ Fs = [D -> S] /\ step \in [D -> [Fs -> S]]
    /\ \A n \in D : \A f, g \in Fs :
            (\A m \in D : rank[m] < rank[n] => f[m] = g[m]) => step[n][f] = step[n][g]

\* Such a definition has a solution.
LEMMA RankedRecursion ==
    ASSUME NEW D, NEW S, NEW N, NEW rank, NEW Fs, NEW step, IsRanked(D, S, N, rank, Fs, step)
    PROVE  \E f \in Fs : \A n \in D : f[n] = step[n][f]
<1>0. /\ S # {} /\ N \in Nat /\ rank \in [D -> 0..N]
      /\ Fs = [D -> S] /\ step \in [D -> [Fs -> S]]
      /\ \A n \in D : \A f, g \in Fs :
            (\A m \in D : rank[m] < rank[n] => f[m] = g[m]) => step[n][f] = step[n][g]
  BY DEF IsRanked
<1>. USE <1>0
<1>1. PICK base \in [D -> S] : TRUE
  <2>1. PICK s \in S : TRUE
    OBVIOUS
  <2>2. [n \in D |-> s] \in [D -> S]
    OBVIOUS
  <2>. QED
    BY <2>2
<1>. DEFINE Level(r, f) == [n \in D |-> IF rank[n] = r THEN step[n][f] ELSE f[n]]
            round == [i \in 1..(N + 1) |-> [f \in [D -> S] |-> Level(i - 1, f)]]
<1>2. \A r : \A f \in [D -> S] : Level(r, f) \in [D -> S]
  OBVIOUS
<1>3. /\ round \in [1..(N + 1) -> [[D -> S] -> [D -> S]]]
      /\ \A i \in 1..(N + 1) : \A f \in [D -> S] : round[i][f] = Level(i - 1, f)
  <2>. HIDE DEF Level
  <2>. QED
    BY <1>2
<1>. HIDE DEF round
<1>4. PICK F : IsLoopUp(F, Fs, N + 1, base, round)
  <2>1. round \in [1..(N + 1) -> [Fs -> Fs]]
    BY <1>3, Zenon
  <2>2. base \in Fs /\ N + 1 \in Nat
    OBVIOUS
  <2>. QED
    BY <2>1, <2>2, LoopUp
<1>5. \A i \in 0..(N + 1) : F[i] \in [D -> S]
  BY <1>4 DEF IsLoopUp
<1>6. ASSUME NEW i \in 1..(N + 1), NEW n \in D
      PROVE  F[i][n] = IF rank[n] = i - 1 THEN step[n][F[i - 1]] ELSE F[i - 1][n]
  <2>1. F[i] = round[i][F[i - 1]] /\ i - 1 \in 0..(N + 1)
    BY <1>4 DEF IsLoopUp
  <2>2. F[i] = Level(i - 1, F[i - 1])
    <3>. HIDE DEF Level
    <3>. QED
      BY <1>3, <1>5, <2>1
  <2>. QED
    BY <2>2
\* Once its round is over, an element keeps its value.
<1>7. ASSUME NEW n \in D
      PROVE  \A i \in 0..(N + 1) : i > rank[n] => F[i][n] = F[N + 1][n]
  <2>. DEFINE T == {i \in 1..(N + 1) : i > rank[n] => F[i][n] = F[N + 1][n]}
  <2>1. N + 1 \in T
    OBVIOUS
  <2>2. ASSUME NEW i \in 1..((N + 1) - 1), i + 1 \in T
        PROVE  i \in T
    <3>1. i + 1 \in 1..(N + 1) /\ (i + 1) - 1 = i /\ i \in 1..(N + 1)
      OBVIOUS
    <3>2. SUFFICES ASSUME i > rank[n] PROVE F[i][n] = F[N + 1][n]
      BY <3>1
    <3>3. rank[n] # i /\ i + 1 > rank[n]
      BY <3>2
    <3>4. F[i + 1][n] = F[i][n]
      BY <1>6, <3>1, <3>3
    <3>. QED
      BY <2>2, <3>3, <3>4
  <2>3. 1..(N + 1) \subseteq T
    <3>. HIDE DEF T
    <3>. QED
      BY <2>1, <2>2, DownInduction
  <2>. QED
    BY <2>3
<1>8. ASSUME NEW n \in D
      PROVE  F[N + 1][n] = step[n][F[N + 1]]
  <2>. DEFINE r == rank[n]
  <2>1. r \in 0..N /\ r + 1 \in 1..(N + 1) /\ (r + 1) - 1 = r /\ r \in 0..(N + 1)
        /\ r + 1 \in 0..(N + 1) /\ N + 1 \in 0..(N + 1) /\ r + 1 > r
    <3>1. r \in 0..N
      OBVIOUS
    <3>. HIDE DEF r
    <3>. QED
      BY <3>1
  <2>2. F[r + 1][n] = step[n][F[r]]
    BY <1>6, <2>1
  <2>3. F[r + 1][n] = F[N + 1][n]
    BY <1>7, <2>1
  <2>4. \A m \in D : rank[m] < r => F[r][m] = F[N + 1][m]
    BY <1>7, <2>1
  <2>5. F[r] \in [D -> S] /\ F[N + 1] \in [D -> S]
    BY <1>5, <2>1
  <2>6. step[n][F[r]] = step[n][F[N + 1]]
    BY ZenonT(30), <2>4, <2>5
  <2>. QED
    BY <2>2, <2>3, <2>6
<1>9. F[N + 1] \in [D -> S]
  BY <1>5
<1>. QED
  BY <1>8, <1>9
=============================================================================
