---------------------------- MODULE GovernanceProofs ----------------------------
(***************************************************************************)
(* What the gateway promises of names, of policies and of its strict mode, for *)
(* every policy file, caller and set of tools: a name leads back to the server *)
(* and the tool it was made of, the tools a caller lists are those it may      *)
(* call, a rule that denies overrides those that allow, a pattern matches what *)
(* its star can stand for, and no call goes through without grounds.           *)
(*                                                                           *)
(* What the loop over the rules computes is shown by induction on the rules    *)
(* it has seen; the provers take induction as a statement about sets.          *)
(***************************************************************************)
EXTENDS Governance, SequenceTheorems, FiniteSetTheorems, WellFoundedInduction, TLAPS

LEMMA SeparatorIs ==
  /\ Separator \in Seq(Characters) /\ Len(Separator) = 2
  /\ Separator[1] = Underscore /\ Separator[2] = Underscore
<1>1. Underscore \in Characters
  BY GovernanceAssumption
<1> QED BY <1>1 DEF Separator

(* A separator stands at i *)
LEMMA SplitsAt ==
  ASSUME NEW s \in Seq(Characters), NEW i \in Nat
  PROVE  i \in Splits(s) <=> i >= 1 /\ i + 1 <= Len(s) /\ s[i] = Underscore /\ s[i + 1] = Underscore
<1>1. Len(s) \in Nat
  OBVIOUS
<1>2. i \in 1..(Len(s) - 1) <=> i >= 1 /\ i + 1 <= Len(s)
  BY <1>1
<1>3. ASSUME i >= 1, i + 1 <= Len(s)
      PROVE  SubSeq(s, i, i + 1) = Separator <=> s[i] = Underscore /\ s[i + 1] = Underscore
  <2>1. /\ Len(SubSeq(s, i, i + 1)) = 2
        /\ SubSeq(s, i, i + 1)[1] = s[i] /\ SubSeq(s, i, i + 1)[2] = s[i + 1]
        /\ SubSeq(s, i, i + 1) \in Seq(Characters)
    <3>1. \A j \in i..(i + 1) : s[j] \in Characters
      BY <1>1, <1>3, ElementOfSeq
    <3>2. i \in Int /\ i + 1 \in Int /\ i <= i + 1 /\ i + 1 - i + 1 = 2
      OBVIOUS
    <3>3. /\ Len(SubSeq(s, i, i + 1)) = 2 /\ SubSeq(s, i, i + 1) \in Seq(Characters)
          /\ \A j \in 1..2 : SubSeq(s, i, i + 1)[j] = s[i + j - 1]
      BY <3>1, <3>2, SubSeqProperties
    <3>4. 1 \in 1..2 /\ 2 \in 1..2 /\ i + 1 - 1 = i /\ i + 2 - 1 = i + 1
      OBVIOUS
    <3> DEFINE u == SubSeq(s, i, i + 1)
    <3> HIDE DEF u
    <3>5. u[1] = s[i + 1 - 1] /\ u[2] = s[i + 2 - 1]
      BY <3>3, <3>4 DEF u
    <3> QED BY <3>3, <3>4, <3>5 DEF u
  <2>2. /\ Len(Separator) = 2 /\ Separator[1] = Underscore /\ Separator[2] = Underscore
        /\ Separator \in Seq(Characters)
    BY SeparatorIs
  <2>3. ASSUME s[i] = Underscore, s[i + 1] = Underscore
        PROVE  SubSeq(s, i, i + 1) = Separator
    <3> DEFINE u == SubSeq(s, i, i + 1)
    <3>1. u \in Seq(Characters) /\ Len(u) = Len(Separator)
      BY <2>1, <2>2
    <3>2. \A j \in 1..Len(u) : u[j] = Separator[j]
      BY <2>1, <2>2, <2>3
    <3> HIDE DEF u
    <3>3. u = Separator
      BY <2>2, <3>1, <3>2, SeqEqual
    <3> QED BY <3>3 DEF u
  <2> QED BY <2>1, <2>2, <2>3
<1> QED BY <1>2, <1>3 DEF Splits

(* parse_tool undoes namespace_tool, for a server whose name can be told apart  *)
LEMMA ParsesBack ==
  ASSUME NEW s, NEW t, IsName(s), IsName(t), Unambiguous(s)
  PROVE  ParseTool(NamespaceTool(s, t)) = [server |-> s, tool |-> t]
<1> DEFINE L == Len(s)
           n == NamespaceTool(s, t)
<1>1. /\ s \in Seq(Characters) /\ t \in Seq(Characters) /\ L \in Nat /\ L >= 1
      /\ Len(t) \in Nat /\ Len(t) >= 1 /\ Underscore \in Characters
  <2>1. s \in Seq(Characters) /\ t \in Seq(Characters) /\ s # <<>> /\ t # <<>>
    BY DEF IsName
  <2>2. Len(s) \in Nat \ {0} /\ Len(t) \in Nat \ {0}
    BY <2>1, EmptySeq
  <2> QED BY <2>1, <2>2, GovernanceAssumption
<1>2. /\ n \in Seq(Characters) /\ Len(n) = L + 2 + Len(t)
      /\ \A i \in 1..L : n[i] = s[i]
      /\ n[L + 1] = Underscore /\ n[L + 2] = Underscore
      /\ \A i \in 1..Len(t) : n[L + 2 + i] = t[i]
  <2>2. /\ s \o Separator \in Seq(Characters) /\ Len(s \o Separator) = L + 2
        /\ \A i \in 1..L : (s \o Separator)[i] = s[i]
        /\ (s \o Separator)[L + 1] = Underscore /\ (s \o Separator)[L + 2] = Underscore
    <3> DEFINE u == s \o Separator
    <3>1. /\ u \in Seq(Characters) /\ Len(u) = Len(s) + Len(Separator)
          /\ \A i \in 1..Len(s) + Len(Separator) :
               u[i] = IF i <= Len(s) THEN s[i] ELSE Separator[i - Len(s)]
      BY <1>1, SeparatorIs, ConcatProperties
    <3> HIDE DEF u
    <3>2. u \in Seq(Characters) /\ Len(u) = L + 2
          /\ \A i \in 1..L + 2 : u[i] = IF i <= L THEN s[i] ELSE Separator[i - L]
      BY <1>1, <3>1, SeparatorIs
    <3>3. u[L + 1] = Separator[1] /\ u[L + 2] = Separator[2] /\ \A i \in 1..L : u[i] = s[i]
      <4>1. L + 1 \in 1..L + 2 /\ L + 2 \in 1..L + 2 /\ L + 1 - L = 1 /\ L + 2 - L = 2
            /\ ~(L + 1 <= L) /\ ~(L + 2 <= L)
        BY <1>1
      <4>2. u[L + 1] = Separator[1]
        BY <3>2, <4>1
      <4>3. u[L + 2] = Separator[2]
        BY <3>2, <4>1
      <4>4. \A i \in 1..L : i \in 1..L + 2 /\ i <= L
        BY <1>1
      <4> QED BY <3>2, <4>2, <4>3, <4>4
    <3> QED BY <3>2, <3>3, SeparatorIs DEF u
  <2>3. n = (s \o Separator) \o t
    BY DEF NamespaceTool
  <2>4. /\ n \in Seq(Characters) /\ Len(n) = Len(s \o Separator) + Len(t)
        /\ \A i \in 1..Len(s \o Separator) + Len(t) :
             n[i] = IF i <= Len(s \o Separator) THEN (s \o Separator)[i]
                    ELSE t[i - Len(s \o Separator)]
    <3> DEFINE u == s \o Separator
    <3>1. u \in Seq(Characters)
      BY <2>2
    <3> HIDE DEF u
    <3>2. /\ u \o t \in Seq(Characters) /\ Len(u \o t) = Len(u) + Len(t)
          /\ \A i \in 1..Len(u) + Len(t) : (u \o t)[i] = IF i <= Len(u) THEN u[i] ELSE t[i - Len(u)]
      BY <1>1, <3>1, ConcatProperties
    <3> QED BY <2>3, <3>2, Zenon DEF u
  <2>5. Len(n) = L + 2 + Len(t)
        /\ \A i \in 1..L + 2 + Len(t) :
             n[i] = IF i <= L + 2 THEN (s \o Separator)[i] ELSE t[i - (L + 2)]
    BY <1>1, <2>2, <2>4
  <2> HIDE DEF n
  <2>6. \A i \in 1..Len(t) : L + 2 + i \in 1..L + 2 + Len(t) /\ ~(L + 2 + i <= L + 2)
                              /\ L + 2 + i - (L + 2) = i
    BY <1>1
  <2>7. \A i \in 1..Len(t) : n[L + 2 + i] = t[i]
    BY <2>5, <2>6
  <2>8. \A i \in 1..L : n[i] = s[i]
    BY <1>1, <2>2, <2>5
  <2>9. n[L + 1] = Underscore /\ n[L + 2] = Underscore
    BY <1>1, <2>2, <2>5
  <2> QED BY <2>4, <2>5, <2>7, <2>8, <2>9
<1> HIDE DEF n
<1>3. L + 1 \in Splits(n)
  BY <1>1, <1>2, SplitsAt
<1>4. ASSUME NEW i \in Splits(n) PROVE i \in Nat /\ i >= L + 1
  <2>1. i \in Nat /\ i >= 1
    BY <1>1, <1>2 DEF Splits
  <2>2. n[i] = Underscore /\ n[i + 1] = Underscore
    BY <1>2, <2>1, SplitsAt
  <2>3. CASE i <= L
    <3> DEFINE u == s \o <<Underscore>>
    <3>1. /\ u \in Seq(Characters) /\ Len(u) = L + 1
          /\ \A j \in 1..L : u[j] = s[j]
          /\ u[L + 1] = Underscore
      BY <1>1, AppendProperties, AppendIsConcat
    <3> HIDE DEF u
    <3>2. u[i] = n[i] /\ (i + 1 <= L => u[i + 1] = n[i + 1])
      BY <1>1, <1>2, <2>1, <2>3, <3>1
    <3>3. u[i + 1] = Underscore
      BY <1>1, <2>1, <2>2, <2>3, <3>1, <3>2
    <3>4. i \in Splits(u)
      BY <1>1, <2>1, <2>2, <2>3, <3>1, <3>2, <3>3, SplitsAt
    <3> QED BY <3>4 DEF Unambiguous, u
  <2> QED BY <1>1, <2>1, <2>3
<1> DEFINE first == CHOOSE i \in Splits(n) : \A m \in Splits(n) : i <= m
<1>5. first = L + 1
  <2>1. \A m \in Splits(n) : L + 1 <= m
    BY <1>1, <1>4
  <2>2. first \in Splits(n) /\ \A m \in Splits(n) : first <= m
    BY <1>3, <2>1
  <2> QED BY <1>1, <1>3, <1>4, <2>2
<1> HIDE DEF first
<1>6. SubSeq(n, 1, first - 1) = s
  <2>1. /\ SubSeq(n, 1, L) \in Seq(Characters) /\ Len(SubSeq(n, 1, L)) = L
        /\ \A i \in 1..L : SubSeq(n, 1, L)[i] = s[i]
    BY <1>1, <1>2
  <2>2. SubSeq(n, 1, L) = s
    BY <1>1, <2>1
  <2> QED BY <1>1, <1>5, <2>2
<1>7. SubSeq(n, first + 2, Len(n)) = t
  <2>1. /\ SubSeq(n, L + 3, Len(n)) \in Seq(Characters) /\ Len(SubSeq(n, L + 3, Len(n))) = Len(t)
        /\ \A i \in 1..Len(t) : SubSeq(n, L + 3, Len(n))[i] = t[i]
    BY <1>1, <1>2
  <2>2. SubSeq(n, L + 3, Len(n)) = t
    BY <1>1, <2>1, SeqEqual
  <2> QED BY <1>1, <1>5, <2>2
<1>8. ~(Splits(n) = {} \/ first = 1 \/ first + 2 > Len(n))
  BY <1>1, <1>2, <1>3, <1>5
<1>9. ParseTool(n) = [server |-> SubSeq(n, 1, first - 1), tool |-> SubSeq(n, first + 2, Len(n))]
  BY <1>8 DEF ParseTool, first
<1> QED BY <1>6, <1>7, <1>9 DEF n
--------------------------------------------------------------------------------
(* Patterns: equal stretches of two sequences                                   *)
Agree(s, m, v, k, c) == \A i \in 1..c : s[m + i] = v[k + i]

LEMMA Stretches ==
  ASSUME NEW A, NEW s \in Seq(A), NEW v \in Seq(A), NEW n \in 0..Len(s), NEW l \in 0..Len(v),
         NEW m \in 1..(n + 1), NEW k \in 1..(l + 1)
  PROVE  SubSeq(s, m, n) = SubSeq(v, k, l) <=>
           n - m = l - k /\ Agree(s, m - 1, v, k - 1, n - m + 1)
<1>1. ASSUME NEW q \in Seq(A), NEW b \in 0..Len(q), NEW a \in 1..(b + 1)
      PROVE  LET u == SubSeq(q, a, b)
             IN u \in Seq(A) /\ Len(u) = b - a + 1 /\ \A i \in 1..(b - a + 1) : u[i] = q[a - 1 + i]
  <2> DEFINE u == SubSeq(q, a, b)
  <2>1. a \in Int /\ b \in Int /\ \A i \in a..b : q[i] \in A
    BY ElementOfSeq
  <2>2. /\ u \in Seq(A) /\ Len(u) = IF a <= b THEN b - a + 1 ELSE 0
        /\ \A i \in 1..(b - a + 1) : u[i] = q[a + i - 1]
    BY <2>1, SubSeqProperties
  <2> HIDE DEF u
  <2>3. Len(u) = b - a + 1
    BY <2>2
  <2>4. \A i \in 1..(b - a + 1) : a + i - 1 = a - 1 + i
    OBVIOUS
  <2> QED BY <2>2, <2>3, <2>4 DEF u
<1> DEFINE a == SubSeq(s, m, n)
           b == SubSeq(v, k, l)
<1>2. a \in Seq(A) /\ Len(a) = n - m + 1 /\ \A i \in 1..(n - m + 1) : a[i] = s[m - 1 + i]
  BY <1>1
<1>3. b \in Seq(A) /\ Len(b) = l - k + 1 /\ \A i \in 1..(l - k + 1) : b[i] = v[k - 1 + i]
  BY <1>1
<1> HIDE DEF a, b
<1>4. a = b <=> Len(a) = Len(b) /\ \A i \in 1..Len(a) : a[i] = b[i]
  BY <1>2, <1>3, SeqEqual
<1>5. Len(a) = Len(b) <=> n - m = l - k
  BY <1>2, <1>3
<1>6. ASSUME Len(a) = Len(b)
      PROVE  (\A i \in 1..Len(a) : a[i] = b[i]) <=>
             \A i \in 1..(n - m + 1) : s[m - 1 + i] = v[k - 1 + i]
  BY <1>2, <1>3, <1>6
<1> QED BY <1>4, <1>5, <1>6 DEF a, b, Agree

(* startswith and endswith, character by character                              *)
LEMMA PrefixIs ==
  ASSUME NEW A, NEW s \in Seq(A), NEW v \in Seq(A)
  PROVE  IsPrefix(s, v) <=> Len(s) <= Len(v) /\ \A i \in 1..Len(s) : s[i] = v[i]
<1>1. Len(s) \in Nat /\ Len(v) \in Nat
  OBVIOUS
<1>2. ASSUME Len(s) <= Len(v)
      PROVE  SubSeq(s, 1, Len(s)) = SubSeq(v, 1, Len(s)) <=> \A i \in 1..Len(s) : s[i] = v[i]
  <2>1. Len(s) \in 0..Len(s) /\ Len(s) \in 0..Len(v) /\ 1 \in 1..(Len(s) + 1)
    BY <1>1, <1>2
  <2>2. SubSeq(s, 1, Len(s)) = SubSeq(v, 1, Len(s)) <=>
          Len(s) - 1 = Len(s) - 1 /\ Agree(s, 1 - 1, v, 1 - 1, Len(s) - 1 + 1)
    BY <2>1, Stretches
  <2>3. 1 - 1 = 0 /\ Len(s) - 1 + 1 = Len(s) /\ \A i \in 1..Len(s) : 0 + i = i
    BY <1>1
  <2> QED BY <2>2, <2>3 DEF Agree
<1> QED BY <1>2 DEF IsPrefix

LEMMA SuffixIs ==
  ASSUME NEW A, NEW s \in Seq(A), NEW v \in Seq(A)
  PROVE  IsSuffix(s, v) <=>
           Len(s) <= Len(v) /\ \A i \in 1..Len(s) : s[i] = v[Len(v) - Len(s) + i]
<1>1. Len(s) \in Nat /\ Len(v) \in Nat
  OBVIOUS
<1>2. ASSUME NEW q \in Seq(A)
      PROVE  /\ Reverse(q) \in Seq(A) /\ Len(Reverse(q)) = Len(q)
             /\ \A i \in 1..Len(q) : Reverse(q)[i] = q[Len(q) - i + 1]
  <2>1. \A i \in 1..Len(q) : Len(q) - i + 1 \in 1..Len(q)
    OBVIOUS
  <2>2. Reverse(q) = [i \in 1..Len(q) |-> q[Len(q) - i + 1]]
    BY DEF Reverse
  <2>3. Reverse(q) \in Seq(A)
    BY <2>1, <2>2, ElementOfSeq, IsASeq
  <2>4. Len(q) \in Nat /\ DOMAIN Reverse(q) = 1..Len(q)
    BY <2>2
  <2>5. Len(Reverse(q)) = Len(q)
    BY <2>3, <2>4
  <2> QED BY <2>2, <2>3, <2>5
<1> DEFINE t == Reverse(s)
           w == Reverse(v)
<1>3. /\ t \in Seq(A) /\ Len(t) = Len(s) /\ \A i \in 1..Len(s) : t[i] = s[Len(s) - i + 1]
      /\ w \in Seq(A) /\ Len(w) = Len(v) /\ \A i \in 1..Len(v) : w[i] = v[Len(v) - i + 1]
  BY <1>2
<1> HIDE DEF t, w
<1>4. IsPrefix(t, w) <=> Len(s) <= Len(v) /\ \A i \in 1..Len(s) : t[i] = w[i]
  BY <1>3, PrefixIs
<1>5. ASSUME Len(s) <= Len(v)
      PROVE  (\A i \in 1..Len(s) : t[i] = w[i]) <=>
             \A i \in 1..Len(s) : s[i] = v[Len(v) - Len(s) + i]
  <2>1. ASSUME NEW i \in 1..Len(s)
        PROVE  /\ Len(s) - i + 1 \in 1..Len(s) /\ Len(s) - (Len(s) - i + 1) + 1 = i
               /\ i \in 1..Len(v) /\ Len(v) - i + 1 = Len(v) - Len(s) + (Len(s) - i + 1)
    BY <1>1, <1>5
  <2>2. \A i \in 1..Len(s) : t[i] = s[Len(s) - i + 1] /\ w[i] = v[Len(v) - i + 1]
    BY <1>3, <2>1
  <2>3. ASSUME \A i \in 1..Len(s) : t[i] = w[i], NEW i \in 1..Len(s)
        PROVE  s[i] = v[Len(v) - Len(s) + i]
    <3> DEFINE j == Len(s) - i + 1
    <3>1. j \in 1..Len(s) /\ Len(s) - j + 1 = i /\ Len(v) - j + 1 = Len(v) - Len(s) + i
      BY <1>1, <1>5
    <3> HIDE DEF j
    <3> QED BY <2>2, <2>3, <3>1
  <2>4. ASSUME \A i \in 1..Len(s) : s[i] = v[Len(v) - Len(s) + i], NEW i \in 1..Len(s)
        PROVE  t[i] = w[i]
    BY <2>1, <2>2, <2>4
  <2> QED BY <2>3, <2>4
<1>6. IsSuffix(s, v) <=> IsPrefix(t, w)
  BY DEF IsSuffix, t, w
<1> QED BY <1>4, <1>5, <1>6

(* A pattern the loader accepts, with a star or without, matches what its star   *)
(* can stand for (_matches_pattern, _VALID_WILDCARD_RE)                         *)
LEMMA MatchesGlob ==
  ASSUME NEW p \in Seq(Characters \cup {Star}), Stars(p) # {} => ValidWildcard(p),
         NEW v \in Seq(Characters)
  PROVE  MatchesPattern(p, v) <=> Glob(p, v)
<1> DEFINE A == Characters \cup {Star}
           L == Len(p)
           N == Len(v)
           Before(i, j) == SubSeq(p, 1, i - 1) = SubSeq(v, 1, j)
           After(i, k) == SubSeq(p, i + 1, L) = SubSeq(v, k + 1, N)
<1>1. /\ L \in Nat /\ N \in Nat /\ v \in Seq(A) /\ DOMAIN p = 1..L
      /\ Stars(p) \subseteq 1..L /\ p \in Seq(A)
  BY DEF Stars
<1> HIDE DEF A
<1>0. p \in Seq(A) /\ v \in Seq(A)
  BY <1>1
<1>2. ASSUME NEW i \in 1..L, NEW j \in 0..N
      PROVE  Before(i, j) <=> j = i - 1 /\ \A m \in 1..(i - 1) : p[m] = v[m]
  <2>1. i - 1 \in 0..L /\ 1 \in 1..(i - 1 + 1) /\ 1 \in 1..(j + 1)
    BY <1>1
  <2>2. Before(i, j) <=> i - 1 - 1 = j - 1 /\ Agree(p, 1 - 1, v, 1 - 1, i - 1 - 1 + 1)
    <3>1. PICK n, a : n = i - 1 /\ a = 1
      OBVIOUS
    <3>2. SubSeq(p, a, n) = SubSeq(v, a, j) <=> n - a = j - a /\ Agree(p, a - 1, v, a - 1, n - a + 1)
      <4>1. n \in 0..Len(p) /\ j \in 0..Len(v) /\ a \in 1..(n + 1) /\ a \in 1..(j + 1)
        BY <1>1, <2>1, <3>1
      <4> QED BY <1>0, <4>1, Stretches
    <3> QED BY <3>1, <3>2
  <2>3. /\ 1 - 1 = 0 /\ i - 1 - 1 + 1 = i - 1 /\ (i - 1 - 1 = j - 1 <=> j = i - 1)
        /\ \A m \in 1..(i - 1) : 0 + m = m
    BY <1>1
  <2> QED BY <2>2, <2>3 DEF Agree
<1>3. ASSUME NEW i \in 1..L, NEW k \in 0..N
      PROVE  After(i, k) <=> L - i = N - k /\ \A m \in 1..(L - i) : p[i + m] = v[k + m]
  <2>1. L \in 0..L /\ N \in 0..N /\ i + 1 \in 1..(L + 1) /\ k + 1 \in 1..(N + 1)
    BY <1>1
  <2>2. After(i, k) <=> L - (i + 1) = N - (k + 1) /\ Agree(p, i + 1 - 1, v, k + 1 - 1, L - (i + 1) + 1)
    <3>1. PICK a, b : a = i + 1 /\ b = k + 1
      OBVIOUS
    <3>2. SubSeq(p, a, L) = SubSeq(v, b, N) <=> L - a = N - b /\ Agree(p, a - 1, v, b - 1, L - a + 1)
      <4>1. L \in 0..Len(p) /\ N \in 0..Len(v) /\ a \in 1..(L + 1) /\ b \in 1..(N + 1)
        BY <2>1, <3>1
      <4> QED BY <1>0, <4>1, Stretches
    <3> QED BY <3>1, <3>2
  <2>3. /\ i + 1 - 1 = i /\ k + 1 - 1 = k /\ L - (i + 1) + 1 = L - i
        /\ (L - (i + 1) = N - (k + 1) <=> L - i = N - k)
    BY <1>1
  <2> QED BY <2>2, <2>3 DEF Agree
<1>4. ASSUME NEW i \in 1..L, Stars(p) = {i}
      PROVE  Glob(p, v) <=> \E j \in 0..N : Before(i, j) /\ \E k \in j..N : After(i, k)
  BY <1>4 DEF Glob
<1> HIDE DEF Before, After
<1>5. CASE p = <<Star>>
  <2>1. L = 1 /\ Stars(p) = {1}
    BY <1>5 DEF Stars
  <2>2. Before(1, 0) /\ After(1, N)
    BY <1>1, <1>2, <1>3, <2>1
  <2>3. Glob(p, v)
    BY <1>1, <1>4, <2>1, <2>2
  <2>4. MatchesPattern(p, v)
    BY <1>5, <2>1 DEF MatchesPattern
  <2> QED BY <2>3, <2>4
<1>6. ASSUME p # <<Star>>, Stars(p) # {} PROVE Stars(p) = {1} \/ Stars(p) = {L}
  <2>1. Cardinality(Stars(p)) = 1 /\ Stars(p) \subseteq {1, L}
    BY <1>6 DEF ValidWildcard
  <2>2. IsFiniteSet(1..L)
    BY <1>1, FS_Interval
  <2>3. IsFiniteSet(Stars(p))
    BY <1>1, <2>2, FS_Subset
  <2>4. PICK i : Stars(p) = {i}
    BY <2>1, <2>3, FS_Singleton
  <2> QED BY <2>1, <2>4
<1>7. CASE p # <<Star>> /\ Stars(p) = {L}
  <2>1. L \in 1..L
    BY <1>1, <1>7
  <2>2. Front(p) \in Seq(A) /\ Len(Front(p)) = L - 1 /\ \A i \in 1..(L - 1) : Front(p)[i] = p[i]
    <3> DEFINE u == Front(p)
    <3>1. u = SubSeq(p, 1, L - 1)
      BY DEF Front
    <3>2. u \in Seq(A) /\ Len(u) = L - 1 /\ \A i \in 1..(L - 1 - 1 + 1) : u[i] = p[1 + i - 1]
      BY <1>1, <2>1, <3>1, SubSeqProperties, ElementOfSeq
    <3> HIDE DEF u
    <3>3. \A i \in 1..(L - 1) : u[i] = p[i]
      BY <1>1, <3>2
    <3> QED BY <3>2, <3>3 DEF u
  <2>3. MatchesPattern(p, v) <=> IsPrefix(Front(p), v)
    BY <1>7 DEF MatchesPattern
  <2>4. MatchesPattern(p, v) <=> L - 1 <= N /\ \A i \in 1..(L - 1) : p[i] = v[i]
    <3> DEFINE u == Front(p)
    <3>1. u \in Seq(A) /\ Len(u) = L - 1 /\ \A i \in 1..(L - 1) : u[i] = p[i]
      BY <2>2
    <3> HIDE DEF u
    <3>2. IsPrefix(u, v) <=> Len(u) <= N /\ \A i \in 1..Len(u) : u[i] = v[i]
      BY <1>0, <3>1, PrefixIs
    <3>3. IsPrefix(u, v) <=> L - 1 <= N /\ \A i \in 1..(L - 1) : p[i] = v[i]
      BY <3>1, <3>2
    <3> QED BY <2>3, <3>3 DEF u
  <2>5. After(L, N)
    BY <1>1, <1>3, <2>1
  <2>6. Glob(p, v) <=> \E j \in 0..N : Before(L, j)
    BY <1>1, <1>4, <1>7, <2>1, <2>5
  <2>7. (\E j \in 0..N : Before(L, j)) <=> L - 1 \in 0..N /\ \A i \in 1..(L - 1) : p[i] = v[i]
    BY <1>1, <1>2, <2>1
  <2> QED BY <1>1, <2>1, <2>4, <2>6, <2>7
<1>8. CASE p # <<Star>> /\ Stars(p) = {1} /\ L # 1
  <2>1. 1 \in 1..L /\ p # <<>>
    BY <1>1, <1>8
  <2>2. Tail(p) \in Seq(A) /\ Len(Tail(p)) = L - 1 /\ \A i \in 1..(L - 1) : Tail(p)[i] = p[i + 1]
    BY <1>1, <2>1, HeadTailProperties
  <2>3. MatchesPattern(p, v) <=> IsSuffix(Tail(p), v)
    BY <1>8, Zenon DEF MatchesPattern
  <2>4. MatchesPattern(p, v) <=> L - 1 <= N /\ \A i \in 1..(L - 1) : p[i + 1] = v[N - (L - 1) + i]
    <3> DEFINE u == Tail(p)
    <3>1. u \in Seq(A) /\ Len(u) = L - 1 /\ \A i \in 1..(L - 1) : u[i] = p[i + 1]
      BY <2>2
    <3> HIDE DEF u
    <3>2. IsSuffix(u, v) <=> Len(u) <= N /\ \A i \in 1..Len(u) : u[i] = v[N - Len(u) + i]
      BY <1>0, <3>1, SuffixIs
    <3>3. IsSuffix(u, v) <=> L - 1 <= N /\ \A i \in 1..(L - 1) : p[i + 1] = v[N - (L - 1) + i]
      BY <3>1, <3>2
    <3> QED BY <2>3, <3>3 DEF u
  <2>5. Before(1, 0)
    BY <1>1, <1>2, <2>1
  <2>6. \A j \in 0..N : Before(1, j) => j = 0
    BY <1>1, <1>2, <2>1
  <2>7. Glob(p, v) <=> \E k \in 0..N : After(1, k)
    BY <1>1, <1>4, <1>8, <2>1, <2>5, <2>6
  <2>8. (\E k \in 0..N : After(1, k)) <=>
          N - (L - 1) \in 0..N /\ \A m \in 1..(L - 1) : p[1 + m] = v[N - (L - 1) + m]
    <3>1. \A k \in 0..N : After(1, k) => k = N - (L - 1)
      BY <1>1, <1>3, <2>1
    <3>2. ASSUME N - (L - 1) \in 0..N
          PROVE  After(1, N - (L - 1)) <=> \A m \in 1..(L - 1) : p[1 + m] = v[N - (L - 1) + m]
      <4>1. L - 1 = N - (N - (L - 1))
        BY <1>1
      <4> QED BY <1>3, <2>1, <3>2, <4>1
    <3> QED BY <3>1, <3>2
  <2>9. \A m \in 1..(L - 1) : 1 + m = m + 1
    BY <1>1
  <2> QED BY <1>1, <2>1, <2>4, <2>7, <2>8, <2>9
<1>9. CASE Stars(p) = {}
  <2>1. p # <<Star>>
    <3> SUFFICES ASSUME p = <<Star>> PROVE 1 \in Stars(p)
      BY <1>9
    <3> QED BY DEF Stars
  <2> QED BY <1>9, <2>1 DEF MatchesPattern, Glob
<1> QED BY <1>5, <1>6, <1>7, <1>8, <1>9
--------------------------------------------------------------------------------
(* Induction, in the form in which the provers can use it: over a set           *)
LEMMA LeastNumber == ASSUME NEW T \in SUBSET Nat, T # {} PROVE \E x \in T : \A y \in T : x <= y
<1> DEFINE R == OpToRel(<, Nat)
<1>1. IsWellFoundedOn(R, Nat)
  BY NatLessThanWellFounded
<1>2. \A x, y \in Nat : <<y, x>> \in R <=> y < x
  BY DEF OpToRel
<1> HIDE DEF R
<1>3. PICK x \in T : \A y \in T : ~(<<y, x>> \in R)
  BY <1>1, WFMin
<1>4. \A y \in T : ~(y < x)
  BY <1>2, <1>3
<1>5. \A y \in T : x <= y
  BY <1>4
<1> QED BY <1>5

LEMMA InductionSet ==
  ASSUME NEW S, 0 \in S, \A n \in Nat : n \in S => n + 1 \in S
  PROVE  \A n \in Nat : n \in S
<1> SUFFICES ASSUME Nat \ S # {} PROVE FALSE
  OBVIOUS
<1>1. PICK x \in Nat \ S : \A y \in Nat \ S : x <= y
  BY LeastNumber
<1>2. x # 0 /\ x - 1 \in Nat /\ x - 1 \in S
  BY <1>1
<1> QED BY <1>1, <1>2

(* The loop over the rules does what its recursive definition says              *)
LEMMA SeenIs ==
  ASSUME NEW f, Len(f.rules) \in Nat, NEW who, NEW server, NEW tool
  PROVE  \A n \in 0..Len(f.rules) :
           Seen(f, who, server, tool)[n] =
             IF n = 0 THEN [allow |-> None, deny |-> None]
             ELSE IF RuleMatches(f.rules[n], who, server, tool)
                  THEN Scan(Seen(f, who, server, tool)[n - 1], f.rules[n])
                  ELSE Seen(f, who, server, tool)[n - 1]
<1> DEFINE start == [allow |-> None, deny |-> None]
           Step(x, n) == IF RuleMatches(f.rules[n], who, server, tool) THEN Scan(x, f.rules[n]) ELSE x
           Loop(g, n) == g = [i \in 0..n |-> IF i = 0 THEN start ELSE Step(g[i - 1], i)]
           S == {n \in Nat : \E g : Loop(g, n)}
           N == Len(f.rules)
<1>0. Seen(f, who, server, tool) = CHOOSE g : Loop(g, N)
  BY DEF Seen
<1> HIDE DEF start, Step
<1>1. 0 \in S
  <2>1. Loop([i \in 0..0 |-> start], 0)
    OBVIOUS
  <2> QED BY <2>1
<1>2. ASSUME NEW n \in Nat, n \in S PROVE n + 1 \in S
  <2>1. PICK g : Loop(g, n)
    BY <1>2
  <2> DEFINE h == [i \in 0..(n + 1) |-> IF i = n + 1 THEN Step(g[n], n + 1) ELSE g[i]]
  <2>2. \A i \in 0..(n + 1) : h[i] = IF i = 0 THEN start ELSE Step(h[i - 1], i)
    <3> SUFFICES ASSUME NEW i \in 0..(n + 1)
                 PROVE  h[i] = IF i = 0 THEN start ELSE Step(h[i - 1], i)
      OBVIOUS
    <3>1. CASE i = n + 1
      <4>1. n \in 0..(n + 1) /\ i # 0 /\ i - 1 = n /\ n # n + 1
        BY <3>1
      <4> QED BY <3>1, <4>1
    <3>2. CASE i \in 0..n
      <4>1. i # n + 1 /\ (i # 0 => i - 1 \in 0..(n + 1) /\ i - 1 # n + 1)
        BY <3>2
      <4>2. g[i] = IF i = 0 THEN start ELSE Step(g[i - 1], i)
        BY <2>1, <3>2
      <4> QED BY <4>1, <4>2
    <3> QED BY <3>1, <3>2
  <2>3. h = [i \in 0..(n + 1) |-> h[i]]
    OBVIOUS
  <2> HIDE DEF h
  <2>4. Loop(h, n + 1)
    BY <2>2, <2>3
  <2> QED BY <2>4
<1>3. \E g : Loop(g, N)
  <2> HIDE DEF Loop
  <2>1. \A n \in Nat : n \in S
    <3> HIDE DEF S
    <3> QED BY <1>1, <1>2, InductionSet
  <2> QED BY <2>1
<1>4. Loop(Seen(f, who, server, tool), N)
  BY <1>0, <1>3
<1> QED BY <1>4 DEF Step, start

(* The rules with an effect that match, of the first n                          *)
Matching(f, who, server, tool, effect, n) ==
  {i \in 1..n : f.rules[i].effect = effect /\ RuleMatches(f.rules[i], who, server, tool)}

FirstOf(f, is, found) ==
  \/ is = {} /\ found = None
  \/ \E i \in is : (\A j \in is : i <= j) /\ found = f.rules[i]

(* After n rules the loop holds the first that allows and the first that denies *)
LEMMA SeenAreFirst ==
  ASSUME NEW f, Len(f.rules) \in Nat, \A i \in 1..Len(f.rules) : IsRule(f.rules[i]),
         NEW who, NEW server, NEW tool
  PROVE  LET seen == Seen(f, who, server, tool)[Len(f.rules)]
         IN /\ FirstOf(f, Matching(f, who, server, tool, "allow", Len(f.rules)), seen.allow)
            /\ FirstOf(f, Matching(f, who, server, tool, "deny", Len(f.rules)), seen.deny)
<1> DEFINE N == Len(f.rules)
           seen(n) == Seen(f, who, server, tool)[n]
           Allow(n) == Matching(f, who, server, tool, "allow", n)
           Deny(n) == Matching(f, who, server, tool, "deny", n)
           P(n) == /\ DOMAIN seen(n) = {"allow", "deny"}
                   /\ FirstOf(f, Allow(n), seen(n).allow) /\ FirstOf(f, Deny(n), seen(n).deny)
           S == {n \in Nat : n <= N => P(n)}
<1>1. 0 \in S
  <2>1. seen(0) = [allow |-> None, deny |-> None]
    BY SeenIs
  <2>2. Allow(0) = {} /\ Deny(0) = {}
    BY DEF Matching
  <2> HIDE DEF seen
  <2> QED BY <2>1, <2>2 DEF FirstOf
<1>2. ASSUME NEW n \in Nat, n \in S PROVE n + 1 \in S
  <2> SUFFICES ASSUME n + 1 <= N PROVE P(n + 1)
    OBVIOUS
  <2> DEFINE r == f.rules[n + 1]
             m == RuleMatches(r, who, server, tool)
  <2>1. n + 1 \in 0..N /\ n + 1 # 0 /\ n + 1 - 1 = n /\ n + 1 \in 1..N
    OBVIOUS
  <2>2. P(n)
    BY <1>2
  <2>3. seen(n + 1) = IF m THEN Scan(seen(n), r) ELSE seen(n)
    BY <2>1, SeenIs
  <2>4. r.effect \in {"allow", "deny"} /\ r # None
    BY <2>1 DEF IsRule
  <2>5. /\ Allow(n + 1) = Allow(n) \cup (IF m /\ r.effect = "allow" THEN {n + 1} ELSE {})
        /\ Deny(n + 1) = Deny(n) \cup (IF m /\ r.effect = "deny" THEN {n + 1} ELSE {})
        /\ Allow(n) \subseteq 1..n /\ Deny(n) \subseteq 1..n
    BY DEF Matching
  <2>6. \A i \in 1..n : IsRule(f.rules[i]) /\ f.rules[i] # None
    BY DEF IsRule
  <2>7. seen(n).allow = None <=> Allow(n) = {}
    BY <2>2, <2>5, <2>6 DEF FirstOf
  <2>8. seen(n).deny = None <=> Deny(n) = {}
    BY <2>2, <2>5, <2>6 DEF FirstOf
  <2> HIDE DEF Allow, Deny, m, seen
  <2>9. ASSUME NEW is \in SUBSET (1..n), NEW found, FirstOf(f, is, found), is # {}
        PROVE  FirstOf(f, is \cup {n + 1}, found)
    <3>1. PICK i \in is : (\A j \in is : i <= j) /\ found = f.rules[i]
      BY <2>9 DEF FirstOf
    <3>2. i \in 1..n
      BY <3>1
    <3>3. i <= n + 1
      BY <3>2
    <3> QED BY <3>1, <3>3 DEF FirstOf
  <2>10. FirstOf(f, {n + 1}, r)
    BY DEF FirstOf
  <2>11. CASE ~m
    BY <2>2, <2>3, <2>5, <2>11
  <2>12. CASE m /\ r.effect = "deny"
    <3>1. Allow(n + 1) = Allow(n) /\ Deny(n + 1) = Deny(n) \cup {n + 1}
      BY <2>5, <2>12
    <3>2. CASE seen(n).deny = None
      <4>1. seen(n + 1) = [seen(n) EXCEPT !.deny = r]
        BY <2>3, <2>12, <3>2 DEF Scan
      <4>2. /\ DOMAIN seen(n + 1) = {"allow", "deny"} /\ seen(n + 1).deny = r
            /\ seen(n + 1).allow = seen(n).allow
        BY <2>2, <4>1
      <4> QED BY <2>2, <2>8, <2>10, <3>1, <3>2, <4>2
    <3>3. CASE seen(n).deny # None
      <4>1. seen(n + 1) = seen(n)
        BY <2>3, <2>12, <3>3 DEF Scan
      <4> QED BY <2>2, <2>5, <2>8, <2>9, <3>1, <3>3, <4>1
    <3> QED BY <3>2, <3>3
  <2>13. CASE m /\ r.effect = "allow"
    <3>1. Allow(n + 1) = Allow(n) \cup {n + 1} /\ Deny(n + 1) = Deny(n)
      BY <2>5, <2>13
    <3>2. CASE seen(n).allow = None
      <4>1. seen(n + 1) = [seen(n) EXCEPT !.allow = r]
        BY <2>3, <2>13, <3>2 DEF Scan
      <4>2. /\ DOMAIN seen(n + 1) = {"allow", "deny"} /\ seen(n + 1).allow = r
            /\ seen(n + 1).deny = seen(n).deny
        BY <2>2, <4>1
      <4> QED BY <2>2, <2>7, <2>10, <3>1, <3>2, <4>2
    <3>3. CASE seen(n).allow # None
      <4>1. seen(n + 1) = seen(n)
        BY <2>3, <2>13, <3>3 DEF Scan
      <4> QED BY <2>2, <2>5, <2>7, <2>9, <3>1, <3>3, <4>1
    <3> QED BY <3>2, <3>3
  <2> QED BY <2>4, <2>11, <2>12, <2>13
<1>3. P(N)
  <2> HIDE DEF P
  <2>1. \A n \in Nat : n \in S
    <3> HIDE DEF S
    <3> QED BY <1>1, <1>2, InductionSet
  <2> QED BY <2>1
<1> QED BY <1>3

(* What the documentation says of a decision, and of the rule on record         *)
DenyOverAllow(f, d, deny, allow) ==
  /\ deny # {} => /\ d.effect = "deny"
                  /\ \E i \in deny : (\A j \in deny : i <= j) /\ d.rule = f.rules[i].id
  /\ deny = {} /\ allow # {} =>
       /\ d.effect = "allow"
       /\ \E i \in allow : (\A j \in allow : i <= j) /\ d.rule = f.rules[i].id
  /\ deny = {} /\ allow = {} => d.effect = f.default /\ d.rule = None

HasRules(f) ==
  Len(f.rules) \in Nat /\ DOMAIN f.rules = 1..Len(f.rules) /\ \A i \in 1..Len(f.rules) : IsRule(f.rules[i])

(* The engine decides so                                                        *)
LEMMA EvaluateIs ==
  ASSUME NEW f, HasRules(f), NEW who, NEW server, NEW tool
  PROVE  DenyOverAllow(f, Evaluate(f, who, server, tool),
                       Matching(f, who, server, tool, "deny", Len(f.rules)),
                       Matching(f, who, server, tool, "allow", Len(f.rules)))
<1> DEFINE seen == Seen(f, who, server, tool)[Len(f.rules)]
           d == Evaluate(f, who, server, tool)
           deny == Matching(f, who, server, tool, "deny", Len(f.rules))
           allow == Matching(f, who, server, tool, "allow", Len(f.rules))
<1>1. FirstOf(f, allow, seen.allow) /\ FirstOf(f, deny, seen.deny)
  BY SeenAreFirst DEF HasRules
<1>2. d =
        IF seen.deny # None THEN [effect |-> "deny", rule |-> seen.deny.id]
        ELSE IF seen.allow # None THEN [effect |-> "allow", rule |-> seen.allow.id]
        ELSE [effect |-> f.default, rule |-> None]
  BY DEF Evaluate
<1>3. \A i \in allow \cup deny : f.rules[i] # None
  BY DEF Matching, IsRule, HasRules
<1> HIDE DEF seen, d, allow, deny
<1>4. DenyOverAllow(f, d, deny, allow)
  BY <1>1, <1>2, <1>3 DEF FirstOf, DenyOverAllow
<1> QED BY <1>4 DEF d, allow, deny
--------------------------------------------------------------------------------
(* The gateway serves only what it did not refuse and the loader accepted, and   *)
(* what it has answered last is what it would answer now: file, environment and *)
(* caller are the same                                                          *)
IInv ==
  /\ file \in Files \cup {None}
  /\ phase \in {"loaded", "serving"} /\ Governed => Valid(file)
  /\ phase = "serving" => ~Refuses
  /\ phase # "serving" => listing = None /\ last = NoCall
  /\ listing = None \/ listing = Listing
  /\ last = NoCall \/ \E n \in Names : last = Outcome(n)

LEMMA IInvAlways == Spec => []IInv
<1>1. Init => IInv
  BY DEF Init, IInv
<1>2. IInv /\ [Next]_vars => IInv'
  <2> SUFFICES ASSUME IInv, [Next]_vars PROVE IInv'
    OBVIOUS
  <2> USE DEF Refuses, Unsafe, Governed, IdentityEnabled
  <2>1. ASSUME UNCHANGED <<env, file>> PROVE (Refuses <=> Refuses') /\ (Valid(file) <=> Valid(file)')
    BY <2>1
  <2>2. ASSUME UNCHANGED <<env, file, caller>>
        PROVE  Listing' = Listing /\ \A n : Outcome(n)' = Outcome(n)
    <3>1. /\ Configured' = Configured /\ Subject' = Subject /\ Lister' = Lister
          /\ Authenticated' <=> Authenticated
      BY <2>2 DEF Configured, Subject, Lister, Authenticated
    <3>2. Listing' = Listing
      BY <2>2, <3>1 DEF Listing
    <3>3. \A n : Outcome(n)' = Outcome(n)
      BY <2>2, <3>1 DEF Outcome, IsConfigured
    <3> QED BY <3>2, <3>3
  <2>3. CASE Load
    BY <2>1, <2>3 DEF Load, IInv
  <2>4. CASE Start
    BY <2>1, <2>4 DEF Start, IInv
  <2>5. ASSUME NEW c \in Callers \cup {None}, Arrive(c) PROVE IInv'
    BY <2>1, <2>5 DEF Arrive, IInv, NoCall
  <2>6. CASE ListTools
    BY <2>1, <2>2, <2>6 DEF ListTools, IInv, NoCall
  <2>7. ASSUME NEW n \in Names, CallTool(n) PROVE IInv'
    BY <2>1, <2>2, <2>7 DEF CallTool, IInv
  <2>8. CASE UNCHANGED vars
    BY <2>1, <2>2, <2>8 DEF vars, IInv, NoCall
  <2> QED BY <2>3, <2>4, <2>5, <2>6, <2>7, <2>8 DEF Next
<1> QED BY <1>1, <1>2, PTL DEF Spec

(* What an outcome says *)
LEMMA Outcomes ==
  ASSUME NEW n, NEW p, ParseTool(n) = p
  PROVE  /\ Outcome(n).name = n
         /\ Outcome(n).out = "forwarded" <=>
              /\ p # None /\ IsConfigured(p.server) /\ Authenticated
              /\ Governed => Evaluate(file, Subject, p.server, p.tool).effect = "allow"
         /\ Outcome(n).out = "forwarded" =>
              Outcome(n).server = p.server /\ Outcome(n).tool = p.tool
BY DEF Outcome, NoCall

LEMMA PolicyIs ==
  ASSUME IInv, Governed
  PROVE  /\ file \in Files /\ file.default \in {"allow", "deny"}
         /\ HasRules(file)
<1>1. file \in Files
  BY DEF IInv, Governed
<1>2. file.rules \in Seq({file.rules[i] : i \in DOMAIN file.rules})
  BY <1>1, GovernanceAssumption
<1>3. Len(file.rules) \in Nat /\ DOMAIN file.rules = 1..Len(file.rules)
  BY <1>2
<1> QED BY <1>1, <1>3, GovernanceAssumption DEF HasRules

(* A call the policy engine was asked about carries its decision                *)
LEMMA Decided ==
  ASSUME IInv, Governed, Authenticated, last.out \in {"forwarded", "denied"}
  PROVE  /\ phase = "serving"
         /\ last.rule = Evaluate(file, Subject, last.server, last.tool).rule
         /\ last.out = "forwarded" <=> Evaluate(file, Subject, last.server, last.tool).effect = "allow"
<1>1. last # NoCall
  BY DEF NoCall
<1>2. PICK n \in Names : last = Outcome(n)
  BY <1>1 DEF IInv
<1> DEFINE p == ParseTool(n)
<1>3. p # None /\ IsConfigured(p.server)
  BY <1>2 DEF Outcome, NoCall
<1>4. last = [name |-> n, server |-> p.server, tool |-> p.tool,
              out |-> IF Evaluate(file, Subject, p.server, p.tool).effect = "allow"
                      THEN "forwarded" ELSE "denied",
              rule |-> Evaluate(file, Subject, p.server, p.tool).rule]
  BY <1>2, <1>3 DEF Outcome
<1> HIDE DEF p
<1> QED BY <1>1, <1>4 DEF IInv

(* Deny overrides allow, whatever rules the file has and in whatever order: the  *)
(* decision and the rule on record are those the documentation gives             *)
(* (PolicyEngine._evaluate_rules).                                              *)
THEOREM DenyWins == Spec => []DenyOverrides
<1>1. IInv => DenyOverrides
  <2> DEFINE deny == MatchingRules("deny")
             allow == MatchingRules("allow")
             least(is) == CHOOSE i \in is : \A j \in is : i <= j
             e == Evaluate(file, Subject, last.server, last.tool)
  <2> SUFFICES ASSUME IInv, Governed, last.out \in {"forwarded", "denied"}, Authenticated
               PROVE  /\ deny # {} => last.out = "denied" /\ last.rule = file.rules[least(deny)].id
                      /\ deny = {} /\ allow # {} =>
                           last.out = "forwarded" /\ last.rule = file.rules[least(allow)].id
                      /\ deny = {} /\ allow = {} =>
                           last.rule = None /\ (last.out = "forwarded" <=> file.default = "allow")
    BY DEF DenyOverrides
  <2>1. HasRules(file)
    BY PolicyIs
  <2>2. last.rule = e.rule /\ (last.out = "forwarded" <=> e.effect = "allow")
    BY Decided
  <2>3. /\ deny = Matching(file, Subject, last.server, last.tool, "deny", Len(file.rules))
        /\ allow = Matching(file, Subject, last.server, last.tool, "allow", Len(file.rules))
        /\ deny \subseteq Nat /\ allow \subseteq Nat
    BY <2>1 DEF MatchingRules, Matching, HasRules
  <2>4. DenyOverAllow(file, e, deny, allow)
    BY <2>1, <2>3, EvaluateIs
  <2> HIDE DEF deny, allow, e
  <2>5. ASSUME NEW is \in SUBSET Nat, NEW i \in is, \A j \in is : i <= j PROVE least(is) = i
    <3>1. least(is) \in is /\ \A j \in is : least(is) <= j
      BY <2>5
    <3>2. least(is) \in Nat /\ i \in Nat /\ least(is) <= i /\ i <= least(is)
      BY <2>5, <3>1
    <3> HIDE DEF least
    <3> QED BY <3>2
  <2> HIDE DEF least
  <2>6. CASE deny # {}
    BY <2>2, <2>3, <2>4, <2>5, <2>6 DEF DenyOverAllow
  <2>7. CASE deny = {} /\ allow # {}
    BY <2>2, <2>3, <2>4, <2>5, <2>7 DEF DenyOverAllow
  <2>8. CASE deny = {} /\ allow = {}
    BY <2>2, <2>4, <2>8 DEF DenyOverAllow
  <2> QED BY <2>6, <2>7, <2>8
<1> QED BY <1>1, IInvAlways, PTL

(* With the startup checks in force, nothing is forwarded but for a caller with  *)
(* a valid token or by a rule of the policy, in every configuration the checks  *)
(* let start (run(), _build_pipeline).                                          *)
THEOREM NothingForwardedByDefault == Spec => []ForwardedOnGrounds
<1>1. IInv => ForwardedOnGrounds
  <2> SUFFICES ASSUME IInv, last.out = "forwarded", ~env.relax, ~(IdentityEnabled /\ caller # None)
               PROVE  Governed /\ last.rule # None
    BY DEF ForwardedOnGrounds
  <2>1. last # NoCall
    BY DEF NoCall
  <2>2. PICK n \in Names : last = Outcome(n)
    BY <2>1 DEF IInv
  <2>3. phase = "serving" /\ ~Unsafe
    BY <2>1 DEF IInv, Refuses
  <2>4. PICK p : p = ParseTool(n)
    OBVIOUS
  <2>5. Authenticated
    BY <2>2, <2>4, Outcomes
  <2>6. ~IdentityEnabled
    BY <2>5 DEF Authenticated
  <2>7. Governed /\ file.default # "allow"
    BY <2>3, <2>6 DEF Unsafe
  <2>8. /\ last.rule = Evaluate(file, Subject, last.server, last.tool).rule
        /\ Evaluate(file, Subject, last.server, last.tool).effect = "allow"
    BY <2>5, <2>7, Decided
  <2> DEFINE e == Evaluate(file, Subject, last.server, last.tool)
             deny == Matching(file, Subject, last.server, last.tool, "deny", Len(file.rules))
             allow == Matching(file, Subject, last.server, last.tool, "allow", Len(file.rules))
  <2>9. HasRules(file)
    BY <2>7, PolicyIs
  <2>10. \A i \in allow : file.rules[i].id # None
    BY <2>9 DEF Matching, HasRules, IsRule
  <2>11. DenyOverAllow(file, e, deny, allow)
    BY <2>9, EvaluateIs
  <2> HIDE DEF e, deny, allow
  <2> QED BY <2>7, <2>8, <2>10, <2>11, PolicyIs DEF DenyOverAllow, e
<1> QED BY <1>1, IInvAlways, PTL

(* MCP_STRICT_SECURITY: what is forwarded was sent with a valid token, and the  *)
(* policy allows it, however the gateway is configured and whoever calls.       *)
THEOREM StrictHolds == Spec => []StrictIsEnforced
<1>1. IInv => StrictIsEnforced
  <2> SUFFICES ASSUME IInv, last.out = "forwarded", env.strict
               PROVE  /\ caller # None /\ Governed
                      /\ Evaluate(file, caller, last.server, last.tool).effect = "allow"
    BY DEF StrictIsEnforced
  <2>1. PICK n \in Names : last = Outcome(n)
    BY DEF IInv, NoCall
  <2>2. phase = "serving"
    BY DEF IInv, NoCall
  <2>3. Governed /\ IdentityEnabled
    BY <2>2 DEF IInv, Refuses
  <2>4. PICK p : p = ParseTool(n)
    OBVIOUS
  <2>5. /\ Authenticated /\ last.server = p.server /\ last.tool = p.tool
        /\ Evaluate(file, Subject, p.server, p.tool).effect = "allow"
    BY <2>1, <2>3, <2>4, Outcomes
  <2>6. caller # None /\ Subject = caller
    BY <2>3, <2>5 DEF Authenticated, Subject
  <2> QED BY <2>3, <2>5, <2>6
<1> QED BY <1>1, IInvAlways, PTL

(* A tool is listed for a caller exactly if calling it reaches the server that  *)
(* publishes it, for every server whose name can be told apart.                *)
THEOREM ListedAreCallable == Spec => []ListedIffCallable
<1>1. IInv => ListedIffCallable
  <2> SUFFICES ASSUME IInv, NEW s \in Configured, NEW t \in Tools[s], Unambiguous(s),
                      last.name = NamespaceTool(s, t), listing # None
               PROVE  NamespaceTool(s, t) \in listing <=>
                        last.out = "forwarded" /\ last.server = s /\ last.tool = t
    BY DEF ListedIffCallable
  <2> DEFINE n == NamespaceTool(s, t)
             p == [server |-> s, tool |-> t]
             May(m) == LET q == ParseTool(m)
                       IN Evaluate(file, Lister, q.server, q.tool).effect = "allow"
             Published == UNION {{NamespaceTool(a, b) : b \in Tools[a]} : a \in Configured}
  <2>1. IsName(s) /\ IsName(t)
    BY GovernanceAssumption DEF IInv, Configured, Governed
  <2>2. ParseTool(n) = p
    BY <2>1, ParsesBack
  <2>3. n \in Seq(Characters) /\ p \in [server : Seq(Characters), tool : Seq(Characters)]
    BY <2>1, SeparatorIs, ConcatProperties DEF IsName, NamespaceTool
  <2>4. n # None /\ p # None
    BY <2>3, GovernanceAssumption
  <2>5. last = Outcome(n)
    <3>1. last # NoCall
      BY <2>4 DEF NoCall
    <3>2. PICK m \in Names : last = Outcome(m)
      BY <3>1 DEF IInv
    <3>3. m = n
      BY <3>2, Outcomes
    <3> QED BY <3>2, <3>3
  <2>6. IsConfigured(s) /\ n \in Published
    BY DEF IsConfigured
  <2>7. n \in Listing <=> Authenticated /\ (Governed => May(n))
    <3> HIDE DEF May, n
    <3>1. Listing = IF ~Authenticated THEN {} ELSE IF ~Governed THEN Published
                    ELSE {m \in Published : May(m)}
      BY DEF Listing, May
    <3> HIDE DEF Published
    <3> QED BY <2>6, <3>1
  <2>8. May(n) <=> Evaluate(file, Subject, p.server, p.tool).effect = "allow"
    BY <2>2 DEF Lister
  <2>9. last.out = "forwarded" <=>
          Authenticated /\ (Governed => Evaluate(file, Subject, p.server, p.tool).effect = "allow")
    BY <2>2, <2>4, <2>5, <2>6, Outcomes
  <2>10. last.out = "forwarded" => last.server = s /\ last.tool = t
    BY <2>2, <2>5, Outcomes
  <2>11. listing = Listing
    BY DEF IInv
  <2> QED BY <2>7, <2>8, <2>9, <2>10, <2>11
<1> QED BY <1>1, IInvAlways, PTL

(* In a policy the loader has accepted, a tool pattern matches exactly the tools *)
(* its star can stand for, whatever the patterns and the names are              *)
(* (_validate_tool_patterns with _matches_pattern).                             *)
THEOREM PatternsMeanGlobs == Spec => []PatternsAreGlobs
<1>1. IInv => PatternsAreGlobs
  <2> SUFFICES ASSUME IInv, phase = "serving", Governed,
                      NEW i \in DOMAIN file.rules, NEW a \in file.rules[i].access, NEW p \in a.tools,
                      NEW s \in Configured, NEW t \in Tools[s]
               PROVE  MatchesPattern(p, t) <=> Glob(p, t)
    BY DEF PatternsAreGlobs
  <2>1. Valid(file) /\ HasRules(file) /\ file \in Files
    BY PolicyIs DEF IInv
  <2>2. Stars(p) # {} => ValidWildcard(p)
    BY <2>1 DEF Valid
  <2>3. p \in Seq(Characters \cup {Star})
    BY <2>1 DEF HasRules, IsRule
  <2>4. t \in Seq(Characters)
    BY <2>1, GovernanceAssumption DEF Configured, Governed, IsName
  <2> QED BY <2>2, <2>3, <2>4, MatchesGlob
<1> QED BY <1>1, IInvAlways, PTL
================================================================================
