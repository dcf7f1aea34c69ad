------------------------- MODULE StringSearch_proofs -------------------------
(***************************************************************************)
(* Proofs about the matchers of StringMatch, for every map of strings and  *)
(* every subject.                                                          *)
(***************************************************************************)
EXTENDS StringSearch, FiniteSetTheorems, FunctionTheorems, TLAPS

-----------------------------------------------------------------------------
(* Natural numbers.                                                        *)

\* Counting reaches every number: otherwise adding 1 would map the numbers that
\* are reached below one that is not into themselves without 0.
LEMMA Counting ==
    ASSUME NEW T \in SUBSET Nat, 0 \in T, \A n \in T : n + 1 \in T
    PROVE  T = Nat
<1> SUFFICES ASSUME NEW n \in Nat, n \notin T PROVE FALSE
  OBVIOUS
<1> DEFINE S == T \intersect (0..n)
           f == [x \in S |-> x + 1]
<1>1. IsFiniteSet(0..n) /\ S \in SUBSET (0..n)
  BY FS_Interval
<1>2. IsFiniteSet(S)
  BY <1>1, FS_Subset
<1>3. /\ 0 \in S /\ IsFiniteSet(S \ {0})
      /\ Cardinality(S \ {0}) = Cardinality(S) - 1
  BY <1>2, FS_RemoveElement
<1>4. \A x \in S : x + 1 \in S \ {0}
  <2> SUFFICES ASSUME NEW x \in S PROVE x + 1 \in S \ {0}
    OBVIOUS
  <2>1. x \in Nat /\ x <= n /\ x # n
    OBVIOUS
  <2> QED BY <2>1
<1>5. f \in Injection(S, S \ {0})
  <2>1. f \in [S -> S \ {0}]
    BY <1>4
  <2>2. \A x, y \in S : f[x] = f[y] => x = y
    OBVIOUS
  <2> QED BY <2>1, <2>2 DEF Injection, IsInjective
<1>6. Cardinality(S) <= Cardinality(S \ {0})
  BY <1>3, <1>5, FS_Injection
<1>7. Cardinality(S) \in Nat
  BY <1>2, FS_CardinalityType
<1> QED BY <1>3, <1>6, <1>7

\* Counting up to a bound.
LEMMA CountingTo ==
    ASSUME NEW b \in Nat, NEW T, 0 \in T, \A n \in 0..b - 1 : n \in T => n + 1 \in T
    PROVE  \A n \in 0..b : n \in T
<1> DEFINE U == {n \in Nat : n <= b => n \in T}
<1>1. \A n \in U : n + 1 \in U
  OBVIOUS
<1>2. U = Nat
  BY <1>1, Counting
<1> QED BY <1>2

\* A set of natural numbers has a least one.
LEMMA MinOf ==
    ASSUME NEW S \in SUBSET Nat, S # {}
    PROVE  Min(S) \in S /\ \A k \in S : Min(S) <= k
<1> SUFFICES \E m \in S : \A k \in S : m <= k
  BY DEF Min
<1> SUFFICES ASSUME \A m \in S : \E k \in S : k < m PROVE FALSE
  OBVIOUS
<1> DEFINE T == {n \in Nat : \A k \in 0..n : k \notin S}
<1>1. 0 \in T
  OBVIOUS
<1>2. \A n \in T : n + 1 \in T
  <2> SUFFICES ASSUME NEW n \in T, n + 1 \in S PROVE FALSE
    OBVIOUS
  <2>1. PICK k \in S : k < n + 1
    OBVIOUS
  <2>2. k \in 0..n
    BY <2>1
  <2> QED BY <2>2
<1>3. T \in SUBSET Nat
  OBVIOUS
<1>4. T = Nat
  <2> HIDE DEF T
  <2> QED BY <1>1, <1>2, <1>3, Counting
<1>5. \A n \in Nat : n \notin S
  BY <1>4
<1> QED BY <1>5

\* A set of natural numbers with a bound has a greatest one.
LEMMA MaxOf ==
    ASSUME NEW b \in Nat, NEW S \in SUBSET (0..b), S # {}
    PROVE  Max(S) \in S /\ \A k \in S : k <= Max(S)
<1> SUFFICES \E m \in S : \A k \in S : m >= k
  BY DEF Max
<1> DEFINE T == {n \in 0..b : \A k \in S : k <= n}
<1>1. T \in SUBSET Nat /\ b \in T
  OBVIOUS
<1>2. PICK m \in T : \A n \in T : m <= n
  BY <1>1, MinOf
<1>3. m \in S
  <2> SUFFICES ASSUME m \notin S PROVE FALSE
    OBVIOUS
  <2>1. \A k \in S : k <= m - 1
    OBVIOUS
  <2>2. m - 1 \in 0..b
    <3>1. PICK k \in S : TRUE
      OBVIOUS
    <3>2. k \in Nat /\ k <= m - 1 /\ m \in 0..b
      BY <2>1, <3>1
    <3> QED BY <3>2
  <2>3. m - 1 \in T
    BY <2>1, <2>2
  <2>4. m <= m - 1
    BY <1>2, <2>3
  <2> QED BY <2>2, <2>4
<1> QED BY <1>2, <1>3

\* The lesser of two numbers.
LEMMA MinOfTwo ==
    ASSUME NEW a \in Nat, NEW b \in Nat
    PROVE  /\ Min({a, b}) \in Nat
           /\ Min({a, b}) = IF a <= b THEN a ELSE b
<1>1. Min({a, b}) \in {a, b} /\ \A k \in {a, b} : Min({a, b}) <= k
  BY MinOf
<1> QED BY <1>1

-----------------------------------------------------------------------------
(* What a map matches, without the loop.                                   *)

Word == {w \in Seq(Letters) : Len(w) <= MaxString}

IsMap(m) == \E n \in 0..StrLimit : m.strings \in [1..n -> Word]

Text == Seq(Chars)

\* The strings that agree with the first i characters of the subject.
Cur(m, s, i) ==
    {k \in Stored(m) :
       /\ i <= Len(m.strings[k])
       /\ \A j \in 1..i : Same(m, m.strings[k][j], s[j])}

\* Those of them that end there.
Ends(m, s, i) == {k \in Cur(m, s, i) : Len(m.strings[k]) = i}

\* The first that agrees is one that ends.
FirstDone(m, s, i) == Min(Cur(m, s, i)) \in Ends(m, s, i)

\* The stored strings are those that are not empty.
LEMMA StoredType ==
    ASSUME NEW m, IsMap(m)
    PROVE  /\ Stored(m) \in SUBSET Nat
           /\ Stored(m) = {k \in DOMAIN m.strings : m.strings[k] # <<>>}
           /\ \A k \in DOMAIN m.strings :
                m.strings[k] \in Seq(Letters) /\ Len(m.strings[k]) \in 0..MaxString
           /\ \A k \in Stored(m) : Len(m.strings[k]) > 0
<1>1. PICK n \in 0..StrLimit : m.strings \in [1..n -> Word]
  BY DEF IsMap
<1>2. n \in Nat /\ n <= StrLimit /\ DOMAIN m.strings = 1..n
  <2>1. n \in Nat /\ n <= StrLimit
    BY DEF StrLimit
  <2> QED BY <1>1, <2>1
<1>3. \A k \in DOMAIN m.strings :
        m.strings[k] \in Seq(Letters) /\ Len(m.strings[k]) \in 0..MaxString
  <2> SUFFICES ASSUME NEW k \in 1..n
               PROVE  m.strings[k] \in Seq(Letters) /\ Len(m.strings[k]) \in 0..MaxString
    BY <1>2
  <2>1. m.strings[k] \in Seq(Letters) /\ Len(m.strings[k]) <= MaxString
    BY <1>1 DEF Word
  <2> QED BY <2>1, SearchAssumption
<1>4. Stored(m) = {k \in DOMAIN m.strings : m.strings[k] # <<>>}
  BY <1>2 DEF Stored, StrLimit
<1>5. \A k \in Stored(m) : Len(m.strings[k]) > 0
  <2> SUFFICES ASSUME NEW k \in Stored(m) PROVE Len(m.strings[k]) > 0
    OBVIOUS
  <2> DEFINE w == m.strings[k]
  <2>1. w \in Seq(Letters) /\ w # <<>>
    BY <1>3, <1>4
  <2> HIDE DEF w
  <2>2. Len(w) > 0
    BY <2>1
  <2> QED BY <2>2 DEF w
<1>6. Stored(m) \in SUBSET Nat
  BY <1>2, <1>4
<1> QED BY <1>3, <1>4, <1>5, <1>6

\* The size of a map is at least the length of each of its strings.
LEMMA SizeType ==
    ASSUME NEW m, IsMap(m)
    PROVE  /\ Size(m) \in Nat \ {0}
           /\ \A k \in DOMAIN m.strings : Len(m.strings[k]) <= Size(m)
<1> DEFINE S == {Len(m.strings[k]) : k \in DOMAIN m.strings} \union {1}
           b == MaxString + 1
<1>1. b \in Nat
  BY SearchAssumption
<1>2. S \in SUBSET (0..b)
  BY StoredType, SearchAssumption
<1>3. 1 \in S
  OBVIOUS
<1>4. Max(S) \in S /\ \A x \in S : x <= Max(S)
  <2> HIDE DEF S, b
  <2> QED BY <1>1, <1>2, <1>3, MaxOf
<1>5. Max(S) \in Nat \ {0}
  <2> HIDE DEF S, b
  <2>1. Max(S) \in 0..b /\ 1 <= Max(S)
    BY <1>2, <1>3, <1>4
  <2> QED BY <1>1, <2>1
<1> QED BY <1>4, <1>5 DEF Size

\* How far the loop goes.
Turned(m, s) == Min({Len(s), Size(m)})

LEMMA TurnedType ==
    ASSUME NEW m, IsMap(m), NEW s \in Text
    PROVE  /\ Turned(m, s) \in Nat
           /\ Turned(m, s) = IF Len(s) <= Size(m) THEN Len(s) ELSE Size(m)
BY SizeType, MinOfTwo DEF Turned, Text

\* One more character.
LEMMA CurStep ==
    ASSUME NEW m, IsMap(m), NEW s, NEW i \in Nat \ {0}
    PROVE  /\ Cur(m, s, i - 1) \intersect WithChar(m, i, s[i]) = Cur(m, s, i)
           /\ Cur(m, s, i) \intersect EndingWith(m, i, s[i]) = Ends(m, s, i)
<1>1. \A k \in Stored(m) : Len(m.strings[k]) \in Nat
  BY StoredType
<1>2. (1..i) = (1..i - 1) \union {i}
  OBVIOUS
<1>3. ASSUME NEW k
      PROVE  k \in Cur(m, s, i) <=> k \in Cur(m, s, i - 1) /\ k \in WithChar(m, i, s[i])
  <2>1. CASE k \in Stored(m)
    <3>1. i <= Len(m.strings[k]) => i - 1 <= Len(m.strings[k])
      BY <1>1, <2>1
    <3> QED BY <1>2, <2>1, <3>1 DEF Cur, WithChar
  <2>2. CASE k \notin Stored(m)
    BY <2>2 DEF Cur
  <2> QED BY <2>1, <2>2
<1>4. \A k \in Cur(m, s, i) : k \in WithChar(m, i, s[i])
  BY <1>3
<1> QED BY <1>3, <1>4 DEF EndingWith, Ends

\* Strings are only lost.
LEMMA CurShrinks ==
    ASSUME NEW m, IsMap(m), NEW s, NEW i \in Nat, NEW j \in 0..i
    PROVE  Cur(m, s, i) \subseteq Cur(m, s, j)
<1>1. \A k \in Stored(m) : Len(m.strings[k]) \in Nat
  BY StoredType
<1> QED BY <1>1 DEF Cur

\* No string is empty.
LEMMA NothingEndsAtStart ==
    ASSUME NEW m, IsMap(m), NEW s
    PROVE  Cur(m, s, 0) = Stored(m) /\ Ends(m, s, 0) = {}
<1>1. \A k \in Stored(m) : Len(m.strings[k]) \in Nat /\ Len(m.strings[k]) > 0
  BY StoredType
<1> QED BY <1>1 DEF Cur, Ends

-----------------------------------------------------------------------------
(* The loop of l_string_matchEx.                                           *)

ScanState ==
    [cur : SUBSET Nat, p : Nat, ends : SUBSET Nat, stop : {"", "mismatch", "match"}]

\* What t says of the first i characters.  The loop went on to the e-th of them;
\* ends are the strings that end at the last place at which any does, and up to
\* there the first string that was left never ended before others.
Scanned(m, s, i, t) ==
    /\ t \in ScanState
    /\ t.ends = Ends(m, s, t.p)
    /\ t.p # 0 => t.ends # {}
    /\ \A j \in 1..t.p - 1 : Ends(m, s, j) # {} => ~FirstDone(m, s, j)
    /\ t.stop = "match" => t.p \in 1..i /\ FirstDone(m, s, t.p)
    /\ t.stop # "match" =>
         /\ t.p # 0 => ~FirstDone(m, s, t.p)
         /\ \E e \in t.p..i :
              /\ \A j \in t.p + 1..e : Ends(m, s, j) = {}
              /\ t.stop = "mismatch" => Cur(m, s, e) = {}
              /\ t.stop = "" => /\ e = i /\ t.cur = Cur(m, s, i)
                                /\ i > 0 => t.cur # {}

\* Before the first turn.
LEMMA StartScanned ==
    ASSUME NEW m, IsMap(m), NEW s
    PROVE  Scanned(m, s, 0, AtStart(m))
<1>1. Stored(m) \in SUBSET Nat
  BY StoredType
<1>2. Cur(m, s, 0) = Stored(m) /\ Ends(m, s, 0) = {}
  BY NothingEndsAtStart
<1> DEFINE t == AtStart(m)
<1>3. t \in ScanState /\ t.cur = Stored(m) /\ t.p = 0 /\ t.ends = {} /\ t.stop = ""
  BY <1>1 DEF AtStart, ScanState
<1> HIDE DEF t
<1>4. t.ends = Ends(m, s, t.p) /\ t.cur = Cur(m, s, 0)
  BY <1>2, <1>3
<1>5. t.p = 0 /\ t.stop = "" /\ t \in ScanState
  BY <1>3
<1>6. /\ \A j \in 1..t.p - 1 : Ends(m, s, j) # {} => ~FirstDone(m, s, j)
      /\ \A j \in t.p + 1..0 : Ends(m, s, j) = {}
      /\ 0 \in t.p..0
  <2> DEFINE z == t.p
  <2>1. z = 0
    BY <1>5
  <2> HIDE DEF z
  <2>2. /\ \A j \in 1..z - 1 : Ends(m, s, j) # {} => ~FirstDone(m, s, j)
        /\ \A j \in z + 1..0 : Ends(m, s, j) = {}
        /\ 0 \in z..0
    BY <2>1
  <2> QED BY <2>2 DEF z
<1>7. \E e \in t.p..0 :
        /\ \A j \in t.p + 1..e : Ends(m, s, j) = {}
        /\ e = 0 /\ t.cur = Cur(m, s, 0)
  BY <1>4, <1>6
<1>8. Scanned(m, s, 0, t)
  <2>1. t.stop # "match" /\ t.stop # "mismatch"
    BY <1>5
  <2>2. \E e \in t.p..0 :
          /\ \A j \in t.p + 1..e : Ends(m, s, j) = {}
          /\ t.stop = "mismatch" => Cur(m, s, e) = {}
          /\ t.stop = "" => /\ e = 0 /\ t.cur = Cur(m, s, 0)
                            /\ 0 > 0 => t.cur # {}
    <3>1. ~(0 > 0)
      OBVIOUS
    <3> QED BY <1>7, <2>1, <3>1
  <2>3. t.p = 0
    BY <1>5
  <2>4. /\ \A j \in 1..t.p - 1 : Ends(m, s, j) # {} => ~FirstDone(m, s, j)
        /\ t \in ScanState /\ t.ends = Ends(m, s, t.p)
    BY <1>4, <1>5, <1>6
  <2> QED BY <2>1, <2>2, <2>3, <2>4 DEF Scanned
<1> QED BY <1>8 DEF t

\* A turn.
LEMMA TurnScanned ==
    ASSUME NEW m, IsMap(m), NEW s, NEW i \in Nat \ {0}, NEW t, Scanned(m, s, i - 1, t)
    PROVE  Scanned(m, s, i, Turn(m, s, i, t))
<1> DEFINE u == Turn(m, s, i, t)
           cur == Cur(m, s, i)
           ends == Ends(m, s, i)
<1>0. i - 1 \in Nat /\ t \in ScanState /\ t.p \in Nat
  <2>1. t \in ScanState
    BY DEF Scanned
  <2>2. t.p \in Nat
    BY <2>1 DEF ScanState
  <2>3. i - 1 \in Nat
    OBVIOUS
  <2> QED BY <2>1, <2>2, <2>3
<1>1. Stored(m) \in SUBSET Nat
  BY StoredType
<1>2. cur \in SUBSET Nat /\ ends \in SUBSET cur
  BY <1>1 DEF Cur, Ends
<1>3. CASE t.stop # ""
  <2>1. u = t
    BY <1>3 DEF Turn
  <2> HIDE DEF u
  <2>2. CASE t.stop = "match"
    <3>1. t.p \in 1..i
      BY <2>2, <1>0 DEF Scanned
    <3>2. Scanned(m, s, i, t)
      BY <2>2, <3>1 DEF Scanned
    <3> QED BY <2>1, <3>2 DEF u
  <2>3. CASE t.stop = "mismatch"
    <3>1. PICK e \in t.p..i - 1 :
            (\A j \in t.p + 1..e : Ends(m, s, j) = {}) /\ Cur(m, s, e) = {}
      BY <2>3 DEF Scanned
    <3>2. e \in t.p..i
      BY <1>0, <3>1
    <3>3. Scanned(m, s, i, t)
      BY <1>3, <2>3, <3>1, <3>2 DEF Scanned
    <3> QED BY <2>1, <3>3 DEF u
  <2> QED BY <1>0, <1>3, <2>2, <2>3 DEF ScanState
<1>4. CASE t.stop = ""
  <2>1. /\ t.cur = Cur(m, s, i - 1) /\ t.p \in 0..i - 1
        /\ \A j \in t.p + 1..i - 1 : Ends(m, s, j) = {}
        /\ t.p # 0 => ~FirstDone(m, s, t.p)
    <3>1. PICK e \in t.p..i - 1 :
            /\ \A j \in t.p + 1..e : Ends(m, s, j) = {}
            /\ e = i - 1 /\ t.cur = Cur(m, s, i - 1)
      BY <1>4 DEF Scanned
    <3>2. t.p \in 0..i - 1
      BY <1>0, <3>1
    <3>3. t.p # 0 => ~FirstDone(m, s, t.p)
      BY <1>4 DEF Scanned
    <3> QED BY <3>1, <3>2, <3>3
  <2>2. /\ t.cur \intersect WithChar(m, i, s[i]) = cur
        /\ cur \intersect EndingWith(m, i, s[i]) = ends
    BY <2>1, CurStep
  <2>3. u = IF cur = {} THEN [t EXCEPT !.stop = "mismatch"]
            ELSE IF ends = {} THEN [t EXCEPT !.cur = cur]
            ELSE [cur |-> cur, p |-> i, ends |-> ends,
                  stop |-> IF FirstEnds(cur, ends) THEN "match" ELSE ""]
    BY <1>4, <2>2 DEF Turn
  <2>4. i \in t.p..i /\ (t.p + 1..i) = (t.p + 1..i - 1) \union {i}
    BY <1>0, <2>1
  <2> HIDE DEF u, cur, ends
  <2>5. CASE cur = {}
    <3>1. ends = {}
      BY <1>2, <2>5
    <3>2. \A j \in t.p + 1..i : Ends(m, s, j) = {}
      BY <2>1, <2>4, <3>1 DEF ends
    <3>3. /\ u \in ScanState /\ u.p = t.p /\ u.ends = t.ends
          /\ u.stop = "mismatch"
      BY <1>0, <2>3, <2>5 DEF ScanState
    <3>4. Scanned(m, s, i, u)
      BY <1>4, <2>1, <2>4, <2>5, <3>2, <3>3 DEF Scanned, cur
    <3> QED BY <3>4 DEF u
  <2>6. CASE cur # {} /\ ends = {}
    <3>1. \A j \in t.p + 1..i : Ends(m, s, j) = {}
      BY <2>1, <2>4, <2>6 DEF ends
    <3>2. /\ u \in ScanState /\ u.p = t.p /\ u.ends = t.ends
          /\ u.stop = "" /\ u.cur = cur
      BY <1>0, <1>2, <1>4, <2>3, <2>6 DEF ScanState
    <3>3. Scanned(m, s, i, u)
      BY <1>4, <2>1, <2>4, <2>6, <3>1, <3>2 DEF Scanned, cur
    <3> QED BY <3>3 DEF u
  <2>7. CASE cur # {} /\ ends # {}
    <3>1. /\ u \in ScanState /\ u.p = i /\ u.ends = ends /\ u.cur = cur
          /\ u.stop = IF FirstEnds(cur, ends) THEN "match" ELSE ""
      BY <1>2, <2>3, <2>7 DEF ScanState
    <3>2. \A j \in 1..i - 1 : Ends(m, s, j) # {} => ~FirstDone(m, s, j)
      <4> SUFFICES ASSUME NEW j \in 1..i - 1, Ends(m, s, j) # {}
                   PROVE  ~FirstDone(m, s, j)
        OBVIOUS
      <4>1. j \in 1..t.p - 1 \/ j = t.p \/ j \in t.p + 1..i - 1
        BY <2>1
      <4>2. CASE j \in 1..t.p - 1
        BY <4>2 DEF Scanned
      <4>3. CASE j = t.p
        BY <1>0, <2>1, <4>3
      <4>4. CASE j \in t.p + 1..i - 1
        BY <2>1, <4>4
      <4> QED BY <4>1, <4>2, <4>3, <4>4
    <3>3. FirstEnds(cur, ends) <=> FirstDone(m, s, i)
      BY DEF FirstEnds, FirstDone, cur, ends
    <3>4. i \in i..i /\ i \in 1..i /\ \A j \in i + 1..i : FALSE
      OBVIOUS
    <3>5. Scanned(m, s, i, u)
      <4>1. CASE FirstEnds(cur, ends)
        BY <2>7, <3>1, <3>2, <3>3, <3>4, <4>1 DEF Scanned, ends
      <4>2. CASE ~FirstEnds(cur, ends)
        BY <2>7, <3>1, <3>2, <3>3, <3>4, <4>2 DEF Scanned, ends, cur
      <4> QED BY <4>1, <4>2
    <3> QED BY <3>5 DEF u
  <2> QED BY <2>5, <2>6, <2>7
<1> QED BY <1>3, <1>4

\* The whole loop.
LEMMA ScanScanned ==
    ASSUME NEW m, IsMap(m), NEW s \in Text
    PROVE  Scanned(m, s, Turned(m, s), Scan(m, s))
<1> DEFINE n == Turned(m, s)
           Body(f, i) == IF i = 0 THEN AtStart(m) ELSE Turn(m, s, i, f[i - 1])
           after == CHOOSE f : f = [i \in 0..n |-> Body(f, i)]
           IsRun(f, b) == f = [i \in 0..b |-> Body(f, i)]
           T == {b \in 0..n : \E f : IsRun(f, b)}
<1>1. n \in Nat
  BY TurnedType
<1>2. 0 \in T
  <2> DEFINE f == [i \in 0..0 |-> AtStart(m)]
  <2>1. IsRun(f, 0)
    OBVIOUS
  <2> HIDE DEF IsRun, f, n
  <2> QED BY <1>1, <2>1
<1>3. \A b \in 0..n - 1 : b \in T => b + 1 \in T
  <2> SUFFICES ASSUME NEW b \in 0..n - 1, b \in T PROVE b + 1 \in T
    OBVIOUS
  <2>1. PICK f : IsRun(f, b)
    OBVIOUS
  <2> DEFINE g == [i \in 0..b + 1 |-> IF i = b + 1 THEN Turn(m, s, i, f[b]) ELSE f[i]]
  <2>2. \A i \in 0..b : g[i] = f[i] /\ f[i] = Body(f, i)
    BY <2>1
  <2>3. \A i \in 0..b + 1 : g[i] = Body(g, i)
    <3> SUFFICES ASSUME NEW i \in 0..b + 1 PROVE g[i] = Body(g, i)
      OBVIOUS
    <3>1. CASE i = b + 1
      <4>1. i # 0 /\ i - 1 = b /\ b \in 0..b
        BY <3>1
      <4>2. g[i] = Turn(m, s, i, f[b]) /\ g[i - 1] = f[b]
        BY <2>2, <3>1, <4>1
      <4> QED BY <4>1, <4>2
    <3>2. CASE i # b + 1
      <4>1. i \in 0..b /\ (i # 0 => i - 1 \in 0..b)
        BY <3>2
      <4> QED BY <2>2, <4>1
    <3> QED BY <3>1, <3>2
  <2>4. IsRun(g, b + 1)
    BY <2>3
  <2>5. b + 1 \in 0..n
    BY <1>1
  <2> HIDE DEF IsRun, g, n
  <2> QED BY <2>4, <2>5
<1>4. n \in T
  <2> HIDE DEF T
  <2> QED BY <1>1, <1>2, <1>3, CountingTo
<1>5. after = [i \in 0..n |-> Body(after, i)]
  BY <1>4
<1>6. Scan(m, s) = after[n]
  BY DEF Scan, Turned
<1> HIDE DEF after
<1> DEFINE U == {i \in 0..n : Scanned(m, s, i, after[i])}
<1>7. 0 \in U
  <2>1. after[0] = AtStart(m)
    BY <1>1, <1>5
  <2> QED BY <1>1, <2>1, StartScanned
<1>8. \A b \in 0..n - 1 : b \in U => b + 1 \in U
  <2> SUFFICES ASSUME NEW b \in 0..n - 1, Scanned(m, s, b, after[b])
               PROVE  Scanned(m, s, b + 1, after[b + 1])
    BY <1>1
  <2>1. b + 1 \in 0..n /\ b + 1 # 0 /\ (b + 1) - 1 = b /\ b + 1 \in Nat \ {0}
    BY <1>1
  <2>2. after[b + 1] = Turn(m, s, b + 1, after[b])
    BY <1>5, <2>1
  <2>3. Scanned(m, s, (b + 1) - 1, after[b])
    BY <2>1
  <2> HIDE DEF n
  <2>4. Scanned(m, s, b + 1, Turn(m, s, b + 1, after[b]))
    BY <2>1, <2>3, TurnScanned
  <2> QED BY <2>2, <2>4
<1>9. n \in U
  <2> HIDE DEF U
  <2> QED BY <1>1, <1>7, <1>8, CountingTo
<1> QED BY <1>6, <1>9

-----------------------------------------------------------------------------
(* The three answers.                                                      *)

\* The strings that the subject begins with, and those it may yet begin with.
Full(m, s) ==
    {k \in Stored(m) :
       /\ Len(m.strings[k]) <= Len(s)
       /\ \A j \in 1..Len(m.strings[k]) : Same(m, m.strings[k][j], s[j])}

Open(m, s) ==
    {k \in Stored(m) :
       /\ Len(s) < Len(m.strings[k])
       /\ \A j \in 1..Len(s) : Same(m, m.strings[k][j], s[j])}

\* A string that the subject begins with ends within the reach of the loop.
LEMMA FullEnds ==
    ASSUME NEW m, IsMap(m), NEW s \in Text, NEW k \in Full(m, s)
    PROVE  /\ Len(m.strings[k]) \in 1..Turned(m, s)
           /\ k \in Ends(m, s, Len(m.strings[k]))
<1>1. k \in DOMAIN m.strings /\ k \in Stored(m)
  BY StoredType DEF Full
<1>2. Len(m.strings[k]) \in Nat /\ Len(m.strings[k]) > 0
  BY <1>1, StoredType
<1>3. Len(m.strings[k]) <= Len(s) /\ Len(m.strings[k]) <= Size(m)
  BY <1>1, SizeType DEF Full
<1>4. Len(m.strings[k]) <= Turned(m, s)
  BY <1>3, TurnedType
<1>5. Turned(m, s) \in Nat
  BY TurnedType
<1> QED BY <1>1, <1>2, <1>4, <1>5 DEF Ends, Cur, Full

\* And conversely.
LEMMA EndsFull ==
    ASSUME NEW m, IsMap(m), NEW s \in Text, NEW i \in 0..Turned(m, s),
           NEW k \in Ends(m, s, i)
    PROVE  k \in Full(m, s) /\ Len(m.strings[k]) = i
<1>1. i <= Len(s)
  BY TurnedType, SizeType DEF Text
<1> QED BY <1>1 DEF Ends, Cur, Full

\* A string that is still open agrees with every character of the subject.
LEMMA OpenAgrees ==
    ASSUME NEW m, IsMap(m), NEW s \in Text, NEW k \in Open(m, s),
           NEW i \in 0..Turned(m, s)
    PROVE  k \in Cur(m, s, i)
<1>1. i <= Len(s) /\ Len(s) \in Nat
  BY TurnedType, SizeType DEF Text
<1>2. k \in Stored(m) /\ Len(m.strings[k]) \in Nat
  BY StoredType DEF Open
<1> QED BY <1>1, <1>2 DEF Open, Cur

\* An answer of l_string_matchEx.
Answered(m, s, e) ==
    /\ e.kind \in {"none", "short", "match"}
    /\ e.kind = "none" => e = NoMatch
    /\ e.kind = "match" <=> Full(m, s) # {}
    /\ e.kind = "short" <=> Full(m, s) = {} /\ (Open(m, s) # {} \/ s = <<>>)
    /\ e.kind = "match" => e.id \in Full(m, s) /\ e.end = Len(m.strings[e.id])

\* The string that is named was chosen for its place or for its length.
Chosen(m, s, e) ==
    e.kind = "match" =>
      \A k \in Full(m, s) :
        k < e.id =>
          /\ Len(m.strings[k]) < e.end
          /\ \E j \in Stored(m) :
               /\ j < k
               /\ j \in Cur(m, s, Len(m.strings[k]))
               /\ Len(m.strings[j]) > Len(m.strings[k])

\* Every answer is of one kind.
LEMMA Kinds ==
    /\ NoMatch.kind = "none" /\ TooShort.kind = "short"
    /\ \A p, k : /\ Matched(p, k).kind = "match"
                 /\ Matched(p, k).end = p /\ Matched(p, k).id = k
BY DEF NoMatch, TooShort, Matched

\* Nothing begins the empty subject.
LEMMA NothingMatchesEmpty ==
    ASSUME NEW m, IsMap(m)
    PROVE  Full(m, <<>>) = {}
<1>1. \A k \in Stored(m) : Len(m.strings[k]) \in Nat /\ Len(m.strings[k]) > 0
  BY StoredType
<1>2. Len(<<>>) = 0
  OBVIOUS
<1> QED BY <1>1, <1>2 DEF Full

\* Where the loop ended without an end of a string, none matches.
LEMMA NotFound ==
    ASSUME NEW m, IsMap(m), NEW s \in Text, s # <<>>,
           NEW t, Scanned(m, s, Turned(m, s), t), t.p = 0
    PROVE  Answered(m, s, IF t.stop = "mismatch" THEN NoMatch ELSE TooShort)
<1> DEFINE n == Turned(m, s)
<1>1. n \in Nat /\ Len(s) \in Nat /\ Size(m) \in Nat
  BY TurnedType, SizeType DEF Text
<1>2. t \in ScanState /\ t.stop # "match"
  <2>1. t.stop = "match" => t.p \in 1..n
    BY DEF Scanned
  <2>2. 0 \notin 1..n
    OBVIOUS
  <2> HIDE DEF n
  <2> QED BY <2>1, <2>2 DEF Scanned
<1>3. PICK e \in 0..n :
        /\ \A j \in 1..e : Ends(m, s, j) = {}
        /\ t.stop = "mismatch" => Cur(m, s, e) = {}
        /\ t.stop = "" => e = n /\ (n > 0 => Cur(m, s, n) # {})
  <2>1. PICK e \in t.p..n :
          /\ \A j \in t.p + 1..e : Ends(m, s, j) = {}
          /\ t.stop = "mismatch" => Cur(m, s, e) = {}
          /\ t.stop = "" => e = n /\ t.cur = Cur(m, s, n) /\ (n > 0 => t.cur # {})
    BY <1>2 DEF Scanned
  <2> DEFINE z == t.p
  <2>2. z = 0 /\ e \in z..n
    BY <2>1
  <2> HIDE DEF z, n
  <2>3. e \in 0..n /\ \A j \in 1..e : j \in z + 1..e
    BY <1>1, <2>2
  <2> QED BY <2>1, <2>3 DEF z
<1>4. t.stop \in {"", "mismatch"}
  BY <1>2 DEF ScanState
<1>5. ASSUME NEW k \in Full(m, s) PROVE FALSE
  <2> DEFINE l == Len(m.strings[k])
  <2>1. l \in 1..n /\ k \in Ends(m, s, l)
    BY <1>5, FullEnds
  <2> HIDE DEF l, n
  <2>2. l \notin 1..e
    BY <1>3, <2>1
  <2>3. e \in 0..l /\ l \in Nat
    <3>1. e \in 0..n /\ l \in 1..n /\ n \in Nat
      BY <1>1, <2>1
    <3> QED BY <2>2, <3>1
  <2>4. k \in Cur(m, s, e)
    BY <2>1, <2>3, CurShrinks DEF Ends
  <2>5. e # n
    BY <1>1, <1>3, <2>1, <2>2
  <2> QED BY <1>3, <1>4, <2>4, <2>5
<1>6. CASE t.stop = "mismatch"
  <2>1. Open(m, s) = {}
    <3> SUFFICES ASSUME NEW k \in Open(m, s) PROVE FALSE
      OBVIOUS
    <3>1. k \in Cur(m, s, e)
      BY <1>3, OpenAgrees
    <3> QED BY <1>3, <1>6, <3>1
  <2>2. Full(m, s) = {}
    BY <1>5
  <2> QED BY <1>6, <2>1, <2>2, Kinds DEF Answered
<1>7. CASE t.stop = ""
  <2>1. Full(m, s) = {}
    BY <1>5
  <2>2. n > 0
    <3>1. Len(s) > 0
      BY DEF Text
    <3>2. Size(m) > 0
      BY SizeType
    <3> QED BY <1>1, <3>1, <3>2, TurnedType
  <2>3. PICK k \in Cur(m, s, n) : TRUE
    BY <1>3, <1>7, <2>2
  <2>4. /\ k \in Stored(m) /\ n <= Len(m.strings[k])
        /\ \A j \in 1..n : Same(m, m.strings[k][j], s[j])
    BY <2>3 DEF Cur
  <2>5. Len(m.strings[k]) \in Nat /\ Len(m.strings[k]) <= Size(m)
    BY <2>4, StoredType, SizeType
  <2>6. Len(m.strings[k]) # n
    <3>1. e = n /\ n \in 1..n
      <4>1. e = n
        BY <1>3, <1>7
      <4> HIDE DEF n
      <4> QED BY <1>1, <2>2, <4>1
    <3>2. Ends(m, s, n) = {}
      BY <1>3, <3>1
    <3> QED BY <2>3, <3>2 DEF Ends
  <2>7. n = Len(s) /\ n < Len(m.strings[k])
    BY <1>1, <2>4, <2>5, <2>6, TurnedType
  <2>8. k \in Open(m, s)
    BY <2>4, <2>7 DEF Open
  <2>9. t.stop # "mismatch"
    BY <1>7
  <2> QED BY <2>1, <2>8, <2>9, Kinds DEF Answered
<1> QED BY <1>4, <1>6, <1>7

\* Where strings ended, the first of the last to end is the one to name.
LEMMA FoundLast ==
    ASSUME NEW m, IsMap(m), NEW s \in Text, s # <<>>,
           NEW t, Scanned(m, s, Turned(m, s), t), t.p # 0
    PROVE  /\ Answered(m, s, Matched(t.p, Min(t.ends)))
           /\ Chosen(m, s, Matched(t.p, Min(t.ends)))
<1> DEFINE n == Turned(m, s)
           p == t.p
           id == Min(t.ends)
<1>1. n \in Nat /\ t \in ScanState /\ t.stop \in {"", "mismatch", "match"} /\ p \in Nat
  BY TurnedType DEF Scanned, ScanState
<1>2. p \in 1..n
  <2>1. CASE t.stop = "match"
    BY <2>1 DEF Scanned
  <2>2. CASE t.stop # "match"
    <3>1. PICK e \in p..n : TRUE
      BY <2>2 DEF Scanned
    <3>2. p # 0
      OBVIOUS
    <3>3. p \in Nat /\ n \in Nat
      BY <1>1
    <3> HIDE DEF p, n
    <3> QED BY <3>1, <3>2, <3>3
  <2> QED BY <2>1, <2>2
<1>3. t.ends = Ends(m, s, p) /\ t.ends # {} /\ t.ends \in SUBSET Nat
  BY <1>1 DEF Scanned, ScanState
<1>4. id \in Ends(m, s, p) /\ \A k \in Ends(m, s, p) : id <= k
  BY <1>3, MinOf
<1>5. Answered(m, s, Matched(p, id))
  <2>0. p \in 0..Turned(m, s)
    BY <1>2
  <2> HIDE DEF p, id
  <2>1. id \in Full(m, s) /\ Len(m.strings[id]) = p
    BY <1>4, <2>0, EndsFull
  <2> QED BY <2>1, Kinds DEF Answered
<1>6. ASSUME NEW k \in Full(m, s), k < id
      PROVE  /\ Len(m.strings[k]) < p
             /\ \E j \in Stored(m) :
                  /\ j < k
                  /\ j \in Cur(m, s, Len(m.strings[k]))
                  /\ Len(m.strings[j]) > Len(m.strings[k])
  <2> DEFINE l == Len(m.strings[k])
  <2>1. l \in 1..n /\ k \in Ends(m, s, l) /\ k \in Nat /\ id \in Nat
    BY <1>3, <1>4, <1>6, FullEnds, StoredType DEF Full
  <2> HIDE DEF l, n, id, p
  <2>2. l # p
    BY <1>4, <1>6, <2>1
  <2>3. ~(l > p)
    <3> SUFFICES ASSUME l > p PROVE FALSE
      OBVIOUS
    <3>0. l \in 1..n /\ p \in 1..n /\ n \in Nat
      BY <1>1, <1>2, <2>1
    <3>1. k \in Cur(m, s, l) /\ p \in 0..l /\ l \in Nat
      BY <2>1, <3>0 DEF Ends
    <3>2. CASE t.stop = "match"
      <4>1. Min(Cur(m, s, p)) \in Ends(m, s, p)
        BY <3>2 DEF Scanned, FirstDone, p
      <4>2. k \in Cur(m, s, p)
        BY <3>1, CurShrinks
      <4>3. Cur(m, s, p) \in SUBSET Nat
        BY StoredType DEF Cur
      <4>4. Min(Cur(m, s, p)) <= k
        BY <4>2, <4>3, MinOf
      <4>5. id <= Min(Cur(m, s, p)) /\ Min(Cur(m, s, p)) \in Nat
        BY <1>4, <4>1, <4>2, <4>3, MinOf
      <4> QED BY <1>6, <2>1, <4>4, <4>5
    <3>3. CASE t.stop # "match"
      <4>1. PICK e \in p..n :
              /\ \A j \in p + 1..e : Ends(m, s, j) = {}
              /\ t.stop = "mismatch" => Cur(m, s, e) = {}
              /\ t.stop = "" => e = n
        BY <3>3 DEF Scanned, p, n
      <4>2. l \notin p + 1..e
        BY <2>1, <4>1
      <4>3. e \in 0..l /\ e # n
        <5>1. e \in p..n
          OBVIOUS
        <5> QED BY <3>0, <4>2, <5>1
      <4>4. k \in Cur(m, s, e)
        BY <3>1, <4>3, CurShrinks
      <4> QED BY <1>1, <3>3, <4>1, <4>3, <4>4
    <3> QED BY <3>2, <3>3
  <2>4. l \in 1..p - 1
    <3>1. l \in 1..n /\ p \in 1..n /\ n \in Nat
      BY <1>1, <1>2, <2>1
    <3> QED BY <2>2, <2>3, <3>1
  <2>5. ~FirstDone(m, s, l)
    BY <2>1, <2>4 DEF Scanned, p
  <2> DEFINE j == Min(Cur(m, s, l))
  <2>6. Cur(m, s, l) \in SUBSET Nat /\ k \in Cur(m, s, l)
    BY <2>1, StoredType DEF Cur, Ends
  <2>7. j \in Cur(m, s, l) /\ j <= k /\ j \in Nat
    BY <2>6, MinOf
  <2>8. j \notin Ends(m, s, l)
    BY <2>5 DEF FirstDone
  <2> HIDE DEF j
  <2>9. j # k
    BY <2>1, <2>8
  <2>10. j \in Stored(m) /\ l <= Len(m.strings[j]) /\ Len(m.strings[j]) # l
    BY <2>7, <2>8 DEF Cur, Ends
  <2>11. Len(m.strings[j]) \in Nat
    BY <2>10, StoredType
  <2>12. j < k /\ Len(m.strings[j]) > l
    BY <2>1, <2>7, <2>9, <2>10, <2>11
  <2>13. l < p
    <3>1. p \in Nat
      BY <1>1
    <3> QED BY <2>4, <3>1
  <2> QED BY <2>7, <2>10, <2>12, <2>13 DEF l
<1>7. Chosen(m, s, Matched(p, id))
  BY <1>6, Kinds DEF Chosen
<1> QED BY <1>5, <1>7

\* The answer of l_string_matchEx, for any map and any subject.
LEMMA MatchExAnswers ==
    ASSUME NEW m, IsMap(m), NEW s \in Text
    PROVE  Answered(m, s, MatchEx(m, s)) /\ Chosen(m, s, MatchEx(m, s))
<1>1. CASE s = <<>>
  <2>1. MatchEx(m, s) = TooShort
    BY <1>1 DEF MatchEx
  <2>2. Full(m, s) = {}
    BY <1>1, NothingMatchesEmpty
  <2> QED BY <1>1, <2>1, <2>2, Kinds DEF Answered, Chosen
<1>2. CASE s # <<>>
  <2> DEFINE t == Scan(m, s)
  <2>1. Scanned(m, s, Turned(m, s), t)
    BY ScanScanned
  <2>2. t.p \in Nat
    <3>1. t \in ScanState
      BY <2>1 DEF Scanned
    <3> QED BY <3>1 DEF ScanState
  <2> HIDE DEF t
  <2>3. MatchEx(m, s) = IF t.p > 0 THEN Matched(t.p, Min(t.ends))
                        ELSE IF t.stop = "mismatch" THEN NoMatch ELSE TooShort
    BY <1>2 DEF MatchEx, t
  <2>4. CASE t.p = 0
    <3>1. MatchEx(m, s) = IF t.stop = "mismatch" THEN NoMatch ELSE TooShort
      BY <2>3, <2>4
    <3>2. Answered(m, s, MatchEx(m, s))
      BY <1>2, <2>1, <2>4, <3>1, NotFound
    <3>3. MatchEx(m, s).kind # "match"
      BY <3>1, Kinds
    <3> QED BY <3>2, <3>3 DEF Chosen
  <2>5. CASE t.p # 0
    <3>1. MatchEx(m, s) = Matched(t.p, Min(t.ends))
      BY <2>2, <2>3, <2>5
    <3> QED BY <1>2, <2>1, <2>5, <3>1, FoundLast
  <2> QED BY <2>4, <2>5
<1> QED BY <1>1, <1>2

-----------------------------------------------------------------------------
(* The search.                                                             *)

Maps == [strings : [1..NumStrings -> Word], cased : BOOLEAN]

SearchInv == map \in Maps /\ text \in Text /\ Len(text) <= MaxText

LEMMA MapsMatch == \A m \in Maps : IsMap(m)
BY SearchAssumption DEF Maps, IsMap

\* The maps of StringSearch are maps.
LEMMA InitSearch == Init => SearchInv
<1> SUFFICES ASSUME Init PROVE SearchInv
  OBVIOUS
<1>1. map \in [strings : [1..NumStrings -> BoundedSeq(Letters, MaxString)], cased : BOOLEAN]
  BY DEF Init, TupleOf
<1>2. BoundedSeq(Letters, MaxString) \subseteq Word
  <2> SUFFICES ASSUME NEW w \in BoundedSeq(Letters, MaxString) PROVE w \in Word
    OBVIOUS
  <2>1. PICK l \in 0..MaxString : w \in [1..l -> Letters]
    BY DEF BoundedSeq, SeqOf
  <2>2. l \in Nat /\ l <= MaxString
    BY SearchAssumption
  <2>3. w \in Seq(Letters) /\ Len(w) = l
    BY <2>1, <2>2
  <2> QED BY <2>2, <2>3 DEF Word
<1>3. map \in Maps
  BY <1>1, <1>2 DEF Maps
<1>4. text \in Text /\ Len(text) <= MaxText
  BY SearchAssumption DEF Init, Text
<1> QED BY <1>3, <1>4 DEF SearchInv

\* Characters arrive, and the map stays.
LEMMA NextSearch ==
    SearchInv /\ [Next]_vars =>
      SearchInv' /\ map' = map /\ (text' = text \/ \E c \in Chars : text' = Append(text, c))
<1> SUFFICES ASSUME SearchInv, [Next]_vars
             PROVE  /\ SearchInv' /\ map' = map
                    /\ text' = text \/ \E c \in Chars : text' = Append(text, c)
  OBVIOUS
<1>1. map' = map /\ (text' = text \/ \E c \in Chars : text' = Append(text, c))
  BY DEF Next, Arrive, vars
<1>2. text' \in Text /\ Len(text') <= MaxText
  <2>1. text \in Seq(Chars) /\ Len(text) \in Nat
    BY DEF SearchInv, Text
  <2>2. CASE text' = text
    BY <2>2 DEF SearchInv
  <2>3. CASE text' # text
    <3>1. Len(text) < MaxText /\ \E c \in Chars : text' = Append(text, c)
      BY <2>3 DEF Next, Arrive, vars
    <3>2. text' \in Seq(Chars) /\ Len(text') = Len(text) + 1
      BY <2>1, <3>1
    <3> QED BY <2>1, <3>1, <3>2, SearchAssumption DEF Text
  <2> QED BY <2>2, <2>3
<1>3. map' \in Maps
  BY <1>1 DEF SearchInv
<1> QED BY <1>1, <1>2, <1>3 DEF SearchInv, Maps, Word

LEMMA SearchInvariance == Spec => []SearchInv
<1>1. SearchInv /\ [Next]_vars => SearchInv'
  BY NextSearch
<1> QED BY <1>1, InitSearch, PTL DEF Spec

\* Full and Open are the sets that Classified speaks of.
LEMMA SameSets ==
    ASSUME SearchInv
    PROVE  /\ Strings = Stored(map)
           /\ Full(map, text) = {k \in Strings : Begins(text, map.strings[k])}
           /\ Open(map, text) = {k \in Strings : MayBegin(text, map.strings[k])}
<1>1. IsMap(map) /\ text \in Seq(Chars)
  BY MapsMatch DEF SearchInv, Text
<1>2. Strings = Stored(map)
  BY <1>1, StoredType DEF Strings
<1>3. \A k \in Stored(map) : map.strings[k] \in Seq(Letters)
  BY <1>1, StoredType
<1>4. \A k \in Stored(map) : DOMAIN map.strings[k] = 1..Len(map.strings[k])
  BY <1>3
<1>5. DOMAIN text = 1..Len(text)
  BY <1>1
<1> QED BY <1>2, <1>4, <1>5 DEF Full, Open, Begins, MayBegin

\* The answer of l_string_matchEx is the right one of three, and the string it
\* names the right one, for every map of at most 32 strings and every subject.
THEOREM AnswersAreRight == Spec => []Answers
<1>1. SearchInv => Answers
  <2> SUFFICES ASSUME SearchInv PROVE Answers
    OBVIOUS
  <2> DEFINE e == MatchEx(map, text)
  <2>1. IsMap(map) /\ text \in Text
    BY MapsMatch DEF SearchInv
  <2>2. Answered(map, text, e) /\ Chosen(map, text, e)
    BY <2>1, MatchExAnswers
  <2> HIDE DEF e
  <2>3. Classified
    BY <2>2, SameSets DEF Answered, Classified, Length, e
  <2>4. OrderedChoice
    <3> SUFFICES ASSUME e.kind = "match", NEW k \in Strings,
                        Begins(text, map.strings[k]), k < e.id
                 PROVE  /\ Length(k) < e.end
                        /\ \E j \in Strings :
                             /\ j < k
                             /\ MayBegin(SubSeq(text, 1, Length(k)), map.strings[j])
      BY DEF OrderedChoice, e
    <3>1. k \in Full(map, text)
      BY SameSets
    <3>2. PICK j \in Stored(map) :
            j < k /\ j \in Cur(map, text, Length(k)) /\ Len(map.strings[j]) > Length(k)
      BY <2>2, <3>1 DEF Chosen, Length
    <3>3. Length(k) \in 0..Len(text) /\ text \in Seq(Chars)
      <4>1. k \in DOMAIN map.strings /\ Len(map.strings[k]) <= Len(text)
        BY <3>1 DEF Full, Strings
      <4>2. Len(map.strings[k]) \in 0..MaxString
        BY <2>1, <4>1, StoredType
      <4> QED BY <2>1, <4>1, <4>2 DEF Length, Text
    <3> DEFINE part == SubSeq(text, 1, Length(k))
    <3>4. Len(part) = Length(k) /\ DOMAIN part = 1..Length(k)
      BY <3>3
    <3>5. \A i \in 1..Length(k) : part[i] = text[i]
      BY <3>3
    <3> HIDE DEF part
    <3>6. MayBegin(part, map.strings[j])
      BY <3>2, <3>4, <3>5 DEF MayBegin, Cur
    <3> QED BY <2>2, <3>1, <3>2, <3>6, SameSets DEF Chosen, Length, part
  <2> QED BY <2>3, <2>4 DEF Answers
<1> QED BY <1>1, SearchInvariance, PTL

-----------------------------------------------------------------------------
(* l_string_matchUntil.                                                    *)

\* The places from the n-th on at which the subject is not known to mismatch.
Places(m, s, n) == {j \in n..Len(s) : ~Unmatched(m, From(s, j))}

\* What is left of a subject.
LEMMA FromType ==
    ASSUME NEW s \in Text, NEW j \in 0..Len(s)
    PROVE  /\ From(s, j) \in Text
           /\ Len(From(s, j)) = Len(s) - j
           /\ \A i \in 1..Len(s) - j : From(s, j)[i] = s[j + i]
<1>1. s \in Seq(Chars) /\ j + 1 \in 1..Len(s) + 1 /\ Len(s) \in Nat
  BY DEF Text
<1>2. From(s, j) = SubSeq(s, j + 1, Len(s))
  BY DEF From
<1>3. SubSeq(s, j + 1, Len(s)) \in Seq(Chars)
  BY <1>1
<1>4. Len(SubSeq(s, j + 1, Len(s))) = Len(s) - j
  BY <1>1
<1>5. \A i \in 1..Len(s) - j : SubSeq(s, j + 1, Len(s))[i] = s[j + i]
  BY <1>1
<1> QED BY <1>2, <1>3, <1>4, <1>5 DEF Text

\* The end of the subject is one of the places.
LEMMA PlacesType ==
    ASSUME NEW m, IsMap(m), NEW s \in Text, NEW n \in 0..Len(s)
    PROVE  /\ Len(s) \in Nat
           /\ Places(m, s, n) \in SUBSET Nat
           /\ Len(s) \in Places(m, s, n)
           /\ Min(Places(m, s, n)) \in Places(m, s, n)
           /\ Min(Places(m, s, n)) \in n..Len(s)
           /\ \A j \in Places(m, s, n) : Min(Places(m, s, n)) <= j
<1>1. Len(s) \in Nat
  BY DEF Text
<1>2. Places(m, s, n) \in SUBSET Nat
  BY <1>1 DEF Places
<1>3. From(s, Len(s)) = <<>>
  <2>1. From(s, Len(s)) \in Seq(Chars) /\ Len(From(s, Len(s))) = 0
    BY <1>1, FromType DEF Text
  <2> QED BY <2>1
<1>4. MatchEx(m, <<>>) = TooShort
  BY DEF MatchEx
<1>5. ~Unmatched(m, From(s, Len(s)))
  BY <1>3, <1>4, Kinds DEF Unmatched
<1>6. Len(s) \in Places(m, s, n)
  BY <1>1, <1>5 DEF Places
<1>7. /\ Min(Places(m, s, n)) \in Places(m, s, n)
      /\ \A j \in Places(m, s, n) : Min(Places(m, s, n)) <= j
  BY <1>2, <1>6, MinOf
<1> QED BY <1>1, <1>2, <1>6, <1>7 DEF Places

\* The search goes one character on as long as there is a mismatch.
LEMMA PlacesStep ==
    ASSUME NEW m, IsMap(m), NEW s \in Text, NEW n \in 0..Len(s)
    PROVE  IF Unmatched(m, From(s, n))
           THEN /\ n + 1 \in 0..Len(s)
                /\ Min(Places(m, s, n)) = Min(Places(m, s, n + 1))
           ELSE Min(Places(m, s, n)) = n
<1>1. Len(s) \in Nat /\ ~Unmatched(m, From(s, Len(s)))
  BY PlacesType DEF Places
<1>2. CASE Unmatched(m, From(s, n))
  <2>1. n # Len(s)
    BY <1>1, <1>2
  <2>2. n + 1 \in 0..Len(s) /\ n..Len(s) = (n + 1..Len(s)) \union {n}
    BY <1>1, <2>1
  <2>3. Places(m, s, n) = Places(m, s, n + 1)
    BY <1>2, <2>2 DEF Places
  <2> QED BY <1>2, <2>2, <2>3
<1>3. CASE ~Unmatched(m, From(s, n))
  <2>1. n \in Places(m, s, n)
    BY <1>1, <1>3 DEF Places
  <2>2. Min(Places(m, s, n)) <= n /\ Min(Places(m, s, n)) \in n..Len(s)
    BY <2>1, PlacesType
  <2>3. Min(Places(m, s, n)) = n
    BY <1>1, <2>2
  <2> QED BY <1>3, <2>3
<1> QED BY <1>2, <1>3

\* l_string_matchUntil stops at the first of the places.
LEMMA MatchUntilStops ==
    ASSUME NEW m, IsMap(m), NEW s \in Text, NEW n \in 0..Len(s)
    PROVE  LET a == Min(Places(m, s, n))
               e == MatchEx(m, From(s, a))
           IN  MatchUntil(m, s, n) =
                 [at |-> a, end |-> IF e.kind = "match" THEN a + e.end ELSE 0]
<1> DEFINE l == Len(s)
           Body(f, i) == IF Unmatched(m, From(s, i)) THEN f[i + 1] ELSE i
           IsRun(f) == f = [i \in n..l |-> Body(f, i)]
           at == CHOOSE f : f = [i \in n..l |-> Body(f, i)]
           First(i) == Min(Places(m, s, i))
           g == [i \in n..l |-> First(i)]
<1>1. l \in Nat
  BY PlacesType
<1>2. \A i \in n..l : /\ i \in 0..l
                      /\ Unmatched(m, From(s, i)) => /\ i + 1 \in n..l
                                                     /\ First(i) = First(i + 1)
                      /\ ~Unmatched(m, From(s, i)) => First(i) = i
  <2> SUFFICES ASSUME NEW i \in n..l
               PROVE  /\ i \in 0..l
                      /\ Unmatched(m, From(s, i)) => /\ i + 1 \in n..l
                                                     /\ First(i) = First(i + 1)
                      /\ ~Unmatched(m, From(s, i)) => First(i) = i
    OBVIOUS
  <2>1. i \in 0..l
    BY <1>1
  <2>2. Unmatched(m, From(s, i)) => i + 1 \in 0..l /\ First(i) = First(i + 1)
    BY <2>1, PlacesStep
  <2>3. ~Unmatched(m, From(s, i)) => First(i) = i
    BY <2>1, PlacesStep
  <2> QED BY <2>1, <2>2, <2>3
<1>3. IsRun(g)
  <2> HIDE DEF First
  <2>1. \A i \in n..l : First(i) = Body(g, i)
    BY <1>2
  <2> QED BY <2>1
<1>4. IsRun(at)
  BY <1>3
<1>5. MatchUntil(m, s, n) =
        LET e == MatchEx(m, From(s, at[n]))
        IN  [at |-> at[n], end |-> IF e.kind = "match" THEN at[n] + e.end ELSE 0]
  BY DEF MatchUntil
<1>6. \A i \in n..l : at[i] = Body(at, i)
  BY <1>4
<1> HIDE DEF at
<1> DEFINE T == {d \in 0..l - n : at[l - d] = First(l - d)}
<1>7. 0 \in T
  <2>1. First(l) = l
    <3>1. l \in n..l /\ l + 1 \notin n..l
      BY <1>1
    <3> QED BY <1>2, <3>1
  <2>2. at[l] = l
    <3>1. l \in n..l /\ l + 1 \notin n..l
      BY <1>1
    <3>2. ~Unmatched(m, From(s, l))
      BY <1>2, <3>1
    <3> QED BY <1>6, <3>1, <3>2
  <2> QED BY <1>1, <2>1, <2>2
<1>8. \A d \in 0..(l - n) - 1 : d \in T => d + 1 \in T
  <2> SUFFICES ASSUME NEW d \in 0..(l - n) - 1, at[l - d] = First(l - d)
               PROVE  d + 1 \in T
    BY <1>1
  <2> DEFINE i == l - (d + 1)
  <2>1. i \in n..l /\ i + 1 = l - d /\ d + 1 \in 0..l - n
    BY <1>1
  <2>2. at[i] = First(i)
    <3> HIDE DEF i, First
    <3>1. at[i + 1] = First(i + 1)
      BY <2>1
    <3> QED BY <1>2, <1>6, <2>1, <3>1
  <2> QED BY <2>1, <2>2
<1>9. l - n \in T
  <2> DEFINE b == l - n
  <2>1. b \in Nat
    BY <1>1
  <2>2. 0 \in T /\ \A d \in 0..b - 1 : d \in T => d + 1 \in T
    BY <1>7, <1>8
  <2> HIDE DEF T, b
  <2>3. \A d \in 0..b : d \in T
    BY <2>1, <2>2, CountingTo
  <2>4. b \in T
    BY <2>1, <2>3
  <2> QED BY <2>4 DEF b
<1>10. at[n] = First(n)
  <2>1. l - (l - n) = n
    BY <1>1
  <2> QED BY <1>9, <2>1
<1> QED BY <1>5, <1>10

\* A mismatch stays one whatever arrives.
LEMMA UnmatchedStays ==
    ASSUME NEW m, IsMap(m), NEW s \in Text, NEW c \in Chars, Unmatched(m, s)
    PROVE  Unmatched(m, Append(s, c))
<1> DEFINE r == Append(s, c)
<1>1. /\ s \in Seq(Chars) /\ r \in Text /\ Len(r) = Len(s) + 1 /\ Len(s) \in Nat
      /\ \A i \in 1..Len(s) : r[i] = s[i]
  BY DEF Text
<1> HIDE DEF r
<1>2. Answered(m, s, MatchEx(m, s)) /\ Answered(m, r, MatchEx(m, r))
  BY <1>1, MatchExAnswers
<1>3. MatchEx(m, s).kind = "none"
  BY Kinds DEF Unmatched
<1>4. Full(m, s) = {} /\ Open(m, s) = {}
  BY <1>2, <1>3 DEF Answered
<1>5. r # <<>>
  BY <1>1
<1>6. \A k \in Stored(m) : Len(m.strings[k]) \in Nat
  BY StoredType
<1>7. Full(m, r) = {}
  <2> SUFFICES ASSUME NEW k \in Full(m, r) PROVE FALSE
    OBVIOUS
  <2>1. /\ k \in Stored(m) /\ Len(m.strings[k]) <= Len(s) + 1
        /\ \A j \in 1..Len(m.strings[k]) : Same(m, m.strings[k][j], r[j])
    BY <1>1 DEF Full
  <2>2. Len(m.strings[k]) \in Nat
    BY <1>6, <2>1
  <2>3. CASE Len(m.strings[k]) <= Len(s)
    <3>1. \A j \in 1..Len(m.strings[k]) : Same(m, m.strings[k][j], s[j])
      BY <1>1, <2>1, <2>2, <2>3
    <3> QED BY <1>4, <2>1, <2>3, <3>1 DEF Full
  <2>4. CASE Len(m.strings[k]) > Len(s)
    <3>1. \A j \in 1..Len(s) : Same(m, m.strings[k][j], s[j])
      BY <1>1, <2>1, <2>2, <2>4
    <3> QED BY <1>1, <1>4, <2>1, <2>2, <2>4, <3>1 DEF Open
  <2> QED BY <1>1, <2>2, <2>3, <2>4
<1>8. Open(m, r) = {}
  <2> SUFFICES ASSUME NEW k \in Open(m, r) PROVE FALSE
    OBVIOUS
  <2>1. /\ k \in Stored(m) /\ Len(s) + 1 < Len(m.strings[k])
        /\ \A j \in 1..Len(s) + 1 : Same(m, m.strings[k][j], r[j])
    BY <1>1 DEF Open
  <2>2. Len(m.strings[k]) \in Nat
    BY <1>6, <2>1
  <2>3. Len(s) < Len(m.strings[k])
    BY <1>1, <2>1, <2>2
  <2>4. \A j \in 1..Len(s) : Same(m, m.strings[k][j], s[j])
    BY <1>1, <2>1
  <2> QED BY <1>4, <2>1, <2>3, <2>4 DEF Open
<1>9. MatchEx(m, r) = NoMatch
  BY <1>2, <1>5, <1>7, <1>8 DEF Answered
<1> QED BY <1>9 DEF Unmatched, r

\* A character that arrives arrives at the end of every rest of the subject.
LEMMA FromAppend ==
    ASSUME NEW s \in Text, NEW c \in Chars, NEW j \in 0..Len(s)
    PROVE  From(Append(s, c), j) = Append(From(s, j), c)
<1> DEFINE r == Append(s, c)
           x == From(r, j)
           y == From(s, j)
           z == Append(y, c)
           l == Len(s) - j
<1>1. /\ s \in Seq(Chars) /\ r \in Text /\ Len(r) = Len(s) + 1 /\ Len(s) \in Nat
      /\ \A i \in 1..Len(s) : r[i] = s[i]
      /\ r[Len(s) + 1] = c
  BY DEF Text
<1>2. j \in 0..Len(r)
  BY <1>1
<1> HIDE DEF r
<1>3. /\ y \in Text /\ Len(y) = Len(s) - j
      /\ \A i \in 1..Len(s) - j : y[i] = s[j + i]
  BY FromType
<1>4. /\ x \in Text /\ Len(x) = Len(r) - j
      /\ \A i \in 1..Len(r) - j : x[i] = r[j + i]
  BY <1>1, <1>2, FromType
<1>5. /\ x \in Seq(Chars) /\ y \in Seq(Chars) /\ l \in Nat
      /\ Len(x) = l + 1 /\ Len(y) = l
  BY <1>1, <1>3, <1>4 DEF Text
<1>6. \A i \in 1..l : x[i] = y[i]
  BY <1>1, <1>3, <1>4
<1>7. x[l + 1] = c
  BY <1>1, <1>4
<1> HIDE DEF x, y, l
<1>8. /\ z \in Seq(Chars) /\ Len(z) = l + 1
      /\ \A i \in 1..l : z[i] = y[i]
      /\ z[l + 1] = c
  BY <1>5
<1>9. \A i \in 1..l + 1 : x[i] = z[i]
  BY <1>5, <1>6, <1>7, <1>8
<1> HIDE DEF z
<1>10. x = z
  BY <1>5, <1>8, <1>9
<1> QED BY <1>10 DEF x, y, z, r

\* Behind the place where it stopped the search misses nothing.
LEMMA SearchGoesOn ==
    ASSUME NEW m, IsMap(m), NEW s \in Text, NEW c \in Chars
    PROVE  LET r == Append(s, c)
               a == Min(Places(m, s, 0))
           IN  a \in 0..Len(r) /\ Places(m, r, 0) = Places(m, r, a)
<1> DEFINE r == Append(s, c)
           a == Min(Places(m, s, 0))
<1>1. /\ s \in Seq(Chars) /\ r \in Text /\ Len(r) = Len(s) + 1 /\ Len(s) \in Nat
      /\ \A i \in 1..Len(s) : r[i] = s[i]
      /\ r[Len(s) + 1] = c
  BY DEF Text
<1>2. a \in 0..Len(s) /\ \A j \in Places(m, s, 0) : a <= j
  BY <1>1, PlacesType
<1> HIDE DEF r, a
<1>3. ASSUME NEW j \in 0..a - 1 PROVE Unmatched(m, From(r, j))
  <2>1. j \in 0..Len(s) /\ j \in 0..Len(r) /\ j < a
    BY <1>1, <1>2
  <2>2. Unmatched(m, From(s, j))
    <3>1. j \notin Places(m, s, 0)
      BY <1>2, <2>1
    <3> QED BY <2>1, <3>1 DEF Places
  <2>3. From(s, j) \in Text /\ From(r, j) = Append(From(s, j), c)
    BY <1>1, <2>1, FromType, FromAppend DEF r
  <2> QED BY <2>2, <2>3, UnmatchedStays
<1>4. a \in 0..Len(r)
  BY <1>1, <1>2
<1>5. Places(m, r, 0) = Places(m, r, a)
  <2>1. \A j \in 0..Len(r) : j \in 0..a - 1 \/ j \in a..Len(r)
    BY <1>1, <1>4
  <2>2. \A j \in a..Len(r) : j \in 0..Len(r)
    BY <1>1, <1>4
  <2> QED BY <1>3, <2>1, <2>2 DEF Places
<1> QED BY <1>4, <1>5 DEF r, a

\* A search that did not find its end is taken up where it stopped when more
\* characters have come, and nothing is missed: l_http_read_line.
THEOREM SearchResumes == Spec => Resumes
<1>1. SearchInv /\ [Next]_vars =>
        MatchUntil(map, text', MatchUntil(map, text, 0).at) = MatchUntil(map, text', 0)
  <2> SUFFICES ASSUME SearchInv, [Next]_vars
               PROVE  MatchUntil(map, text', MatchUntil(map, text, 0).at)
                        = MatchUntil(map, text', 0)
    OBVIOUS
  <2> DEFINE a == Min(Places(map, text, 0))
  <2>1. IsMap(map) /\ text \in Text /\ 0 \in 0..Len(text) /\ Len(text) \in Nat
    BY MapsMatch DEF SearchInv, Text
  <2>2. MatchUntil(map, text, 0).at = a /\ a \in 0..Len(text)
    BY <2>1, MatchUntilStops, PlacesType
  <2>3. CASE text' = text
    <3>1. Places(map, text, 0) = Places(map, text, a)
      <4> HIDE DEF a
      <4>1. \A j \in Places(map, text, 0) : a <= j
        BY <2>1, PlacesType DEF a
      <4> QED BY <2>1, <2>2, <4>1 DEF Places
    <3>2. MatchUntil(map, text, a) = MatchUntil(map, text, 0)
      <4> HIDE DEF a
      <4> QED BY <2>1, <2>2, <3>1, MatchUntilStops
    <3> QED BY <2>2, <2>3, <3>2
  <2>4. ASSUME NEW c \in Chars, text' = Append(text, c)
        PROVE  MatchUntil(map, text', a) = MatchUntil(map, text', 0)
    <3>1. a \in 0..Len(text') /\ Places(map, text', 0) = Places(map, text', a)
      BY <2>1, <2>4, SearchGoesOn
    <3>2. text' \in Text /\ 0 \in 0..Len(text')
      BY <2>1, <2>4 DEF Text
    <3> HIDE DEF a
    <3> QED BY <2>1, <3>1, <3>2, MatchUntilStops
  <2>5. MatchUntil(map, text', a) = MatchUntil(map, text', 0)
    <3> HIDE DEF a
    <3> QED BY <2>2, <2>3, <2>4, NextSearch
  <2> QED BY <2>2, <2>5
<1> QED BY <1>1, SearchInvariance, PTL DEF Spec, Resumes

-----------------------------------------------------------------------------
(* l_string_matchTimes and l_string_matchRepeat.                           *)

Hit(m, s, a) == MatchEx(m, From(s, a)).kind = "match"

\* The end of the match that begins at a.
Over(m, s, a) == a + MatchEx(m, From(s, a)).end

\* A match takes at least one character, and none that there is not.
LEMMA HitType ==
    ASSUME NEW m, IsMap(m), NEW s \in Text, NEW a \in 0..Len(s), Hit(m, s, a)
    PROVE  Over(m, s, a) \in a + 1..Len(s)
<1> DEFINE e == MatchEx(m, From(s, a))
<1>1. From(s, a) \in Text /\ Len(From(s, a)) = Len(s) - a /\ Len(s) \in Nat
  BY FromType DEF Text
<1>2. Answered(m, From(s, a), e) /\ e.kind = "match"
  BY <1>1, MatchExAnswers DEF Hit
<1> HIDE DEF e
<1>3. e.id \in Full(m, From(s, a)) /\ e.end = Len(m.strings[e.id])
  BY <1>2 DEF Answered
<1>4. e.id \in Stored(m) /\ e.end <= Len(s) - a
  BY <1>1, <1>3 DEF Full
<1>5. e.end \in Nat /\ e.end > 0
  BY <1>3, <1>4, StoredType
<1>6. a + e.end \in a + 1..Len(s)
  BY <1>1, <1>4, <1>5
<1> QED BY <1>6 DEF Over, e

\* f counts matches up to n.
IsCount(m, s, n, f) ==
    f = [i \in 0..n |->
           IF i = 0 THEN 0
           ELSE IF f[i - 1] >= 0 /\ Hit(m, s, f[i - 1]) THEN Over(m, s, f[i - 1]) ELSE -1]

\* One more match.
NextCount(m, s, a) == IF a >= 0 /\ Hit(m, s, a) THEN Over(m, s, a) ELSE -1

\* What it is to count.
LEMMA CountIs ==
    ASSUME NEW m, NEW s, NEW n \in Nat, NEW f
    PROVE  IsCount(m, s, n, f) <=>
             f = [i \in 0..n |-> IF i = 0 THEN 0 ELSE NextCount(m, s, f[i - 1])]
BY DEF IsCount, NextCount

\* Counting is possible.
LEMMA CountExists ==
    ASSUME NEW m, NEW s, NEW n \in Nat
    PROVE  \E f : IsCount(m, s, n, f)
<1> DEFINE T == {b \in 0..n : \E f : IsCount(m, s, b, f)}
<1>1. 0 \in T
  <2> DEFINE f == [i \in 0..0 |-> 0]
  <2>1. f = [i \in 0..0 |-> IF i = 0 THEN 0 ELSE NextCount(m, s, f[i - 1])]
    OBVIOUS
  <2> HIDE DEF f
  <2>2. IsCount(m, s, 0, f)
    BY <2>1, CountIs
  <2> QED BY <2>2
<1>2. \A b \in 0..n - 1 : b \in T => b + 1 \in T
  <2> SUFFICES ASSUME NEW b \in 0..n - 1, b \in T PROVE b + 1 \in T
    OBVIOUS
  <2>1. PICK f : IsCount(m, s, b, f)
    OBVIOUS
  <2> DEFINE g == [i \in 0..b + 1 |-> IF i = b + 1 THEN NextCount(m, s, f[b]) ELSE f[i]]
  <2>2. \A i \in 0..b : f[i] = IF i = 0 THEN 0 ELSE NextCount(m, s, f[i - 1])
    <3>1. f = [i \in 0..b |-> IF i = 0 THEN 0 ELSE NextCount(m, s, f[i - 1])]
      BY <2>1, CountIs
    <3> QED BY <3>1
  <2>3. \A i \in 0..b + 1 : g[i] = IF i = 0 THEN 0 ELSE NextCount(m, s, g[i - 1])
    <3> SUFFICES ASSUME NEW i \in 0..b + 1
                 PROVE  g[i] = IF i = 0 THEN 0 ELSE NextCount(m, s, g[i - 1])
      OBVIOUS
    <3>1. CASE i = b + 1
      <4>1. i # 0 /\ i - 1 = b /\ b \in 0..b
        BY <3>1
      <4>2. g[i - 1] = f[b]
        BY <3>1, <4>1
      <4> QED BY <3>1, <4>1, <4>2
    <3>2. CASE i # b + 1
      <4>1. i \in 0..b /\ (i # 0 => i - 1 \in 0..b)
        BY <3>2
      <4> QED BY <2>2, <4>1
    <3> QED BY <3>1, <3>2
  <2>4. g = [i \in 0..b + 1 |-> IF i = 0 THEN 0 ELSE NextCount(m, s, g[i - 1])]
    BY <2>3
  <2>5. b + 1 \in 0..n /\ b + 1 \in Nat
    OBVIOUS
  <2> HIDE DEF g
  <2>6. IsCount(m, s, b + 1, g)
    BY <2>4, <2>5, CountIs
  <2> QED BY <2>5, <2>6
<1>3. n \in T
  <2> HIDE DEF T
  <2> QED BY <1>1, <1>2, CountingTo
<1> QED BY <1>3

\* Two counts agree as far as they go.
LEMMA CountsAgree ==
    ASSUME NEW m, NEW s, NEW n \in Nat, NEW l \in 0..n, NEW f, NEW g,
           IsCount(m, s, n, f), IsCount(m, s, l, g)
    PROVE  f[l] = g[l]
<1>1. \A i \in 0..n : f[i] = IF i = 0 THEN 0 ELSE NextCount(m, s, f[i - 1])
  <2>1. f = [i \in 0..n |-> IF i = 0 THEN 0 ELSE NextCount(m, s, f[i - 1])]
    BY CountIs
  <2> QED BY <2>1
<1>2. \A i \in 0..l : g[i] = IF i = 0 THEN 0 ELSE NextCount(m, s, g[i - 1])
  <2>1. g = [i \in 0..l |-> IF i = 0 THEN 0 ELSE NextCount(m, s, g[i - 1])]
    BY CountIs
  <2> QED BY <2>1
<1> DEFINE T == {i \in 0..l : f[i] = g[i]}
<1>3. 0 \in T
  BY <1>1, <1>2
<1>4. \A b \in 0..l - 1 : b \in T => b + 1 \in T
  <2> SUFFICES ASSUME NEW b \in 0..l - 1, f[b] = g[b] PROVE f[b + 1] = g[b + 1]
    OBVIOUS
  <2>1. b + 1 \in 0..l /\ b + 1 \in 0..n /\ b + 1 # 0 /\ (b + 1) - 1 = b
    OBVIOUS
  <2> QED BY <1>1, <1>2, <2>1
<1>5. l \in T
  <2> HIDE DEF T
  <2>1. l \in Nat /\ l \in 0..l
    OBVIOUS
  <2> QED BY <1>3, <1>4, <2>1, CountingTo
<1> QED BY <1>5

\* l_string_matchTimes counts.
LEMMA TimesStep ==
    ASSUME NEW m, NEW s, NEW n \in Nat
    PROVE  /\ MatchTimes(m, 0, s) = 0
           /\ MatchTimes(m, n + 1, s) = NextCount(m, s, MatchTimes(m, n, s))
<1>1. ASSUME NEW l \in Nat
      PROVE  \E f : IsCount(m, s, l, f) /\ MatchTimes(m, l, s) = f[l]
  <2> DEFINE Body(f, i) ==
               IF i = 0 THEN 0
               ELSE LET e == MatchEx(m, From(s, f[i - 1]))
                    IN  IF f[i - 1] >= 0 /\ e.kind = "match" THEN f[i - 1] + e.end ELSE -1
             g == CHOOSE f : f = [i \in 0..l |-> Body(f, i)]
             IsRun(f) == f = [i \in 0..l |-> Body(f, i)]
  <2>1. MatchTimes(m, l, s) = g[l]
    BY DEF MatchTimes, Turns
  <2>2. \A f : IsCount(m, s, l, f) <=> IsRun(f)
    BY DEF IsCount, Hit, Over
  <2>3. IsCount(m, s, l, g)
    <3>0. PICK h : IsRun(h)
      <4> HIDE DEF IsRun
      <4> QED BY <2>2, CountExists
    <3>1. \E f : f = [i \in 0..l |-> Body(f, i)]
      BY <3>0
    <3>2. g = [i \in 0..l |-> Body(g, i)]
      BY <3>1
    <3> QED BY <2>2, <3>2
  <2> HIDE DEF g
  <2> QED BY <2>1, <2>3
<1>2. PICK f : IsCount(m, s, n + 1, f) /\ MatchTimes(m, n + 1, s) = f[n + 1]
  BY <1>1
<1>3. PICK g : IsCount(m, s, n, g) /\ MatchTimes(m, n, s) = g[n]
  BY <1>1
<1>4. PICK h : IsCount(m, s, 0, h) /\ MatchTimes(m, 0, s) = h[0]
  BY <1>1
<1>5. \A i \in 0..n + 1 : f[i] = IF i = 0 THEN 0 ELSE NextCount(m, s, f[i - 1])
  <2>1. f = [i \in 0..n + 1 |-> IF i = 0 THEN 0 ELSE NextCount(m, s, f[i - 1])]
    BY <1>2, CountIs
  <2> QED BY <2>1
<1>6. f[0] = 0 /\ f[n + 1] = NextCount(m, s, f[n])
  <2>1. /\ 0 \in 0..n + 1 /\ n + 1 \in 0..n + 1
        /\ n + 1 # 0 /\ (n + 1) - 1 = n
    OBVIOUS
  <2> QED BY <1>5, <2>1
<1>7. f[n] = g[n] /\ f[0] = h[0]
  <2>1. n + 1 \in Nat /\ n \in 0..n + 1 /\ 0 \in 0..n + 1
    OBVIOUS
  <2> QED BY <1>2, <1>3, <1>4, <2>1, CountsAgree
<1> QED BY <1>2, <1>3, <1>4, <1>6, <1>7

\* f follows the matches from a on.
IsRest(m, s, a, f) ==
    f = [n \in a..Len(s) |-> IF Hit(m, s, n) THEN f[Over(m, s, n)] ELSE n]

\* Following them is possible: each begins behind the last.
LEMMA RestExists ==
    ASSUME NEW m, IsMap(m), NEW s \in Text
    PROVE  \E f : IsRest(m, s, 0, f)
<1> DEFINE l == Len(s)
           T == {d \in 0..l : \E f : IsRest(m, s, l - d, f)}
<1>0. l \in Nat
  BY DEF Text
<1>1. 0 \in T
  <2> DEFINE f == [n \in l..l |-> n]
  <2>1. ~Hit(m, s, l)
    <3> SUFFICES ASSUME Hit(m, s, l) PROVE FALSE
      OBVIOUS
    <3>1. l \in 0..Len(s)
      BY <1>0
    <3>2. Over(m, s, l) \in l + 1..Len(s)
      BY <3>1, HitType
    <3> QED BY <1>0, <3>2
  <2>2. \A n \in l..l : n = l
    BY <1>0
  <2>3. f = [n \in l..l |-> IF Hit(m, s, n) THEN f[Over(m, s, n)] ELSE n]
    BY <2>1, <2>2
  <2> HIDE DEF f
  <2>4. IsRest(m, s, l, f)
    BY <2>3 DEF IsRest
  <2>5. l - 0 = l /\ 0 \in 0..l
    BY <1>0
  <2> QED BY <2>4, <2>5
<1>2. \A d \in 0..l - 1 : d \in T => d + 1 \in T
  <2> SUFFICES ASSUME NEW d \in 0..l - 1, d \in T PROVE d + 1 \in T
    OBVIOUS
  <2> DEFINE a == l - (d + 1)
  <2>1. a \in 0..l /\ a + 1 = l - d /\ d + 1 \in 0..l
    BY <1>0
  <2>2. PICK f : IsRest(m, s, a + 1, f)
    BY <2>1
  <2> DEFINE first == IF Hit(m, s, a) THEN f[Over(m, s, a)] ELSE a
             g == [n \in a..l |-> IF n = a THEN first ELSE f[n]]
  <2>3. \A n \in a + 1..l : f[n] = IF Hit(m, s, n) THEN f[Over(m, s, n)] ELSE n
    <3>1. f = [n \in a + 1..l |-> IF Hit(m, s, n) THEN f[Over(m, s, n)] ELSE n]
      BY <2>2 DEF IsRest
    <3> HIDE DEF l, a
    <3> QED BY <3>1
  <2>4. \A n \in a..l : g[n] = IF Hit(m, s, n) THEN g[Over(m, s, n)] ELSE n
    <3> SUFFICES ASSUME NEW n \in a..l
                 PROVE  g[n] = IF Hit(m, s, n) THEN g[Over(m, s, n)] ELSE n
      OBVIOUS
    <3>1. n \in 0..Len(s) /\ n \in Nat
      BY <1>0, <2>1
    <3>2. ASSUME Hit(m, s, n)
          PROVE  /\ Over(m, s, n) \in a..l /\ Over(m, s, n) # a
      <4>1. Over(m, s, n) \in n + 1..Len(s)
        BY <3>1, <3>2, HitType
      <4> QED BY <1>0, <2>1, <3>1, <4>1
    <3>3. ASSUME Hit(m, s, n)
          PROVE  g[Over(m, s, n)] = f[Over(m, s, n)]
      <4> HIDE DEF a, l, first
      <4> QED BY <3>2, <3>3
    <3>4. CASE n = a
      <4> HIDE DEF g
      <4>1. g[n] = first
        BY <3>4 DEF g
      <4> QED BY <3>3, <3>4, <4>1
    <3>5. CASE n # a
      <4>1. n \in a + 1..l
        <5> HIDE DEF a, l
        <5> QED BY <1>0, <2>1, <3>1, <3>5
      <4>2. g[n] = f[n]
        BY <3>5
      <4> HIDE DEF g, a, l
      <4> QED BY <2>3, <3>3, <4>1, <4>2
    <3> HIDE DEF g, a, l
    <3> QED BY <3>4, <3>5
  <2>5. g = [n \in a..l |-> IF Hit(m, s, n) THEN g[Over(m, s, n)] ELSE n]
    <3> HIDE DEF a, l, first
    <3> QED BY <2>4
  <2> HIDE DEF g
  <2>6. IsRest(m, s, a, g)
    BY <2>5 DEF IsRest
  <2> QED BY <2>1, <2>6
<1>3. l \in T
  <2> HIDE DEF T, l
  <2>1. l \in 0..l
    BY <1>0
  <2> QED BY <1>0, <1>1, <1>2, <2>1, CountingTo
<1>4. l - l = 0
  BY <1>0
<1> QED BY <1>3, <1>4

\* l_string_matchRepeat follows the matches from the first.
LEMMA RepeatFollows ==
    ASSUME NEW m, IsMap(m), NEW s \in Text
    PROVE  \E f : IsRest(m, s, 0, f) /\ MatchRepeat(m, s) = f[0]
<1> DEFINE Body(f, n) ==
             LET e == MatchEx(m, From(s, n))
             IN  IF e.kind = "match" THEN f[n + e.end] ELSE n
           g == CHOOSE f : f = [n \in 0..Len(s) |-> Body(f, n)]
           IsRun(f) == f = [n \in 0..Len(s) |-> Body(f, n)]
<1>1. MatchRepeat(m, s) = g[0]
  BY DEF MatchRepeat
<1>2. \A f : IsRest(m, s, 0, f) <=> IsRun(f)
  BY DEF IsRest, Hit, Over
<1>3. IsRest(m, s, 0, g)
  <2>1. PICK h : IsRun(h)
    <3> HIDE DEF IsRun
    <3> QED BY <1>2, RestExists
  <2>2. \E f : f = [n \in 0..Len(s) |-> Body(f, n)]
    BY <2>1
  <2>3. g = [n \in 0..Len(s) |-> Body(g, n)]
    BY <2>2
  <2> QED BY <1>2, <2>3
<1> HIDE DEF g
<1> QED BY <1>1, <1>3

\* There is a last match, as each takes a character; and l_string_matchRepeat
\* ends where it does.
LEMMA RepeatCounts ==
    ASSUME NEW m, IsMap(m), NEW s \in Text
    PROVE  \E n \in 0..Len(s) :
             /\ MatchTimes(m, n, s) = MatchRepeat(m, s)
             /\ MatchTimes(m, n + 1, s) = -1
             /\ n = 0 <=> MatchRepeat(m, s) = 0
             /\ MatchRepeat(m, s) \in 0..Len(s)
             /\ ~Hit(m, s, MatchRepeat(m, s))
<1> DEFINE l == Len(s)
           c(i) == MatchTimes(m, i, s)
           Lost == {i \in Nat : c(i + 1) = -1}
<1>1. l \in Nat
  BY DEF Text
<1>2. c(0) = 0 /\ \A i \in Nat : c(i + 1) = NextCount(m, s, c(i))
  <2>1. c(0) = 0
    <3>1. 0 \in Nat
      OBVIOUS
    <3> QED BY <3>1, TimesStep
  <2>2. \A i \in Nat : c(i + 1) = NextCount(m, s, c(i))
    BY TimesStep
  <2> QED BY <2>1, <2>2
<1> HIDE DEF c, l
<1>3. ASSUME NEW i \in Nat, c(i) \in i..l, c(i + 1) # -1
      PROVE  Hit(m, s, c(i)) /\ c(i + 1) = Over(m, s, c(i)) /\ c(i + 1) \in i + 1..l
  <2>1. c(i + 1) = NextCount(m, s, c(i)) /\ c(i) >= 0 /\ c(i) \in Nat /\ c(i) \in 0..Len(s)
    BY <1>1, <1>2, <1>3 DEF l
  <2>2. Hit(m, s, c(i)) /\ c(i + 1) = Over(m, s, c(i))
    BY <1>3, <2>1 DEF NextCount
  <2>3. Over(m, s, c(i)) \in c(i) + 1..l
    BY <2>1, <2>2, HitType DEF l
  <2> QED BY <1>1, <1>3, <2>1, <2>2, <2>3
<1>4. Lost # {}
  <2> SUFFICES ASSUME \A i \in Nat : c(i + 1) # -1 PROVE FALSE
    OBVIOUS
  <2> DEFINE T == {i \in Nat : c(i) \in i..l}
  <2>1. 0 \in T
    BY <1>1, <1>2
  <2>2. \A i \in T : i + 1 \in T
    BY <1>3
  <2>3. T \in SUBSET Nat
    OBVIOUS
  <2>4. T = Nat
    <3> HIDE DEF T
    <3> QED BY <2>1, <2>2, <2>3, Counting
  <2>5. l + 1 \in T
    BY <1>1, <2>4
  <2>6. c(l + 1) \in l + 1..l
    BY <2>5
  <2> QED BY <1>1, <2>6
<1> DEFINE n == Min(Lost)
<1>5. n \in Nat /\ c(n + 1) = -1 /\ \A i \in 0..n - 1 : c(i + 1) # -1
  <2>1. Lost \in SUBSET Nat
    OBVIOUS
  <2>2. n \in Lost /\ \A i \in Lost : n <= i
    <3> HIDE DEF Lost
    <3> QED BY <1>4, <2>1, MinOf
  <2> HIDE DEF n
  <2>3. n \in Nat /\ c(n + 1) = -1
    BY <2>2
  <2> QED BY <2>2, <2>3
<1> HIDE DEF n
<1>6. PICK f : IsRest(m, s, 0, f) /\ MatchRepeat(m, s) = f[0]
  BY RepeatFollows
<1>7. \A i \in 0..l : f[i] = IF Hit(m, s, i) THEN f[Over(m, s, i)] ELSE i
  <2>1. f = [i \in 0..l |-> IF Hit(m, s, i) THEN f[Over(m, s, i)] ELSE i]
    BY <1>6 DEF IsRest, l
  <2> QED BY <2>1
<1>8. \A i \in 0..n : c(i) \in i..l /\ f[c(i)] = f[0]
  <2> DEFINE T == {i \in 0..n : c(i) \in i..l /\ f[c(i)] = f[0]}
  <2>1. 0 \in T
    BY <1>1, <1>2, <1>5
  <2>2. \A i \in 0..n - 1 : i \in T => i + 1 \in T
    <3> SUFFICES ASSUME NEW i \in 0..n - 1, c(i) \in i..l, f[c(i)] = f[0]
                 PROVE  i + 1 \in T
      OBVIOUS
    <3>1. i \in Nat /\ c(i + 1) # -1 /\ i + 1 \in 0..n
      BY <1>5
    <3>2. Hit(m, s, c(i)) /\ c(i + 1) = Over(m, s, c(i)) /\ c(i + 1) \in i + 1..l
      BY <1>3, <3>1
    <3>3. c(i) \in 0..l
      BY <1>1, <3>1
    <3>4. f[c(i)] = f[c(i + 1)]
      BY <1>7, <3>2, <3>3
    <3> QED BY <3>1, <3>2, <3>4
  <2>3. \A i \in 0..n : i \in T
    <3> HIDE DEF T
    <3> QED BY <1>5, <2>1, <2>2, CountingTo
  <2> QED BY <2>3
<1>9. c(n) \in n..l /\ f[c(n)] = f[0] /\ c(n) \in 0..l /\ n \in 0..l
  <2>1. n \in 0..n
    BY <1>5
  <2>2. c(n) \in n..l /\ f[c(n)] = f[0]
    BY <1>8, <2>1
  <2> QED BY <1>1, <1>5, <2>2
<1>10. ~Hit(m, s, c(n))
  <2> SUFFICES ASSUME Hit(m, s, c(n)) PROVE FALSE
    OBVIOUS
  <2>1. c(n + 1) = Over(m, s, c(n))
    BY <1>2, <1>5, <1>9 DEF NextCount
  <2>2. Over(m, s, c(n)) \in c(n) + 1..l
    BY <1>9, HitType DEF l
  <2> QED BY <1>5, <1>9, <2>1, <2>2
<1>11. c(n) = MatchRepeat(m, s)
  BY <1>6, <1>7, <1>9, <1>10
<1>12. n = 0 <=> c(n) = 0
  BY <1>1, <1>2, <1>5, <1>9
<1> QED BY <1>5, <1>9, <1>10, <1>11, <1>12 DEF c, l

\* l_string_matchRepeat and l_string_matchTimes agree about how many matches
\* follow each other.
THEOREM RepeatIsCounted == Spec => []Counted
<1>1. SearchInv => Counted
  <2> SUFFICES ASSUME SearchInv PROVE Counted
    OBVIOUS
  <2>1. IsMap(map) /\ text \in Text /\ Len(text) <= MaxText /\ Len(text) \in Nat
    BY MapsMatch DEF SearchInv, Text
  <2>2. PICK n \in 0..Len(text) :
          /\ MatchTimes(map, n, text) = MatchRepeat(map, text)
          /\ MatchTimes(map, n + 1, text) = -1
          /\ n = 0 <=> MatchRepeat(map, text) = 0
    BY <2>1, RepeatCounts
  <2>3. n \in 0..MaxText
    BY <2>1, SearchAssumption
  <2> QED BY <2>2, <2>3 DEF Counted
<1> QED BY <1>1, SearchInvariance, PTL

-----------------------------------------------------------------------------
(* l_string_trimHead and the l_string_skipSpace functions.                 *)

\* Where the named string ends, the first that was left ends too, or no string
\* that the subject begins with is longer; before it, the first that was left
\* never ended.
LastEnd(m, s, p) ==
    /\ \A j \in 1..p - 1 : Ends(m, s, j) # {} => ~FirstDone(m, s, j)
    /\ FirstDone(m, s, p) \/ \A k \in Full(m, s) : Len(m.strings[k]) <= p

\* l_string_matchEx ends there.
LEMMA MatchEnds ==
    ASSUME NEW m, IsMap(m), NEW s \in Text, MatchEx(m, s).kind = "match"
    PROVE  /\ LastEnd(m, s, MatchEx(m, s).end)
           /\ MatchEx(m, s).end \in 1..Len(s)
           /\ Ends(m, s, MatchEx(m, s).end) # {}
<1> DEFINE t == Scan(m, s)
           p == t.p
           n == Turned(m, s)
<1>1. Scanned(m, s, n, t)
  BY ScanScanned
<1>2. t \in ScanState /\ n \in Nat
  BY <1>1, TurnedType DEF Scanned
<1> HIDE DEF t, n
<1>3. p \in Nat
  BY <1>2 DEF ScanState
<1>4. t.stop \in {"", "mismatch", "match"}
  BY <1>2 DEF ScanState
<1>5. MatchEx(m, s).end = p /\ p # 0
  <2>1. MatchEx(m, s) = IF s = <<>> THEN TooShort
                        ELSE IF p > 0 THEN Matched(p, Min(t.ends))
                        ELSE IF t.stop = "mismatch" THEN NoMatch ELSE TooShort
    BY DEF MatchEx, t
  <2> HIDE DEF p
  <2>2. s # <<>> /\ p > 0
    BY <2>1, Kinds
  <2>3. MatchEx(m, s) = Matched(p, Min(t.ends))
    BY <2>1, <2>2
  <2>4. MatchEx(m, s).end = p
    BY <2>3, Kinds
  <2> QED BY <1>3, <2>2, <2>4
<1>6. \A j \in 1..p - 1 : Ends(m, s, j) # {} => ~FirstDone(m, s, j)
  BY <1>1 DEF Scanned
<1>7. FirstDone(m, s, p) \/ \A k \in Full(m, s) : Len(m.strings[k]) <= p
  <2>1. CASE t.stop = "match"
    BY <1>1, <2>1 DEF Scanned
  <2>2. CASE t.stop # "match"
    <3>1. PICK e \in p..n :
            /\ \A j \in p + 1..e : Ends(m, s, j) = {}
            /\ t.stop = "mismatch" => Cur(m, s, e) = {}
            /\ t.stop = "" => e = n
      BY <1>1, <2>2 DEF Scanned
    <3> HIDE DEF p
    <3>2. ASSUME NEW k \in Full(m, s), ~(Len(m.strings[k]) <= p)
          PROVE  FALSE
      <4> DEFINE l == Len(m.strings[k])
      <4>1. l \in 1..n /\ k \in Ends(m, s, l)
        BY FullEnds DEF n
      <4>2. l \notin p + 1..e
        BY <3>1, <4>1
      <4> HIDE DEF l
      <4>3. l \in Nat /\ e \in Nat /\ l > p
        <5>1. e \in p..n
          OBVIOUS
        <5>2. ~(l <= p)
          BY <3>2 DEF l
        <5> QED BY <1>2, <1>3, <4>1, <5>1, <5>2
      <4>4. e \in 0..l /\ e # n
        BY <1>2, <1>3, <4>1, <4>2, <4>3
      <4>5. k \in Cur(m, s, l)
        BY <4>1 DEF Ends
      <4>6. k \in Cur(m, s, e)
        BY <4>3, <4>4, <4>5, CurShrinks
      <4> QED BY <1>4, <2>2, <3>1, <4>4, <4>6
    <3> QED BY <3>2
  <2> QED BY <2>1, <2>2
<1>8. p \in 1..Len(s) /\ Ends(m, s, p) # {}
  <2> DEFINE e == MatchEx(m, s)
  <2>1. e.id \in Full(m, s) /\ e.end = Len(m.strings[e.id])
    BY MatchExAnswers DEF Answered
  <2> HIDE DEF e
  <2>2. p = Len(m.strings[e.id])
    BY <1>5, <2>1 DEF e
  <2> HIDE DEF p
  <2>3. p \in Nat /\ p <= Len(s) /\ Len(s) \in Nat
    <3>1. Len(m.strings[e.id]) <= Len(s)
      BY <2>1 DEF Full
    <3>2. Len(s) \in Nat
      BY DEF Text
    <3> QED BY <1>3, <2>2, <3>1, <3>2
  <2>4. e.id \in Ends(m, s, p)
    BY <2>1, <2>2, FullEnds
  <2> QED BY <1>5, <2>3, <2>4
<1> HIDE DEF p
<1> QED BY <1>5, <1>6, <1>7, <1>8 DEF LastEnd

\* More characters take nothing back: a match stays one, and none shorter is
\* found for it.
LEMMA MatchGrows ==
    ASSUME NEW m, IsMap(m), NEW s \in Text, NEW c \in Chars, MatchEx(m, s).kind = "match"
    PROVE  /\ MatchEx(m, Append(s, c)).kind = "match"
           /\ MatchEx(m, Append(s, c)).end >= MatchEx(m, s).end
<1> DEFINE r == Append(s, c)
           d == MatchEx(m, s)
           e == MatchEx(m, r)
<1>1. /\ r \in Text /\ Len(s) \in Nat /\ Len(r) = Len(s) + 1
      /\ \A i \in 1..Len(s) : r[i] = s[i]
  BY DEF Text
<1> HIDE DEF r
<1>2. Answered(m, s, d) /\ Answered(m, r, e)
  BY <1>1, MatchExAnswers
<1>3. LastEnd(m, s, d.end) /\ d.end \in 1..Len(s)
  BY MatchEnds
<1>4. d.id \in Full(m, s) /\ d.end = Len(m.strings[d.id])
  BY <1>2 DEF Answered
<1>5. \A k \in Stored(m) : Len(m.strings[k]) \in Nat
  BY StoredType
<1>6. d.id \in Full(m, r)
  <2> HIDE DEF d
  <2>1. d.id \in Stored(m) /\ Len(m.strings[d.id]) \in Nat /\ Len(m.strings[d.id]) <= Len(s)
    BY <1>4, <1>5 DEF Full
  <2> QED BY <1>1, <1>4, <2>1 DEF Full
<1>7. e.kind = "match"
  BY <1>2, <1>6 DEF Answered
<1>8. LastEnd(m, r, e.end) /\ e.end \in 1..Len(r) /\ Ends(m, r, e.end) # {}
  BY <1>1, <1>7, MatchEnds
<1> HIDE DEF d, e
<1> DEFINE p == d.end
           q == e.end
<1>9. p \in Nat /\ q \in Nat /\ p <= Len(s) /\ q >= 1
  BY <1>1, <1>3, <1>8
<1>10. ASSUME q < p PROVE FALSE
  <2>1. Cur(m, s, q) = Cur(m, r, q) /\ Ends(m, s, q) = Ends(m, r, q)
    <3> HIDE DEF p, q
    <3>1. \A j \in 1..q : r[j] = s[j]
      BY <1>1, <1>9, <1>10
    <3>2. Cur(m, s, q) = Cur(m, r, q)
      BY <3>1 DEF Cur
    <3> QED BY <3>2 DEF Ends
  <2>2. q \in 1..p - 1
    <3> HIDE DEF p, q
    <3> QED BY <1>9, <1>10
  <2>3. ~FirstDone(m, s, q)
    BY <1>3, <1>8, <2>1, <2>2 DEF LastEnd
  <2>4. ~FirstDone(m, r, q)
    BY <2>1, <2>3 DEF FirstDone
  <2>5. p <= q
    BY <1>4, <1>6, <1>8, <2>4 DEF LastEnd
  <2> HIDE DEF p, q
  <2> QED BY <1>9, <1>10, <2>5
<1>11. q >= p
  <2> HIDE DEF p, q
  <2> QED BY <1>9, <1>10
<1> QED BY <1>7, <1>11 DEF d, e, r

\* The spaces: a map of one string.
Single(m) == IsMap(m) /\ DOMAIN m.strings = {1}

\* What is passed over of one string stays passed over.
LEMMA HitStays ==
    ASSUME NEW m, Single(m), NEW s \in Text, NEW c \in Chars, NEW a \in 0..Len(s),
           Hit(m, s, a)
    PROVE  Hit(m, Append(s, c), a) /\ Over(m, Append(s, c), a) = Over(m, s, a)
<1> DEFINE y == From(s, a)
           d == MatchEx(m, y)
           e == MatchEx(m, Append(y, c))
<1>1. IsMap(m) /\ y \in Text /\ From(Append(s, c), a) = Append(y, c)
  BY FromType, FromAppend DEF Single
<1> HIDE DEF y
<1>2. Append(y, c) \in Text
  BY <1>1 DEF Text
<1>3. d.kind = "match"
  BY DEF Hit, y
<1>4. e.kind = "match"
  BY <1>1, <1>3, MatchGrows
<1>5. Answered(m, y, d) /\ Answered(m, Append(y, c), e)
  BY <1>1, <1>2, MatchExAnswers
<1>6. d.id = 1 /\ e.id = 1
  <2>1. \A x, k : k \in Full(m, x) => k = 1
    BY DEF Full, Stored, Single
  <2> HIDE DEF d, e
  <2> QED BY <1>3, <1>4, <1>5, <2>1 DEF Answered
<1>7. d.end = e.end
  <2> HIDE DEF d, e
  <2> QED BY <1>3, <1>4, <1>5, <1>6 DEF Answered
<1> QED BY <1>1, <1>4, <1>7 DEF Hit, Over, y

\* If what follows the spaces is not one more of them nor the beginning of one,
\* no later character makes it one.
LEMMA SkippedStays ==
    ASSUME NEW m, Single(m), NEW s \in Text, NEW c \in Chars,
           Unmatched(m, From(s, MatchRepeat(m, s)))
    PROVE  MatchRepeat(m, Append(s, c)) = MatchRepeat(m, s)
<1> DEFINE r == Append(s, c)
           l == Len(s)
           n == MatchRepeat(m, s)
<1>1. IsMap(m) /\ l \in Nat /\ r \in Text /\ Len(r) = l + 1
  BY DEF Text, Single
<1>2. n \in 0..l
  BY <1>1, RepeatCounts
<1>3. ~Hit(m, r, n)
  <2>1. From(s, n) \in Text /\ From(r, n) = Append(From(s, n), c)
    BY <1>2, FromType, FromAppend
  <2>2. Unmatched(m, From(r, n))
    BY <1>1, <2>1, UnmatchedStays
  <2> QED BY <2>2, Kinds DEF Hit, Unmatched
<1>4. PICK f : IsRest(m, s, 0, f) /\ n = f[0]
  BY <1>1, RepeatFollows
<1>5. PICK g : IsRest(m, r, 0, g) /\ MatchRepeat(m, r) = g[0]
  BY <1>1, RepeatFollows
<1>6. \A i \in 0..l : /\ f[i] = IF Hit(m, s, i) THEN f[Over(m, s, i)] ELSE i
                      /\ g[i] = IF Hit(m, r, i) THEN g[Over(m, r, i)] ELSE i
  <2>1. f = [i \in 0..Len(s) |-> IF Hit(m, s, i) THEN f[Over(m, s, i)] ELSE i]
    BY <1>4 DEF IsRest
  <2>2. g = [i \in 0..Len(r) |-> IF Hit(m, r, i) THEN g[Over(m, r, i)] ELSE i]
    BY <1>5 DEF IsRest
  <2>3. \A i \in 0..Len(r) : g[i] = IF Hit(m, r, i) THEN g[Over(m, r, i)] ELSE i
    <3> HIDE DEF r
    <3> QED BY <2>2
  <2>4. \A i \in 0..Len(s) : f[i] = IF Hit(m, s, i) THEN f[Over(m, s, i)] ELSE i
    BY <2>1
  <2>5. \A i \in 0..l : i \in 0..Len(r)
    BY <1>1
  <2> QED BY <2>3, <2>4, <2>5
<1> DEFINE T == {b \in 0..l : \A i \in l - b..l : f[i] = n => g[i] = n}
<1>7. ASSUME NEW i \in 0..l, \A j \in i + 1..l : f[j] = n => g[j] = n, f[i] = n
      PROVE  g[i] = n
  <2>1. CASE Hit(m, s, i)
    <3>1. Over(m, s, i) \in i + 1..l
      BY <1>1, <2>1, HitType
    <3>2. Hit(m, r, i) /\ Over(m, r, i) = Over(m, s, i)
      BY <2>1, HitStays
    <3> HIDE DEF n, l, r
    <3>3. f[Over(m, s, i)] = n
      BY <1>6, <1>7, <2>1
    <3>4. g[Over(m, s, i)] = n
      BY <1>7, <3>1, <3>3
    <3> QED BY <1>6, <3>2, <3>4
  <2>2. CASE ~Hit(m, s, i)
    <3> HIDE DEF n, l, r
    <3>1. i = n
      BY <1>6, <1>7, <2>2
    <3> QED BY <1>3, <1>6, <3>1
  <2> QED BY <2>1, <2>2
<1> HIDE DEF n, l, r
<1>8. 0 \in T
  <2> SUFFICES ASSUME NEW i \in l - 0..l, f[i] = n PROVE g[i] = n
    BY <1>1
  <2>1. i \in 0..l /\ \A j \in i + 1..l : FALSE
    BY <1>1
  <2> QED BY <1>7, <2>1
<1>9. \A b \in 0..l - 1 : b \in T => b + 1 \in T
  <2> SUFFICES ASSUME NEW b \in 0..l - 1, \A i \in l - b..l : f[i] = n => g[i] = n
               PROVE  b + 1 \in T
    OBVIOUS
  <2>1. b + 1 \in 0..l
    BY <1>1
  <2>2. ASSUME NEW i \in l - (b + 1)..l, f[i] = n
        PROVE  g[i] = n
    <3>1. i \in 0..l
      BY <1>1
    <3>2. \A j \in i + 1..l : j \in l - b..l
      BY <1>1
    <3> QED BY <1>7, <2>2, <3>1, <3>2
  <2> QED BY <2>1, <2>2
<1>10. l \in T
  <2> HIDE DEF T
  <2>1. l \in 0..l
    BY <1>1
  <2> QED BY <1>1, <1>8, <1>9, <2>1, CountingTo
<1>11. 0 \in l - l..l
  BY <1>1
<1>12. g[0] = n
  BY <1>4, <1>10, <1>11
<1> QED BY <1>5, <1>12 DEF n, r

\* A prefix stays one.
LEMMA PrefixStays ==
    ASSUME NEW x \in Text, NEW c \in Chars, NEW w \in Seq(Letters), IsPrefix(w, x)
    PROVE  IsPrefix(w, Append(x, c))
<1> DEFINE y == Append(x, c)
           l == Len(w)
<1>1. /\ x \in Seq(Chars) /\ y \in Seq(Chars) /\ Len(y) = Len(x) + 1
      /\ \A i \in 1..Len(x) : y[i] = x[i]
      /\ l \in Nat /\ Len(x) \in Nat
  BY DEF Text
<1>2. l <= Len(x) /\ SubSeq(w, 1, l) = SubSeq(x, 1, l)
  BY DEF IsPrefix
<1> HIDE DEF y, l
<1>3. SubSeq(x, 1, l) = SubSeq(y, 1, l)
  <2> DEFINE u == SubSeq(x, 1, l)
             v == SubSeq(y, 1, l)
  <2>1. u \in Seq(Chars) /\ Len(u) = l /\ \A i \in 1..l : u[i] = x[i]
    BY <1>1, <1>2
  <2>2. v \in Seq(Chars) /\ Len(v) = l /\ \A i \in 1..l : v[i] = y[i]
    BY <1>1, <1>2
  <2>3. \A i \in 1..l : x[i] = y[i]
    BY <1>1, <1>2
  <2> HIDE DEF u, v
  <2>4. u = v
    BY <2>1, <2>2, <2>3
  <2> QED BY <2>4 DEF u, v
<1> QED BY <1>1, <1>2, <1>3 DEF IsPrefix, y, l

\* The first string of a map is a map of its own.
LEMMA SpacesType ==
    ASSUME map \in Maps
    PROVE  Single(Spaces) /\ map.strings[NumStrings] \in Seq(Letters)
<1>1. /\ 1 \in 1..NumStrings /\ NumStrings \in 1..NumStrings /\ 1 \in 0..StrLimit
  BY SearchAssumption DEF StrLimit
<1>2. map.strings \in [1..NumStrings -> Word] /\ "strings" \in DOMAIN map
  BY DEF Maps
<1>3. map.strings[1] \in Word /\ map.strings[NumStrings] \in Word
  BY <1>1, <1>2
<1>4. Spaces.strings = <<map.strings[1]>>
  BY DEF Maps, Spaces
<1>5. <<map.strings[1]>> \in [1..1 -> Word]
  BY <1>3
<1>6. IsMap(Spaces)
  BY <1>1, <1>4, <1>5 DEF IsMap
<1>7. DOMAIN Spaces.strings = {1}
  BY <1>4
<1> QED BY <1>3, <1>6, <1>7 DEF Single, Word

\* Once the spaces are known to be over they stay so, and what was found behind
\* them is not lost: with l_string_skipSpaceAndMatchUntil a caller can act on
\* what it has before the rest arrives.
THEOREM SkippedForGood == Spec => SpacesStay
<1> DEFINE sub == map.strings[NumStrings]
           found(s) == SkipSpaceAndMatch(Spaces, map, s)
           foundSub(s) == SkipSpaceAndMatchSub(Spaces, sub, s)
           Kept == /\ TrimHead(Spaces, text') = TrimHead(Spaces, text)
                   /\ found(text) # 0 => found(text') >= found(text)
                   /\ foundSub(text) # 0 => foundSub(text') = foundSub(text)
<1>1. SearchInv /\ [Next]_vars =>
        (SkipSpaceAndMatchUntil(Spaces, map, text) # 0 => Kept)
  <2> SUFFICES ASSUME SearchInv, [Next]_vars,
                      SkipSpaceAndMatchUntil(Spaces, map, text) # 0
               PROVE  Kept
    OBVIOUS
  <2> DEFINE n == MatchRepeat(Spaces, text)
             x == From(text, n)
  <2>1. map \in Maps /\ IsMap(map) /\ text \in Text /\ Len(text) \in Nat
    BY MapsMatch DEF SearchInv, Text
  <2>2. Single(Spaces) /\ IsMap(Spaces) /\ sub \in Seq(Letters)
    BY <2>1, SpacesType DEF Single
  <2>3. n \in 0..Len(text) /\ ~Hit(Spaces, text, n)
    BY <2>1, <2>2, RepeatCounts
  <2>4. x \in Text
    BY <2>1, <2>3, FromType
  <2>5. Unmatched(Spaces, x)
    <3> DEFINE e == MatchEx(Spaces, x)
    <3>1. e.kind # "short"
      BY DEF SkipSpaceAndMatchUntil, TrimHead, Complete
    <3>2. e.kind # "match"
      BY <2>3 DEF Hit
    <3>3. Answered(Spaces, x, e)
      BY <2>2, <2>4, MatchExAnswers
    <3> HIDE DEF e
    <3>4. e = NoMatch
      BY <3>1, <3>2, <3>3 DEF Answered
    <3> QED BY <3>4 DEF Unmatched, e
  <2> HIDE DEF n, x
  <2>6. found(text) # 0 =>
          /\ MatchEx(map, x).kind = "match"
          /\ found(text) = n + MatchEx(map, x).end
    BY DEF SkipSpaceAndMatch, TrimHead, n, x
  <2>7. foundSub(text) # 0 => IsPrefix(sub, x) /\ foundSub(text) = n + Len(sub)
    BY DEF SkipSpaceAndMatchSub, TrimHead, n, x
  <2>8. found(text) # 0 => MatchEx(map, x).end \in Nat
    <3> SUFFICES ASSUME found(text) # 0 PROVE MatchEx(map, x).end \in Nat
      OBVIOUS
    <3>1. MatchEx(map, x).end \in 1..Len(x)
      BY <2>1, <2>4, <2>6, MatchEnds
    <3>2. Len(x) \in Nat
      BY <2>4 DEF Text
    <3> QED BY <3>1, <3>2
  <2>9. CASE text' = text
    <3>1. TrimHead(Spaces, text') = TrimHead(Spaces, text)
      BY <2>9
    <3>2. found(text) # 0 => found(text) >= found(text)
      <4> HIDE DEF found
      <4>1. found(text) # 0 => found(text) \in Nat
        BY <2>3, <2>6, <2>8
      <4> QED BY <4>1
    <3> QED BY <2>9, <3>1, <3>2
  <2>10. ASSUME NEW c \in Chars, text' = Append(text, c)
         PROVE  Kept
    <3> DEFINE y == Append(x, c)
    <3>1. MatchRepeat(Spaces, text') = n
      BY <2>1, <2>2, <2>5, <2>10, SkippedStays DEF n, x
    <3>2. From(text', n) = y
      BY <2>1, <2>3, <2>10, FromAppend DEF x
    <3> HIDE DEF y
    <3>3. found(text') = IF MatchEx(map, y).kind = "match"
                         THEN n + MatchEx(map, y).end ELSE 0
      BY <3>1, <3>2 DEF SkipSpaceAndMatch, TrimHead
    <3>4. foundSub(text') = IF IsPrefix(sub, y) THEN n + Len(sub) ELSE 0
      BY <3>1, <3>2 DEF SkipSpaceAndMatchSub, TrimHead
    <3>5. found(text) # 0 => found(text') >= found(text)
      <4> HIDE DEF found
      <4> SUFFICES ASSUME found(text) # 0 PROVE found(text') >= found(text)
        OBVIOUS
      <4> DEFINE d == MatchEx(map, x).end
                 e == MatchEx(map, y).end
      <4>1. MatchEx(map, y).kind = "match" /\ e >= d
        BY <2>1, <2>4, <2>6, MatchGrows DEF y
      <4>2. e \in Nat
        <5>1. y \in Text
          BY <2>4 DEF y, Text
        <5>2. e \in 1..Len(y) /\ Len(y) \in Nat
          BY <2>1, <4>1, <5>1, MatchEnds DEF Text
        <5> QED BY <5>2
      <4>3. found(text) = n + d /\ found(text') = n + e /\ d \in Nat
        BY <2>6, <2>8, <3>3, <4>1
      <4>4. n \in Nat
        BY <2>1, <2>3
      <4> HIDE DEF d, e
      <4> QED BY <4>1, <4>2, <4>3, <4>4
    <3>6. foundSub(text) # 0 => foundSub(text') = foundSub(text)
      <4> HIDE DEF foundSub, sub
      <4> SUFFICES ASSUME foundSub(text) # 0 PROVE foundSub(text') = foundSub(text)
        OBVIOUS
      <4>1. IsPrefix(sub, y)
        BY <2>2, <2>4, <2>7, PrefixStays DEF y
      <4> QED BY <2>7, <3>4, <4>1
    <3>7. TrimHead(Spaces, text') = TrimHead(Spaces, text)
      BY <3>1 DEF TrimHead, n
    <3> QED BY <3>5, <3>6, <3>7
  <2> QED BY <2>1, <2>9, <2>10, NextSearch
<1> QED BY <1>1, SearchInvariance, PTL DEF Spec, SpacesStay
=============================================================================
