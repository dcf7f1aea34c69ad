------------------------- MODULE HttpReceive_proofs -------------------------
(***************************************************************************)
(* Proofs about module HttpReceive, for every set of streams, every line   *)
(* length, limit and body length, and any number of connections.           *)
(*                                                                         *)
(* The invariant has three parts, each inductive with those before it.     *)
(* Control: what the coroutine runs, and the registry.  Data: the buffer   *)
(* is what came of the stream, the positions are in order, and a short     *)
(* read means that nothing is left behind.  Exact: the lines that were     *)
(* read are those of the stream, and what is known of the request is what  *)
(* they say.                                                               *)
(*                                                                         *)
(* The search of match.c and the reference definitions of lines are        *)
(* recursive functions; what they compute is shown by counting.            *)
(***************************************************************************)
EXTENDS HttpReceive, FiniteSetTheorems, FunctionTheorems, SequenceTheorems, TLAPS

-----------------------------------------------------------------------------
(* Natural numbers.                                                        *)

\* Counting reaches every number: otherwise adding 1 would map the numbers that
\* are reached below one that is not into themselves without 0.
LEMMA Counting ==
    ASSUME NEW T \in SUBSET Nat, 0 \in T, \A n \in T : n + 1 \in T
    PROVE  T = Nat
<1> SUFFICES ASSUME NEW n \in Nat, n \notin T PROVE FALSE
  OBVIOUS
<1> DEFINE S == T \intersect (0..n)
           f == [x \in S |-> x + 1]
<1>1. IsFiniteSet(0..n) /\ S \in SUBSET (0..n)
  BY FS_Interval
<1>2. IsFiniteSet(S)
  BY <1>1, FS_Subset
<1>3. /\ 0 \in S /\ IsFiniteSet(S \ {0})
      /\ Cardinality(S \ {0}) = Cardinality(S) - 1
  BY <1>2, FS_RemoveElement
<1>4. \A x \in S : x + 1 \in S \ {0}
  <2> SUFFICES ASSUME NEW x \in S PROVE x + 1 \in S \ {0}
    OBVIOUS
  <2>1. x \in Nat /\ x <= n /\ x # n
    OBVIOUS
  <2> QED BY <2>1
<1>5. f \in Injection(S, S \ {0})
  <2>1. f \in [S -> S \ {0}]
    BY <1>4
  <2>2. \A x, y \in S : f[x] = f[y] => x = y
    OBVIOUS
  <2> QED BY <2>1, <2>2 DEF Injection, IsInjective
<1>6. Cardinality(S) <= Cardinality(S \ {0})
  BY <1>3, <1>5, FS_Injection
<1>7. Cardinality(S) \in Nat
  BY <1>2, FS_CardinalityType
<1> QED BY <1>3, <1>6, <1>7

\* Counting up to a bound.
LEMMA CountingTo ==
    ASSUME NEW b \in Nat, NEW T, 0 \in T, \A n \in 0..b - 1 : n \in T => n + 1 \in T
    PROVE  \A n \in 0..b : n \in T
<1> DEFINE U == {n \in Nat : n <= b => n \in T}
<1>1. \A n \in U : n + 1 \in U
  OBVIOUS
<1>2. U = Nat
  BY <1>1, Counting
<1> QED BY <1>2

\* A set of natural numbers has a least one.
LEMMA MinOf ==
    ASSUME NEW S \in SUBSET Nat, S # {}
    PROVE  Min(S) \in S /\ \A k \in S : Min(S) <= k
<1> SUFFICES \E m \in S : \A k \in S : m <= k
  BY DEF Min
<1> SUFFICES ASSUME \A m \in S : \E k \in S : k < m PROVE FALSE
  OBVIOUS
<1> DEFINE T == {n \in Nat : \A k \in 0..n : k \notin S}
<1>1. 0 \in T
  OBVIOUS
<1>2. \A n \in T : n + 1 \in T
  <2> SUFFICES ASSUME NEW n \in T, n + 1 \in S PROVE FALSE
    OBVIOUS
  <2>1. PICK k \in S : k < n + 1
    OBVIOUS
  <2>2. k \in 0..n
    BY <2>1
  <2> QED BY <2>2
<1>3. T \in SUBSET Nat
  OBVIOUS
<1>4. T = Nat
  <2> HIDE DEF T
  <2> QED BY <1>1, <1>2, <1>3, Counting
<1>5. \A n \in Nat : n \notin S
  BY <1>4
<1> QED BY <1>5

\* A set of natural numbers with a bound has a greatest one.
LEMMA MaxOf ==
    ASSUME NEW b \in Nat, NEW S \in SUBSET (0..b), S # {}
    PROVE  Max(S) \in S /\ \A k \in S : k <= Max(S)
<1> SUFFICES \E m \in S : \A k \in S : m >= k
  BY DEF Max
<1> DEFINE T == {n \in 0..b : \A k \in S : k <= n}
<1>1. T \in SUBSET Nat /\ b \in T
  OBVIOUS
<1>2. PICK m \in T : \A n \in T : m <= n
  BY <1>1, MinOf
<1>3. m \in S
  <2> SUFFICES ASSUME m \notin S PROVE FALSE
    OBVIOUS
  <2>1. \A k \in S : k <= m - 1
    OBVIOUS
  <2>2. m - 1 \in 0..b
    <3>1. PICK k \in S : TRUE
      OBVIOUS
    <3>2. k \in Nat /\ k <= m - 1 /\ m \in 0..b
      BY <2>1, <3>1
    <3> QED BY <3>2
  <2>3. m - 1 \in T
    BY <2>1, <2>2
  <2>4. m <= m - 1
    BY <1>2, <2>3
  <2> QED BY <2>2, <2>4
<1> QED BY <1>2, <1>3

\* The lesser of two numbers.
LEMMA MinOfTwo ==
    ASSUME NEW a \in Nat, NEW b \in Nat
    PROVE  /\ Min({a, b}) \in Nat
           /\ Min({a, b}) = IF a <= b THEN a ELSE b
<1>1. Min({a, b}) \in {a, b} /\ \A k \in {a, b} : Min({a, b}) <= k
  BY MinOf
<1> QED BY <1>1

-----------------------------------------------------------------------------
(* Line ends.                                                              *)

Text == Seq(STRING)

\* The five line ends.
LEMMA NewlineStrings ==
    /\ DOMAIN Newlines.strings = 1..5 /\ Newlines.cased = TRUE
    /\ Newlines.strings[1] = <<LF, CR>> /\ Newlines.strings[2] = <<CR, LF>>
    /\ Newlines.strings[3] = <<LF>> /\ Newlines.strings[4] = <<CR>>
    /\ Newlines.strings[5] = <<"u", "v">>
BY DEF Newlines

\* The characters of line ends differ.
LEMMA Distinct == CR # LF /\ CR # "u" /\ LF # "u" /\ CR # "v" /\ LF # "v"
BY DEF CR, LF

LEMMA NewlineLengths ==
    /\ \A k \in 1..5 : Len(Newlines.strings[k]) = IF k \in {3, 4} THEN 1 ELSE 2
    /\ \A k \in 1..5 : Newlines.strings[k] \in Seq({CR, LF, "u", "v"}) /\ Newlines.strings[k] # <<>>
<1>1. /\ Len(<<LF, CR>>) = 2 /\ Len(<<CR, LF>>) = 2 /\ Len(<<LF>>) = 1
      /\ Len(<<CR>>) = 1 /\ Len(<<"u", "v">>) = 2
  OBVIOUS
<1>3. 1..5 = {1, 2, 3, 4, 5}
  OBVIOUS
<1>4. \A k \in 1..5 : Len(Newlines.strings[k]) = IF k \in {3, 4} THEN 1 ELSE 2
  BY <1>1, <1>3, NewlineStrings
<1>5. \A k \in 1..5 : Newlines.strings[k] \in Seq({CR, LF, "u", "v"})
  <2> DEFINE L == {CR, LF, "u", "v"}
  <2>1. CR \in L /\ LF \in L /\ "u" \in L /\ "v" \in L
    OBVIOUS
  <2> HIDE DEF L
  <2>2. /\ <<LF, CR>> \in Seq(L) /\ <<CR, LF>> \in Seq(L) /\ <<LF>> \in Seq(L)
        /\ <<CR>> \in Seq(L) /\ <<"u", "v">> \in Seq(L)
    BY <2>1
  <2> QED BY <1>3, <2>2, NewlineStrings DEF L
<1>6. ASSUME NEW k \in 1..5 PROVE Newlines.strings[k] # <<>>
  <2>1. Len(Newlines.strings[k]) = 1 \/ Len(Newlines.strings[k]) = 2
    BY <1>4
  <2>2. Len(<<>>) = 0
    OBVIOUS
  <2> QED BY <2>1, <2>2
<1> QED BY <1>4, <1>5, <1>6

\* All five are in the map, and the longest has two characters.
LEMMA NewlineStored == Stored(Newlines) = 1..5 /\ Size(Newlines) = 2
<1>1. Stored(Newlines) = 1..5
  BY NewlineStrings, NewlineLengths DEF Stored, StrLimit
<1> DEFINE S == {Len(Newlines.strings[k]) : k \in DOMAIN Newlines.strings} \union {1}
<1>2. S = {1, 2}
  <2>1. \A k \in 1..5 : Len(Newlines.strings[k]) \in {1, 2}
    BY NewlineLengths
  <2>2. Len(Newlines.strings[1]) = 2
    BY NewlineLengths
  <2>3. S \subseteq {1, 2} /\ 1 \in S
    BY <2>1, NewlineStrings
  <2>4. 2 \in S
    <3>1. 1 \in DOMAIN Newlines.strings
      BY NewlineStrings
    <3> QED BY <2>2, <3>1
  <2> QED BY <2>3, <2>4
<1>3. Max({1, 2}) = 2
  <2>1. {1, 2} \in SUBSET (0..2) /\ {1, 2} # {}
    OBVIOUS
  <2>2. Max({1, 2}) \in {1, 2} /\ \A k \in {1, 2} : k <= Max({1, 2})
    BY <2>1, MaxOf
  <2> QED BY <2>2
<1> QED BY <1>1, <1>2, <1>3 DEF Size

\* The strings that have a character at a place.
LEMMA NewlineChars ==
    ASSUME NEW ch, NEW i \in Nat
    PROVE  /\ WithChar(Newlines, i, ch) =
                {k \in 1..5 : i <= Len(Newlines.strings[k]) /\ Newlines.strings[k][i] = ch}
           /\ EndingWith(Newlines, i, ch) =
                {k \in WithChar(Newlines, i, ch) : i = Len(Newlines.strings[k])}
<1>1. \A x, y : Same(Newlines, x, y) <=> x = y
  BY NewlineStrings DEF Same
<1> QED BY <1>1, NewlineStored DEF WithChar, EndingWith

\* The line ends that begin with a character, and those of one character.
LEMMA FirstChars ==
    ASSUME NEW ch
    PROVE  /\ WithChar(Newlines, 1, ch) =
                IF ch = LF THEN {1, 3} ELSE IF ch = CR THEN {2, 4}
                ELSE IF ch = "u" THEN {5} ELSE {}
           /\ EndingWith(Newlines, 1, ch) = WithChar(Newlines, 1, ch) \intersect {3, 4}
<1>1. 1..5 = {1, 2, 3, 4, 5}
  OBVIOUS
<1>2. /\ Newlines.strings[1][1] = LF /\ Newlines.strings[2][1] = CR
      /\ Newlines.strings[3][1] = LF /\ Newlines.strings[4][1] = CR
      /\ Newlines.strings[5][1] = "u"
  BY NewlineStrings
<1>3. \A k \in 1..5 : 1 <= Len(Newlines.strings[k])
  BY NewlineLengths
<1>4. WithChar(Newlines, 1, ch) = {k \in 1..5 : Newlines.strings[k][1] = ch}
  BY <1>3, NewlineChars
<1>5. WithChar(Newlines, 1, ch) =
        IF ch = LF THEN {1, 3} ELSE IF ch = CR THEN {2, 4}
        ELSE IF ch = "u" THEN {5} ELSE {}
  BY <1>1, <1>2, <1>4, Distinct
<1>6. \A k \in 1..5 : 1 = Len(Newlines.strings[k]) <=> k \in {3, 4}
  BY NewlineLengths
<1>7. EndingWith(Newlines, 1, ch) =
        {k \in WithChar(Newlines, 1, ch) : 1 = Len(Newlines.strings[k])}
  BY NewlineChars
<1>8. WithChar(Newlines, 1, ch) \subseteq 1..5
  BY <1>4
<1>9. EndingWith(Newlines, 1, ch) = WithChar(Newlines, 1, ch) \intersect {3, 4}
  BY <1>6, <1>7, <1>8
<1> QED BY <1>5, <1>9

\* The line ends with a second character.
LEMMA SecondChars ==
    ASSUME NEW ch
    PROVE  /\ WithChar(Newlines, 2, ch) =
                IF ch = CR THEN {1} ELSE IF ch = LF THEN {2}
                ELSE IF ch = "v" THEN {5} ELSE {}
           /\ EndingWith(Newlines, 2, ch) = WithChar(Newlines, 2, ch)
<1>1. 1..5 = {1, 2, 3, 4, 5}
  OBVIOUS
<1>2. /\ Newlines.strings[1][2] = CR /\ Newlines.strings[2][2] = LF
      /\ Newlines.strings[5][2] = "v"
  BY NewlineStrings
<1>3. \A k \in 1..5 : 2 <= Len(Newlines.strings[k]) <=> k \in {1, 2, 5}
  <2> SUFFICES ASSUME NEW k \in 1..5
               PROVE  2 <= Len(Newlines.strings[k]) <=> k \in {1, 2, 5}
    OBVIOUS
  <2> DEFINE l == Len(Newlines.strings[k])
  <2>1. l = IF k \in {3, 4} THEN 1 ELSE 2
    BY NewlineLengths
  <2> HIDE DEF l
  <2>2. 2 <= l <=> k \notin {3, 4}
    BY <2>1
  <2>3. k \notin {3, 4} <=> k \in {1, 2, 5}
    OBVIOUS
  <2> QED BY <2>2, <2>3 DEF l
<1>4. WithChar(Newlines, 2, ch) = {k \in {1, 2, 5} : Newlines.strings[k][2] = ch}
  <2>1. WithChar(Newlines, 2, ch) =
          {k \in 1..5 : 2 <= Len(Newlines.strings[k]) /\ Newlines.strings[k][2] = ch}
    BY NewlineChars
  <2> QED BY <1>1, <1>3, <2>1
<1>5. WithChar(Newlines, 2, ch) =
        IF ch = CR THEN {1} ELSE IF ch = LF THEN {2} ELSE IF ch = "v" THEN {5} ELSE {}
  BY <1>2, <1>4, Distinct
<1>6. \A k \in {1, 2, 5} : 2 = Len(Newlines.strings[k])
  BY NewlineLengths
<1>7. EndingWith(Newlines, 2, ch) =
        {k \in WithChar(Newlines, 2, ch) : 2 = Len(Newlines.strings[k])}
  BY NewlineChars
<1>8. WithChar(Newlines, 2, ch) \subseteq {1, 2, 5}
  BY <1>4
<1>9. EndingWith(Newlines, 2, ch) = WithChar(Newlines, 2, ch)
  BY <1>6, <1>7, <1>8
<1> QED BY <1>5, <1>9

\* A line end begins at place i, and how long it is.
IsBreak(s, i) ==
    \/ s[i + 1] \in {CR, LF}
    \/ s[i + 1] = "u" /\ i + 2 <= Len(s) /\ s[i + 2] = "v"

IsPair(x, y) == <<x, y>> \in {<<CR, LF>>, <<LF, CR>>}

Width(s, i) ==
    IF s[i + 1] = "u" \/ (i + 2 <= Len(s) /\ IsPair(s[i + 1], s[i + 2])) THEN 2 ELSE 1

LEMMA Pairs ==
    ASSUME NEW x, NEW y
    PROVE  IsPair(x, y) <=> (x = CR /\ y = LF) \/ (x = LF /\ y = CR)
BY DEF IsPair

\* The state of the loop of l_string_matchEx.
Turned ==
    [cur : SUBSET Nat, p : Nat, ends : SUBSET Nat, stop : {"", "mismatch", "match"}]

\* The first turn of the loop.
LEMMA FirstTurn ==
    ASSUME NEW s
    PROVE  LET t == Turn(Newlines, s, 1, AtStart(Newlines)) IN
             /\ t \in Turned
             /\ s[1] \in {CR, LF} => t.p = 1
             /\ s[1] \notin {CR, LF} => t.p = 0
             /\ s[1] \in {CR, LF, "u"} => t.stop = "" /\ t.cur = WithChar(Newlines, 1, s[1])
             /\ s[1] \notin {CR, LF, "u"} => t.stop = "mismatch"
<1> DEFINE a == AtStart(Newlines)
           w == WithChar(Newlines, 1, s[1])
           ends == w \intersect {3, 4}
           t == Turn(Newlines, s, 1, a)
<1>1. a = [cur |-> 1..5, p |-> 0, ends |-> {}, stop |-> ""]
  BY NewlineStored DEF AtStart
<1> HIDE DEF a
<1>2. w = IF s[1] = LF THEN {1, 3} ELSE IF s[1] = CR THEN {2, 4}
          ELSE IF s[1] = "u" THEN {5} ELSE {}
  BY FirstChars
<1>3. EndingWith(Newlines, 1, s[1]) = ends
  BY FirstChars
<1>4. a.cur \intersect w = w /\ w \intersect ends = ends /\ w \in SUBSET Nat
  <2>1. w \subseteq 1..5
    BY <1>2
  <2>2. a.cur = 1..5
    BY <1>1
  <2> HIDE DEF w
  <2>3. 1..5 \in SUBSET Nat
    OBVIOUS
  <2> QED BY <2>1, <2>2, <2>3
<1>5. t = IF w = {} THEN [a EXCEPT !.stop = "mismatch"]
          ELSE IF ends = {} THEN [a EXCEPT !.cur = w]
          ELSE [cur |-> w, p |-> 1, ends |-> ends,
                stop |-> IF FirstEnds(w, ends) THEN "match" ELSE ""]
  <2>1. a.stop = ""
    BY <1>1
  <2>2. a.cur \intersect WithChar(Newlines, 1, s[1]) = w
    BY <1>4
  <2>3. w \intersect EndingWith(Newlines, 1, s[1]) = ends
    BY <1>3, <1>4
  <2> HIDE DEF w, ends
  <2> QED BY <2>1, <2>2, <2>3 DEF Turn, t
<1>6. a \in Turned
  <2>1. 1..5 \in SUBSET Nat
    OBVIOUS
  <2> QED BY <1>1, <2>1 DEF Turned
<1> HIDE DEF w, t
<1>7. CASE s[1] \in {CR, LF}
  <2> DEFINE k == IF s[1] = LF THEN 1 ELSE 2
  <2>1. w = {k, k + 2} /\ ends = {k + 2}
    BY <1>2, <1>7, Distinct
  <2>2. Min(w) = k
    <3>1. Min({k, k + 2}) = k
      BY MinOfTwo
    <3> QED BY <2>1, <3>1
  <2>3. ~FirstEnds(w, ends)
    BY <2>1, <2>2 DEF FirstEnds
  <2>4. w # {} /\ ends # {}
    BY <2>1
  <2> HIDE DEF ends, k
  <2>5. t = [cur |-> w, p |-> 1, ends |-> ends, stop |-> ""]
    BY <1>5, <2>3, <2>4
  <2>6. ends \in SUBSET Nat
    BY <1>4 DEF ends
  <2>7. t.p = 1 /\ t.stop = "" /\ t.cur = w /\ t \in Turned
    BY <1>4, <2>5, <2>6 DEF Turned
  <2> QED BY <1>7, <2>7 DEF t, a, w
<1>8. CASE s[1] = "u"
  <2>1. w = {5} /\ ends = {}
    BY <1>2, <1>8, Distinct
  <2>2. w # {}
    BY <2>1
  <2> HIDE DEF ends
  <2>3. t = [a EXCEPT !.cur = w]
    BY <1>5, <2>1, <2>2
  <2>4. t.p = 0 /\ t.stop = "" /\ t.cur = w
    BY <1>1, <2>3
  <2>5. t \in Turned
    BY <1>4, <1>6, <2>3 DEF Turned
  <2> QED BY <1>8, <2>4, <2>5, Distinct DEF t, a, w
<1>9. CASE s[1] \notin {CR, LF, "u"}
  <2>1. w = {}
    BY <1>2, <1>9
  <2>2. t = [a EXCEPT !.stop = "mismatch"]
    BY <1>5, <2>1
  <2>3. t.p = 0 /\ t.stop = "mismatch"
    BY <1>1, <2>2
  <2>4. t \in Turned
    BY <1>6, <2>2 DEF Turned
  <2> QED BY <1>9, <2>3, <2>4 DEF t, a, w
<1> QED BY <1>7, <1>8, <1>9

\* Which of them a second character belongs to.
LEMMA SecondOf ==
    ASSUME NEW y, NEW w, w = WithChar(Newlines, 2, y)
    PROVE  /\ (1 \in w \/ 3 \in w) <=> y = CR
           /\ (2 \in w \/ 4 \in w) <=> y = LF
           /\ 5 \in w <=> y = "v"
<1>1. w = IF y = CR THEN {1} ELSE IF y = LF THEN {2} ELSE IF y = "v" THEN {5} ELSE {}
  BY SecondChars
<1>2. CASE y = CR
  <2>1. y # LF /\ y # "v"
    BY <1>2, Distinct
  <2>2. w = {1}
    BY <1>1, <1>2, <2>1
  <2> QED BY <1>2, <2>1, <2>2
<1>3. CASE y = LF
  <2>1. y # CR /\ y # "v"
    BY <1>3, Distinct
  <2>2. w = {2}
    BY <1>1, <1>3, <2>1
  <2> QED BY <1>3, <2>1, <2>2
<1>4. CASE y = "v"
  <2>1. y # CR /\ y # LF
    BY <1>4, Distinct
  <2>2. w = {5}
    BY <1>1, <1>4, <2>1
  <2> QED BY <1>4, <2>1, <2>2
<1>5. CASE y # CR /\ y # LF /\ y # "v"
  <2>1. w = {}
    BY <1>1, <1>5
  <2> QED BY <1>5, <2>1
<1> QED BY <1>2, <1>3, <1>4, <1>5

\* The second character of a line end whose first is x.
Follows(x, y) == \/ x = LF /\ y = CR
                 \/ x = CR /\ y = LF
                 \/ x = "u" /\ y = "v"

\* The second turn.
LEMMA SecondTurn ==
    ASSUME NEW s, NEW t \in Turned, NEW x \in {CR, LF, "u"},
           t.stop = "", t.cur = WithChar(Newlines, 1, x)
    PROVE  LET u == Turn(Newlines, s, 2, t) IN
             IF Follows(x, s[2]) THEN u.p = 2 ELSE u.p = t.p /\ u.stop = "mismatch"
<1> DEFINE w == WithChar(Newlines, 2, s[2])
           cur == t.cur \intersect w
           u == Turn(Newlines, s, 2, t)
<1>1. w = IF s[2] = CR THEN {1} ELSE IF s[2] = LF THEN {2}
          ELSE IF s[2] = "v" THEN {5} ELSE {}
  BY SecondChars
<1>2. EndingWith(Newlines, 2, s[2]) = w
  BY SecondChars
<1>3. cur \intersect EndingWith(Newlines, 2, s[2]) = cur
  BY <1>2
<1>4. u = IF cur = {} THEN [t EXCEPT !.stop = "mismatch"]
          ELSE [cur |-> cur, p |-> 2, ends |-> cur,
                stop |-> IF FirstEnds(cur, cur) THEN "match" ELSE ""]
  BY <1>3 DEF Turn
<1>5. t.cur = IF x = LF THEN {1, 3} ELSE IF x = CR THEN {2, 4} ELSE {5}
  BY FirstChars
<1>6. cur # {} <=> Follows(x, s[2])
  <2> HIDE DEF w
  <2> DEFINE y == s[2]
  <2>0. Follows(x, y) <=> (x = LF /\ y = CR) \/ (x = CR /\ y = LF) \/ (x = "u" /\ y = "v")
    BY DEF Follows
  <2>5. /\ (1 \in w \/ 3 \in w) <=> y = CR
        /\ (2 \in w \/ 4 \in w) <=> y = LF
        /\ 5 \in w <=> y = "v"
    BY SecondOf DEF w
  <2> HIDE DEF y
  <2>1. CASE x = LF
    <3>1. t.cur = {1, 3}
      BY <1>5, <2>1
    <3>2. cur # {} <=> 1 \in w \/ 3 \in w
      BY <3>1
    <3> QED BY <2>0, <2>1, <2>5, <3>2, Distinct DEF y
  <2>2. CASE x = CR
    <3>1. t.cur = {2, 4}
      BY <1>5, <2>2, Distinct
    <3>2. cur # {} <=> 2 \in w \/ 4 \in w
      BY <3>1
    <3> QED BY <2>0, <2>2, <2>5, <3>2, Distinct DEF y
  <2>3. CASE x = "u"
    <3>1. t.cur = {5}
      BY <1>5, <2>3, Distinct
    <3>2. cur # {} <=> 5 \in w
      BY <3>1
    <3> QED BY <2>0, <2>3, <2>5, <3>2, Distinct DEF y
  <2> QED BY <2>1, <2>2, <2>3
<1> HIDE DEF cur, u
<1>7. CASE cur # {}
  <2>1. u = [cur |-> cur, p |-> 2, ends |-> cur,
             stop |-> IF FirstEnds(cur, cur) THEN "match" ELSE ""]
    BY <1>4, <1>7
  <2>2. u.p = 2
    BY <2>1
  <2> QED BY <1>6, <1>7, <2>2 DEF u
<1>8. CASE cur = {}
  <2>1. u = [t EXCEPT !.stop = "mismatch"]
    BY <1>4, <1>8
  <2>2. u.p = t.p /\ u.stop = "mismatch"
    BY <2>1 DEF Turned
  <2> QED BY <1>6, <1>8, <2>2 DEF u
<1> QED BY <1>7, <1>8

\* The loop of l_string_matchEx makes one or two turns.
LEMMA ScanTurns ==
    ASSUME NEW s \in Text, s # <<>>
    PROVE  LET t == Turn(Newlines, s, 1, AtStart(Newlines)) IN
             Scan(Newlines, s) = IF Len(s) = 1 THEN t ELSE Turn(Newlines, s, 2, t)
<1> DEFINE n == Min({Len(s), Size(Newlines)})
           Body(f, i) == IF i = 0 THEN AtStart(Newlines) ELSE Turn(Newlines, s, i, f[i - 1])
           after == CHOOSE f : f = [i \in 0..n |-> Body(f, i)]
           t == Turn(Newlines, s, 1, AtStart(Newlines))
           v == Turn(Newlines, s, 2, t)
           g == [i \in 0..n |-> IF i = 0 THEN AtStart(Newlines) ELSE IF i = 1 THEN t ELSE v]
<1>1. Len(s) \in Nat /\ Len(s) > 0
  BY DEF Text
<1>2. n = IF Len(s) = 1 THEN 1 ELSE 2
  <2>1. n = Min({Len(s), 2})
    BY NewlineStored
  <2>2. Min({Len(s), 2}) = IF Len(s) <= 2 THEN Len(s) ELSE 2
    BY <1>1, MinOfTwo
  <2> DEFINE l == Len(s)
  <2> HIDE DEF n, l
  <2>3. l \in Nat /\ l > 0 /\ n = IF l <= 2 THEN l ELSE 2
    BY <1>1, <2>1, <2>2 DEF l
  <2>4. n = IF l = 1 THEN 1 ELSE 2
    BY <2>3
  <2> QED BY <2>4 DEF l
<1>3. g = [i \in 0..n |-> Body(g, i)]
  <2>1. n \in Nat /\ 0 \in 0..n /\ 1 \in 0..n /\ \A i \in 0..n : i \in {0, 1, 2}
    <3> HIDE DEF n
    <3> QED BY <1>2
  <2> HIDE DEF n
  <2>2. g[0] = AtStart(Newlines) /\ g[1] = t
    BY <2>1
  <2>3. Body(g, 0) = AtStart(Newlines) /\ Body(g, 1) = t /\ Body(g, 2) = v
    <3>1. 1 - 1 = 0 /\ 2 - 1 = 1
      OBVIOUS
    <3> HIDE DEF g
    <3> QED BY <2>2, <3>1
  <2>4. ASSUME NEW i \in 0..n PROVE g[i] = Body(g, i)
    <3>1. g[i] = IF i = 0 THEN AtStart(Newlines) ELSE IF i = 1 THEN t ELSE v
      OBVIOUS
    <3> HIDE DEF g, t, v, Body
    <3> QED BY <2>1, <2>3, <3>1
  <2> QED BY <2>4
<1>4. after = [i \in 0..n |-> Body(after, i)]
  <2> HIDE DEF g, n, Body
  <2> QED BY <1>3
<1>5. Scan(Newlines, s) = after[n]
  BY DEF Scan
<1> HIDE DEF after
<1>6. n \in 0..n /\ 0 \in 0..n /\ 1 \in 0..n
  BY <1>2
<1>7. after[0] = AtStart(Newlines)
  BY <1>4, <1>6
<1>8. after[1] = t
  <2>1. after[1] = Turn(Newlines, s, 1, after[1 - 1])
    BY <1>4, <1>6
  <2>2. 1 - 1 = 0
    OBVIOUS
  <2> QED BY <1>7, <2>1, <2>2
<1>9. n = 2 => after[2] = v
  <2> SUFFICES ASSUME n = 2 PROVE after[2] = v
    OBVIOUS
  <2> HIDE DEF n, v
  <2>1. 2 \in 0..n /\ 2 # 0
    OBVIOUS
  <2>2. after[2] = Body(after, 2)
    <3> HIDE DEF Body
    <3> QED BY <1>4, <2>1
  <2>3. 2 - 1 = 1
    OBVIOUS
  <2> QED BY <1>8, <2>1, <2>2, <2>3 DEF v
<1> HIDE DEF n, v
<1> QED BY <1>2, <1>5, <1>8, <1>9 DEF v

\* What l_string_matchEx says of a subject and the line ends.
LEMMA MatchNewline ==
    ASSUME NEW s \in Text, s # <<>>
    PROVE  LET e == MatchEx(Newlines, s) IN
             /\ IsBreak(s, 0) => e.kind = "match" /\ e.end = Width(s, 0)
             /\ ~IsBreak(s, 0) => /\ e.kind # "match"
                                  /\ e = NoMatch \/ (Len(s) = 1 /\ s[1] = "u")
             /\ Len(s) = 1 /\ s[1] = "u" => e # NoMatch
<1> DEFINE t == Turn(Newlines, s, 1, AtStart(Newlines))
           v == Turn(Newlines, s, 2, t)
           last == Scan(Newlines, s)
           e == MatchEx(Newlines, s)
           l == Len(s)
<1>0. l \in Nat /\ l > 0
  BY DEF Text
<1> HIDE DEF l
<1>20. l = 1 \/ l >= 2
  BY <1>0
<1>1. last = IF l = 1 THEN t ELSE v
  BY ScanTurns DEF l
<1>2. /\ t \in Turned
      /\ s[1] \in {CR, LF} => t.p = 1
      /\ s[1] \notin {CR, LF} => t.p = 0
      /\ s[1] \in {CR, LF, "u"} => t.stop = "" /\ t.cur = WithChar(Newlines, 1, s[1])
      /\ s[1] \notin {CR, LF, "u"} => t.stop = "mismatch"
  BY FirstTurn
<1> HIDE DEF t
<1>3. s[1] \in {CR, LF, "u"} =>
        IF Follows(s[1], s[2]) THEN v.p = 2 ELSE v.p = t.p /\ v.stop = "mismatch"
  BY <1>2, SecondTurn
<1>4. s[1] \notin {CR, LF, "u"} => v = t
  BY <1>2 DEF Turn
<1> HIDE DEF v
<1>5. e = IF last.p > 0 THEN Matched(last.p, Min(last.ends))
          ELSE IF last.stop = "mismatch" THEN NoMatch ELSE TooShort
  BY DEF MatchEx
<1> HIDE DEF last
<1>6. /\ last.p > 0 => e.kind = "match" /\ e.end = last.p
      /\ ~(last.p > 0) => e.kind # "match"
      /\ ~(last.p > 0) /\ last.stop = "mismatch" => e = NoMatch
      /\ ~(last.p > 0) /\ last.stop # "mismatch" => e # NoMatch
  <2>1. NoMatch.kind = "none" /\ TooShort.kind = "short"
    BY DEF NoMatch, TooShort
  <2>2. \A x, y : Matched(x, y).kind = "match" /\ Matched(x, y).end = x
    BY DEF Matched
  <2> HIDE DEF e, l
  <2> QED BY <1>5, <2>1, <2>2
<1> HIDE DEF e, l
<1>7. /\ IsBreak(s, 0) <=> s[1] \in {CR, LF} \/ (s[1] = "u" /\ l >= 2 /\ s[2] = "v")
      /\ Width(s, 0) = IF s[1] = "u" \/ (l >= 2 /\ IsPair(s[1], s[2])) THEN 2 ELSE 1
  <2>1. 0 + 1 = 1 /\ 0 + 2 = 2
    OBVIOUS
  <2> QED BY <1>0, <2>1 DEF IsBreak, Width, l
<1>8. s[1] \in {CR, LF} => (IsPair(s[1], s[2]) <=> Follows(s[1], s[2]))
  BY Pairs, Distinct DEF Follows
<1>9. s[1] = "u" => (Follows(s[1], s[2]) <=> s[2] = "v")
  BY Distinct DEF Follows
<1>10. CASE s[1] \in {CR, LF}
  <2>1. IsBreak(s, 0) /\ s[1] # "u"
    BY <1>7, <1>10, Distinct
  <2>2. last.p = Width(s, 0) /\ last.p > 0
    <3>0. t.p = 1 /\ Width(s, 0) = IF l >= 2 /\ IsPair(s[1], s[2]) THEN 2 ELSE 1
      BY <1>2, <1>7, <1>10, <2>1
    <3>1. CASE l = 1
      <4>1. last = t /\ Width(s, 0) = 1
        BY <1>1, <3>0, <3>1
      <4> QED BY <3>0, <4>1
    <3>2. CASE l # 1 /\ IsPair(s[1], s[2])
      <4>1. last = v /\ Width(s, 0) = 2
        BY <1>20, <1>1, <3>0, <3>2
      <4>2. v.p = 2
        BY <1>3, <1>8, <1>10, <3>2
      <4> QED BY <4>1, <4>2
    <3>3. CASE l # 1 /\ ~IsPair(s[1], s[2])
      <4>1. last = v /\ Width(s, 0) = 1
        BY <1>20, <1>1, <3>0, <3>3
      <4>2. v.p = 1
        BY <1>3, <1>8, <1>10, <3>0, <3>3
      <4> QED BY <4>1, <4>2
    <3> QED BY <3>1, <3>2, <3>3
  <2> QED BY <1>6, <2>1, <2>2 DEF e, l
<1>11. CASE s[1] = "u"
  <2>0. s[1] \notin {CR, LF} /\ t.p = 0 /\ t.stop = ""
    BY <1>2, <1>11, Distinct
  <2>1. CASE l = 1
    <3>1. last = t /\ ~IsBreak(s, 0)
      <4>1. last = t /\ ~(l >= 2)
        BY <1>1, <2>1
      <4> QED BY <1>7, <2>0, <4>1
    <3>2. last.p = 0 /\ last.stop = ""
      BY <2>0, <3>1
    <3>3. ~(last.p > 0) /\ last.stop # "mismatch"
      <4>1. \A x : x = 0 => ~(x > 0)
        OBVIOUS
      <4> QED BY <3>2, <4>1
    <3>4. e # NoMatch /\ e.kind # "match"
      BY <1>6, <3>3
    <3> QED BY <1>11, <2>1, <3>1, <3>4 DEF e, l
  <2>2. CASE l # 1 /\ s[2] = "v"
    <3>1. last.p = 2 /\ IsBreak(s, 0) /\ Width(s, 0) = 2
      <4>1. last = v /\ l >= 2
        BY <1>20, <1>1, <2>2
      <4>2. v.p = 2
        BY <1>3, <1>9, <1>11, <2>2
      <4>3. IsBreak(s, 0) /\ Width(s, 0) = 2
        BY <1>7, <1>11, <2>2, <4>1
      <4> QED BY <4>1, <4>2, <4>3
    <3> QED BY <1>6, <2>2, <3>1 DEF e, l
  <2>3. CASE l # 1 /\ s[2] # "v"
    <3>1. last.p = 0 /\ last.stop = "mismatch" /\ ~IsBreak(s, 0)
      BY <1>20, <1>1, <1>3, <1>7, <1>9, <1>11, <2>0, <2>3
    <3>2. e = NoMatch /\ e.kind # "match"
      BY <1>6, <3>1
    <3> QED BY <2>3, <3>1, <3>2 DEF e, l
  <2> QED BY <2>1, <2>2, <2>3
<1>12. CASE s[1] \notin {CR, LF, "u"}
  <2>1. last.p = 0 /\ last.stop = "mismatch" /\ ~IsBreak(s, 0)
    BY <1>1, <1>2, <1>4, <1>7, <1>12
  <2>2. e = NoMatch /\ e.kind # "match"
    BY <1>6, <2>1
  <2> QED BY <1>12, <2>1, <2>2 DEF e, l
<1> QED BY <1>10, <1>11, <1>12

-----------------------------------------------------------------------------
(* The search for a line end.                                              *)

\* The subject ends with a character that may turn out to begin a line end.
Dangles(s, i) == i + 1 = Len(s) /\ s[i + 1] = "u"

\* What is left of a subject.
LEMMA FromType ==
    ASSUME NEW s \in Text, NEW j \in 0..Len(s)
    PROVE  /\ From(s, j) \in Text
           /\ Len(From(s, j)) = Len(s) - j
           /\ \A i \in 1..Len(s) - j : From(s, j)[i] = s[j + i]
<1>1. s \in Seq(STRING) /\ j + 1 \in 1..Len(s) + 1 /\ Len(s) \in Nat
  BY DEF Text
<1>2. From(s, j) = SubSeq(s, j + 1, Len(s))
  BY DEF From
<1>3. SubSeq(s, j + 1, Len(s)) \in Seq(STRING)
  BY <1>1
<1>4. Len(SubSeq(s, j + 1, Len(s))) = Len(s) - j
  BY <1>1
<1>5. \A i \in 1..Len(s) - j : SubSeq(s, j + 1, Len(s))[i] = s[j + i]
  BY <1>1
<1> QED BY <1>2, <1>3, <1>4, <1>5 DEF Text

\* A line end at the beginning of what is left.
LEMMA BreakFrom ==
    ASSUME NEW s \in Text, NEW j \in 0..Len(s) - 1
    PROVE  /\ From(s, j) \in Text /\ From(s, j) # <<>>
           /\ IsBreak(From(s, j), 0) <=> IsBreak(s, j)
           /\ Width(From(s, j), 0) = Width(s, j)
           /\ Len(From(s, j)) = 1 /\ From(s, j)[1] = "u" <=> Dangles(s, j)
<1> DEFINE r == From(s, j)
           l == Len(s)
           rl == Len(r)
<1>1. l \in Nat /\ j \in 0..l /\ j < l /\ j \in Nat
  BY DEF Text
<1>2. /\ r \in Text /\ rl = l - j
      /\ \A i \in 1..l - j : r[i] = s[j + i]
  BY <1>1, FromType
<1>3. r # <<>>
  BY <1>1, <1>2 DEF Text
<1>4. r[1] = s[j + 1]
  BY <1>1, <1>2
<1>5. rl >= 2 <=> j + 2 <= l
  BY <1>1, <1>2
<1>6. rl >= 2 => r[2] = s[j + 2]
  BY <1>1, <1>2
<1>7. rl = 1 <=> j + 1 = l
  BY <1>1, <1>2
<1>8. 0 + 1 = 1 /\ 0 + 2 = 2
  OBVIOUS
<1>9. IsBreak(r, 0) <=> r[1] \in {CR, LF} \/ (r[1] = "u" /\ rl >= 2 /\ r[2] = "v")
  <2>1. 2 <= rl <=> rl >= 2
    BY <1>1, <1>2
  <2> QED BY <1>8, <2>1 DEF IsBreak
<1>10. Width(r, 0) = IF r[1] = "u" \/ (rl >= 2 /\ IsPair(r[1], r[2])) THEN 2 ELSE 1
  <2>1. 2 <= rl <=> rl >= 2
    BY <1>1, <1>2
  <2> QED BY <1>8, <2>1 DEF Width
<1> HIDE DEF r, rl, l
<1>11. IsBreak(r, 0) <=> IsBreak(s, j)
  BY <1>4, <1>5, <1>6, <1>9 DEF IsBreak, l
<1>12. Width(r, 0) = Width(s, j)
  BY <1>4, <1>5, <1>6, <1>10 DEF Width, l
<1>13. rl = 1 /\ r[1] = "u" <=> Dangles(s, j)
  BY <1>4, <1>7 DEF Dangles, l
<1> QED BY <1>2, <1>3, <1>11, <1>12, <1>13 DEF r, rl

\* What l_string_matchEx says of what is left.
LEMMA MatchAt ==
    ASSUME NEW s \in Text, NEW j \in 0..Len(s)
    PROVE  LET e == MatchEx(Newlines, From(s, j)) IN
             /\ e.kind = "match" <=> j < Len(s) /\ IsBreak(s, j)
             /\ j < Len(s) /\ IsBreak(s, j) => e.end = Width(s, j)
             /\ Unmatched(Newlines, From(s, j)) <=>
                  j < Len(s) /\ ~IsBreak(s, j) /\ ~Dangles(s, j)
<1> DEFINE e == MatchEx(Newlines, From(s, j))
           l == Len(s)
<1>1. l \in Nat /\ j \in Nat /\ j <= l
  BY DEF Text
<1>2. TooShort.kind # "match" /\ TooShort # NoMatch /\ NoMatch.kind # "match"
  BY DEF TooShort, NoMatch
<1>3. CASE j = l
  <2>1. From(s, j) = <<>>
    <3>1. From(s, j) \in Seq(STRING) /\ Len(From(s, j)) = 0
      BY <1>1, <1>3, FromType DEF Text
    <3> QED BY <3>1
  <2>2. e = TooShort
    BY <2>1 DEF MatchEx
  <2>3. ~(j < l)
    BY <1>1, <1>3
  <2>4. e.kind # "match" /\ ~Unmatched(Newlines, From(s, j))
    BY <1>2, <2>2 DEF Unmatched
  <2> QED BY <2>3, <2>4
<1>4. CASE j # l
  <2>1. j \in 0..l - 1 /\ j < l
    BY <1>1, <1>4
  <2> DEFINE r == From(s, j)
  <2>2. /\ r \in Text /\ r # <<>>
        /\ IsBreak(r, 0) <=> IsBreak(s, j)
        /\ Width(r, 0) = Width(s, j)
        /\ Len(r) = 1 /\ r[1] = "u" <=> Dangles(s, j)
    BY <2>1, BreakFrom
  <2> HIDE DEF r
  <2> DEFINE x == MatchEx(Newlines, r)
  <2>3. /\ IsBreak(r, 0) => x.kind = "match" /\ x.end = Width(r, 0)
        /\ ~IsBreak(r, 0) => /\ x.kind # "match"
                             /\ x = NoMatch \/ (Len(r) = 1 /\ r[1] = "u")
        /\ Len(r) = 1 /\ r[1] = "u" => x # NoMatch
    BY <2>2, MatchNewline
  <2>4. Unmatched(Newlines, r) <=> x = NoMatch
    BY DEF Unmatched
  <2> HIDE DEF x
  <2>5. /\ x.kind = "match" <=> IsBreak(s, j)
        /\ IsBreak(s, j) => x.end = Width(s, j)
        /\ Unmatched(Newlines, r) <=> ~IsBreak(s, j) /\ ~Dangles(s, j)
    BY <1>2, <2>2, <2>3, <2>4
  <2> QED BY <2>1, <2>5 DEF x, r
<1> QED BY <1>3, <1>4

\* Where the search may stop, from the n-th place on.
Stops(s, n) == {j \in n..Len(s) : j = Len(s) \/ IsBreak(s, j) \/ Dangles(s, j)}

\* There is a first of them.
LEMMA StopsType ==
    ASSUME NEW s \in Text, NEW n \in 0..Len(s)
    PROVE  /\ Len(s) \in Nat
           /\ Min(Stops(s, n)) \in Stops(s, n)
           /\ Min(Stops(s, n)) \in n..Len(s)
           /\ \A j \in Stops(s, n) : Min(Stops(s, n)) <= j
<1>1. Len(s) \in Nat
  BY DEF Text
<1>2. Stops(s, n) \in SUBSET Nat /\ Len(s) \in Stops(s, n)
  BY <1>1 DEF Stops
<1>3. /\ Min(Stops(s, n)) \in Stops(s, n)
      /\ \A j \in Stops(s, n) : Min(Stops(s, n)) <= j
  BY <1>2, MinOf
<1> QED BY <1>1, <1>3 DEF Stops

\* The search goes one character on.
LEMMA StopsStep ==
    ASSUME NEW s \in Text, NEW n \in 0..Len(s)
    PROVE  IF Unmatched(Newlines, From(s, n))
           THEN n + 1 \in 0..Len(s) /\ Min(Stops(s, n)) = Min(Stops(s, n + 1))
           ELSE Min(Stops(s, n)) = n
<1>1. Len(s) \in Nat /\ n \in Nat /\ n <= Len(s)
  BY DEF Text
<1>2. Unmatched(Newlines, From(s, n)) <=> n < Len(s) /\ ~IsBreak(s, n) /\ ~Dangles(s, n)
  BY MatchAt
<1>3. CASE Unmatched(Newlines, From(s, n))
  <2>1. n + 1 \in 0..Len(s) /\ n..Len(s) = (n + 1..Len(s)) \union {n} /\ n # Len(s)
    BY <1>1, <1>2, <1>3
  <2>2. Stops(s, n) = Stops(s, n + 1)
    BY <1>2, <1>3, <2>1 DEF Stops
  <2> QED BY <1>3, <2>1, <2>2
<1>4. CASE ~Unmatched(Newlines, From(s, n))
  <2>1. n = Len(s) \/ IsBreak(s, n) \/ Dangles(s, n)
    BY <1>1, <1>2, <1>4
  <2>2. n \in Stops(s, n)
    BY <1>1, <2>1 DEF Stops
  <2>3. Min(Stops(s, n)) <= n /\ Min(Stops(s, n)) \in n..Len(s)
    BY <2>2, StopsType
  <2>4. Min(Stops(s, n)) = n
    BY <1>1, <2>3
  <2> QED BY <1>4, <2>4
<1> QED BY <1>3, <1>4

\* l_string_matchUntil stops at the first of them.
LEMMA SearchStops ==
    ASSUME NEW s \in Text, NEW n \in 0..Len(s)
    PROVE  LET a == Min(Stops(s, n))
               e == MatchEx(Newlines, From(s, a))
           IN  MatchUntil(Newlines, s, n) =
                 [at |-> a, end |-> IF e.kind = "match" THEN a + e.end ELSE 0]
<1> DEFINE l == Len(s)
           Body(f, i) == IF Unmatched(Newlines, From(s, i)) THEN f[i + 1] ELSE i
           IsRun(f) == f = [i \in n..l |-> Body(f, i)]
           at == CHOOSE f : f = [i \in n..l |-> Body(f, i)]
           First(i) == Min(Stops(s, i))
           g == [i \in n..l |-> First(i)]
<1>1. l \in Nat
  BY StopsType
<1>2. \A i \in n..l : /\ i \in 0..l
                      /\ Unmatched(Newlines, From(s, i)) =>
                           i + 1 \in n..l /\ First(i) = First(i + 1)
                      /\ ~Unmatched(Newlines, From(s, i)) => First(i) = i
  <2> SUFFICES ASSUME NEW i \in n..l
               PROVE  /\ i \in 0..l
                      /\ Unmatched(Newlines, From(s, i)) =>
                           i + 1 \in n..l /\ First(i) = First(i + 1)
                      /\ ~Unmatched(Newlines, From(s, i)) => First(i) = i
    OBVIOUS
  <2>1. i \in 0..l
    BY <1>1
  <2>2. Unmatched(Newlines, From(s, i)) => i + 1 \in 0..l /\ First(i) = First(i + 1)
    BY <2>1, StopsStep
  <2>3. ~Unmatched(Newlines, From(s, i)) => First(i) = i
    BY <2>1, StopsStep
  <2> QED BY <2>1, <2>2, <2>3
<1>3. IsRun(g)
  <2> HIDE DEF First
  <2>1. \A i \in n..l : First(i) = Body(g, i)
    BY <1>2
  <2> QED BY <2>1
<1>4. IsRun(at)
  BY <1>3
<1>5. MatchUntil(Newlines, s, n) =
        LET e == MatchEx(Newlines, From(s, at[n]))
        IN  [at |-> at[n], end |-> IF e.kind = "match" THEN at[n] + e.end ELSE 0]
  BY DEF MatchUntil
<1>6. \A i \in n..l : at[i] = Body(at, i)
  BY <1>4
<1> HIDE DEF at
<1> DEFINE T == {d \in 0..l - n : at[l - d] = First(l - d)}
<1>7. 0 \in T
  <2>0. l \in n..l /\ l + 1 \notin n..l
    BY <1>1
  <2>1. First(l) = l /\ ~Unmatched(Newlines, From(s, l))
    BY <1>2, <2>0
  <2>2. at[l] = l
    BY <1>6, <2>0, <2>1
  <2> QED BY <1>1, <2>1, <2>2
<1>8. \A d \in 0..(l - n) - 1 : d \in T => d + 1 \in T
  <2> SUFFICES ASSUME NEW d \in 0..(l - n) - 1, at[l - d] = First(l - d)
               PROVE  d + 1 \in T
    BY <1>1
  <2> DEFINE i == l - (d + 1)
  <2>1. i \in n..l /\ i + 1 = l - d /\ d + 1 \in 0..l - n
    BY <1>1
  <2>2. at[i] = First(i)
    <3> HIDE DEF i, First
    <3>1. at[i + 1] = First(i + 1)
      BY <2>1
    <3> QED BY <1>2, <1>6, <2>1, <3>1
  <2> QED BY <2>1, <2>2
<1>9. l - n \in T
  <2> DEFINE b == l - n
  <2>1. b \in Nat
    BY <1>1
  <2>2. 0 \in T /\ \A d \in 0..b - 1 : d \in T => d + 1 \in T
    BY <1>7, <1>8
  <2> HIDE DEF T, b
  <2>3. \A d \in 0..b : d \in T
    BY <2>1, <2>2, CountingTo
  <2>4. b \in T
    BY <2>1, <2>3
  <2> QED BY <2>4 DEF b
<1>10. at[n] = First(n)
  <2>1. l - (l - n) = n
    BY <1>1
  <2> QED BY <1>9, <2>1
<1> QED BY <1>5, <1>10

\* A line end is one or two characters long, and they are there.
LEMMA WidthType ==
    ASSUME NEW s \in Text, NEW j \in 0..Len(s) - 1
    PROVE  Width(s, j) \in {1, 2} /\ (IsBreak(s, j) => j + Width(s, j) \in j + 1..Len(s))
<1> DEFINE l == Len(s)
<1>1. l \in Nat /\ j \in Nat /\ j + 1 <= l
  BY DEF Text
<1>2. Width(s, j) \in {1, 2}
  BY DEF Width
<1>3. IsBreak(s, j) /\ Width(s, j) = 2 => j + 2 <= l
  <2> SUFFICES ASSUME IsBreak(s, j), ~(j + 2 <= l) PROVE Width(s, j) # 2
    OBVIOUS
  <2>1. s[j + 1] \in {CR, LF}
    BY DEF IsBreak
  <2>2. s[j + 1] # "u"
    BY <2>1, Distinct
  <2>3. Width(s, j) = 1
    BY <2>2 DEF Width
  <2> QED BY <2>3
<1> HIDE DEF l
<1>4. IsBreak(s, j) => j + Width(s, j) \in j + 1..l
  BY <1>1, <1>2, <1>3
<1> QED BY <1>2, <1>4 DEF l

\* What the search for a line end finds, from the n-th character on: the first
\* line end, or the end of the subject, where one may begin.
LEMMA NextBreak ==
    ASSUME NEW s \in Text, NEW n \in 0..Len(s)
    PROVE  LET f == MatchUntil(Newlines, s, n) IN
             /\ f.at \in n..Len(s)
             /\ \A j \in n..f.at - 1 : ~IsBreak(s, j) /\ ~Dangles(s, j)
             /\ f.end = 0 => /\ f.at = Len(s) \/ Dangles(s, f.at)
                             /\ \A j \in n..Len(s) - 1 : ~IsBreak(s, j)
             /\ f.end # 0 => /\ f.at < Len(s) /\ IsBreak(s, f.at)
                             /\ f.end = f.at + Width(s, f.at)
             /\ f.end \in 0..Len(s)
<1> DEFINE f == MatchUntil(Newlines, s, n)
           a == Min(Stops(s, n))
           e == MatchEx(Newlines, From(s, a))
           l == Len(s)
<1>1. l \in Nat /\ n \in Nat
  BY DEF Text
<1>2. a \in Stops(s, n) /\ a \in n..l /\ \A j \in Stops(s, n) : a <= j
  BY StopsType
<1> HIDE DEF a
<1>3. f = [at |-> a, end |-> IF e.kind = "match" THEN a + e.end ELSE 0]
  BY SearchStops DEF a
<1>4. a \in 0..l
  BY <1>1, <1>2
<1>5. /\ e.kind = "match" <=> a < l /\ IsBreak(s, a)
      /\ a < l /\ IsBreak(s, a) => e.end = Width(s, a)
  BY <1>4, MatchAt
<1> HIDE DEF e, f
<1>6. f.at = a /\ f.end = IF e.kind = "match" THEN a + e.end ELSE 0
  BY <1>3
<1>7. \A j \in n..a - 1 : ~IsBreak(s, j) /\ ~Dangles(s, j)
  <2> SUFFICES ASSUME NEW j \in n..a - 1, IsBreak(s, j) \/ Dangles(s, j) PROVE FALSE
    OBVIOUS
  <2>1. j \in n..l
    BY <1>1, <1>4
  <2>2. j \in Stops(s, n)
    BY <2>1 DEF Stops
  <2>3. a <= j
    BY <1>2, <2>2
  <2> QED BY <1>1, <1>4, <2>3
<1>8. a = l \/ IsBreak(s, a) \/ Dangles(s, a)
  BY <1>2 DEF Stops
<1>9. CASE a < l /\ IsBreak(s, a)
  <2>1. f.end = a + Width(s, a)
    BY <1>5, <1>6, <1>9
  <2>2. a \in 0..l - 1
    BY <1>1, <1>4, <1>9
  <2>3. a + Width(s, a) \in a + 1..l
    BY <1>9, <2>2, WidthType
  <2>4. f.end # 0 /\ f.end \in 0..l
    BY <1>1, <1>4, <2>1, <2>3
  <2> QED BY <1>2, <1>6, <1>7, <1>9, <2>1, <2>4 DEF f
<1>10. CASE ~(a < l /\ IsBreak(s, a))
  <2>1. f.end = 0
    BY <1>5, <1>6, <1>10
  <2>2. a = l \/ Dangles(s, a)
    BY <1>1, <1>4, <1>8, <1>10
  <2>3. a = l \/ a = l - 1
    BY <1>1, <1>4, <2>2 DEF Dangles
  <2>4. \A j \in n..l - 1 : ~IsBreak(s, j)
    <3> SUFFICES ASSUME NEW j \in n..l - 1 PROVE ~IsBreak(s, j)
      OBVIOUS
    <3>1. j \in n..a - 1 \/ (j = a /\ a < l)
      BY <1>1, <1>4, <2>3
    <3> QED BY <1>7, <1>10, <3>1
  <2>5. f.end \in 0..l
    BY <1>1, <2>1
  <2> QED BY <1>2, <1>6, <1>7, <2>1, <2>2, <2>4, <2>5 DEF f
<1> QED BY <1>9, <1>10

-----------------------------------------------------------------------------
(* Where the lines of a stream end.                                        *)

\* A prefix, character by character.
LEMMA PrefixIs ==
    ASSUME NEW S, NEW w \in Seq(S), NEW r \in Seq(S)
    PROVE  IsPrefix(w, r) <=> Len(w) <= Len(r) /\ \A i \in 1..Len(w) : w[i] = r[i]
<1> DEFINE n == Len(w)
           b == SubSeq(r, 1, n)
<1>1. n \in Nat /\ Len(r) \in Nat
  OBVIOUS
<1>2. SubSeq(w, 1, n) = w
  BY SubSeqFull
<1>3. IsPrefix(w, r) <=> n <= Len(r) /\ w = b
  BY <1>2 DEF IsPrefix
<1>4. ASSUME n <= Len(r) PROVE w = b <=> \A i \in 1..n : w[i] = r[i]
  <2>1. \A i \in 1..n : i \in 1..Len(r)
    BY <1>1, <1>4
  <2>2. /\ b \in Seq(S) /\ Len(b) = n
        /\ \A i \in 1..n : b[i] = r[i]
    <3> HIDE DEF n
    <3>1. /\ b \in Seq(S)
          /\ Len(b) = IF 1 <= n THEN n - 1 + 1 ELSE 0
          /\ \A i \in 1..n - 1 + 1 : b[i] = r[1 + i - 1]
      BY <1>1, <2>1, SubSeqProperties
    <3>2. n - 1 + 1 = n /\ \A i \in 1..n : 1 + i - 1 = i
      BY <1>1
    <3>3. Len(b) = n
      <4> HIDE DEF b
      <4> QED BY <1>1, <3>1, <3>2
    <3> HIDE DEF b
    <3> QED BY <3>1, <3>2, <3>3
  <2> HIDE DEF b
  <2>3. (\A i \in 1..n : w[i] = r[i]) => w = b
    BY <2>2, SeqEqual
  <2> QED BY <2>2, <2>3
<1> HIDE DEF b
<1> QED BY <1>3, <1>4

\* Prefixes of one and of two characters.
LEMMA PrefixOfOne ==
    ASSUME NEW r \in Text, NEW x
    PROVE  IsPrefix(<<x>>, r) <=> r # <<>> /\ r[1] = x
<1> DEFINE S == STRING \union {x}
           w == <<x>>
<1>1. r \in Seq(S) /\ Len(r) \in Nat /\ (r # <<>> <=> 1 <= Len(r))
  BY SeqMonotonic DEF Text
<1>2. w \in Seq(S) /\ Len(w) = 1 /\ w[1] = x
  <2>1. x \in S
    OBVIOUS
  <2> HIDE DEF S
  <2> QED BY <2>1
<1> HIDE DEF w, S
<1>3. IsPrefix(w, r) <=> 1 <= Len(r) /\ \A i \in 1..1 : w[i] = r[i]
  <2>1. w \in Seq(S) /\ r \in Seq(S)
    BY <1>1, <1>2
  <2>2. IsPrefix(w, r) <=> Len(w) <= Len(r) /\ \A i \in 1..Len(w) : w[i] = r[i]
    BY <2>1, PrefixIs
  <2> QED BY <1>2, <2>2
<1>4. (\A i \in 1..1 : w[i] = r[i]) <=> w[1] = r[1]
  OBVIOUS
<1>5. IsPrefix(w, r) <=> r # <<>> /\ r[1] = x
  BY <1>1, <1>2, <1>3, <1>4
<1> QED BY <1>5 DEF w

LEMMA PrefixOfTwo ==
    ASSUME NEW r \in Text, NEW x, NEW y
    PROVE  IsPrefix(<<x, y>>, r) <=> 2 <= Len(r) /\ r[1] = x /\ r[2] = y
<1> DEFINE S == STRING \union {x, y}
           w == <<x, y>>
<1>1. r \in Seq(S)
  BY SeqMonotonic DEF Text
<1>2. w \in Seq(S) /\ Len(w) = 2 /\ w[1] = x /\ w[2] = y
  <2>1. x \in S /\ y \in S
    OBVIOUS
  <2> HIDE DEF S
  <2> QED BY <2>1
<1> HIDE DEF w, S
<1>3. IsPrefix(w, r) <=> 2 <= Len(r) /\ \A i \in 1..2 : w[i] = r[i]
  <2>1. w \in Seq(S) /\ r \in Seq(S)
    BY <1>1, <1>2
  <2>2. IsPrefix(w, r) <=> Len(w) <= Len(r) /\ \A i \in 1..Len(w) : w[i] = r[i]
    BY <2>1, PrefixIs
  <2> QED BY <1>2, <2>2
<1>4. (\A i \in 1..2 : w[i] = r[i]) <=> w[1] = r[1] /\ w[2] = r[2]
  OBVIOUS
<1>5. IsPrefix(w, r) <=> 2 <= Len(r) /\ r[1] = x /\ r[2] = y
  BY <1>2, <1>3, <1>4
<1> QED BY <1>5 DEF w

\* The line ends that begin at a place.
EndsHere(s, i) ==
    {k \in DOMAIN Newlines.strings : IsPrefix(Newlines.strings[k], From(s, i))}

LEMMA EndsHereIs ==
    ASSUME NEW s \in Text, NEW i \in 0..Len(s) - 1, NEW k
    PROVE  k \in EndsHere(s, i) <=>
             \/ k = 1 /\ i + 2 <= Len(s) /\ s[i + 1] = LF /\ s[i + 2] = CR
             \/ k = 2 /\ i + 2 <= Len(s) /\ s[i + 1] = CR /\ s[i + 2] = LF
             \/ k = 3 /\ s[i + 1] = LF
             \/ k = 4 /\ s[i + 1] = CR
             \/ k = 5 /\ i + 2 <= Len(s) /\ s[i + 1] = "u" /\ s[i + 2] = "v"
<1> DEFINE r == From(s, i)
           l == Len(s)
<1>1. l \in Nat /\ i \in 0..l /\ i < l /\ i \in Nat
  BY DEF Text
<1>2. r \in Text /\ Len(r) = l - i /\ \A j \in 1..l - i : r[j] = s[i + j]
  BY <1>1, FromType
<1>3. r # <<>> /\ r[1] = s[i + 1]
  BY <1>1, <1>2 DEF Text
<1>4. 2 <= Len(r) <=> i + 2 <= l
  BY <1>1, <1>2
<1>5. i + 2 <= l => r[2] = s[i + 2]
  BY <1>1, <1>2
<1> HIDE DEF r, l
<1>6. \A x : IsPrefix(<<x>>, r) <=> s[i + 1] = x
  BY <1>2, <1>3, PrefixOfOne
<1>7. \A x, y : IsPrefix(<<x, y>>, r) <=> i + 2 <= l /\ s[i + 1] = x /\ s[i + 2] = y
  BY <1>2, <1>3, <1>4, <1>5, PrefixOfTwo
<1>8. k \in EndsHere(s, i) <=> k \in 1..5 /\ IsPrefix(Newlines.strings[k], r)
  BY NewlineStrings DEF EndsHere, r
<1>9. k \in 1..5 <=> k = 1 \/ k = 2 \/ k = 3 \/ k = 4 \/ k = 5
  OBVIOUS
<1>10. /\ IsPrefix(Newlines.strings[1], r) <=> i + 2 <= l /\ s[i + 1] = LF /\ s[i + 2] = CR
       /\ IsPrefix(Newlines.strings[2], r) <=> i + 2 <= l /\ s[i + 1] = CR /\ s[i + 2] = LF
       /\ IsPrefix(Newlines.strings[3], r) <=> s[i + 1] = LF
       /\ IsPrefix(Newlines.strings[4], r) <=> s[i + 1] = CR
       /\ IsPrefix(Newlines.strings[5], r) <=> i + 2 <= l /\ s[i + 1] = "u" /\ s[i + 2] = "v"
  BY <1>6, <1>7, NewlineStrings
<1> QED BY <1>8, <1>9, <1>10 DEF l

\* The longest of them.
LEMMA LongestEnd ==
    ASSUME NEW s \in Text, NEW i \in 0..Len(s) - 1
    PROVE  /\ EndsHere(s, i) # {} <=> IsBreak(s, i)
           /\ IsBreak(s, i) =>
                Max({Len(Newlines.strings[k]) : k \in EndsHere(s, i)}) = Width(s, i)
<1> DEFINE E == EndsHere(s, i)
           S == {Len(Newlines.strings[k]) : k \in E}
           x == s[i + 1]
           y == s[i + 2]
           two == i + 2 <= Len(s)
<1>1. \A k : k \in E <=> \/ k = 1 /\ two /\ x = LF /\ y = CR
                         \/ k = 2 /\ two /\ x = CR /\ y = LF
                         \/ k = 3 /\ x = LF
                         \/ k = 4 /\ x = CR
                         \/ k = 5 /\ two /\ x = "u" /\ y = "v"
  BY EndsHereIs
<1>2. IsBreak(s, i) <=> x = CR \/ x = LF \/ (x = "u" /\ two /\ y = "v")
  BY DEF IsBreak
<1>3. Width(s, i) = IF x = "u" \/ (two /\ IsPair(x, y)) THEN 2 ELSE 1
  BY DEF Width
<1>4. \A k \in E : k \in 1..5 /\ Len(Newlines.strings[k]) = IF k \in {3, 4} THEN 1 ELSE 2
  <2>1. \A k \in E : k \in 1..5
    <3> HIDE DEF E, x, y, two
    <3> QED BY <1>1
  <2> QED BY <2>1, NewlineLengths
<1> HIDE DEF E, x, y, two
<1>5. E # {} <=> IsBreak(s, i)
  <2>1. E # {} => IsBreak(s, i)
    BY <1>1, <1>2
  <2>2. x = CR => 4 \in E
    BY <1>1
  <2>3. x = LF => 3 \in E
    BY <1>1
  <2>4. x = "u" /\ two /\ y = "v" => 5 \in E
    BY <1>1
  <2> QED BY <1>2, <2>1, <2>2, <2>3, <2>4
<1>6. ASSUME IsBreak(s, i) PROVE Max(S) = Width(s, i)
  <2>1. S \in SUBSET (0..2) /\ \A z \in S : z = 1 \/ z = 2
    BY <1>4
  <2>2. S # {}
    BY <1>5, <1>6
  <2>3. Max(S) \in S /\ \A z \in S : z <= Max(S)
    <3> HIDE DEF S
    <3> QED BY <2>1, <2>2, MaxOf
  <2>4. 2 \in S <=> Width(s, i) = 2
    <3>1. 2 \in S <=> \E k \in E : k \notin {3, 4}
      <4>1. 2 \in S <=> \E k \in E : Len(Newlines.strings[k]) = 2
        OBVIOUS
      <4>2. ASSUME NEW k \in E PROVE Len(Newlines.strings[k]) = 2 <=> k \notin {3, 4}
        <5> DEFINE m == Len(Newlines.strings[k])
        <5>1. m = IF k \in {3, 4} THEN 1 ELSE 2
          BY <1>4
        <5> HIDE DEF m
        <5>2. m = 2 <=> k \notin {3, 4}
          BY <5>1
        <5> QED BY <5>2 DEF m
      <4> QED BY <4>1, <4>2
    <3>2. Width(s, i) = 2 <=> x = "u" \/ (two /\ IsPair(x, y))
      BY <1>3
    <3>3. IsPair(x, y) <=> (x = CR /\ y = LF) \/ (x = LF /\ y = CR)
      BY Pairs
    <3>4. CASE x = "u"
      <4>1. x # CR /\ x # LF
        BY <3>4, Distinct
      <4>2. two /\ y = "v"
        BY <1>2, <1>6, <4>1
      <4>3. 5 \in E
        BY <1>1, <3>4, <4>2
      <4>4. \E k \in E : k \notin {3, 4}
        BY <4>3
      <4> QED BY <3>1, <3>2, <3>4, <4>4
    <3>5. CASE x # "u"
      <4>1. Width(s, i) = 2 <=> (two /\ x = CR /\ y = LF) \/ (two /\ x = LF /\ y = CR)
        BY <3>2, <3>3, <3>5
      <4>2. \A k \in E : k \notin {3, 4} => k = 1 \/ k = 2
        BY <1>1, <3>5
      <4>3. 1 \in E <=> two /\ x = LF /\ y = CR
        BY <1>1
      <4>4. 2 \in E <=> two /\ x = CR /\ y = LF
        BY <1>1
      <4>5. (\E k \in E : k \notin {3, 4}) <=> 1 \in E \/ 2 \in E
        BY <4>2
      <4> HIDE DEF S
      <4> QED BY <3>1, <4>1, <4>3, <4>4, <4>5
    <3> QED BY <3>4, <3>5
  <2>5. Width(s, i) = 1 \/ Width(s, i) = 2
    BY <1>3
  <2> DEFINE m == Max(S)
             w == Width(s, i)
  <2>6. m = 1 \/ m = 2
    BY <2>1, <2>3
  <2>7. 2 \in S => m = 2
    <3>1. 2 \in S => 2 <= m
      BY <2>3
    <3> HIDE DEF m, S
    <3> QED BY <2>6, <3>1
  <2>8. m = 2 => 2 \in S
    BY <2>3
  <2> HIDE DEF m, w, S
  <2> QED BY <2>4, <2>5, <2>6, <2>7, <2>8 DEF m, w
<1> QED BY <1>5, <1>6 DEF E

\* The end of the line that begins at n is that of the first line end.
LEMMA EndOfLineIs ==
    ASSUME NEW s \in Text, NEW n \in 0..Len(s)
    PROVE  /\ (\A j \in n..Len(s) - 1 : ~IsBreak(s, j)) => EndOfLine(s, n) = Len(s) + 1
           /\ \A a \in n..Len(s) - 1 :
                IsBreak(s, a) /\ (\A j \in n..a - 1 : ~IsBreak(s, j)) =>
                  EndOfLine(s, n) = a + Width(s, a)
<1> DEFINE l == Len(s)
           A == {i \in n..l : EndsHere(s, i) # {}}
<1>1. l \in Nat /\ n \in Nat /\ n <= l
  BY DEF Text
<1>2. EndOfLine(s, n) = IF A = {} THEN l + 1
                        ELSE Min(A) + Max({Len(Newlines.strings[k]) : k \in EndsHere(s, Min(A))})
  BY DEF EndOfLine, EndsHere
<1>3. EndsHere(s, l) = {}
  <2>1. From(s, l) \in Text /\ Len(From(s, l)) = 0
    BY <1>1, FromType
  <2>2. \A k \in 1..5 : Len(Newlines.strings[k]) >= 1
    BY NewlineLengths
  <2>3. \A k \in 1..5 : ~IsPrefix(Newlines.strings[k], From(s, l))
    BY <2>1, <2>2 DEF IsPrefix
  <2> QED BY <2>3, NewlineStrings DEF EndsHere
<1>4. \A i : i \in A <=> i \in n..l - 1 /\ IsBreak(s, i)
  <2> SUFFICES ASSUME NEW i PROVE i \in A <=> i \in n..l - 1 /\ IsBreak(s, i)
    OBVIOUS
  <2>1. i \in A <=> i \in n..l /\ EndsHere(s, i) # {}
    OBVIOUS
  <2> HIDE DEF A
  <2>2. i \in n..l <=> i \in n..l - 1 \/ i = l
    BY <1>1
  <2>3. i \in n..l - 1 => i # l /\ (EndsHere(s, i) # {} <=> IsBreak(s, i))
    <3> SUFFICES ASSUME i \in n..l - 1
                 PROVE  i # l /\ (EndsHere(s, i) # {} <=> IsBreak(s, i))
      OBVIOUS
    <3>1. i \in 0..l - 1 /\ i # l
      BY <1>1
    <3> QED BY <3>1, LongestEnd
  <2> QED BY <1>3, <2>1, <2>2, <2>3
<1>5. ASSUME \A j \in n..l - 1 : ~IsBreak(s, j) PROVE EndOfLine(s, n) = l + 1
  <2>1. A = {}
    <3> HIDE DEF A
    <3> QED BY <1>4, <1>5
  <2> QED BY <1>2, <2>1
<1>6. ASSUME NEW a \in n..l - 1, IsBreak(s, a), \A j \in n..a - 1 : ~IsBreak(s, j)
      PROVE  EndOfLine(s, n) = a + Width(s, a)
  <2>1. A \in SUBSET Nat
    BY <1>1
  <2> HIDE DEF A
  <2>2. a \in A /\ a \in Nat
    BY <1>1, <1>4, <1>6
  <2>3. Min(A) \in A /\ \A k \in A : Min(A) <= k
    BY <2>1, <2>2, MinOf
  <2>4. Min(A) \in n..l - 1 /\ IsBreak(s, Min(A)) /\ Min(A) <= a
    BY <1>4, <2>2, <2>3
  <2>5. Min(A) = a
    <3> DEFINE m == Min(A)
    <3>1. m \in n..l - 1 /\ IsBreak(s, m) /\ m <= a
      BY <2>4
    <3> HIDE DEF m
    <3>2. m \notin n..a - 1
      BY <1>6, <3>1
    <3>3. m = a
      BY <1>1, <2>2, <3>1, <3>2
    <3> QED BY <3>3 DEF m
  <2>6. a \in 0..l - 1 /\ A # {}
    BY <1>1, <1>6, <2>2
  <2>7. Max({Len(Newlines.strings[k]) : k \in EndsHere(s, a)}) = Width(s, a)
    BY <1>6, <2>6, LongestEnd
  <2> QED BY <1>2, <2>5, <2>6, <2>7
<1> QED BY <1>5, <1>6

\* There is a first line end, or none.
LEMMA FirstBreak ==
    ASSUME NEW s \in Text, NEW n \in 0..Len(s)
    PROVE  \/ \A j \in n..Len(s) - 1 : ~IsBreak(s, j)
           \/ \E a \in n..Len(s) - 1 : IsBreak(s, a) /\ \A j \in n..a - 1 : ~IsBreak(s, j)
<1> SUFFICES ASSUME NEW i \in n..Len(s) - 1, IsBreak(s, i)
             PROVE  \E a \in n..Len(s) - 1 :
                      IsBreak(s, a) /\ \A j \in n..a - 1 : ~IsBreak(s, j)
  OBVIOUS
<1> DEFINE A == {j \in n..Len(s) - 1 : IsBreak(s, j)}
           a == Min(A)
<1>1. Len(s) \in Nat /\ n \in Nat
  BY DEF Text
<1>2. A \in SUBSET Nat /\ A # {}
  BY <1>1
<1>3. a \in A /\ \A k \in A : a <= k
  <2> HIDE DEF A
  <2> QED BY <1>2, MinOf
<1> HIDE DEF a
<1>4. a \in n..Len(s) - 1 /\ IsBreak(s, a)
  BY <1>3
<1>5. \A j \in n..a - 1 : ~IsBreak(s, j)
  <2> SUFFICES ASSUME NEW j \in n..a - 1, IsBreak(s, j) PROVE FALSE
    OBVIOUS
  <2>1. j \in A
    BY <1>1, <1>4
  <2>2. a <= j
    BY <1>3, <2>1
  <2> QED BY <1>1, <1>4, <2>2
<1> QED BY <1>4, <1>5

\* The end of a line is behind its beginning.
LEMMA EndOfLineType ==
    ASSUME NEW s \in Text, NEW n \in 0..Len(s)
    PROVE  EndOfLine(s, n) \in n + 1..Len(s) + 1
<1>1. Len(s) \in Nat /\ n \in Nat /\ n <= Len(s)
  BY DEF Text
<1>2. CASE \A j \in n..Len(s) - 1 : ~IsBreak(s, j)
  <2>1. EndOfLine(s, n) = Len(s) + 1
    BY <1>2, EndOfLineIs
  <2> QED BY <1>1, <2>1
<1>3. CASE \E a \in n..Len(s) - 1 : IsBreak(s, a) /\ \A j \in n..a - 1 : ~IsBreak(s, j)
  <2>1. PICK a \in n..Len(s) - 1 : IsBreak(s, a) /\ \A j \in n..a - 1 : ~IsBreak(s, j)
    BY <1>3
  <2>2. EndOfLine(s, n) = a + Width(s, a)
    BY <2>1, EndOfLineIs
  <2>3. a \in 0..Len(s) - 1
    BY <1>1
  <2>4. a + Width(s, a) \in a + 1..Len(s)
    BY <2>1, <2>3, WidthType
  <2> QED BY <1>1, <2>2, <2>4
<1> QED BY <1>2, <1>3, FirstBreak

\* A line that begins later ends no earlier.
LEMMA EndOfLineMonotone ==
    ASSUME NEW s \in Text, NEW n \in 0..Len(s), NEW m \in n..Len(s)
    PROVE  EndOfLine(s, n) <= EndOfLine(s, m)
<1> DEFINE l == Len(s)
<1>1. l \in Nat /\ n \in Nat /\ m \in Nat /\ n <= m /\ m <= l /\ m \in 0..l
  BY DEF Text
<1>2. EndOfLine(s, m) \in m + 1..l + 1
  BY <1>1, EndOfLineType
<1>3. CASE \A j \in n..l - 1 : ~IsBreak(s, j)
  <2>1. EndOfLine(s, n) = l + 1
    BY <1>3, EndOfLineIs
  <2>2. \A j \in m..l - 1 : ~IsBreak(s, j)
    BY <1>1, <1>3
  <2>3. EndOfLine(s, m) = l + 1
    BY <1>1, <2>2, EndOfLineIs
  <2> QED BY <1>1, <2>1, <2>3
<1>4. CASE \E a \in n..l - 1 : IsBreak(s, a) /\ \A j \in n..a - 1 : ~IsBreak(s, j)
  <2>1. PICK a \in n..l - 1 : IsBreak(s, a) /\ \A j \in n..a - 1 : ~IsBreak(s, j)
    BY <1>4
  <2>2. EndOfLine(s, n) = a + Width(s, a)
    BY <2>1, EndOfLineIs
  <2>3. Width(s, a) \in {1, 2}
    BY <1>1, WidthType
  <2>4. CASE m <= a
    <3>1. a \in m..l - 1 /\ \A j \in m..a - 1 : ~IsBreak(s, j)
      BY <1>1, <2>1, <2>4
    <3>2. EndOfLine(s, m) = a + Width(s, a)
      BY <1>1, <2>1, <3>1, EndOfLineIs
    <3> QED BY <1>1, <2>2, <2>3, <3>2
  <2>5. CASE a < m
    BY <1>1, <1>2, <2>2, <2>3, <2>5
  <2> QED BY <1>1, <2>4, <2>5
<1> QED BY <1>3, <1>4, FirstBreak

\* The ends of the lines: 0, and the end of each line that begins at one of them;
\* a line ends at each, and none is inside a line.
LEMMA LineEndsClosed ==
    ASSUME NEW s \in Text
    PROVE  /\ 0 \in LineEnds(s) /\ LineEnds(s) \subseteq 0..Len(s) + 1
           /\ \A m \in LineEnds(s) : m < Len(s) => EndOfLine(s, m) \in LineEnds(s)
           /\ \A e \in LineEnds(s) \ {0} :
                \E b \in LineEnds(s) : b < Len(s) /\ e = EndOfLine(s, b)
<1> DEFINE l == Len(s)
           Body(f, i) ==
             IF i = 0 THEN {0}
             ELSE f[i - 1] \union {EndOfLine(s, n) : n \in {m \in f[i - 1] : m < l}}
           end == CHOOSE f : f = [i \in 0..l |-> Body(f, i)]
           IsRun(f, b) == f = [i \in 0..b |-> Body(f, i)]
           T == {b \in 0..l : \E f : IsRun(f, b)}
<1>1. l \in Nat
  BY DEF Text
<1>2. 0 \in T
  <2> DEFINE f == [i \in 0..0 |-> {0}]
  <2>1. IsRun(f, 0)
    OBVIOUS
  <2> HIDE DEF IsRun, f, l
  <2> QED BY <1>1, <2>1
<1>3. \A b \in 0..l - 1 : b \in T => b + 1 \in T
  <2> SUFFICES ASSUME NEW b \in 0..l - 1, b \in T PROVE b + 1 \in T
    OBVIOUS
  <2>1. PICK f : IsRun(f, b)
    OBVIOUS
  <2> DEFINE new == f[b] \union {EndOfLine(s, n) : n \in {m \in f[b] : m < l}}
             g == [i \in 0..b + 1 |-> IF i = b + 1 THEN new ELSE f[i]]
  <2>2. \A i \in 0..b : g[i] = f[i] /\ f[i] = Body(f, i)
    <3> HIDE DEF new, Body, l
    <3>1. \A i \in 0..b : i \in 0..b + 1 /\ i # b + 1
      BY <1>1
    <3>2. \A i \in 0..b : f[i] = Body(f, i)
      BY <2>1
    <3>3. \A i \in 0..b : g[i] = f[i]
      BY <3>1
    <3> QED BY <3>2, <3>3
  <2>3. \A i \in 0..b + 1 : g[i] = Body(g, i)
    <3> SUFFICES ASSUME NEW i \in 0..b + 1 PROVE g[i] = Body(g, i)
      OBVIOUS
    <3>1. CASE i = b + 1
      <4>1. i # 0 /\ i - 1 = b /\ b \in 0..b
        BY <1>1, <3>1
      <4>2. g[i] = new /\ g[i - 1] = f[b]
        <5> HIDE DEF new
        <5> QED BY <2>2, <3>1, <4>1
      <4> QED BY <4>1, <4>2
    <3>2. CASE i # b + 1
      <4>1. i \in 0..b /\ (i # 0 => i - 1 \in 0..b)
        BY <1>1, <3>2
      <4>2. g[i] = f[i] /\ f[i] = Body(f, i) /\ (i # 0 => g[i - 1] = f[i - 1])
        BY <2>2, <4>1
      <4> HIDE DEF g
      <4> QED BY <4>2
    <3> QED BY <3>1, <3>2
  <2>4. IsRun(g, b + 1)
    <3> HIDE DEF Body, new
    <3> QED BY <2>3
  <2>5. b + 1 \in 0..l
    BY <1>1
  <2> HIDE DEF IsRun, g, l
  <2> QED BY <2>4, <2>5
<1>4. l \in T
  <2> HIDE DEF T, l
  <2>1. \A n \in 0..l : n \in T
    BY <1>1, <1>2, <1>3, CountingTo
  <2> QED BY <1>1, <2>1
<1>5. end = [i \in 0..l |-> Body(end, i)]
  BY <1>4
<1>6. LineEnds(s) = end[l]
  BY DEF LineEnds
<1> HIDE DEF end
<1>7. end[0] = {0}
  BY <1>1, <1>5
<1>8. ASSUME NEW i \in 1..l
      PROVE  end[i] = end[i - 1] \union {EndOfLine(s, n) : n \in {m \in end[i - 1] : m < l}}
  <2>1. i \in 0..l /\ i # 0
    BY <1>1
  <2>2. end[i] = Body(end, i)
    <3> HIDE DEF Body
    <3> QED BY <1>5, <2>1
  <2> QED BY <2>1, <2>2
<1> HIDE DEF l
<1>9. ASSUME NEW b \in 0..l - 1
      PROVE  /\ b \in 0..l /\ b + 1 \in 1..l /\ b + 1 \in 0..l
             /\ end[b] \subseteq end[b + 1]
             /\ \A m \in end[b] : m < l => EndOfLine(s, m) \in end[b + 1]
             /\ \A e \in end[b + 1] :
                  e \in end[b] \/ \E m \in end[b] : m < l /\ e = EndOfLine(s, m)
  <2>1. b \in 0..l /\ b + 1 \in 1..l /\ b + 1 \in 0..l /\ (b + 1) - 1 = b
    BY <1>1
  <2>2. end[b + 1] = end[b] \union {EndOfLine(s, n) : n \in {m \in end[b] : m < l}}
    BY <1>8, <2>1
  <2> QED BY <2>1, <2>2
\* All stages hold 0 and the numbers up to one behind the stream, each but 0 the
\* end of a line that begins at another.
<1>10. \A i \in 0..l : /\ 0 \in end[i] /\ end[i] \subseteq 0..l + 1
                       /\ \A e \in end[i] \ {0} :
                            \E b \in end[i] : b < l /\ e = EndOfLine(s, b)
  <2> DEFINE U == {i \in 0..l : /\ 0 \in end[i] /\ end[i] \subseteq 0..l + 1
                                /\ \A e \in end[i] \ {0} :
                                     \E b \in end[i] : b < l /\ e = EndOfLine(s, b)}
  <2>1. 0 \in U
    BY <1>1, <1>7
  <2>2. \A b \in 0..l - 1 : b \in U => b + 1 \in U
    <3> SUFFICES ASSUME NEW b \in 0..l - 1, b \in U PROVE b + 1 \in U
      OBVIOUS
    <3>0. b + 1 \in 0..l
      BY <1>9
    <3>1. 0 \in end[b + 1]
      BY <1>9
    <3>2. end[b + 1] \subseteq 0..l + 1
      <4> SUFFICES ASSUME NEW e \in end[b + 1], e \notin end[b] PROVE e \in 0..l + 1
        OBVIOUS
      <4>1. PICK m \in end[b] : m < l /\ e = EndOfLine(s, m)
        BY <1>9
      <4>2. m \in 0..l
        BY <1>1, <4>1
      <4>3. EndOfLine(s, m) \in m + 1..l + 1
        BY <4>2, EndOfLineType DEF l
      <4> QED BY <1>1, <4>1, <4>2, <4>3
    <3>3. ASSUME NEW e \in end[b + 1] \ {0}
          PROVE  \E m \in end[b + 1] : m < l /\ e = EndOfLine(s, m)
      <4>1. \E m \in end[b] : m < l /\ e = EndOfLine(s, m)
        BY <1>9
      <4> QED BY <1>9, <4>1
    <3> QED BY <3>0, <3>1, <3>2, <3>3
  <2> HIDE DEF U
  <2>3. \A i \in 0..l : i \in U
    BY <1>1, <2>1, <2>2, CountingTo
  <2> QED BY <2>3 DEF U
\* A number comes at its own stage at the latest.
<1>11. \A j \in 0..l : \A e \in end[j] : \A i \in 0..l : e <= i => e \in end[i]
  <2> DEFINE U == {j \in 0..l : \A e \in end[j] : \A i \in 0..l : e <= i => e \in end[i]}
  <2>1. 0 \in U
    <3>1. \A e \in end[0] : e = 0
      BY <1>7
    <3> QED BY <1>1, <1>10, <3>1
  <2>2. \A b \in 0..l - 1 : b \in U => b + 1 \in U
    <3> SUFFICES ASSUME NEW b \in 0..l - 1, b \in U,
                        NEW e \in end[b + 1], NEW i \in 0..l, e <= i
                 PROVE  e \in end[i]
      BY <1>9
    <3>1. CASE e \in end[b]
      BY <3>1
    <3>2. CASE e \notin end[b]
      <4>1. PICK m \in end[b] : m < l /\ e = EndOfLine(s, m)
        BY <1>9, <3>2
      <4>2. m \in 0..l
        BY <1>1, <1>9, <1>10, <4>1
      <4>3. e \in m + 1..l + 1
        BY <4>1, <4>2, EndOfLineType DEF l
      <4>4. i - 1 \in 0..l - 1 /\ m <= i - 1 /\ (i - 1) + 1 = i /\ i - 1 \in 0..l
        BY <1>1, <4>2, <4>3
      <4>5. m \in end[i - 1]
        BY <4>4
      <4>6. EndOfLine(s, m) \in end[(i - 1) + 1]
        BY <1>9, <4>1, <4>4, <4>5
      <4> QED BY <4>1, <4>4, <4>6
    <3> QED BY <3>1, <3>2
  <2> HIDE DEF U
  <2>3. \A j \in 0..l : j \in U
    BY <1>1, <2>1, <2>2, CountingTo
  <2> QED BY <2>3 DEF U
<1>12. ASSUME NEW m \in end[l], m < l PROVE EndOfLine(s, m) \in end[l]
  <2>1. l \in 0..l /\ m \in 0..l + 1
    BY <1>1, <1>10
  <2>2. l - 1 \in 0..l - 1 /\ l - 1 \in 0..l /\ m <= l - 1 /\ (l - 1) + 1 = l
    BY <1>1, <1>12, <2>1
  <2>3. m \in end[l - 1]
    BY <1>11, <2>1, <2>2
  <2>4. EndOfLine(s, m) \in end[(l - 1) + 1]
    BY <1>9, <1>12, <2>2, <2>3
  <2> QED BY <2>2, <2>4
<1>13. l \in 0..l
  BY <1>1
<1> QED BY <1>6, <1>10, <1>12, <1>13 DEF l

\* No line ends inside another.
LEMMA LineEndsApart ==
    ASSUME NEW s \in Text, NEW b \in LineEnds(s), b < Len(s), NEW e \in LineEnds(s)
    PROVE  e <= b \/ EndOfLine(s, b) <= e
<1> DEFINE E == LineEnds(s)
           l == Len(s)
           Inside(m, x) == m < x /\ x < EndOfLine(s, m)
           B == {m \in E : m < l /\ \E x \in E : Inside(m, x)}
<1>1. l \in Nat /\ E \subseteq 0..l + 1 /\ 0 \in E
  BY LineEndsClosed DEF Text
<1>2. \A m \in E : m < l => m \in 0..l /\ EndOfLine(s, m) \in m + 1..l + 1
  BY <1>1, EndOfLineType
<1>3. \A x \in E \ {0} : \E m \in E : m < l /\ x = EndOfLine(s, m)
  BY LineEndsClosed
<1> HIDE DEF E
<1>4. B = {}
  <2> SUFFICES ASSUME B # {} PROVE FALSE
    OBVIOUS
  <2>1. B \in SUBSET Nat
    <3>1. \A x \in E : x \in Nat
      BY <1>1
    <3> QED BY <3>1
  <2>2. PICK m \in B : \A k \in B : m <= k
    <3> HIDE DEF B
    <3> QED BY <2>1, MinOf
  <2>3. m \in E /\ m < l /\ \E x \in E : Inside(m, x)
    BY <2>2
  <2>4. PICK x \in E : Inside(m, x)
    BY <2>3
  <2>5. m \in 0..l /\ x \in 0..l + 1 /\ x # 0
    BY <1>1, <1>2, <2>3, <2>4
  <2>6. PICK k \in E : k < l /\ x = EndOfLine(s, k)
    BY <1>3, <2>5
  <2>7. k \in 0..l /\ x \in k + 1..l + 1
    BY <1>2, <2>6
  <2>8. CASE k = m
    BY <2>4, <2>6, <2>8, <1>1, <2>5
  <2>9. CASE k < m
    <3>1. Inside(k, m)
      BY <2>4, <2>6, <2>9
    <3>2. k \in B
      BY <2>3, <2>6, <3>1
    <3>3. m <= k
      BY <2>2, <3>2
    <3> QED BY <2>5, <2>7, <2>9, <3>3
  <2>10. CASE m < k
    <3>1. k \in m..l
      BY <1>1, <2>5, <2>7, <2>10
    <3>2. EndOfLine(s, m) <= EndOfLine(s, k)
      BY <2>5, <3>1, EndOfLineMonotone
    <3>3. EndOfLine(s, m) \in Nat
      BY <1>1, <1>2, <2>3, <2>5
    <3> QED BY <1>1, <2>4, <2>5, <2>6, <3>2, <3>3
  <2> QED BY <2>5, <2>7, <2>8, <2>9, <2>10
<1>5. ~Inside(b, e)
  BY <1>4 DEF E
<1>6. b \in 0..l /\ e \in 0..l + 1 /\ EndOfLine(s, b) \in b + 1..l + 1
  BY <1>1, <1>2 DEF E
<1> QED BY <1>1, <1>5, <1>6

\* The next line: it begins where the last one ended, and is one more.
LEMMA NextLine ==
    ASSUME NEW s \in Text, NEW b \in LineEnds(s), b < Len(s), NEW e, e = EndOfLine(s, b)
    PROVE  /\ e \in LineEnds(s) /\ e \in b + 1..Len(s) + 1 /\ b \in 0..Len(s)
           /\ \A m \in LineEnds(s) : m < e <=> m <= b
           /\ Begin(s, e) = b
           /\ LineEnds(s) \intersect 1..e = (LineEnds(s) \intersect 1..b) \union {e}
           /\ Cardinality(LineEnds(s) \intersect 1..e) =
                Cardinality(LineEnds(s) \intersect 1..b) + 1
<1> DEFINE E == LineEnds(s)
           l == Len(s)
<1>1. l \in Nat /\ E \subseteq 0..l + 1 /\ b \in 0..l + 1
  BY LineEndsClosed DEF Text
<1>2. b \in 0..l /\ e \in E
  BY <1>1, LineEndsClosed
<1>3. e \in b + 1..l + 1
  BY <1>2, EndOfLineType
<1>4. \A m \in E : m <= b \/ e <= m
  BY LineEndsApart
<1> HIDE DEF E
<1>5. \A m \in E : m < e <=> m <= b
  <2> SUFFICES ASSUME NEW m \in E PROVE m < e <=> m <= b
    OBVIOUS
  <2>1. m \in Nat /\ b \in Nat /\ e \in Nat /\ b < e
    BY <1>1, <1>2, <1>3
  <2> QED BY <1>4, <2>1
<1>6. Begin(s, e) = b
  <2> DEFINE S == {m \in E : m < e}
  <2>1. S \in SUBSET (0..b) /\ b \in S /\ b \in Nat
    <3>1. \A m \in E : m \in Nat
      BY <1>1
    <3>2. b \in E /\ b \in Nat /\ b <= b
      BY <1>1 DEF E
    <3>3. b < e /\ \A m \in E : m < e => m \in 0..b
      <4>1. b < e
        BY <1>5, <3>2
      <4> QED BY <1>5, <3>1, <3>2, <4>1
    <3> QED BY <3>2, <3>3
  <2> HIDE DEF S
  <2>2. Max(S) \in S /\ \A k \in S : k <= Max(S)
    BY <2>1, MaxOf
  <2>3. Max(S) \in 0..b /\ b <= Max(S)
    BY <2>1, <2>2
  <2>4. Max(S) = b
    BY <2>1, <2>3
  <2> QED BY <2>4 DEF Begin, S, E
<1>7. E \intersect 1..e = (E \intersect 1..b) \union {e}
  <2>1. \A m \in E : m \in 1..e <=> m \in 1..b \/ m = e
    <3> SUFFICES ASSUME NEW m \in E PROVE m \in 1..e <=> m \in 1..b \/ m = e
      OBVIOUS
    <3>1. m \in Nat /\ b \in Nat /\ e \in Nat /\ b < e
      BY <1>1, <1>2, <1>3
    <3> QED BY <1>5, <3>1
  <2> QED BY <1>2, <2>1
<1>8. Cardinality((E \intersect 1..b) \union {e}) = Cardinality(E \intersect 1..b) + 1
  <2>1. IsFiniteSet(1..b)
    BY <1>2, FS_Interval
  <2>2. IsFiniteSet(E \intersect 1..b)
    BY <2>1, FS_Subset
  <2>3. e \notin 1..b
    BY <1>1, <1>3
  <2> QED BY <2>2, <2>3, FS_AddElement
<1> QED BY <1>2, <1>3, <1>5, <1>6, <1>7, <1>8 DEF E

\* Sequences of one and of two characters.
LEMMA ShortSequences ==
    ASSUME NEW S, NEW w \in Seq(S)
    PROVE  /\ Len(w) = 1 => w = <<w[1]>>
           /\ Len(w) = 2 => w = <<w[1], w[2]>>
<1>1. ASSUME Len(w) = 1 PROVE w = <<w[1]>>
  <2> DEFINE v == <<w[1]>>
  <2>1. w[1] \in S
    BY <1>1
  <2>2. v \in Seq(S) /\ Len(v) = 1 /\ v[1] = w[1]
    BY <2>1
  <2>3. \A i \in 1..Len(w) : w[i] = v[i]
    BY <1>1, <2>2
  <2> HIDE DEF v
  <2>4. w = v
    BY <1>1, <2>2, <2>3, SeqEqual
  <2> QED BY <2>4 DEF v
<1>2. ASSUME Len(w) = 2 PROVE w = <<w[1], w[2]>>
  <2> DEFINE v == <<w[1], w[2]>>
  <2>1. w[1] \in S /\ w[2] \in S
    BY <1>2
  <2>2. v \in Seq(S) /\ Len(v) = 2 /\ v[1] = w[1] /\ v[2] = w[2]
    BY <2>1
  <2>3. \A i \in 1..Len(w) : w[i] = v[i]
    BY <1>2, <2>2
  <2> HIDE DEF v
  <2>4. w = v
    BY <1>2, <2>2, <2>3, SeqEqual
  <2> QED BY <2>4 DEF v
<1> QED BY <1>1, <1>2

\* An empty line begins with its end.
LEMMA BlankIs ==
    ASSUME NEW s \in Text, NEW b \in LineEnds(s), b < Len(s), NEW e, e = EndOfLine(s, b),
           e <= Len(s)
    PROVE  IsBlank(s, e) <=> b > 0 /\ IsBreak(s, b)
<1> DEFINE l == Len(s)
           w == SubSeq(s, b + 1, e)
<1>1. l \in Nat /\ b \in 0..l - 1 /\ b \in Nat /\ e \in b + 1..l /\ Begin(s, e) = b
  <2>1. e \in b + 1..l + 1 /\ b \in 0..l /\ Begin(s, e) = b
    BY NextLine
  <2>2. l \in Nat /\ b < l /\ e <= l
    BY DEF Text
  <2> HIDE DEF l
  <2> QED BY <2>1, <2>2
<1>2. IsBlank(s, e) <=> b > 0 /\ \E k \in 1..5 : Newlines.strings[k] = w
  BY <1>1, NewlineStrings DEF IsBlank
<1>3. /\ Len(w) = e - b /\ w \in Seq(STRING)
      /\ \A i \in 1..e - b : w[i] = s[b + i]
  <2>1. \A i \in b + 1..e : s[i] \in STRING
    BY <1>1 DEF Text
  <2>2. /\ SubSeq(s, b + 1, e) \in Seq(STRING)
        /\ Len(SubSeq(s, b + 1, e)) = IF b + 1 <= e THEN e - (b + 1) + 1 ELSE 0
        /\ \A i \in 1..e - (b + 1) + 1 : SubSeq(s, b + 1, e)[i] = s[b + 1 + i - 1]
    BY <1>1, <2>1, SubSeqProperties
  <2>3. e - (b + 1) + 1 = e - b /\ b + 1 <= e
    BY <1>1
  <2>4. \A i \in 1..e - b : b + 1 + i - 1 = b + i
    BY <1>1
  <2> QED BY <2>2, <2>3, <2>4
<1> HIDE DEF w, l
<1>4. ASSUME NEW k \in 1..5, Newlines.strings[k] = w PROVE IsBreak(s, b)
  <2>1. w[1] = s[b + 1]
    BY <1>1, <1>3
  <2>2. CASE k \in {1, 2, 3, 4}
    <3>1. w[1] \in {CR, LF}
      BY <1>4, <2>2, NewlineStrings
    <3> QED BY <2>1, <3>1 DEF IsBreak
  <2>3. CASE k = 5
    <3>1. w = <<"u", "v">>
      BY <1>4, <2>3, NewlineStrings
    <3>2. Len(w) = 2 /\ w[1] = "u" /\ w[2] = "v"
      BY <3>1
    <3>3. 2 \in 1..e - b /\ b + 2 <= l
      <4>1. e - b = 2
        BY <1>3, <3>2
      <4> QED BY <1>1, <4>1
    <3>4. s[b + 2] = "v"
      BY <1>3, <3>2, <3>3
    <3> QED BY <2>1, <3>2, <3>3, <3>4 DEF IsBreak, l
  <2> QED BY <2>2, <2>3
<1>5. ASSUME IsBreak(s, b) PROVE \E k \in 1..5 : Newlines.strings[k] = w
  <2>1. e = b + Width(s, b)
    <3>1. b \in b..l - 1 /\ b \in 0..l /\ \A j \in b..b - 1 : ~IsBreak(s, j)
      BY <1>1
    <3> QED BY <1>5, <3>1, EndOfLineIs DEF l
  <2>2. Width(s, b) \in {1, 2}
    BY <1>1, WidthType DEF l
  <2>3. w[1] = s[b + 1]
    BY <1>1, <1>3
  <2>4. CASE Width(s, b) = 1
    <3>1. s[b + 1] # "u"
      BY <2>4 DEF Width
    <3>2. w[1] \in {CR, LF}
      BY <1>5, <2>3, <3>1 DEF IsBreak
    <3>3. Len(w) = 1
      BY <1>1, <1>3, <2>1, <2>4
    <3>4. w = <<w[1]>>
      BY <1>3, <3>3, ShortSequences
    <3>5. w = <<CR>> \/ w = <<LF>>
      BY <3>2, <3>4
    <3> QED BY <3>5, NewlineStrings
  <2>5. CASE Width(s, b) = 2
    <3>1. Len(w) = 2 /\ 2 \in 1..e - b
      BY <1>1, <1>3, <2>1, <2>5
    <3>2. w = <<w[1], w[2]>>
      BY <1>3, <3>1, ShortSequences
    <3>3. w[2] = s[b + 2]
      BY <1>3, <3>1
    <3>4. CASE s[b + 1] = "u"
      <4>1. s[b + 1] \notin {CR, LF}
        BY <3>4, Distinct
      <4>2. s[b + 2] = "v"
        BY <1>5, <4>1 DEF IsBreak
      <4>3. w = <<"u", "v">>
        BY <2>3, <3>2, <3>3, <3>4, <4>2
      <4> QED BY <4>3, NewlineStrings
    <3>5. CASE s[b + 1] # "u"
      <4>1. IsPair(s[b + 1], s[b + 2])
        BY <2>5, <3>5 DEF Width
      <4>2. w = <<CR, LF>> \/ w = <<LF, CR>>
        BY <2>3, <3>2, <3>3, <4>1, Pairs
      <4> QED BY <4>2, NewlineStrings
    <3> QED BY <3>4, <3>5
  <2> QED BY <2>2, <2>4, <2>5
<1> QED BY <1>2, <1>4, <1>5

\* No line up to e is empty.
NoBlank(s, e) == \A n \in LineEnds(s) \ {0} : n <= e => ~IsBlank(s, n)

\* The first characters of the lines up to e.
Headers(s, e) == {s[Begin(s, n) + 1] : n \in {m \in LineEnds(s) \ {0} : m <= e}}

\* Before the first line.
LEMMA FirstHeaders ==
    ASSUME NEW s \in Text
    PROVE  NoBlank(s, 0) /\ Headers(s, 0) = {}
<1>1. \A n \in LineEnds(s) \ {0} : ~(n <= 0)
  <2>1. LineEnds(s) \subseteq 0..Len(s) + 1 /\ Len(s) \in Nat
    BY LineEndsClosed DEF Text
  <2> QED BY <2>1
<1> QED BY <1>1 DEF NoBlank, Headers

\* One more line.
LEMMA NextHeader ==
    ASSUME NEW s \in Text, NEW b \in LineEnds(s), b < Len(s), NEW e, e = EndOfLine(s, b)
    PROVE  /\ Headers(s, e) = Headers(s, b) \union {s[b + 1]}
           /\ e <= Len(s) /\ NoBlank(s, b) /\ ~(b > 0 /\ IsBreak(s, b)) => NoBlank(s, e)
<1> DEFINE E == LineEnds(s)
<1>1. /\ e \in E /\ e \in b + 1..Len(s) + 1 /\ b \in 0..Len(s) /\ Begin(s, e) = b
      /\ \A m \in E : m < e <=> m <= b
      /\ Len(s) \in Nat /\ \A m \in E : m \in Nat
  <2>1. E \subseteq 0..Len(s) + 1 /\ Len(s) \in Nat
    BY LineEndsClosed DEF Text
  <2>2. \A m \in E : m \in Nat
    BY <2>1
  <2> QED BY <2>1, <2>2, NextLine
<1>2. e \in E \ {0} /\ e \in Nat
  BY <1>1
<1> HIDE DEF E
<1>3. \A m \in E : m <= e <=> m <= b \/ m = e
  <2> SUFFICES ASSUME NEW m \in E PROVE m <= e <=> m <= b \/ m = e
    OBVIOUS
  <2>1. m \in Nat /\ b \in Nat /\ b < e /\ (m < e <=> m <= b)
    BY <1>1
  <2> QED BY <1>2, <2>1
<1>4. Headers(s, e) = Headers(s, b) \union {s[b + 1]}
  <2> DEFINE N(x) == {m \in E \ {0} : m <= x}
             H(n) == s[Begin(s, n) + 1]
  <2>1. N(e) = N(b) \union {e}
    BY <1>2, <1>3
  <2>2. H(e) = s[b + 1]
    BY <1>1
  <2> HIDE DEF N, H
  <2>3. {H(n) : n \in N(e)} = {H(n) : n \in N(b)} \union {H(e)}
    BY <2>1
  <2> QED BY <2>2, <2>3 DEF N, H, Headers, E
<1>5. ASSUME e <= Len(s), NoBlank(s, b), ~(b > 0 /\ IsBreak(s, b)) PROVE NoBlank(s, e)
  <2>1. ~IsBlank(s, e)
    BY <1>5, BlankIs
  <2> SUFFICES ASSUME NEW n \in E \ {0}, n <= e PROVE ~IsBlank(s, n)
    BY DEF NoBlank, E
  <2>2. n <= b \/ n = e
    BY <1>3
  <2> QED BY <1>5, <2>1, <2>2 DEF NoBlank, E
<1> QED BY <1>4, <1>5

\* Where a request with headers ends.
LEMMA RequestEndIs ==
    ASSUME NEW s \in Text, NEW b \in LineEnds(s), b < Len(s), b > 0,
           NoBlank(s, b), IsBreak(s, b), s[1] # "v", NEW e, e = EndOfLine(s, b)
    PROVE  RequestEnd(s) =
             IF s[1] = "p" /\ "c" \in Headers(s, b) /\ "k" \notin Headers(s, b)
             THEN e + BodyLength ELSE e
<1> DEFINE E == LineEnds(s)
           blank == {n \in E \ {0} : n <= Len(s) /\ IsBlank(s, n)}
           header(n) == s[Begin(s, n) + 1]
           headers == {header(n) : n \in {m \in E \ {0} : blank # {} /\ m < Min(blank)}}
<1>1. /\ e \in E /\ e \in b + 1..Len(s) + 1 /\ b \in 0..Len(s) - 1
      /\ \A m \in E : m < e <=> m <= b
      /\ Len(s) \in Nat /\ \A m \in E : m \in Nat
  <2>1. E \subseteq 0..Len(s) + 1 /\ Len(s) \in Nat
    BY LineEndsClosed DEF Text
  <2>2. \A m \in E : m \in Nat
    BY <2>1
  <2>3. e \in E /\ e \in b + 1..Len(s) + 1 /\ b \in 0..Len(s) /\ \A m \in E : m < e <=> m <= b
    BY NextLine
  <2>4. b \in 0..Len(s) - 1
    BY <2>1, <2>3
  <2> QED BY <2>1, <2>2, <2>3, <2>4
<1>2. e <= Len(s)
  <2>1. b \in b..Len(s) - 1 /\ b \in 0..Len(s) /\ \A j \in b..b - 1 : ~IsBreak(s, j)
    BY <1>1
  <2>2. e = b + Width(s, b)
    BY <2>1, EndOfLineIs
  <2>3. b + Width(s, b) \in b + 1..Len(s)
    BY <1>1, WidthType
  <2> QED BY <1>1, <2>2, <2>3
<1>3. IsBlank(s, e)
  BY <1>2, BlankIs
<1> HIDE DEF E
<1>4. e \in blank /\ blank \in SUBSET Nat
  <2>1. e # 0
    BY <1>1
  <2> QED BY <1>1, <1>2, <1>3, <2>1
<1>5. \A n \in blank : e <= n
  <2> SUFFICES ASSUME NEW n \in blank, n < e PROVE FALSE
    BY <1>1
  <2>1. n \in E \ {0} /\ IsBlank(s, n) /\ n <= b
    BY <1>1
  <2> QED BY <2>1 DEF NoBlank, E
<1> DEFINE first == Min(blank)
<1>6. first = e
  <2>1. first \in blank /\ first <= e
    <3> HIDE DEF blank
    <3> QED BY <1>4, MinOf
  <2>2. first \in Nat /\ e <= first /\ e \in Nat
    <3> HIDE DEF blank, first
    <3> QED BY <1>4, <1>5, <2>1
  <2> HIDE DEF first
  <2> QED BY <2>1, <2>2
<1>7. headers = Headers(s, b)
  <2>1. {m \in E \ {0} : blank # {} /\ m < Min(blank)} = {m \in E \ {0} : m <= b}
    <3>1. blank # {}
      <4> HIDE DEF blank
      <4> QED BY <1>4
    <3> HIDE DEF blank
    <3> QED BY <1>1, <1>6, <3>1
  <2> QED BY <2>1 DEF Headers, E
<1>8. RequestEnd(s) = IF s # <<>> /\ s[1] = "v" THEN EndOfLine(s, 0)
                      ELSE IF blank = {} THEN Len(s) + 1
                      ELSE IF s[1] = "p" /\ "c" \in headers /\ "k" \notin headers
                           THEN first + BodyLength
                      ELSE first
  BY DEF RequestEnd, E
<1> HIDE DEF headers, first
<1>9. blank # {}
  <2> HIDE DEF blank
  <2> QED BY <1>4
<1> HIDE DEF blank
<1> QED BY <1>6, <1>7, <1>8, <1>9

-----------------------------------------------------------------------------
(* A part of a stream.                                                     *)

\* The characters that have come.
LEMMA PartType ==
    ASSUME NEW s \in Text, NEW k \in 0..Len(s), NEW r, r = SubSeq(s, 1, k)
    PROVE  /\ r \in Text /\ Len(r) = k
           /\ \A i \in 1..k : r[i] = s[i]
<1>1. Len(s) \in Nat /\ k \in Nat /\ \A i \in 1..k : s[i] \in STRING
  BY DEF Text
<1>2. /\ r \in Seq(STRING)
      /\ Len(r) = IF 1 <= k THEN k - 1 + 1 ELSE 0
      /\ \A i \in 1..k - 1 + 1 : r[i] = s[1 + i - 1]
  BY <1>1, SubSeqProperties
<1>3. k - 1 + 1 = k /\ \A i \in 1..k : 1 + i - 1 = i
  BY <1>1
<1>4. Len(r) = k
  BY <1>1, <1>2, <1>3
<1> QED BY <1>2, <1>3, <1>4 DEF Text

\* A line end of the part is one of the stream, and the other way round unless it
\* may go on; it is as long unless its second character has not come.
LEMMA PartBreaks ==
    ASSUME NEW s \in Text, NEW k \in 0..Len(s), NEW r, r = SubSeq(s, 1, k),
           NEW j \in 0..k - 1
    PROVE  /\ IsBreak(r, j) => IsBreak(s, j)
           /\ ~IsBreak(r, j) /\ ~Dangles(r, j) => ~IsBreak(s, j)
           /\ \/ Width(r, j) = Width(s, j)
              \/ /\ j + Width(r, j) = k /\ k < Len(s)
                 /\ IsPair(r[k], s[k + 1])
<1> DEFINE l == Len(s)
           x == s[j + 1]
           y == s[j + 2]
<1>1. l \in Nat /\ k \in Nat /\ j \in Nat /\ k <= l /\ j + 1 <= k
  BY DEF Text
<1>2. Len(r) = k /\ \A i \in 1..k : r[i] = s[i]
  BY PartType
<1>3. r[j + 1] = x
  BY <1>1, <1>2
<1>4. j + 2 <= k => r[j + 2] = y
  BY <1>1, <1>2
<1>5. IsBreak(r, j) <=> x \in {CR, LF} \/ (x = "u" /\ j + 2 <= k /\ y = "v")
  BY <1>2, <1>3, <1>4 DEF IsBreak
<1>6. IsBreak(s, j) <=> x \in {CR, LF} \/ (x = "u" /\ j + 2 <= l /\ y = "v")
  BY DEF IsBreak
<1>7. Dangles(r, j) <=> j + 1 = k /\ x = "u"
  BY <1>2, <1>3 DEF Dangles
<1>8. Width(r, j) = IF x = "u" \/ (j + 2 <= k /\ IsPair(x, y)) THEN 2 ELSE 1
  BY <1>2, <1>3, <1>4 DEF Width
<1>9. Width(s, j) = IF x = "u" \/ (j + 2 <= l /\ IsPair(x, y)) THEN 2 ELSE 1
  BY DEF Width
<1>10. j + 2 <= k => j + 2 <= l
  BY <1>1
<1>11. j + 2 <= k \/ j + 1 = k
  BY <1>1
<1>12. j + 1 = k => r[k] = x /\ s[k + 1] = y /\ (j + 2 <= l <=> k < l)
  BY <1>1, <1>3
<1> HIDE DEF x, y, l
<1>13. IsBreak(r, j) => IsBreak(s, j)
  BY <1>5, <1>6, <1>10
<1>14. ~IsBreak(r, j) /\ ~Dangles(r, j) => ~IsBreak(s, j)
  <2> SUFFICES ASSUME ~IsBreak(r, j), ~Dangles(r, j), IsBreak(s, j) PROVE FALSE
    OBVIOUS
  <2>1. x = "u" /\ y = "v"
    BY <1>5, <1>6
  <2>2. j + 2 <= k
    BY <1>7, <1>11, <2>1
  <2> QED BY <1>5, <2>1, <2>2
<1>15. CASE x = "u" \/ j + 2 <= k \/ ~(j + 2 <= l) \/ ~IsPair(x, y)
  <2>1. Width(r, j) = Width(s, j)
    BY <1>8, <1>9, <1>10, <1>15
  <2> QED BY <1>13, <1>14, <2>1
<1>16. CASE x # "u" /\ ~(j + 2 <= k) /\ j + 2 <= l /\ IsPair(x, y)
  <2>1. Width(r, j) = 1 /\ j + 1 = k
    BY <1>8, <1>11, <1>16
  <2>2. j + Width(r, j) = k /\ k < l /\ IsPair(r[k], s[k + 1])
    BY <1>12, <1>16, <2>1
  <2> QED BY <1>13, <1>14, <2>2 DEF l
<1> QED BY <1>15, <1>16

\* No line end begins at b or behind it, before n.
Unbroken(s, b, n) == \A j \in b..n - 1 : ~IsBreak(s, j)

\* The end f of the line that begins at b, as the first k characters have it.
Ended(s, r, k, b, f) ==
    f.end # 0 =>
      /\ f.at < f.end /\ IsBreak(s, f.at) /\ b < Len(s)
      /\ \/ f.end = EndOfLine(s, b)
         \/ f.end = k /\ k < Len(s) /\ IsPair(r[k], s[k + 1])

\* The search of a part finds the end of the line of the stream, when none was
\* passed over before, unless the second character of the line end has not come.
LEMMA PartSearch ==
    ASSUME NEW s \in Text, NEW k \in 0..Len(s), NEW r, r = SubSeq(s, 1, k),
           NEW b \in 0..k, NEW n \in b..k, Unbroken(s, b, n),
           NEW f, f = MatchUntil(Newlines, r, n)
    PROVE  /\ f.at \in n..k /\ f.end \in 0..k
           /\ Unbroken(s, b, f.at)
           /\ Ended(s, r, k, b, f)
<1> DEFINE a == f.at
<1>1. /\ Len(s) \in Nat /\ k \in Nat /\ b \in Nat /\ n \in 0..k /\ k <= Len(s)
      /\ b <= n /\ n <= k /\ b \in 0..Len(s)
  BY DEF Text
<1>2. r \in Text /\ Len(r) = k
  BY PartType
<1>3. /\ a \in n..k /\ f.end \in 0..k
      /\ \A j \in n..a - 1 : ~IsBreak(r, j) /\ ~Dangles(r, j)
      /\ f.end # 0 => a < k /\ IsBreak(r, a) /\ f.end = a + Width(r, a)
  <2>1. n \in 0..Len(r)
    BY <1>1, <1>2
  <2>2. /\ a \in n..Len(r) /\ f.end \in 0..Len(r)
        /\ \A j \in n..a - 1 : ~IsBreak(r, j) /\ ~Dangles(r, j)
        /\ f.end # 0 => a < Len(r) /\ IsBreak(r, a) /\ f.end = a + Width(r, a)
    BY <1>2, <2>1, NextBreak
  <2> QED BY <1>2, <2>2
<1> HIDE DEF a
<1>4. \A j \in b..a - 1 : ~IsBreak(s, j)
  <2> SUFFICES ASSUME NEW j \in b..a - 1 PROVE ~IsBreak(s, j)
    OBVIOUS
  <2>1. CASE j < n
    <3>1. j \in b..n - 1
      BY <1>1, <2>1
    <3> QED BY <3>1 DEF Unbroken
  <2>2. CASE n <= j
    <3>1. j \in n..a - 1 /\ j \in 0..k - 1
      BY <1>1, <1>3, <2>2
    <3> QED BY <1>3, <3>1, PartBreaks
  <2> QED BY <1>1, <2>1, <2>2
<1>5. ASSUME f.end # 0
      PROVE  /\ a < f.end /\ IsBreak(s, a) /\ b < Len(s)
             /\ \/ f.end = EndOfLine(s, b)
                \/ f.end = k /\ k < Len(s) /\ IsPair(r[k], s[k + 1])
  <2>1. a < k /\ IsBreak(r, a) /\ f.end = a + Width(r, a)
    BY <1>3, <1>5
  <2>2. a \in 0..k - 1 /\ a \in b..Len(s) - 1 /\ b < Len(s)
    BY <1>1, <1>3, <2>1
  <2>3. Width(r, a) \in {1, 2}
    BY <1>2, <2>2, WidthType
  <2>4. a < f.end
    BY <2>1, <2>2, <2>3
  <2>5. IsBreak(s, a)
    BY <2>1, <2>2, PartBreaks
  <2>6. EndOfLine(s, b) = a + Width(s, a)
    BY <1>1, <1>4, <2>2, <2>5, EndOfLineIs
  <2>7. \/ Width(r, a) = Width(s, a)
        \/ a + Width(r, a) = k /\ k < Len(s) /\ IsPair(r[k], s[k + 1])
    <3>1. a \in 0..k - 1
      BY <2>2
    <3> QED BY <3>1, PartBreaks, Zenon
  <2> QED BY <2>1, <2>2, <2>4, <2>5, <2>6, <2>7
<1> QED BY <1>3, <1>4, <1>5 DEF Unbroken, Ended, a

-----------------------------------------------------------------------------
(* The coroutine and the registry.                                         *)

Reading == {"read_request", "read_headers", "read_body"}

Coroutines ==
    [ref : Nat \union {NoRef}, status : {"none", "ok", "yield"},
     func : Functions \union {""}, kfunc : Functions \union {""}, misused : BOOLEAN]

Registries == [free : Seq(Nat), top : Nat]

TypeControl ==
    /\ conn \in {"none", "open", "closed"} /\ stage \in {0, RdReq, WrRes}
    /\ run.at \in Functions \union {""}
    /\ run = [at |-> run.at, count |-> run.count, n |-> run.n]
    /\ c \in Coroutines /\ reg \in Registries
    /\ answers \in Nat /\ requests \in {0, 1} /\ plain \in Nat

\* The coroutine of an open connection reads a request until it has read one, and
\* then writes responses; it runs only when it is not suspended, and is suspended
\* only while it reads.
Shape ==
    /\ conn # "open" => run.at = "" /\ c.ref \in {0, NoRef} /\ c.status = "none"
    /\ conn = "open" =>
         /\ c.ref > 0 /\ c.status \in {"ok", "yield"}
         /\ c.func = IF requests = 1 THEN "write_response" ELSE "read_request"
         /\ run.at \in Reading => requests = 0
         /\ run.at = "write_response" => requests = 1
         /\ run.at # "" => c.status = "ok"
         /\ c.status = "yield" => c.kfunc \in Reading /\ requests = 0
    /\ requests = 0 => stage = 0 /\ answers = 0
    /\ ~c.misused

\* The places of the registry.
Refs == reg.top >= LastReserved /\ RefsKept

Control == TypeControl /\ Shape /\ Refs

\* Fields of a coroutine after the operations of Coroutine.
LEMMA CoroutineFields ==
    ASSUME NEW x \in Coroutines
    PROVE  /\ Resumed(x) \in Coroutines
           /\ Resumed(x).ref = x.ref /\ Resumed(x).status = "ok"
           /\ Resumed(x).func = x.func /\ Resumed(x).misused = x.misused
           /\ \A f \in Functions :
                /\ Yielded(x, f) \in Coroutines
                /\ Yielded(x, f).ref = x.ref /\ Yielded(x, f).status = "yield"
                /\ Yielded(x, f).func = x.func /\ Yielded(x, f).kfunc = f
                /\ Yielded(x, f).misused = x.misused
BY DEF Coroutines, Resumed, Yielded

\* l_service_setResume of a coroutine that is not suspended, and of none.
LEMMA SetAgain ==
    ASSUME NEW x \in Coroutines, x.status = "ok", ~x.misused, NEW f \in Functions
    PROVE  /\ SetResume(x, reg, f) \in Coroutines
           /\ SetResume(x, reg, f).ref = x.ref /\ SetResume(x, reg, f).status = "ok"
           /\ SetResume(x, reg, f).func = f /\ ~SetResume(x, reg, f).misused
<1> DEFINE m == x.misused \/ x.status # "ok"
           y == SetResume(x, reg, f)
<1>1. y = [x EXCEPT !.func = f, !.misused = m]
  BY DEF SetResume
<1>2. m \in BOOLEAN /\ ~m
  BY DEF Coroutines
<1> HIDE DEF m, y
<1>3. /\ y \in Coroutines /\ y.ref = x.ref /\ y.status = x.status /\ y.func = f
      /\ y.misused = m
  BY <1>1, <1>2 DEF Coroutines
<1> QED BY <1>2, <1>3 DEF y

\* The coroutine is created.
LEMMA SetFirst ==
    ASSUME NEW f \in Functions, NextRef(reg) \in Nat
    PROVE  /\ SetResume(Zeroed, reg, f) \in Coroutines
           /\ SetResume(Zeroed, reg, f).ref = NextRef(reg)
           /\ SetResume(Zeroed, reg, f).status = "ok"
           /\ SetResume(Zeroed, reg, f).func = f /\ ~SetResume(Zeroed, reg, f).misused
<1> DEFINE y == SetResume(Zeroed, reg, f)
           n == NextRef(reg)
<1>1. y = [Zeroed EXCEPT !.ref = n, !.status = "ok", !.func = f]
  BY DEF SetResume, Zeroed
<1> HIDE DEF y, n
<1>2. y = [ref |-> n, status |-> "ok", func |-> f, kfunc |-> "", misused |-> FALSE]
  BY <1>1 DEF Zeroed
<1>3. n \in Nat
  BY DEF n
<1>4. y \in Coroutines /\ y.ref = n /\ y.status = "ok" /\ y.func = f /\ ~y.misused
  BY <1>2, <1>3 DEF Coroutines
<1> QED BY <1>4 DEF y, n

LEMMA ZeroedType == /\ Zeroed \in Coroutines /\ Zeroed.status = "none" /\ Zeroed.ref = 0
                    /\ ~Zeroed.misused
BY DEF Zeroed, Coroutines, Functions

\* The members of a list without its first, and with one more.
LEMMA TailMembers ==
    ASSUME NEW f \in Seq(Nat), f # <<>>
    PROVE  /\ Tail(f) \in Seq(Nat) /\ Head(f) = f[1] /\ f[1] \in ToSet(f)
           /\ ToSet(f) = ToSet(Tail(f)) \union {f[1]}
<1> DEFINE t == Tail(f)
           l == Len(f)
<1>1. /\ l \in Nat /\ l > 0 /\ Head(f) = f[1] /\ t \in Seq(Nat) /\ Len(t) = l - 1
      /\ DOMAIN f = 1..l /\ \A i \in 1..l - 1 : t[i] = f[i + 1]
  OBVIOUS
<1> HIDE DEF t, l
<1>2. DOMAIN t = 1..l - 1
  BY <1>1
<1>3. ToSet(f) = {f[i] : i \in 1..l} /\ ToSet(t) = {t[i] : i \in 1..l - 1}
  BY <1>1, <1>2 DEF ToSet
<1>4. \A i \in 1..l : i = 1 \/ (i - 1 \in 1..l - 1 /\ f[i] = t[i - 1])
  <2> SUFFICES ASSUME NEW i \in 1..l, i # 1 PROVE i - 1 \in 1..l - 1 /\ f[i] = t[i - 1]
    OBVIOUS
  <2>1. i - 1 \in 1..l - 1 /\ (i - 1) + 1 = i
    BY <1>1
  <2> QED BY <1>1, <2>1
<1>5. \A i \in 1..l - 1 : i + 1 \in 1..l
  BY <1>1
<1>6. 1 \in 1..l
  BY <1>1
<1>7. ToSet(f) \subseteq ToSet(t) \union {f[1]}
  BY <1>3, <1>4
<1>8. ToSet(t) \union {f[1]} \subseteq ToSet(f)
  BY <1>1, <1>3, <1>5, <1>6
<1> QED BY <1>1, <1>7, <1>8 DEF t

LEMMA PushMembers ==
    ASSUME NEW f \in Seq(Nat), NEW x \in Nat
    PROVE  <<x>> \o f \in Seq(Nat) /\ ToSet(<<x>> \o f) = ToSet(f) \union {x}
<1> DEFINE h == <<x>>
           g == h \o f
           l == Len(f)
<1>1. h \in Seq(Nat) /\ Len(h) = 1 /\ h[1] = x /\ l \in Nat /\ DOMAIN f = 1..l
  OBVIOUS
<1> HIDE DEF h
<1>2. /\ g \in Seq(Nat) /\ Len(g) = Len(h) + l
      /\ \A i \in 1..Len(h) + l : g[i] = IF i <= Len(h) THEN h[i] ELSE f[i - Len(h)]
  BY <1>1, ConcatProperties
<1> HIDE DEF g, l
<1>3. /\ DOMAIN g = 1..1 + l
      /\ \A i \in 1..1 + l : g[i] = IF i <= 1 THEN h[i] ELSE f[i - 1]
  BY <1>1, <1>2
<1>4. ToSet(g) = {g[i] : i \in 1..1 + l} /\ ToSet(f) = {f[i] : i \in 1..l}
  BY <1>1, <1>3 DEF ToSet
<1>5. \A i \in 1..1 + l : g[i] = x \/ (i - 1 \in 1..l /\ g[i] = f[i - 1])
  <2> SUFFICES ASSUME NEW i \in 1..1 + l
               PROVE  g[i] = x \/ (i - 1 \in 1..l /\ g[i] = f[i - 1])
    OBVIOUS
  <2>1. i = 1 \/ (~(i <= 1) /\ i - 1 \in 1..l)
    BY <1>1
  <2> QED BY <1>1, <1>3, <2>1
<1>6. \A i \in 1..l : i + 1 \in 1..1 + l /\ g[i + 1] = f[i]
  <2> SUFFICES ASSUME NEW i \in 1..l PROVE i + 1 \in 1..1 + l /\ g[i + 1] = f[i]
    OBVIOUS
  <2>1. i + 1 \in 1..1 + l /\ ~(i + 1 <= 1) /\ (i + 1) - 1 = i
    BY <1>1
  <2> QED BY <1>3, <2>1
<1>7. 1 \in 1..1 + l /\ g[1] = x
  BY <1>1, <1>3
<1>8. ToSet(g) \subseteq ToSet(f) \union {x}
  BY <1>4, <1>5
<1>9. ToSet(f) \union {x} \subseteq ToSet(g)
  BY <1>4, <1>6, <1>7
<1> QED BY <1>2, <1>8, <1>9 DEF g, h

\* No place twice in a list without its first, and in one with a new one.
LEMMA TailApart ==
    ASSUME NEW f \in Seq(Nat), f # <<>>, IsInjective(f)
    PROVE  IsInjective(Tail(f)) /\ f[1] \notin ToSet(Tail(f))
<1> DEFINE t == Tail(f)
           l == Len(f)
<1>1. /\ l \in Nat /\ l > 0 /\ t \in Seq(Nat) /\ Len(t) = l - 1
      /\ DOMAIN f = 1..l /\ \A i \in 1..l - 1 : t[i] = f[i + 1]
  OBVIOUS
<1>2. \A i, j \in 1..l : f[i] = f[j] => i = j
  BY <1>1 DEF IsInjective
<1> HIDE DEF t, l
<1>3. DOMAIN t = 1..l - 1
  BY <1>1
<1>4. \A i \in 1..l - 1 : i + 1 \in 1..l /\ i + 1 # 1
  BY <1>1
<1>5. 1 \in 1..l
  BY <1>1
<1>6. ASSUME NEW i \in 1..l - 1, NEW j \in 1..l - 1, t[i] = t[j] PROVE i = j
  <2>1. f[i + 1] = f[j + 1]
    BY <1>1, <1>6
  <2>2. i + 1 = j + 1
    BY <1>2, <1>4, <2>1
  <2> QED BY <1>1, <2>2
<1>7. ASSUME NEW i \in 1..l - 1, t[i] = f[1] PROVE FALSE
  <2>1. f[i + 1] = f[1]
    BY <1>1, <1>7
  <2> QED BY <1>2, <1>4, <1>5, <2>1
<1> QED BY <1>3, <1>6, <1>7 DEF IsInjective, ToSet, t

LEMMA PushApart ==
    ASSUME NEW f \in Seq(Nat), NEW x \in Nat, IsInjective(f), x \notin ToSet(f)
    PROVE  IsInjective(<<x>> \o f)
<1> DEFINE h == <<x>>
           g == h \o f
           l == Len(f)
<1>1. h \in Seq(Nat) /\ Len(h) = 1 /\ h[1] = x /\ l \in Nat /\ DOMAIN f = 1..l
  OBVIOUS
<1> HIDE DEF h
<1>2. /\ g \in Seq(Nat) /\ Len(g) = Len(h) + l
      /\ \A i \in 1..Len(h) + l : g[i] = IF i <= Len(h) THEN h[i] ELSE f[i - Len(h)]
  BY <1>1, ConcatProperties
<1> HIDE DEF g, l
<1>3. /\ DOMAIN g = 1..1 + l
      /\ \A i \in 1..1 + l : g[i] = IF i <= 1 THEN h[i] ELSE f[i - 1]
  BY <1>1, <1>2
<1>4. \A i, j \in 1..l : f[i] = f[j] => i = j
  BY <1>1 DEF IsInjective
<1>5. \A i \in 1..l : f[i] # x
  BY <1>1 DEF ToSet
<1>6. \A i \in 1..1 + l : (i = 1 /\ g[i] = x) \/ (i - 1 \in 1..l /\ g[i] = f[i - 1])
  <2> SUFFICES ASSUME NEW i \in 1..1 + l
               PROVE  (i = 1 /\ g[i] = x) \/ (i - 1 \in 1..l /\ g[i] = f[i - 1])
    OBVIOUS
  <2>1. i = 1 \/ (~(i <= 1) /\ i - 1 \in 1..l)
    BY <1>1
  <2> QED BY <1>1, <1>3, <2>1
<1>7. ASSUME NEW i \in 1..1 + l, NEW j \in 1..1 + l, g[i] = g[j] PROVE i = j
  <2>1. CASE i = 1 \/ j = 1
    <3>1. i = 1 /\ j = 1
      BY <1>5, <1>6, <1>7, <2>1
    <3> QED BY <3>1
  <2>2. CASE i # 1 /\ j # 1
    <3>1. i - 1 \in 1..l /\ j - 1 \in 1..l /\ f[i - 1] = f[j - 1]
      BY <1>6, <1>7, <2>2
    <3>2. i - 1 = j - 1
      BY <1>4, <3>1
    <3> QED BY <1>1, <3>2
  <2> QED BY <2>1, <2>2
<1> QED BY <1>3, <1>7 DEF IsInjective, g, h

\* The place of a coroutine, if it has one.
LEMMA PlaceOf ==
    ASSUME NEW r \in Nat \union {NoRef}
    PROVE  /\ r > 0 => {r} \ {0, NoRef} = {r}
           /\ r \in {0, NoRef} => {r} \ {0, NoRef} = {}
           /\ r > 0 \/ r \in {0, NoRef}
<1> DEFINE no == NoRef
<1>1. no < 0 /\ r \in Int
  BY DEF NoRef
<1> HIDE DEF no
<1>2. CASE r > 0
  <2>1. r # 0 /\ r # no
    BY <1>1, <1>2
  <2>2. {r} \ {0, no} = {r}
    BY <2>1
  <2> QED BY <1>2, <2>1, <2>2 DEF no
<1>3. CASE r \in {0, no}
  <2>1. ~(r > 0)
    BY <1>1, <1>3
  <2>2. {r} \ {0, no} = {}
    BY <1>3
  <2> QED BY <1>3, <2>1, <2>2 DEF no
<1>4. r > 0 \/ r \in {0, no}
  BY <1>1 DEF no
<1> QED BY <1>2, <1>3, <1>4 DEF no

\* What RefsKept says of the list f of the places that can be given out, the last
\* place, and the places that are taken; whole says that no place was lost.
Places(f, top, taken, whole) ==
    /\ IsInjective(f) /\ ToSet(f) \intersect taken = {}
    /\ ToSet(f) \union taken \subseteq 3..top
    /\ whole => 3..top = ToSet(f) \union taken

LEMMA RefsPlaces ==
    /\ RefsKept <=> c.ref \notin held /\ Places(reg.free, reg.top, Taken, plain = 0)
    /\ LastReserved = 2
<1>1. LastReserved + 1 = 3 /\ LastReserved = 2
  BY DEF LastReserved
<1> QED BY <1>1 DEF RefsKept, Places

LEMMA RefsFromPlaces ==
    ASSUME c'.ref \notin held', reg'.top >= 2, Places(reg'.free, reg'.top, Taken', plain' = 0)
    PROVE  Refs'
<1>1. LastReserved + 1 = 3 /\ LastReserved = 2
  BY DEF LastReserved
<1> QED BY <1>1 DEF Refs, RefsKept, Places

\* A new place: the first that was given back, or the next one.
LEMMA TakePlace ==
    ASSUME NEW r \in Registries, NEW taken, NEW whole \in BOOLEAN, r.top >= 2,
           Places(r.free, r.top, taken, whole)
    PROVE  /\ NextRef(r) \in Nat /\ NextRef(r) > 0 /\ NextRef(r) \notin taken
           /\ Referred(r) \in Registries /\ Referred(r).top >= 2
           /\ Places(Referred(r).free, Referred(r).top, taken \union {NextRef(r)}, whole)
<1> DEFINE f == r.free
           top == r.top
<1>1. f \in Seq(Nat) /\ top \in Nat /\ top >= 2 /\ r = [free |-> f, top |-> top]
  BY DEF Registries
<1>2. /\ IsInjective(f) /\ ToSet(f) \intersect taken = {}
      /\ ToSet(f) \union taken \subseteq 3..top
      /\ whole => 3..top = ToSet(f) \union taken
  BY DEF Places
<1>3. CASE f # <<>>
  <2> DEFINE t == Tail(f)
             x == f[1]
  <2>1. NextRef(r) = Head(f) /\ Referred(r) = [r EXCEPT !.free = t]
    BY <1>3 DEF NextRef, Referred, f
  <2>2. /\ t \in Seq(Nat) /\ Head(f) = x /\ x \in ToSet(f)
        /\ ToSet(f) = ToSet(t) \union {x}
    BY <1>1, <1>3, TailMembers
  <2>3. IsInjective(t) /\ x \notin ToSet(t)
    BY <1>1, <1>2, <1>3, TailApart
  <2> HIDE DEF f, top, t, x
  <2>4. Referred(r) = [free |-> t, top |-> top]
    BY <1>1, <2>1
  <2>5. /\ Referred(r).free = t /\ Referred(r).top = top /\ Referred(r) \in Registries
        /\ NextRef(r) = x
    BY <1>1, <2>1, <2>2, <2>4 DEF Registries
  <2>6. x \in 3..top /\ x \notin taken
    BY <1>2, <2>2
  <2>7. x \in Nat /\ x > 0
    BY <1>1, <2>6
  <2>8. ToSet(t) \union (taken \union {x}) = ToSet(f) \union taken
    BY <2>2
  <2>9. ToSet(t) \intersect (taken \union {x}) = {}
    BY <1>2, <2>2, <2>3
  <2>10. Places(t, top, taken \union {x}, whole)
    BY <1>2, <2>3, <2>8, <2>9 DEF Places
  <2> QED BY <1>1, <2>5, <2>6, <2>7, <2>10
<1>4. CASE f = <<>>
  <2> DEFINE x == top + 1
  <2>1. NextRef(r) = x /\ Referred(r) = [r EXCEPT !.top = x]
    BY <1>4 DEF NextRef, Referred, f, top
  <2>2. ToSet(f) = {}
    BY <1>4 DEF ToSet
  <2>3. x \in Nat /\ x > 0 /\ x >= 2 /\ x \notin 3..top /\ 3..x = 3..top \union {x}
    BY <1>1
  <2> HIDE DEF f, top, x
  <2>4. Referred(r) = [free |-> f, top |-> x]
    BY <1>1, <2>1
  <2>5. Referred(r).free = f /\ Referred(r).top = x /\ Referred(r) \in Registries
    BY <1>1, <2>3, <2>4 DEF Registries
  <2>6. x \notin taken
    BY <1>2, <2>3
  <2>7. Places(f, x, taken \union {x}, whole)
    BY <1>2, <2>2, <2>3 DEF Places
  <2> QED BY <2>1, <2>3, <2>5, <2>6, <2>7
<1> QED BY <1>3, <1>4

\* A place that is given back.
LEMMA GivePlace ==
    ASSUME NEW f \in Seq(Nat), NEW top, NEW taken, NEW whole \in BOOLEAN,
           NEW x \in Nat, x \notin taken, Places(f, top, taken \union {x}, whole)
    PROVE  Places(<<x>> \o f, top, taken, whole)
<1> DEFINE g == <<x>> \o f
<1>1. ToSet(g) = ToSet(f) \union {x}
  BY PushMembers
<1>2. /\ IsInjective(f) /\ ToSet(f) \intersect (taken \union {x}) = {}
      /\ ToSet(f) \union (taken \union {x}) \subseteq 3..top
      /\ whole => 3..top = ToSet(f) \union (taken \union {x})
  BY DEF Places
<1>3. x \notin ToSet(f)
  BY <1>2
<1>4. IsInjective(g)
  BY <1>2, <1>3, PushApart
<1> HIDE DEF g
<1>5. ToSet(g) \intersect taken = {}
  BY <1>1, <1>2
<1>6. ToSet(g) \union taken = ToSet(f) \union (taken \union {x})
  BY <1>1
<1>7. Places(g, top, taken, whole)
  BY <1>2, <1>4, <1>5, <1>6 DEF Places
<1> QED BY <1>7 DEF g

\* The places are as RefsKept says, and a new one is taken by nobody.
LEMMA ReferredType ==
    ASSUME Control
    PROVE  /\ NextRef(reg) \in Nat /\ NextRef(reg) > 0 /\ NextRef(reg) \notin Taken
           /\ Referred(reg) \in Registries /\ Referred(reg).top >= 2
           /\ Places(Referred(reg).free, Referred(reg).top, Taken \union {NextRef(reg)},
                     plain = 0)
<1>1. reg \in Registries /\ reg.top >= 2 /\ Places(reg.free, reg.top, Taken, plain = 0)
  BY RefsPlaces DEF Control, TypeControl, Refs
<1>2. (plain = 0) \in BOOLEAN
  OBVIOUS
<1> QED BY <1>1, <1>2, TakePlace

\* The place is given back when the service is closed.
LEMMA CloseControl ==
    ASSUME Control, conn = "open", Close,
           UNCHANGED <<held, plain>>, stage' \in {0, RdReq, WrRes}, answers' \in Nat,
           requests' \in {0, 1}, requests' = 0 => stage' = 0 /\ answers' = 0
    PROVE  Control'
<1> DEFINE f == reg.free
           ref == c.ref
           g == <<ref>> \o f
<1>1. /\ f \in Seq(Nat) /\ reg.top \in Nat
      /\ reg = [free |-> f, top |-> reg.top]
  BY DEF Control, TypeControl, Registries
<1>2. reg.top >= LastReserved
  BY DEF Control, Refs
<1>3. ref \in Nat /\ ref > 0 /\ ref # NoRef /\ c.ref \in Nat \union {NoRef}
  <2>1. c.ref > 0 /\ c.ref \in Nat \union {NoRef}
    BY DEF Control, TypeControl, Shape, Coroutines
  <2> QED BY <2>1 DEF NoRef
<1>4. /\ ref \notin held /\ Taken = held \union {ref}
      /\ Places(f, reg.top, Taken, plain = 0)
  <2>1. ref \notin held /\ Places(f, reg.top, Taken, plain = 0)
    BY RefsPlaces DEF Control, Refs
  <2>2. {ref} \ {0, NoRef} = {ref}
    <3> HIDE DEF ref
    <3> QED BY <1>3, PlaceOf
  <2> QED BY <2>1, <2>2 DEF Taken
<1>5. c' = [c EXCEPT !.ref = NoRef, !.status = "none"] /\ conn' = "closed" /\ run' = Idle
  BY DEF Close
<1>6. reg' = [reg EXCEPT !.free = g]
  BY <1>3 DEF Close, FreeState, Unreferred
<1>7. g \in Seq(Nat)
  BY <1>1, <1>3, PushMembers
<1>8. Places(g, reg.top, held, plain = 0)
  <2>1. (plain = 0) \in BOOLEAN
    OBVIOUS
  <2> HIDE DEF ref, f
  <2> QED BY <1>1, <1>3, <1>4, <2>1, GivePlace
<1> HIDE DEF f, ref, g
<1>9. reg' = [free |-> g, top |-> reg.top]
  BY <1>1, <1>6
<1>10. reg'.free = g /\ reg'.top = reg.top /\ reg' \in Registries
  BY <1>1, <1>7, <1>9 DEF Registries
<1>11. /\ c' \in Coroutines /\ c'.ref = NoRef /\ c'.status = "none"
       /\ c'.misused = c.misused
  BY <1>5 DEF Control, TypeControl, Coroutines
<1>12. run' = [at |-> run'.at, count |-> run'.count, n |-> run'.n] /\ run'.at = ""
  BY <1>5 DEF Idle
<1>13. TypeControl'
  BY <1>5, <1>10, <1>11, <1>12 DEF TypeControl, Control
<1>14. Shape'
  BY <1>5, <1>11, <1>12 DEF Control, Shape
<1>15. c'.ref \notin held' /\ Taken' = held'
  <2>1. NoRef \notin held
    <3>1. held \subseteq 3..reg.top
      BY <1>8 DEF Places
    <3> QED BY <1>1, <3>1 DEF NoRef
  <2>2. {c'.ref} \ {0, NoRef} = {}
    BY <1>11
  <2>3. held' \union {} = held'
    OBVIOUS
  <2> QED BY <1>11, <2>1, <2>2, <2>3 DEF Taken
<1>16. Refs'
  <2>1. Places(reg'.free, reg'.top, Taken', plain' = 0)
    BY <1>8, <1>10, <1>15
  <2>2. reg'.top >= 2
    BY <1>2, <1>10, RefsPlaces
  <2> QED BY <1>15, <2>1, <2>2, RefsFromPlaces
<1> QED BY <1>13, <1>14, <1>16 DEF Control

\* A mask that says nothing to read, or anything else but the coroutine: the
\* control is what it was.
LEMMA SameControl ==
    ASSUME Control, UNCHANGED <<conn, stage, run, c, reg, answers, requests, held, plain>>
    PROVE  Control'
BY DEF Control, TypeControl, Shape, Refs, RefsKept, Taken

\* A function of the coroutine goes on, or enters another that reads.
LEMMA KeepControl ==
    ASSUME Control, conn = "open", run.at \in Reading, run'.at \in Reading,
           run' = [at |-> run'.at, count |-> run'.count, n |-> run'.n],
           UNCHANGED <<conn, stage, c, reg, answers, requests, held, plain>>
    PROVE  Control'
<1>1. TypeControl'
  BY DEF Control, TypeControl, Reading, Functions
<1>2. Shape'
  <2>1. run.at # "" /\ run'.at # "write_response"
    BY DEF Reading
  <2> QED BY <2>1 DEF Control, Shape
<1>3. Refs'
  BY DEF Control, Refs, RefsKept, Taken
<1> QED BY <1>1, <1>2, <1>3 DEF Control

\* The coroutine comes back to the handler: suspended while it reads, or else with
\* what it was; a function that writes has written.
ComesBack(out, co) ==
    /\ run.at \in Functions /\ out \in {"error", "yield", "done"}
    /\ Back(out, co)
    /\ IF out = "yield" THEN run.at \in Reading /\ co = Yielded(c, run.at) ELSE co = c
    /\ answers' = answers + (IF run.at = "write_response" THEN 1 ELSE 0)
    /\ UNCHANGED <<held, plain>>

\* Whatever it comes back with.
LEMMA BackControl ==
    ASSUME Control, conn = "open", NEW out, NEW co, ComesBack(out, co)
    PROVE  Control'
<1>1. /\ run.at # "" /\ run.at \in Functions
      /\ run.at = "write_response" \/ run.at \in Reading
      /\ out \in {"error", "yield", "done"}
  BY DEF ComesBack, Functions, Reading
<1>2. /\ stage \in {0, RdReq, WrRes} /\ answers \in Nat /\ requests \in {0, 1}
      /\ run.at \in Reading => requests = 0
      /\ run.at = "write_response" => requests = 1
      /\ requests = 0 => stage = 0 /\ answers = 0
  BY DEF Control, TypeControl, Shape
<1>3. /\ stage' = IF out # "done" THEN stage ELSE IF stage = WrRes THEN RdReq ELSE WrRes
      /\ requests' = requests + (IF out = "done" /\ run.at # "write_response" THEN 1 ELSE 0)
      /\ answers' = answers + (IF run.at = "write_response" THEN 1 ELSE 0)
      /\ held' = held /\ plain' = plain
  BY DEF ComesBack, Back, Finished
<1>4. /\ out = "yield" => run.at \in Reading /\ co = Yielded(c, run.at)
      /\ out # "yield" => co = c
  BY DEF ComesBack
<1>5. /\ stage' \in {0, RdReq, WrRes} /\ answers' \in Nat /\ requests' \in {0, 1}
      /\ requests' = 0 => stage' = 0 /\ answers' = 0
      /\ run.at \in Reading => requests' = IF out = "done" THEN 1 ELSE 0
      /\ run.at = "write_response" => requests' = 1
      /\ out = "done" => requests' = 1
      /\ stage = WrRes => requests = 1
  <2>1. stage' \in {0, RdReq, WrRes}
    BY <1>2, <1>3
  <2>2. answers' \in Nat
    BY <1>2, <1>3
  <2>3. CASE run.at \in Reading
    <3>1. run.at # "write_response" /\ requests = 0
      BY <1>2, <2>3 DEF Reading
    <3>2. stage = 0 /\ answers = 0 /\ answers' = 0 /\ stage # WrRes
      BY <1>2, <1>3, <3>1 DEF WrRes
    <3>3. requests' = IF out = "done" THEN 1 ELSE 0
      BY <1>3, <3>1
    <3> QED BY <1>3, <2>1, <2>2, <2>3, <3>1, <3>2, <3>3
  <2>4. CASE run.at = "write_response"
    <3>1. requests = 1 /\ requests' = 1 /\ run.at \notin Reading
      BY <1>2, <1>3, <2>4 DEF Reading
    <3> QED BY <2>1, <2>2, <2>4, <3>1
  <2> QED BY <1>1, <2>3, <2>4
<1>12. /\ c \in Coroutines /\ c.status = "ok" /\ c.ref > 0 /\ ~c.misused
       /\ c.func = IF requests = 1 THEN "write_response" ELSE "read_request"
       /\ reg \in Registries
  BY <1>1 DEF Control, TypeControl, Shape
<1>6. CASE out = "error" \/ (Finished(out) /\ stage = WrRes /\ rd.method \in {"o", "v"})
  <2>1. Close
    BY <1>6 DEF ComesBack, Back
  <2> QED BY <1>3, <1>5, <2>1, CloseControl
<1>7. CASE ~(out = "error" \/ (Finished(out) /\ stage = WrRes /\ rd.method \in {"o", "v"}))
  <2> DEFINE writes == out = "done" /\ stage # WrRes
  <2>1. /\ c' = IF writes THEN SetResume(co, reg, "write_response") ELSE co
        /\ run' = IF writes THEN Enters("write_response") ELSE Idle
        /\ UNCHANGED <<conn, reg>>
    BY <1>7 DEF ComesBack, Back, Finished
  <2>2. writes => co = c /\ out = "done" /\ requests' = 1
    BY <1>4, <1>5
  <2>3. ~writes /\ out # "yield" => co = c /\ out = "done" /\ requests = 1 /\ requests' = 1
    BY <1>4, <1>5, <1>7, <1>1
  <2>4. /\ c' \in Coroutines /\ c'.ref = c.ref /\ ~c'.misused
        /\ c'.func = IF requests' = 1 THEN "write_response" ELSE "read_request"
        /\ out = "yield" => c'.status = "yield" /\ c'.kfunc \in Reading /\ requests' = 0
        /\ out # "yield" => c'.status = "ok"
    <3>1. CASE writes
      <4>1. "write_response" \in Functions
        BY DEF Functions
      <4>2. c' = SetResume(c, reg, "write_response")
        BY <2>1, <2>2, <3>1
      <4>3. /\ c' \in Coroutines /\ c'.ref = c.ref /\ c'.status = "ok"
            /\ c'.func = "write_response" /\ ~c'.misused
        BY <1>12, <4>1, <4>2, SetAgain
      <4> QED BY <1>12, <2>2, <3>1, <4>3
    <3>2. CASE out = "yield"
      <4>1. run.at \in Reading /\ c' = Yielded(c, run.at)
        BY <1>4, <2>1, <3>2
      <4>2. requests' = 0 /\ requests = 0
        BY <1>2, <1>5, <3>2, <4>1
      <4>3. /\ c' \in Coroutines /\ c'.ref = c.ref /\ c'.status = "yield"
            /\ c'.func = c.func /\ c'.kfunc = run.at /\ c'.misused = c.misused
        BY <1>1, <1>12, <4>1, CoroutineFields
      <4> QED BY <1>12, <3>2, <4>1, <4>2, <4>3
    <3>3. CASE ~writes /\ out # "yield"
      <4>1. c' = c /\ requests' = 1 /\ requests = 1
        BY <2>1, <2>3, <3>3
      <4> QED BY <1>12, <3>3, <4>1
    <3> QED BY <3>1, <3>2, <3>3
  <2>5. Refs' /\ reg' \in Registries
    BY <1>3, <1>12, <2>1, <2>4 DEF Control, Refs, RefsKept, Taken
  <2>6. /\ run'.at \in {"", "write_response"} /\ run'.at \in Functions \union {""}
        /\ run' = [at |-> run'.at, count |-> run'.count, n |-> run'.n]
        /\ run'.at = "write_response" => writes
        /\ run'.at \notin Reading
    BY <2>1 DEF Idle, Enters, Functions, Reading
  <2>7. TypeControl'
    BY <1>3, <1>5, <2>1, <2>4, <2>5, <2>6 DEF Control, TypeControl
  <2>8. /\ run'.at = "write_response" => requests' = 1
        /\ run'.at # "" => c'.status = "ok"
    BY <2>2, <2>4, <2>6
  <2>9. c'.status \in {"ok", "yield"} /\ c'.ref > 0 /\ conn' = "open"
    BY <1>12, <2>1, <2>4
  <2>10. c'.status = "yield" => out = "yield"
    BY <2>4
  <2>11. Shape'
    BY <1>5, <2>4, <2>6, <2>8, <2>9, <2>10 DEF Shape
  <2> QED BY <2>5, <2>7, <2>11 DEF Control
<1> QED BY <1>6, <1>7

\* While the coroutine runs, the connection is open.
LEMMA RunsOpen == Control /\ run.at # "" => conn = "open" /\ c.status = "ok"
BY DEF Control, Shape

\* The steps of the coroutine, one by one.
LEMMA ReadLineControl == Control /\ ReadLine(LineFound) => Control'
<1> SUFFICES ASSUME Control, ReadLine(LineFound) PROVE Control'
  OBVIOUS
<1> DEFINE r == [rd EXCEPT !.mstart = SearchFrom(rd, LineFound)]
           count == LineLength - 1
<1>1. /\ run.at \in {"read_request", "read_headers"}
      /\ \/ Back("yield", Yielded(c, run.at))
         \/ Back("error", c)
         \/ ReadSocket(r, count)
      /\ Meanwhile /\ UNCHANGED answers
  BY DEF ReadLine
<1> HIDE DEF r, count
<1>2. run.at \in Reading /\ run.at \in Functions /\ run.at # "write_response" /\ run.at # ""
  BY <1>1 DEF Reading, Functions
<1>3. conn = "open" /\ answers \in Nat /\ held' = held /\ plain' = plain
  BY <1>1, <1>2, RunsOpen DEF Control, TypeControl, Meanwhile, counts
<1>4. answers' = answers + (IF run.at = "write_response" THEN 1 ELSE 0)
  <2>1. answers' = answers /\ run.at # "write_response" /\ answers \in Nat
    BY <1>1, <1>2, <1>3
  <2> QED BY <2>1
<1>5. CASE Back("yield", Yielded(c, run.at))
  <2>1. ComesBack("yield", Yielded(c, run.at))
    BY <1>2, <1>3, <1>4, <1>5 DEF ComesBack
  <2> QED BY <1>3, <2>1, BackControl
<1>6. CASE Back("error", c)
  <2>1. ComesBack("error", c)
    BY <1>2, <1>3, <1>4, <1>6 DEF ComesBack
  <2> QED BY <1>3, <2>1, BackControl
<1>7. CASE ReadSocket(r, count)
  <2>1. /\ \E n : run' = [run EXCEPT !.count = count, !.n = n]
        /\ UNCHANGED <<conn, stage, c, reg, requests>>
    BY <1>7 DEF ReadSocket
  <2>2. run = [at |-> run.at, count |-> run.count, n |-> run.n]
    BY DEF Control, TypeControl
  <2>3. run' = [at |-> run'.at, count |-> run'.count, n |-> run'.n] /\ run'.at = run.at
    BY <2>1, <2>2
  <2> QED BY <1>1, <1>2, <1>3, <2>1, <2>3, KeepControl
<1> QED BY <1>1, <1>5, <1>6, <1>7

LEMMA ReadRequestControl == Control /\ ReadRequest(LineFound) => Control'
<1> SUFFICES ASSUME Control, ReadRequest(LineFound) PROVE Control'
  OBVIOUS
<1>1. /\ run.at = "read_request"
      /\ \/ Back("error", c)
         \/ Back("done", c)
         \/ /\ run' = Enters("read_headers")
            /\ UNCHANGED <<conn, stage, c, reg, requests>>
      /\ Meanwhile /\ UNCHANGED answers
  BY DEF ReadRequest
<1>2. run.at \in Reading /\ run.at \in Functions /\ run.at # "write_response" /\ run.at # ""
  BY <1>1 DEF Reading, Functions
<1>3. conn = "open" /\ answers \in Nat /\ held' = held /\ plain' = plain
  BY <1>1, <1>2, RunsOpen DEF Control, TypeControl, Meanwhile, counts
<1>4. answers' = answers + (IF run.at = "write_response" THEN 1 ELSE 0)
  BY <1>1, <1>2, <1>3
<1>5. CASE Back("error", c)
  <2>1. ComesBack("error", c)
    BY <1>2, <1>3, <1>4, <1>5 DEF ComesBack
  <2> QED BY <1>3, <2>1, BackControl
<1>6. CASE Back("done", c)
  <2>1. ComesBack("done", c)
    BY <1>2, <1>3, <1>4, <1>6 DEF ComesBack
  <2> QED BY <1>3, <2>1, BackControl
<1>7. CASE run' = Enters("read_headers") /\ UNCHANGED <<conn, stage, c, reg, requests>>
  <2>1. /\ run' = [at |-> run'.at, count |-> run'.count, n |-> run'.n]
        /\ run'.at \in Reading
    BY <1>7 DEF Enters, Reading
  <2> QED BY <1>1, <1>2, <1>3, <1>7, <2>1, KeepControl
<1> QED BY <1>1, <1>5, <1>6, <1>7

LEMMA ReadHeaderControl == Control /\ ReadHeader(LineFound) => Control'
<1> SUFFICES ASSUME Control, ReadHeader(LineFound) PROVE Control'
  OBVIOUS
<1>1. /\ run.at = "read_headers" /\ run' = Enters("read_headers")
      /\ UNCHANGED <<conn, stage, c, reg, requests, answers>> /\ Meanwhile
  BY DEF ReadHeader
<1>2. run.at \in Reading /\ run.at # ""
  BY <1>1 DEF Reading
<1>3. conn = "open" /\ held' = held /\ plain' = plain
  BY <1>1, <1>2, RunsOpen DEF Meanwhile, counts
<1>4. run' = [at |-> run'.at, count |-> run'.count, n |-> run'.n] /\ run'.at \in Reading
  BY <1>1 DEF Enters, Reading
<1> QED BY <1>1, <1>2, <1>3, <1>4, KeepControl

LEMMA EndHeadersControl == Control /\ EndHeaders(LineFound) => Control'
<1> SUFFICES ASSUME Control, EndHeaders(LineFound) PROVE Control'
  OBVIOUS
<1>1. /\ run.at = "read_headers"
      /\ \/ Back("done", c)
         \/ /\ run' = Enters("read_body")
            /\ UNCHANGED <<conn, stage, c, reg, requests>>
      /\ Meanwhile /\ UNCHANGED answers
  BY DEF EndHeaders
<1>2. run.at \in Reading /\ run.at \in Functions /\ run.at # "write_response" /\ run.at # ""
  BY <1>1 DEF Reading, Functions
<1>3. conn = "open" /\ answers \in Nat /\ held' = held /\ plain' = plain
  BY <1>1, <1>2, RunsOpen DEF Control, TypeControl, Meanwhile, counts
<1>4. answers' = answers + (IF run.at = "write_response" THEN 1 ELSE 0)
  BY <1>1, <1>2, <1>3
<1>5. CASE Back("done", c)
  <2>1. ComesBack("done", c)
    BY <1>2, <1>3, <1>4, <1>5 DEF ComesBack
  <2> QED BY <1>3, <2>1, BackControl
<1>6. CASE run' = Enters("read_body") /\ UNCHANGED <<conn, stage, c, reg, requests>>
  <2>1. /\ run' = [at |-> run'.at, count |-> run'.count, n |-> run'.n]
        /\ run'.at \in Reading
    BY <1>6 DEF Enters, Reading
  <2> QED BY <1>1, <1>2, <1>3, <1>6, <2>1, KeepControl
<1> QED BY <1>1, <1>5, <1>6

LEMMA ReadBodyControl == Control /\ ReadBody => Control'
<1> SUFFICES ASSUME Control, ReadBody PROVE Control'
  OBVIOUS
<1>1. /\ run.at = "read_body"
      /\ \/ Back("done", c)
         \/ Back("yield", Yielded(c, run.at))
         \/ Back("error", c)
         \/ \E count : ReadSocket(rd, count)
      /\ Meanwhile /\ UNCHANGED answers
  BY DEF ReadBody
<1>2. run.at \in Reading /\ run.at \in Functions /\ run.at # "write_response" /\ run.at # ""
  BY <1>1 DEF Reading, Functions
<1>3. conn = "open" /\ answers \in Nat /\ held' = held /\ plain' = plain
  BY <1>1, <1>2, RunsOpen DEF Control, TypeControl, Meanwhile, counts
<1>4. answers' = answers + (IF run.at = "write_response" THEN 1 ELSE 0)
  BY <1>1, <1>2, <1>3
<1>5. CASE Back("done", c)
  <2>1. ComesBack("done", c)
    BY <1>2, <1>3, <1>4, <1>5 DEF ComesBack
  <2> QED BY <1>3, <2>1, BackControl
<1>6. CASE Back("yield", Yielded(c, run.at))
  <2>1. ComesBack("yield", Yielded(c, run.at))
    BY <1>2, <1>3, <1>4, <1>6 DEF ComesBack
  <2> QED BY <1>3, <2>1, BackControl
<1>7. CASE Back("error", c)
  <2>1. ComesBack("error", c)
    BY <1>2, <1>3, <1>4, <1>7 DEF ComesBack
  <2> QED BY <1>3, <2>1, BackControl
<1>8. CASE \E count : ReadSocket(rd, count)
  <2>1. PICK count : ReadSocket(rd, count)
    BY <1>8
  <2>2. /\ \E n : run' = [run EXCEPT !.count = count, !.n = n]
        /\ UNCHANGED <<conn, stage, c, reg, requests>>
    BY <2>1 DEF ReadSocket
  <2>3. run = [at |-> run.at, count |-> run.count, n |-> run.n]
    BY DEF Control, TypeControl
  <2>4. run' = [at |-> run'.at, count |-> run'.count, n |-> run'.n] /\ run'.at = run.at
    BY <2>2, <2>3
  <2> QED BY <1>1, <1>2, <1>3, <2>2, <2>4, KeepControl
<1> QED BY <1>1, <1>5, <1>6, <1>7, <1>8

LEMMA WriteResponseControl == Control /\ WriteResponse => Control'
<1> SUFFICES ASSUME Control, WriteResponse PROVE Control'
  OBVIOUS
<1>1. PICK out \in {"done", "error"} : Back(out, c)
  BY DEF WriteResponse
<1>2. run.at = "write_response" /\ answers' = answers + 1 /\ Meanwhile
  BY DEF WriteResponse
<1>3. run.at \in Functions /\ conn = "open" /\ held' = held /\ plain' = plain
  BY <1>2, RunsOpen DEF Functions, Meanwhile, counts
<1>4. out \in {"error", "yield", "done"} /\ out # "yield"
  OBVIOUS
<1>5. ComesBack(out, c)
  BY <1>1, <1>2, <1>3, <1>4 DEF ComesBack
<1> QED BY <1>3, <1>5, BackControl

\* A mask that the worker takes.
LEMMA TakeControl == Control /\ (HandleGone \/ HandleOther \/ HandleReadable) => Control'
<1> SUFFICES ASSUME Control, HandleGone \/ HandleOther \/ HandleReadable PROVE Control'
  OBVIOUS
<1>1. conn = "open" /\ run.at = "" /\ held' = held /\ plain' = plain
  BY DEF HandleGone, HandleOther, HandleReadable, Take, counts
<1>2. CASE HandleGone
  <2>1. Close /\ UNCHANGED <<stage, answers, requests>>
    BY <1>2 DEF HandleGone
  <2>2. /\ stage' \in {0, RdReq, WrRes} /\ answers' \in Nat /\ requests' \in {0, 1}
        /\ requests' = 0 => stage' = 0 /\ answers' = 0
    BY <2>1 DEF Control, TypeControl, Shape
  <2> QED BY <1>1, <2>1, <2>2, CloseControl
<1>3. CASE HandleOther
  <2>1. UNCHANGED <<conn, stage, run, c, reg, answers, requests, held, plain>>
    BY <1>1, <1>3 DEF HandleOther, server
  <2> QED BY <2>1, SameControl
<1>4. CASE HandleReadable
  <2>1. /\ run' = Enters(Resumes(c)) /\ c' = Resumed(c)
        /\ UNCHANGED <<conn, stage, reg, answers, requests>>
    BY <1>4 DEF HandleReadable
  <2>2. /\ c \in Coroutines /\ ~c.misused /\ c.ref > 0 /\ c.status \in {"ok", "yield"}
        /\ requests \in {0, 1}
        /\ c.func = IF requests = 1 THEN "write_response" ELSE "read_request"
        /\ c.status = "yield" => c.kfunc \in Reading /\ requests = 0
    BY <1>1 DEF Control, TypeControl, Shape
  <2>3. /\ c' \in Coroutines /\ c'.ref = c.ref /\ c'.status = "ok"
        /\ c'.func = c.func /\ c'.misused = c.misused
    BY <2>1, <2>2, CoroutineFields
  <2>4. IF requests = 1 THEN Resumes(c) = "write_response" ELSE Resumes(c) \in Reading
    BY <2>2 DEF Resumes, Reading
  <2>5. /\ run' = [at |-> run'.at, count |-> run'.count, n |-> run'.n]
        /\ run'.at = Resumes(c)
    BY <2>1 DEF Enters
  <2>6. Resumes(c) \in Functions \union {""}
    BY <2>4 DEF Reading, Functions
  <2>7. TypeControl'
    BY <1>1, <2>1, <2>3, <2>5, <2>6 DEF Control, TypeControl
  <2>8. Shape'
    <3>1. /\ run'.at \in Reading => requests' = 0
          /\ run'.at = "write_response" => requests' = 1
      BY <2>1, <2>2, <2>4, <2>5 DEF Reading
    <3> QED BY <1>1, <2>1, <2>2, <2>3, <3>1 DEF Control, Shape
  <2>9. Refs'
    BY <1>1, <2>1, <2>3 DEF Control, Refs, RefsKept, Taken
  <2> QED BY <2>7, <2>8, <2>9 DEF Control
<1> QED BY <1>2, <1>3, <1>4

\* A new coroutine has a place of the registry.
LEMMA ConnectControl == ASSUME NEW s, NEW set, Control, Connect(s, set) PROVE Control'
<1>1. /\ conn' = "open" /\ stage' = 0 /\ run' = Idle
      /\ held' = IF conn = "open" THEN held \union {c.ref} ELSE held
      /\ c' = SetResume(Zeroed, reg, "read_request") /\ reg' = Referred(reg)
      /\ answers' = 0 /\ requests' = 0 /\ plain' = plain
  BY DEF Connect
<1> DEFINE n == NextRef(reg)
<1>2. /\ n \in Nat /\ n > 0 /\ n \notin Taken
      /\ reg' \in Registries /\ reg'.top >= 2
      /\ Places(reg'.free, reg'.top, Taken \union {n}, plain = 0)
  BY <1>1, ReferredType
<1>3. "read_request" \in Functions
  BY DEF Functions
<1>4. c' \in Coroutines /\ c'.ref = n /\ c'.status = "ok"
  BY <1>1, <1>2, <1>3, SetFirst
<1>5. c'.func = "read_request" /\ ~c'.misused
  BY <1>1, <1>2, <1>3, SetFirst
<1> HIDE DEF n
<1>6. run' = [at |-> run'.at, count |-> run'.count, n |-> run'.n] /\ run'.at = ""
  BY <1>1 DEF Idle
<1>7. TypeControl'
  BY <1>1, <1>2, <1>4, <1>6 DEF TypeControl, Control
<1>8. Shape'
  <2>1. run'.at \notin Reading /\ run'.at # "write_response"
    BY <1>6 DEF Reading
  <2>3. requests' # 1 /\ requests' = 0
    BY <1>1
  <2>2. c'.ref > 0
    BY <1>2, <1>4
  <2> QED BY <1>1, <1>4, <1>5, <1>6, <2>1, <2>2, <2>3 DEF Shape
<1>9. held' = Taken
  <2>1. /\ c.ref \in Nat \union {NoRef}
        /\ conn = "open" => c.ref > 0
        /\ conn # "open" => c.ref \in {0, NoRef}
    BY DEF Control, TypeControl, Shape, Coroutines
  <2>2. IF conn = "open" THEN {c.ref} \ {0, NoRef} = {c.ref} ELSE {c.ref} \ {0, NoRef} = {}
    BY <2>1, PlaceOf
  <2> QED BY <1>1, <2>2 DEF Taken
<1>10. Taken' = Taken \union {n}
  <2>1. {c'.ref} \ {0, NoRef} = {n}
    BY <1>2, <1>4, PlaceOf
  <2> QED BY <1>9, <2>1 DEF Taken
<1>11. Refs'
  BY <1>1, <1>2, <1>4, <1>9, <1>10, RefsFromPlaces
<1> QED BY <1>7, <1>8, <1>11 DEF Control

\* So has that of a service which nothing reaches.
LEMMA ConnectClosingControl == Control /\ ConnectClosing => Control'
<1> SUFFICES ASSUME Control, ConnectClosing PROVE Control'
  OBVIOUS
<1> DEFINE n == NextRef(reg)
<1>1. /\ held' = held \union {n} /\ reg' = Referred(reg)
      /\ UNCHANGED <<conn, stage, run, c, answers, requests, plain>>
  BY DEF ConnectClosing
<1>2. /\ n \in Nat /\ n > 0 /\ n \notin Taken
      /\ reg' \in Registries /\ reg'.top >= 2
      /\ Places(reg'.free, reg'.top, Taken \union {n}, plain = 0)
  BY <1>1, ReferredType
<1> HIDE DEF n
<1>3. TypeControl' /\ Shape'
  BY <1>1, <1>2 DEF Control, TypeControl, Shape
<1>4. Taken' = Taken \union {n}
  BY <1>1 DEF Taken
<1>5. c'.ref \notin held'
  <2>1. c.ref \notin held /\ c.ref \in Nat \union {NoRef}
    BY DEF Control, TypeControl, Coroutines, Refs, RefsKept
  <2>2. c.ref # n
    <3>1. CASE c.ref > 0
      <4>1. c.ref \in Taken
        BY <2>1, <3>1, PlaceOf DEF Taken
      <4> QED BY <1>2, <4>1
    <3>2. CASE c.ref \in {0, NoRef}
      BY <1>2, <3>2 DEF NoRef
    <3> QED BY <2>1, <3>1, <3>2, PlaceOf
  <2> QED BY <1>1, <2>1, <2>2
<1>6. Refs'
  BY <1>1, <1>2, <1>4, <1>5, RefsFromPlaces
<1> QED BY <1>3, <1>6 DEF Control

\* A service without a coroutine gives place 0 back, and the list is lost.
LEMMA ClosePlainControl == Control /\ ClosePlain => Control'
<1> SUFFICES ASSUME Control, ClosePlain PROVE Control'
  OBVIOUS
<1>1. /\ plain' = plain + 1 /\ reg' = FreeState(Zeroed, reg)
      /\ UNCHANGED <<conn, stage, run, c, answers, requests, held>>
  BY DEF ClosePlain
<1>2. /\ reg.top >= LastReserved /\ reg.top \in Nat /\ plain \in Nat /\ plain + 1 \in Nat
      /\ reg = [free |-> reg.free, top |-> reg.top]
  <2>1. reg \in Registries /\ plain \in Nat /\ reg.top >= LastReserved
    BY DEF Control, TypeControl, Refs
  <2> QED BY <2>1 DEF Registries
<1>3. reg' = [reg EXCEPT !.free = <<>>]
  BY <1>1 DEF FreeState, Unreferred, Zeroed, NoRef
<1>4. reg' \in Registries /\ reg'.free = <<>> /\ reg'.top = reg.top
  <2> DEFINE e == <<>>
  <2>1. e \in Seq(Nat)
    OBVIOUS
  <2>2. reg' = [reg EXCEPT !.free = e]
    BY <1>3
  <2> HIDE DEF e
  <2> QED BY <1>2, <2>1, <2>2 DEF Registries, e
<1>5. TypeControl'
  BY <1>1, <1>2, <1>4 DEF Control, TypeControl
<1>6. Shape'
  BY <1>1 DEF Control, Shape
<1>7. plain' # 0
  BY <1>1, <1>2
<1>8. Places(reg'.free, reg'.top, Taken', plain' = 0)
  <2>1. Taken' = Taken
    BY <1>1 DEF Taken
  <2>2. Places(reg.free, reg.top, Taken, plain = 0)
    BY RefsPlaces DEF Control, Refs
  <2>3. ToSet(reg'.free) = {} /\ IsInjective(reg'.free)
    BY <1>4 DEF ToSet, IsInjective
  <2> QED BY <1>4, <1>7, <2>1, <2>2, <2>3 DEF Places
<1>9. c'.ref \notin held'
  BY <1>1 DEF Control, Refs, RefsKept
<1>10. Refs'
  <2>1. reg'.top >= 2
    BY <1>2, <1>4, RefsPlaces
  <2> QED BY <1>8, <1>9, <2>1, RefsFromPlaces
<1> QED BY <1>5, <1>6, <1>10 DEF Control

LEMMA InitControl == Init => Control
<1> SUFFICES ASSUME Init PROVE Control
  OBVIOUS
<1>1. /\ conn = "none" /\ stage = 0 /\ run = Idle /\ c = Zeroed /\ reg = EmptyRegistry
      /\ answers = 0 /\ requests = 0 /\ held = {} /\ plain = 0
  BY DEF Init
<1>2. run = [at |-> run.at, count |-> run.count, n |-> run.n] /\ run.at = ""
  BY <1>1 DEF Idle
<1>3. c \in Coroutines /\ c.ref = 0 /\ c.status = "none" /\ ~c.misused
  BY <1>1, ZeroedType
<1>4. reg \in Registries /\ reg.free = <<>> /\ reg.top = LastReserved /\ LastReserved \in Nat
  <2> DEFINE e == <<>>
  <2>1. e \in Seq(Nat) /\ LastReserved \in Nat /\ reg = [free |-> e, top |-> LastReserved]
    BY <1>1 DEF EmptyRegistry, LastReserved
  <2> HIDE DEF e
  <2> QED BY <2>1 DEF Registries, e
<1>5. TypeControl
  BY <1>1, <1>2, <1>3, <1>4 DEF TypeControl
<1>6. Shape
  BY <1>1, <1>2, <1>3 DEF Shape
<1>7. RefsKept
  <2>1. ToSet(reg.free) = {} /\ IsInjective(reg.free)
    BY <1>4 DEF ToSet, IsInjective
  <2>2. LastReserved + 1..reg.top = {}
    BY <1>4
  <2>3. {c.ref} \ {0, NoRef} = {}
    BY <1>3
  <2> QED BY <1>1, <2>1, <2>2, <2>3 DEF RefsKept, Taken
<1>8. reg.top >= LastReserved
  BY <1>4
<1> QED BY <1>5, <1>6, <1>7, <1>8 DEF Control, Refs

\* Every step keeps Control.
LEMMA NextControl == Control /\ [Next]_vars => Control'
<1> SUFFICES ASSUME Control, [Next]_vars PROVE Control'
  OBVIOUS
<1>1. CASE Send \/ HangUp("half") \/ HangUp("reset") \/ Collect
  <2>1. UNCHANGED <<conn, stage, run, c, reg, answers, requests, held, plain>>
    BY <1>1 DEF Send, HangUp, Collect, server, counts
  <2> QED BY <2>1, SameControl
<1>2. CASE \E s \in Streams, set \in BOOLEAN : Connect(s, set)
  BY <1>2, ConnectControl
<1>12. CASE ConnectClosing
  BY <1>12, ConnectClosingControl
<1>3. CASE HandleGone \/ HandleOther \/ HandleReadable
  BY <1>3, TakeControl
<1>4. CASE ReadLine(LineFound)
  BY <1>4, ReadLineControl
<1>5. CASE ReadRequest(LineFound)
  BY <1>5, ReadRequestControl
<1>6. CASE ReadHeader(LineFound)
  BY <1>6, ReadHeaderControl
<1>7. CASE EndHeaders(LineFound)
  BY <1>7, EndHeadersControl
<1>8. CASE ReadBody
  BY <1>8, ReadBodyControl
<1>9. CASE WriteResponse
  BY <1>9, WriteResponseControl
<1>10. CASE ClosePlain
  BY <1>10, ClosePlainControl
<1>11. CASE UNCHANGED vars
  <2>1. UNCHANGED <<conn, stage, run, c, reg, answers, requests, held, plain>>
    BY <1>11 DEF vars, server, counts
  <2> QED BY <2>1, SameControl
<1> QED
  BY <1>1, <1>2, <1>3, <1>4, <1>5, <1>6, <1>7, <1>8, <1>9, <1>10, <1>11, <1>12
  DEF Next, Handle

\* The handler and the coroutine agree on what runs, and the registry loses and
\* doubles no place.
THEOREM ControlInvariant == Spec => []Control
BY InitControl, NextControl, PTL DEF Spec

\* l_service_setResume is never called on a suspended coroutine, whatever the
\* client sends and however it is cut into reads: "lua_State is not in LUA_OK
\* status" is not said.
THEOREM CoroutineNeverMisused == Spec => []NeverMisused
<1>1. Control => NeverMisused
  BY DEF Control, Shape, NeverMisused
<1> QED BY <1>1, ControlInvariant, PTL

\* No two coroutines have the same place of the registry and none has one that is
\* reserved or can be given out, for any number of connections, served or not; no
\* place is lost while no service without a coroutine is closed.
THEOREM ReferencesKept == Spec => []RefsKept
<1>1. Control => RefsKept
  BY DEF Control, Refs
<1> QED BY <1>1, ControlInvariant, PTL

-----------------------------------------------------------------------------
(* What has been read.                                                     *)

Readers ==
    [buf : Text, lstart : Nat, lnewline : Nat, lend : Nat, mstart : Nat, body : Nat,
     method : ReqLines \union {""}, bodylen : {0, BodyLength}, chunked : BOOLEAN,
     lines : Nat, halved : BOOLEAN]

\* The function that runs, or runs next.
At == IF run.at # "" THEN run.at ELSE Resumes(c)

TypeData ==
    /\ stream \in Streams \union {<<>>} /\ sent \in 0..Len(stream)
    /\ line \in {"open", "half", "reset"}
    /\ edge \subseteq {"READ", "WRITE", "RDH", "HUP"}
    /\ evmk \subseteq {"READ", "WRITE", "RDH", "HUP"}
    /\ run.count \in Nat /\ run.n \in 0..run.count
    /\ rd \in Readers

\* The buffer is what has come of the stream.
Came == rd.buf = SubSeq(stream, 1, Len(rd.buf)) /\ Len(rd.buf) <= sent

\* The order of the positions of the reader.  Before the headers have ended there
\* is no body, and before the first line has, nothing.
Positions ==
    /\ rd.lstart \in 0..rd.lend /\ rd.lnewline \in 0..rd.lend
    /\ rd.lend \in 0..Len(rd.buf) /\ rd.mstart \in 0..Len(rd.buf)
    /\ rd.body = 0 => rd.lend <= rd.mstart
    /\ rd.body \in 0..rd.lend
    /\ run.at \in Reading => rd.lstart = rd.lend
    /\ conn = "open" /\ At \in {"read_request", "read_headers"} => rd.body = 0
    /\ conn = "open" /\ At = "read_request" =>
         rd.lend = 0 /\ rd.lines = 0 /\ rd.bodylen = 0 /\ ~rd.chunked
    /\ conn = "open" /\ At = "read_body" => rd.body > 0 /\ rd.lend = rd.body

\* A service whose event is not set is told nothing.
Silent ==
    /\ watched \in BOOLEAN
    /\ conn = "open" /\ ~watched =>
         run.at = "" /\ c.status = "ok" /\ edge = {} /\ evmk = {}

\* When the last read was short, or the coroutine is suspended because of it, all
\* that was sent has been read or is still to be reported.
Fresh ==
    conn = "open" /\ (c.status = "yield" \/ (run.at \in Reading /\ NoMoreData(run.count, run.n)))
      => Len(rd.buf) = sent \/ "READ" \in edge \union evmk

Data == TypeData /\ Came /\ Positions /\ Fresh

\* The lines that were read are the lines of the stream up to the last, and what
\* was searched behind it has no line end.
Lines ==
    LET last == IF rd.body = 0 THEN rd.lend ELSE rd.body IN
      /\ last \in LineEnds(stream)
      /\ rd.lines = Cardinality(LineEnds(stream) \intersect 1..last)
      /\ rd.lend \in {last, RequestEnd(stream)}
      /\ rd.body = 0 => Unbroken(stream, rd.lend, rd.mstart)

\* What is known of the request is what its lines say.
Request ==
    /\ requests = 1 => Len(rd.buf) >= RequestEnd(stream)
    /\ conn = "open" /\ At = "read_headers" =>
         /\ rd.lend > 0 /\ rd.method = stream[1] /\ rd.method # "v"
         /\ NoBlank(stream, rd.lend)
         /\ rd.bodylen = IF "c" \in Headers(stream, rd.lend) THEN BodyLength ELSE 0
         /\ rd.chunked <=> "k" \in Headers(stream, rd.lend)
    /\ conn = "open" /\ At = "read_body" => rd.body + rd.bodylen = RequestEnd(stream)

\* Unless the two characters of a line end came apart.
Exact == ~rd.halved => Lines /\ Request

IInv == Control /\ Silent /\ Data /\ Exact

\* What the client sends is a text.
LEMMA StreamText == Data => stream \in Text /\ Len(stream) \in Nat /\ sent \in 0..Len(stream)
<1> SUFFICES ASSUME Data PROVE stream \in Text /\ Len(stream) \in Nat /\ sent \in 0..Len(stream)
  OBVIOUS
<1>1. stream \in Streams \union {<<>>} /\ sent \in 0..Len(stream)
  BY DEF Data, TypeData
<1>2. Streams \subseteq Text
  BY HttpAssumption DEF Text
<1>3. <<>> \in Text
  BY DEF Text
<1>4. stream \in Text
  BY <1>1, <1>2, <1>3
<1> QED BY <1>1, <1>4 DEF Text

\* What the coroutine comes back with, and what it does next.
LEMMA BackAt ==
    ASSUME Control, conn = "open", NEW out, NEW co, ComesBack(out, co)
    PROVE  /\ run'.at \in {"", "write_response"} /\ conn' \in {"open", "closed"}
           /\ run'.count = 0 /\ run'.n = 0
           /\ conn' = "open" => out # "error"
           /\ conn' = "open" /\ out = "yield" => At' = run.at
           /\ conn' = "open" /\ out = "done" => At' = "write_response" /\ c'.status # "yield"
           /\ out # "done" => requests' = requests
           /\ out = "done" => requests' = 1
<1>1. Control'
  BY BackControl
<1>2. /\ requests \in {0, 1}
      /\ run.at \in Reading => requests = 0
      /\ run.at = "write_response" => requests = 1
      /\ c \in Coroutines /\ run.at \in Functions
      /\ out \in {"error", "yield", "done"}
      /\ run.at = "write_response" \/ run.at \in Reading
  BY DEF Control, TypeControl, Shape, ComesBack, Functions, Reading
<1>3. requests' = requests + (IF out = "done" /\ run.at # "write_response" THEN 1 ELSE 0)
  BY DEF ComesBack, Back, Finished
<1>4. (out # "done" => requests' = requests) /\ (out = "done" => requests' = 1)
  <2>1. /\ requests \in {0, 1} /\ (run.at # "write_response" => requests = 0)
        /\ (run.at = "write_response" => requests = 1)
    BY <1>2
  <2> QED BY <1>3, <2>1
<1>5. run' = Idle \/ run' = Enters("write_response")
  BY DEF ComesBack, Back, Close
<1>6. run'.at \in {"", "write_response"} /\ run'.count = 0 /\ run'.n = 0
  <2>1. CASE run' = Idle
    BY <2>1 DEF Idle
  <2>2. CASE run' = Enters("write_response")
    BY <2>2 DEF Enters
  <2> QED BY <1>5, <2>1, <2>2
<1>7. conn' \in {"open", "closed"} /\ (conn' = "open" => out # "error")
  BY DEF ComesBack, Back, Close
<1>8. ASSUME conn' = "open", out = "yield" PROVE At' = run.at
  <2>1. ~Close /\ ~Finished(out)
    BY <1>8 DEF Close, Finished
  <2>2. c' = co /\ run' = Idle /\ co = Yielded(c, run.at)
    BY <1>8, <2>1 DEF ComesBack, Back
  <2>3. c'.status = "yield" /\ c'.kfunc = run.at
    BY <1>2, <2>2, CoroutineFields
  <2> QED BY <2>2, <2>3 DEF At, Idle, Resumes
<1>9. ASSUME conn' = "open", out = "done" PROVE At' = "write_response" /\ c'.status # "yield"
  <2>0. requests' = 1 /\ requests' # 0
    BY <1>4, <1>9
  <2>1. c'.func = "write_response" /\ c'.status # "yield"
    BY <1>1, <1>9, <2>0 DEF Control, Shape
  <2>2. Resumes(c') = "write_response"
    BY <2>1 DEF Resumes
  <2> QED BY <1>6, <2>1, <2>2 DEF At
<1> QED BY <1>4, <1>6, <1>7, <1>8, <1>9

\* The three ways of coming back.
LEMMA BackFails ==
    ASSUME Control, conn = "open", ComesBack("error", c)
    PROVE  requests' = requests /\ conn' # "open"
<1> DEFINE out == "error"
<1>1. out # "done" /\ ComesBack(out, c) /\ out = "error"
  OBVIOUS
<1> HIDE DEF out
<1> QED BY <1>1, BackAt

LEMMA BackWaits ==
    ASSUME Control, conn = "open", ComesBack("yield", Yielded(c, run.at))
    PROVE  requests' = requests /\ (conn' = "open" => At' = run.at)
<1> DEFINE out == "yield"
           co == Yielded(c, run.at)
<1>1. out # "done" /\ ComesBack(out, co) /\ out = "yield"
  OBVIOUS
<1> HIDE DEF out, co
<1> QED BY <1>1, BackAt

LEMMA BackDone ==
    ASSUME Control, conn = "open", ComesBack("done", c)
    PROVE  requests' = 1 /\ (conn' = "open" => At' = "write_response")
<1> DEFINE out == "done"
<1>1. ComesBack(out, c) /\ out = "done"
  OBVIOUS
<1> HIDE DEF out
<1> QED BY <1>1, BackAt

\* A line end is looked for.
LEMMA Search ==
    ASSUME Control, Data, run.at \in {"read_request", "read_headers"}
    PROVE  /\ conn = "open" /\ At = run.at /\ c.status = "ok" /\ run.at \in Reading
           /\ rd.body = 0 /\ rd.lstart = rd.lend /\ rd.lend <= rd.mstart
           /\ rd.buf \in Text /\ Len(rd.buf) \in Nat /\ rd.lend \in Nat
           /\ rd.mstart \in 0..Len(rd.buf)
           /\ LineFound.at \in rd.mstart..Len(rd.buf)
           /\ LineFound.end \in 0..Len(rd.buf)
           /\ LineFound.end # 0 => LineFound.at < LineFound.end
<1>1. run.at # "" /\ run.at \in Reading
  BY DEF Reading
<1>2. conn = "open" /\ c.status = "ok" /\ At = run.at
  BY <1>1, RunsOpen DEF At
<1>3. /\ rd.body = 0 /\ rd.lstart = rd.lend /\ rd.lend <= rd.mstart
      /\ rd.mstart \in 0..Len(rd.buf) /\ rd.lend \in 0..Len(rd.buf)
  BY <1>1, <1>2 DEF Data, Positions
<1>4. rd.buf \in Text
  BY DEF Data, TypeData, Readers
<1>5. Len(rd.buf) \in Nat
  BY <1>4 DEF Text
<1> DEFINE s == rd.buf
           n == rd.mstart
           f == MatchUntil(Newlines, s, n)
<1>6. /\ f.at \in n..Len(s) /\ f.end \in 0..Len(s)
      /\ f.end # 0 => /\ f.at < Len(s) /\ IsBreak(s, f.at)
                      /\ f.end = f.at + Width(s, f.at)
  BY <1>3, <1>4, NextBreak
<1>7. f.end # 0 => f.at < f.end
  <2> HIDE DEF s, n, f
  <2> SUFFICES ASSUME f.end # 0 PROVE f.at < f.end
    OBVIOUS
  <2>1. s \in Text /\ Len(s) \in Nat /\ n \in 0..Len(s)
    BY <1>3, <1>4, <1>5 DEF s, n
  <2>2. f.at \in 0..Len(s) - 1
    BY <1>6, <2>1
  <2>3. Width(s, f.at) \in {1, 2}
    BY <2>1, <2>2, WidthType
  <2> QED BY <1>6, <2>2, <2>3
<1>8. LineFound = f
  BY DEF LineFound
<1>9. rd.lend \in Nat
  BY <1>3, <1>5
<1> QED BY <1>1, <1>2, <1>3, <1>4, <1>5, <1>6, <1>7, <1>8, <1>9, Zenon

\* A read of the socket: all that has come, or as many as were asked for.
LEMMA SocketRead ==
    ASSUME Data, Control, NEW r \in Readers, r.buf = rd.buf, NEW count \in Nat,
           ReadSocket(r, count)
    PROVE  /\ rd' \in Readers
           /\ rd' = [r EXCEPT !.buf = rd'.buf]
           /\ rd'.buf = SubSeq(stream, 1, Len(rd'.buf))
           /\ Len(rd'.buf) \in Len(rd.buf)..sent
           /\ run'.at = run.at /\ run'.count = count /\ run'.n \in 0..count
           /\ NoMoreData(run'.count, run'.n) => Len(rd'.buf) = sent
<1> DEFINE l == Len(rd.buf)
           m == Min({Len(r.buf) + count, sent})
           b == SubSeq(stream, 1, m)
<1>1. /\ stream \in Text /\ Len(stream) \in Nat /\ sent \in 0..Len(stream)
      /\ rd.buf \in Text /\ l <= sent
  BY StreamText DEF Data, TypeData, Readers, Came
<1>2. l \in Nat /\ sent \in Nat
  BY <1>1 DEF Text
<1>3. m = IF l + count <= sent THEN l + count ELSE sent
  <2>1. l + count \in Nat /\ sent \in Nat /\ Len(r.buf) = l
    BY <1>2
  <2> DEFINE x == l + count
  <2>2. m = Min({x, sent})
    BY <2>1
  <2> HIDE DEF x, m
  <2>3. Min({x, sent}) = IF x <= sent THEN x ELSE sent
    BY <2>1, MinOfTwo DEF x
  <2> QED BY <2>2, <2>3 DEF x
<1>4. m \in l..sent /\ m - l \in 0..count /\ (m - l < count => m = sent) /\ m \in 0..Len(stream)
  <2>1. l <= sent /\ sent <= Len(stream) /\ Len(stream) \in Nat
    BY <1>1
  <2> HIDE DEF m, l
  <2> QED BY <1>2, <1>3, <2>1
<1>5. b \in Text /\ Len(b) = m
  <2> HIDE DEF m
  <2>1. b \in Text /\ Len(b) = m
    BY <1>1, <1>4, PartType
  <2> QED BY <2>1
<1>6. rd' = [r EXCEPT !.buf = b] /\ run' = [run EXCEPT !.count = count, !.n = Len(b) - Len(r.buf)]
  BY DEF ReadSocket
<1> HIDE DEF b, m
<1>7. rd'.buf = b /\ rd' \in Readers /\ rd' = [r EXCEPT !.buf = rd'.buf]
  BY <1>5, <1>6 DEF Readers
<1>8. run'.at = run.at /\ run'.count = count /\ run'.n = m - l
  <2>1. run = [at |-> run.at, count |-> run.count, n |-> run.n]
    BY DEF Control, TypeControl
  <2> DEFINE d == Len(b) - Len(r.buf)
  <2>2. d = m - l
    BY <1>5
  <2> HIDE DEF d
  <2>3. run' = [run EXCEPT !.count = count, !.n = d]
    BY <1>6 DEF d
  <2> QED BY <2>1, <2>2, <2>3
<1>9. rd'.buf = SubSeq(stream, 1, Len(rd'.buf)) /\ Len(rd'.buf) = m
  BY <1>5, <1>7 DEF b
<1> HIDE DEF l
<1> QED BY <1>4, <1>7, <1>8, <1>9 DEF NoMoreData, l

\* What a step of the coroutine leaves alone.
LEMMA MeanwhileData ==
    ASSUME Data, Meanwhile, rd' \in Readers, run'.count \in Nat, run'.n \in 0..run'.count
    PROVE  TypeData' /\ stream' = stream /\ sent' = sent /\ edge' = edge /\ evmk' = evmk
BY DEF Data, TypeData, Meanwhile, client

\* A step that leaves the buffer alone, and neither suspends the coroutine nor goes
\* on with the last read.
LEMMA SameBuffer ==
    ASSUME Data, Meanwhile, rd' \in Readers, rd'.buf = rd.buf,
           run'.count = 0, run'.n = 0,
           conn' = "open" /\ c'.status = "yield" =>
             conn = "open" /\ run.at \in Reading /\ NoMoreData(run.count, run.n)
    PROVE  TypeData' /\ Came' /\ Fresh'
<1>1. TypeData' /\ stream' = stream /\ sent' = sent /\ edge' = edge /\ evmk' = evmk
  <2>1. run'.count \in Nat /\ run'.n \in 0..run'.count
    OBVIOUS
  <2> QED BY <2>1, MeanwhileData
<1>2. Came'
  BY <1>1 DEF Data, Came
<1>3. ~NoMoreData(run'.count, run'.n)
  BY DEF NoMoreData
<1>4. Fresh'
  BY <1>1, <1>3 DEF Data, Fresh
<1> QED BY <1>1, <1>2, <1>4

\* A step that reads.
LEMMA MoreBuffer ==
    ASSUME Data, Control, conn = "open", run.at \in Reading, Meanwhile,
           NEW r \in Readers, r.buf = rd.buf, NEW count \in Nat, ReadSocket(r, count)
    PROVE  TypeData' /\ Came' /\ Fresh'
<1>1. /\ rd' \in Readers
      /\ rd'.buf = SubSeq(stream, 1, Len(rd'.buf))
      /\ Len(rd'.buf) \in Len(rd.buf)..sent
      /\ run'.at = run.at /\ run'.count = count /\ run'.n \in 0..count
      /\ NoMoreData(run'.count, run'.n) => Len(rd'.buf) = sent
  BY SocketRead
<1>2. TypeData' /\ stream' = stream /\ sent' = sent
  BY <1>1, MeanwhileData
<1>3. Came'
  BY <1>1, <1>2 DEF Came
<1>4. c' = c /\ c.status = "ok"
  BY RunsOpen DEF ReadSocket, Reading
<1>5. Fresh'
  BY <1>1, <1>2, <1>4 DEF Fresh
<1> QED BY <1>2, <1>3, <1>5

LEMMA ReadLineData == Control /\ Data /\ ReadLine(LineFound) => Data'
<1> SUFFICES ASSUME Control, Data, ReadLine(LineFound) PROVE Data'
  OBVIOUS
<1> DEFINE r == [rd EXCEPT !.mstart = LineFound.at]
           count == LineLength - 1
<1>1. /\ run.at \in {"read_request", "read_headers"}
      /\ Meanwhile /\ UNCHANGED answers
  BY DEF ReadLine
<1>2. \/ NoMoreData(run.count, run.n) /\ Back("yield", Yielded(c, run.at)) /\ rd' = r
      \/ Back("error", c) /\ rd' = r
      \/ ReadSocket(r, count)
  BY DEF ReadLine, SearchFrom
<1> HIDE DEF count
<1>3. /\ conn = "open" /\ At = run.at /\ c.status = "ok" /\ run.at \in Reading
      /\ rd.body = 0 /\ rd.lstart = rd.lend /\ rd.lend <= rd.mstart
      /\ Len(rd.buf) \in Nat /\ rd.lend \in Nat /\ rd.mstart \in 0..Len(rd.buf)
      /\ LineFound.at \in rd.mstart..Len(rd.buf)
  BY <1>1, Search
<1>4. /\ r \in Readers /\ r.buf = rd.buf /\ r.mstart = LineFound.at
      /\ r.lend = rd.lend /\ r.lstart = rd.lstart /\ r.lnewline = rd.lnewline
      /\ r.body = rd.body /\ r.lines = rd.lines /\ r.bodylen = rd.bodylen
      /\ r.chunked = rd.chunked
  <2>1. rd \in Readers /\ LineFound.at \in Nat
    BY <1>3 DEF Data, TypeData
  <2> QED BY <2>1 DEF Readers
<1> HIDE DEF r
<1>5. /\ rd.lnewline \in 0..rd.lend /\ rd.lend \in 0..Len(rd.buf)
      /\ At = "read_request" =>
           rd.lend = 0 /\ rd.lines = 0 /\ rd.bodylen = 0 /\ ~rd.chunked
  BY <1>3 DEF Data, Positions
<1>6. run.at \in Functions /\ run.at # "write_response" /\ answers \in Nat
  BY <1>1 DEF Functions, Control, TypeControl
<1>7. ASSUME NEW l \in Nat, Len(rd.buf) <= l, rd'.buf = rd'.buf, Len(rd'.buf) = l,
             rd'.mstart = LineFound.at /\ rd'.lend = rd.lend /\ rd'.lstart = rd.lstart,
             rd'.lnewline = rd.lnewline /\ rd'.body = 0 /\ rd'.lines = rd.lines,
             rd'.bodylen = rd.bodylen /\ rd'.chunked = rd.chunked,
             conn' = "open" => At' = At
      PROVE  Positions'
  <2>1. /\ rd'.lstart \in 0..rd'.lend /\ rd'.lnewline \in 0..rd'.lend
        /\ rd'.lend \in 0..Len(rd'.buf) /\ rd'.mstart \in 0..Len(rd'.buf)
        /\ rd'.lend <= rd'.mstart /\ rd'.body \in 0..rd'.lend
        /\ rd'.lstart = rd'.lend
    BY <1>3, <1>5, <1>7
  <2>2. conn' = "open" => At' # "read_body"
    BY <1>1, <1>3, <1>7
  <2> QED BY <1>5, <1>7, <2>1, <2>2 DEF Positions
<1>8. CASE /\ NoMoreData(run.count, run.n) /\ Back("yield", Yielded(c, run.at))
           /\ rd' = r
  <2>1. ComesBack("yield", Yielded(c, run.at))
    <3>1. answers' = answers + (IF run.at = "write_response" THEN 1 ELSE 0)
      BY <1>1, <1>6
    <3> QED BY <1>1, <1>3, <1>6, <1>8, <3>1 DEF ComesBack, Meanwhile, counts
  <2>2. run'.count = 0 /\ run'.n = 0 /\ (conn' = "open" => At' = run.at)
    BY <1>3, <2>1, BackAt
  <2>3. TypeData' /\ Came' /\ Fresh'
    BY <1>1, <1>3, <1>4, <1>8, <2>2, SameBuffer
  <2>4. Positions'
    BY <1>3, <1>4, <1>7, <1>8, <2>2
  <2> QED BY <2>3, <2>4 DEF Data
<1>9. CASE Back("error", c) /\ rd' = r
  <2>1. ComesBack("error", c)
    <3>1. answers' = answers + (IF run.at = "write_response" THEN 1 ELSE 0)
      BY <1>1, <1>6
    <3> QED BY <1>1, <1>3, <1>6, <1>9, <3>1 DEF ComesBack, Meanwhile, counts
  <2>2. run'.count = 0 /\ run'.n = 0 /\ conn' # "open"
    BY <1>3, <2>1, BackAt
  <2>3. TypeData' /\ Came' /\ Fresh'
    BY <1>1, <1>3, <1>4, <1>9, <2>2, SameBuffer
  <2>4. Positions'
    BY <1>3, <1>4, <1>7, <1>9, <2>2
  <2> QED BY <2>3, <2>4 DEF Data
<1>10. CASE ReadSocket(r, count)
  <2>1. count \in Nat
    BY HttpAssumption DEF count
  <2>2. /\ rd' = [r EXCEPT !.buf = rd'.buf] /\ run'.at = run.at
        /\ Len(rd'.buf) \in Len(rd.buf)..sent
    BY <1>4, <1>10, <2>1, SocketRead
  <2>3. TypeData' /\ Came' /\ Fresh'
    BY <1>1, <1>3, <1>4, <1>10, <2>1, MoreBuffer
  <2>4. At' = At
    BY <1>10, <2>2 DEF ReadSocket, At, Reading
  <2>5. /\ rd'.mstart = r.mstart /\ rd'.lend = r.lend /\ rd'.lstart = r.lstart
        /\ rd'.lnewline = r.lnewline /\ rd'.body = r.body /\ rd'.lines = r.lines
        /\ rd'.bodylen = r.bodylen /\ rd'.chunked = r.chunked
    <3> DEFINE b == rd'.buf
    <3> HIDE DEF b
    <3>1. rd' = [r EXCEPT !.buf = b]
      BY <2>2 DEF b
    <3> QED BY <1>4, <3>1 DEF Readers
  <2>6. Len(rd'.buf) \in Nat /\ Len(rd.buf) <= Len(rd'.buf)
    <3>1. sent \in Nat
      BY StreamText
    <3> QED BY <1>3, <2>2, <3>1
  <2>7. Positions'
    BY <1>3, <1>4, <1>7, <2>4, <2>5, <2>6
  <2> QED BY <2>3, <2>7 DEF Data
<1> QED BY <1>2, <1>8, <1>9, <1>10

\* A line has ended.
LEMMA AfterLineIs ==
    ASSUME Control, Data, run.at \in {"read_request", "read_headers"},
           LineFound.end # 0, NEW r, r = AfterLine(LineFound)
    PROVE  /\ r \in Readers /\ r.buf = rd.buf /\ r.lstart = rd.lend
           /\ r.lnewline = LineFound.at /\ r.lend = LineFound.end
           /\ r.mstart = LineFound.end /\ r.lines = rd.lines + 1 /\ r.body = 0
           /\ r.method = rd.method /\ r.bodylen = rd.bodylen /\ r.chunked = rd.chunked
           /\ r.halved <=> rd.halved \/ Halves(rd, LineFound.end)
           /\ LineFound.at \in rd.lend..LineFound.end - 1
           /\ LineFound.end \in rd.lend + 1..Len(rd.buf)
<1> DEFINE a == LineFound.at
           e == LineFound.end
           h == rd.halved \/ Halves(rd, e)
           n == rd.lines + 1
<1>1. /\ rd.body = 0 /\ rd.lstart = rd.lend /\ rd.lend <= rd.mstart
      /\ Len(rd.buf) \in Nat /\ rd.lend \in Nat /\ rd.mstart \in 0..Len(rd.buf)
      /\ a \in rd.mstart..Len(rd.buf) /\ e \in 0..Len(rd.buf) /\ a < e
  BY Search
<1>2. rd \in Readers
  BY DEF Data, TypeData
<1>3. h \in BOOLEAN /\ (h <=> rd.halved \/ Halves(rd, e)) /\ n \in Nat
  <2>1. h \in BOOLEAN
    BY Zenon
  <2>2. rd.lines \in Nat
    BY <1>2 DEF Readers
  <2>3. n \in Nat
    BY <2>2
  <2> QED BY <2>1, <2>3
<1>4. r = [rd EXCEPT !.lnewline = a, !.lend = e, !.mstart = e, !.lines = n, !.halved = h]
  BY DEF AfterLine
<1> HIDE DEF a, e, h, n
<1>5. a \in Nat /\ e \in Nat
  BY <1>1
<1>6. /\ r \in Readers /\ r.buf = rd.buf /\ r.lstart = rd.lstart
      /\ r.lnewline = a /\ r.lend = e /\ r.mstart = e /\ r.lines = n /\ r.body = rd.body
      /\ r.method = rd.method /\ r.bodylen = rd.bodylen /\ r.chunked = rd.chunked
      /\ r.halved = h
  BY <1>2, <1>3, <1>4, <1>5 DEF Readers
<1>7. a \in rd.lend..e - 1 /\ e \in rd.lend + 1..Len(rd.buf)
  BY <1>1
<1> QED BY <1>1, <1>3, <1>6, <1>7 DEF a, e, n

\* The positions after it.
LEMMA AfterLinePositions ==
    ASSUME Control, Data, run.at \in {"read_request", "read_headers"}, LineFound.end # 0,
           rd'.buf = rd.buf /\ rd'.lnewline = LineFound.at,
           rd'.lend = LineFound.end /\ rd'.mstart = LineFound.end,
           rd'.lstart \in {rd.lend, LineFound.end}, rd'.body \in {0, LineFound.end},
           run'.at \in Reading => rd'.lstart = LineFound.end,
           conn' = "open" => /\ At' # "read_request" /\ (At' = "read_headers" => rd'.body = 0)
                             /\ At' = "read_body" => rd'.body = LineFound.end
    PROVE  Positions'
<1> DEFINE a == LineFound.at
           e == LineFound.end
           l == Len(rd.buf)
<1>1. /\ l \in Nat /\ rd.lend \in Nat
      /\ a \in rd.lend..e - 1 /\ e \in rd.lend + 1..l
  <2>1. l \in Nat /\ rd.lend \in Nat
    BY Search
  <2>2. a \in rd.lend..e - 1 /\ e \in rd.lend + 1..l
    BY AfterLineIs
  <2> QED BY <2>1, <2>2
<1>2. /\ rd'.buf = rd.buf /\ rd'.lnewline = a /\ rd'.lend = e /\ rd'.mstart = e
      /\ rd'.lstart \in {rd.lend, e} /\ rd'.body \in {0, e}
      /\ run'.at \in Reading => rd'.lstart = e
  OBVIOUS
<1> HIDE DEF a, e
<1>3. /\ rd'.lstart \in 0..rd'.lend /\ rd'.lnewline \in 0..rd'.lend
      /\ rd'.lend \in 0..l /\ rd'.mstart \in 0..l
      /\ rd'.lend <= rd'.mstart /\ rd'.body \in 0..rd'.lend
      /\ run'.at \in Reading => rd'.lstart = rd'.lend
  <2> HIDE DEF l
  <2> QED BY <1>1, <1>2
<1>4. Len(rd'.buf) = l /\ e > 0
  BY <1>1, <1>2
<1>5. conn' = "open" /\ At' = "read_body" => rd'.body > 0 /\ rd'.lend = rd'.body
  BY <1>2, <1>4 DEF e
<1> QED BY <1>3, <1>4, <1>5 DEF Positions

\* Fields of a reader that moved forward, or learned of its request.
LEMMA ForwardIs ==
    ASSUME NEW x \in Readers, NEW y, y = Forward(x)
    PROVE  /\ y \in Readers /\ y.buf = x.buf /\ y.lstart = x.lend /\ y.lnewline = x.lnewline
           /\ y.lend = x.lend /\ y.mstart = x.mstart /\ y.body = x.body
           /\ y.method = x.method /\ y.bodylen = x.bodylen /\ y.chunked = x.chunked
           /\ y.lines = x.lines /\ y.halved = x.halved
BY DEF Readers, Forward

\* A request that learned its method.
LEMMA MethodIs ==
    ASSUME NEW x \in Readers, NEW m \in ReqLines, NEW y, y = [x EXCEPT !.method = m]
    PROVE  /\ y \in Readers /\ y.buf = x.buf /\ y.lstart = x.lstart /\ y.lnewline = x.lnewline
           /\ y.lend = x.lend /\ y.mstart = x.mstart /\ y.body = x.body
           /\ y.method = m /\ y.bodylen = x.bodylen /\ y.chunked = x.chunked
           /\ y.lines = x.lines /\ y.halved = x.halved
BY DEF Readers

\* A request whose body begins.
LEMMA BodyIs ==
    ASSUME NEW x \in Readers, NEW b \in Nat, NEW y, y = [x EXCEPT !.body = b]
    PROVE  /\ y \in Readers /\ y.buf = x.buf /\ y.lstart = x.lstart /\ y.lnewline = x.lnewline
           /\ y.lend = x.lend /\ y.mstart = x.mstart /\ y.body = b
           /\ y.method = x.method /\ y.bodylen = x.bodylen /\ y.chunked = x.chunked
           /\ y.lines = x.lines /\ y.halved = x.halved
BY DEF Readers

\* The line that was read, and whether it is empty.
LEMMA LineIs ==
    ASSUME Control, Data, run.at \in {"read_request", "read_headers"},
           LineFound.end # 0, NEW r, r = AfterLine(LineFound)
    PROVE  /\ Line(r) = <<>> <=> LineFound.at = rd.lend
           /\ Line(r) # <<>> => Line(r)[1] = rd.buf[rd.lend + 1]
<1> DEFINE a == LineFound.at
           b == rd.lend
           s == rd.buf
           l == Len(s)
           w == SubSeq(s, b + 1, a)
<1>1. /\ r.buf = s /\ r.lstart = b /\ r.lnewline = a
      /\ a \in b..LineFound.end - 1 /\ LineFound.end \in b + 1..l
  BY AfterLineIs
<1>2. l \in Nat /\ b \in Nat /\ s \in Text
  BY Search
<1>3. a \in b..l - 1 /\ a \in Nat
  BY <1>1, <1>2
<1>4. Line(r) = w
  BY <1>1 DEF Line
<1>5. /\ w \in Text /\ Len(w) = a - b
      /\ \A i \in 1..a - b : w[i] = s[b + i]
  <2> HIDE DEF a, b, l
  <2>1. /\ s \in Seq(STRING) /\ b + 1 \in 1..l + 1 /\ a \in b..l
        /\ b + 1 \in Nat /\ a \in Nat
    BY <1>2, <1>3 DEF Text
  <2>2. /\ SubSeq(s, b + 1, a) \in Seq(STRING)
        /\ Len(SubSeq(s, b + 1, a)) = IF b + 1 <= a THEN a - (b + 1) + 1 ELSE 0
        /\ \A i \in 1..a - (b + 1) + 1 : SubSeq(s, b + 1, a)[i] = s[b + 1 + i - 1]
    <3> HIDE DEF s
    <3> QED BY <2>1, SubSeqProperties DEF l
  <2>3. a - (b + 1) + 1 = a - b /\ (~(b + 1 <= a) => a - b = 0)
    BY <1>2, <1>3
  <2>4. \A i \in 1..a - b : b + 1 + i - 1 = b + i
    BY <1>2, <1>3
  <2> HIDE DEF s
  <2> QED BY <2>2, <2>3, <2>4 DEF Text
<1> HIDE DEF w, a, b, s, l
<1>6. w = <<>> <=> a = b
  <2>1. w = <<>> <=> Len(w) = 0
    BY <1>5 DEF Text
  <2> QED BY <1>2, <1>3, <1>5, <2>1
<1>7. w # <<>> => w[1] = s[b + 1]
  <2>1. w # <<>> => 1 \in 1..a - b
    BY <1>2, <1>3, <1>6
  <2> QED BY <1>5, <2>1
<1> QED BY <1>4, <1>6, <1>7 DEF a, b, s

\* The steps that have found a line.
LEMMA ReadRequestData == Control /\ Data /\ ReadRequest(LineFound) => Data'
<1> SUFFICES ASSUME Control, Data, ReadRequest(LineFound) PROVE Data'
  OBVIOUS
<1> DEFINE r == AfterLine(LineFound)
           m == Line(r)[1]
           x == [r EXCEPT !.method = m]
<1>1. /\ run.at = "read_request" /\ LineFound.end # 0 /\ Meanwhile /\ UNCHANGED answers
      /\ run.at \in {"read_request", "read_headers"} /\ run.at \in Functions
      /\ run.at # "write_response"
  BY DEF ReadRequest, Functions
<1>2. \/ Back("error", c) /\ rd' = r
      \/ m \in ReqLines /\ Back("done", c) /\ rd' = x
      \/ /\ m \in ReqLines /\ rd' = Forward(x) /\ run' = Enters("read_headers")
         /\ UNCHANGED <<conn, stage, c, reg, requests>>
  BY DEF ReadRequest
<1>3. conn = "open" /\ answers \in Nat /\ c.status = "ok"
  BY <1>1, Search DEF Control, TypeControl
<1>4. /\ r \in Readers /\ r.buf = rd.buf /\ r.lstart = rd.lend
      /\ r.lnewline = LineFound.at /\ r.lend = LineFound.end
      /\ r.mstart = LineFound.end /\ r.body = 0
  BY <1>1, AfterLineIs
<1> HIDE DEF r, m
<1>5. m \in ReqLines =>
        /\ x \in Readers /\ x.buf = rd.buf /\ x.lstart = rd.lend
        /\ x.lnewline = LineFound.at /\ x.lend = LineFound.end
        /\ x.mstart = LineFound.end /\ x.body = 0
  BY <1>4, MethodIs
<1> HIDE DEF x
<1>6. answers' = answers + (IF run.at = "write_response" THEN 1 ELSE 0)
  BY <1>1, <1>3
<1>7. CASE Back("error", c) /\ rd' = r
  <2>1. ComesBack("error", c)
    BY <1>1, <1>6, <1>7 DEF ComesBack, Meanwhile, counts
  <2>2. run'.count = 0 /\ run'.n = 0 /\ conn' # "open" /\ run'.at \notin Reading
    BY <1>3, <2>1, BackAt DEF Reading
  <2>3. TypeData' /\ Came' /\ Fresh'
    BY <1>1, <1>4, <1>7, <2>2, SameBuffer
  <2>4. Positions'
    BY <1>1, <1>4, <1>7, <2>2, AfterLinePositions
  <2> QED BY <2>3, <2>4 DEF Data
<1>8. CASE m \in ReqLines /\ Back("done", c) /\ rd' = x
  <2>1. ComesBack("done", c)
    BY <1>1, <1>6, <1>8 DEF ComesBack, Meanwhile, counts
  <2>2. /\ run'.count = 0 /\ run'.n = 0 /\ run'.at \notin Reading
        /\ conn' = "open" => At' = "write_response" /\ c'.status # "yield"
    BY <1>3, <2>1, BackAt DEF Reading
  <2>3. TypeData' /\ Came' /\ Fresh'
    BY <1>1, <1>5, <1>8, <2>2, SameBuffer
  <2>4. Positions'
    BY <1>1, <1>5, <1>8, <2>2, AfterLinePositions
  <2> QED BY <2>3, <2>4 DEF Data
<1>9. CASE /\ m \in ReqLines /\ rd' = Forward(x) /\ run' = Enters("read_headers")
           /\ UNCHANGED <<conn, stage, c, reg, requests>>
  <2>1. /\ rd' \in Readers /\ rd'.buf = rd.buf /\ rd'.lstart = LineFound.end
        /\ rd'.lnewline = LineFound.at /\ rd'.lend = LineFound.end
        /\ rd'.mstart = LineFound.end /\ rd'.body = 0
    BY <1>5, <1>9, ForwardIs
  <2>2. run'.count = 0 /\ run'.n = 0 /\ run'.at = "read_headers" /\ At' = "read_headers"
    BY <1>9 DEF Enters, At
  <2>3. TypeData' /\ Came' /\ Fresh'
    BY <1>1, <1>3, <1>9, <2>1, <2>2, SameBuffer
  <2>4. Positions'
    BY <1>1, <2>1, <2>2, AfterLinePositions
  <2> QED BY <2>3, <2>4 DEF Data
<1> QED BY <1>2, <1>7, <1>8, <1>9

LEMMA ReadHeaderData == Control /\ Data /\ ReadHeader(LineFound) => Data'
<1> SUFFICES ASSUME Control, Data, ReadHeader(LineFound) PROVE Data'
  OBVIOUS
<1> DEFINE r == AfterLine(LineFound)
           b == IF Line(r)[1] = "c" THEN BodyLength ELSE r.bodylen
           k == r.chunked \/ Line(r)[1] = "k"
           x == [r EXCEPT !.bodylen = b, !.chunked = k]
<1>1. /\ run.at = "read_headers" /\ LineFound.end # 0 /\ Meanwhile
      /\ run.at \in {"read_request", "read_headers"}
      /\ rd' = Forward(x) /\ run' = Enters("read_headers")
      /\ UNCHANGED <<conn, stage, c, reg, requests, answers>>
  BY DEF ReadHeader
<1>2. conn = "open" /\ c.status = "ok"
  BY <1>1, Search
<1>3. /\ r \in Readers /\ r.buf = rd.buf /\ r.lstart = rd.lend
      /\ r.lnewline = LineFound.at /\ r.lend = LineFound.end
      /\ r.mstart = LineFound.end /\ r.body = 0
  BY <1>1, AfterLineIs
<1> HIDE DEF r
<1>4. b \in {0, BodyLength} /\ k \in BOOLEAN
  <2>1. r.bodylen \in {0, BodyLength} /\ r.chunked \in BOOLEAN
    BY <1>3 DEF Readers
  <2>2. k \in BOOLEAN
    BY Zenon
  <2> QED BY <2>1, <2>2
<1> HIDE DEF b, k
<1>5. /\ x \in Readers /\ x.buf = rd.buf /\ x.lstart = rd.lend
      /\ x.lnewline = LineFound.at /\ x.lend = LineFound.end
      /\ x.mstart = LineFound.end /\ x.body = 0
  <2>1. x = [r EXCEPT !.bodylen = b, !.chunked = k]
    OBVIOUS
  <2> HIDE DEF x
  <2>2. /\ x \in Readers /\ x.buf = r.buf /\ x.lstart = r.lstart
        /\ x.lnewline = r.lnewline /\ x.lend = r.lend /\ x.mstart = r.mstart
        /\ x.body = r.body
    BY <1>3, <1>4, <2>1 DEF Readers
  <2> QED BY <1>3, <2>2
<1> HIDE DEF x
<1>6. /\ rd' \in Readers /\ rd'.buf = rd.buf /\ rd'.lstart = LineFound.end
      /\ rd'.lnewline = LineFound.at /\ rd'.lend = LineFound.end
      /\ rd'.mstart = LineFound.end /\ rd'.body = 0
  BY <1>1, <1>5, ForwardIs
<1>7. run'.count = 0 /\ run'.n = 0 /\ run'.at = "read_headers" /\ At' = "read_headers"
  BY <1>1 DEF Enters, At
<1>8. TypeData' /\ Came' /\ Fresh'
  BY <1>1, <1>2, <1>6, <1>7, SameBuffer
<1>9. Positions'
  BY <1>1, <1>6, <1>7, AfterLinePositions
<1> QED BY <1>8, <1>9 DEF Data

LEMMA EndHeadersData == Control /\ Data /\ EndHeaders(LineFound) => Data'
<1> SUFFICES ASSUME Control, Data, EndHeaders(LineFound) PROVE Data'
  OBVIOUS
<1> DEFINE a == AfterLine(LineFound)
           e == LineFound.end
           r == IF rd.method = "p" THEN [a EXCEPT !.body = e] ELSE a
<1>1. /\ run.at = "read_headers" /\ LineFound.end # 0 /\ Meanwhile /\ UNCHANGED answers
      /\ run.at \in {"read_request", "read_headers"} /\ run.at \in Functions
      /\ run.at # "write_response"
  BY DEF EndHeaders, Functions
<1>2. \/ Back("done", c) /\ rd' = r
      \/ /\ rd.method = "p" /\ rd' = Forward(r) /\ run' = Enters("read_body")
         /\ UNCHANGED <<conn, stage, c, reg, requests>>
  BY DEF EndHeaders
<1>3. conn = "open" /\ answers \in Nat /\ c.status = "ok"
  BY <1>1, Search DEF Control, TypeControl
<1>4. /\ a \in Readers /\ a.buf = rd.buf /\ a.lstart = rd.lend
      /\ a.lnewline = LineFound.at /\ a.lend = LineFound.end
      /\ a.mstart = LineFound.end /\ a.body = 0
  BY <1>1, AfterLineIs
<1>5. e \in Nat
  BY <1>1, Search
<1> HIDE DEF a
<1>6. /\ r \in Readers /\ r.buf = rd.buf /\ r.lstart = rd.lend
      /\ r.lnewline = LineFound.at /\ r.lend = LineFound.end
      /\ r.mstart = LineFound.end /\ r.body \in {0, LineFound.end}
      /\ rd.method = "p" => r.body = LineFound.end
  <2>1. CASE rd.method = "p"
    <3>1. r = [a EXCEPT !.body = e]
      BY <2>1
    <3> HIDE DEF r, e
    <3>2. /\ r \in Readers /\ r.buf = a.buf /\ r.lstart = a.lstart
          /\ r.lnewline = a.lnewline /\ r.lend = a.lend /\ r.mstart = a.mstart /\ r.body = e
      BY <1>4, <1>5, <3>1, BodyIs
    <3> QED BY <1>4, <3>2 DEF e
  <2>2. CASE rd.method # "p"
    BY <1>4, <2>2
  <2> QED BY <2>1, <2>2
<1> HIDE DEF r, e
<1>7. answers' = answers + (IF run.at = "write_response" THEN 1 ELSE 0)
  BY <1>1, <1>3
<1>8. CASE Back("done", c) /\ rd' = r
  <2>1. ComesBack("done", c)
    BY <1>1, <1>7, <1>8 DEF ComesBack, Meanwhile, counts
  <2>2. /\ run'.count = 0 /\ run'.n = 0 /\ run'.at \notin Reading
        /\ conn' = "open" => At' = "write_response" /\ c'.status # "yield"
    BY <1>3, <2>1, BackAt DEF Reading
  <2>3. TypeData' /\ Came' /\ Fresh'
    BY <1>1, <1>6, <1>8, <2>2, SameBuffer
  <2>4. Positions'
    BY <1>1, <1>6, <1>8, <2>2, AfterLinePositions
  <2> QED BY <2>3, <2>4 DEF Data
<1>9. CASE /\ rd.method = "p" /\ rd' = Forward(r) /\ run' = Enters("read_body")
           /\ UNCHANGED <<conn, stage, c, reg, requests>>
  <2>1. /\ rd' \in Readers /\ rd'.buf = rd.buf /\ rd'.lstart = LineFound.end
        /\ rd'.lnewline = LineFound.at /\ rd'.lend = LineFound.end
        /\ rd'.mstart = LineFound.end /\ rd'.body = LineFound.end
    BY <1>6, <1>9, ForwardIs
  <2>2. run'.count = 0 /\ run'.n = 0 /\ run'.at = "read_body" /\ At' = "read_body"
    BY <1>9 DEF Enters, At
  <2>3. TypeData' /\ Came' /\ Fresh'
    BY <1>1, <1>3, <1>9, <2>1, <2>2, SameBuffer
  <2>4. Positions'
    BY <1>1, <2>1, <2>2, AfterLinePositions
  <2> QED BY <2>3, <2>4 DEF Data
<1> QED BY <1>2, <1>8, <1>9

\* The positions are those of the reader and of the function, and nothing else.
LEMMA SamePositions ==
    ASSUME Data, rd' = rd, run'.at \in Reading => run.at \in Reading,
           conn' = "open" => conn = "open" /\ (At' = At \/ At' = "write_response")
    PROVE  Positions'
<1>1. "write_response" \notin {"read_request", "read_headers"}
  OBVIOUS
<1>2. /\ conn' = "open" /\ At' \in {"read_request", "read_headers"} => conn = "open" /\ At' = At
      /\ conn' = "open" /\ At' = "read_request" => conn = "open" /\ At' = At
  BY <1>1
<1> DEFINE p == rd'
<1>3. p = rd
  OBVIOUS
<1> QED BY <1>2 DEF Data, Positions

\* The steps of the body and of the response.
LEMMA ReadBodyData == Control /\ Data /\ ReadBody => Data'
<1> SUFFICES ASSUME Control, Data, ReadBody PROVE Data'
  OBVIOUS
<1> DEFINE behind == rd.lstart + rd.bodylen
           r == [rd EXCEPT !.lend = behind]
           count == behind - Len(rd.buf)
<1>1. /\ run.at = "read_body" /\ Meanwhile /\ UNCHANGED answers
      /\ run.at \in Functions /\ run.at \in Reading /\ run.at # "write_response" /\ run.at # ""
  BY DEF ReadBody, Functions, Reading
<1>2. \/ BodyCame(rd) /\ Back("done", c) /\ rd' = r
      \/ NoMoreData(run.count, run.n) /\ Back("yield", Yielded(c, run.at)) /\ rd' = rd
      \/ Back("error", c) /\ rd' = rd
      \/ ~BodyCame(rd) /\ ReadSocket(rd, count)
  BY DEF ReadBody
<1>3. conn = "open" /\ answers \in Nat /\ c.status = "ok" /\ At = run.at
  BY <1>1, RunsOpen DEF Control, TypeControl, At
<1>4. rd \in Readers
  BY DEF Data, TypeData
<1>5. /\ rd.lstart \in Nat /\ rd.bodylen \in Nat /\ Len(rd.buf) \in Nat /\ behind \in Nat
      /\ rd.lstart <= behind
  <2>1. rd.lstart \in Nat /\ rd.bodylen \in {0, BodyLength} /\ rd.buf \in Seq(STRING)
    BY <1>4 DEF Readers, Text
  <2>2. BodyLength \in Nat
    BY HttpAssumption
  <2> QED BY <2>1, <2>2
<1>6. /\ rd.lstart = rd.lend /\ rd.lend \in 0..Len(rd.buf) /\ rd.lnewline \in 0..rd.lend
      /\ rd.mstart \in 0..Len(rd.buf) /\ rd.body \in 0..rd.lend
      /\ rd.body > 0 /\ rd.lend = rd.body
  BY <1>1, <1>3 DEF Data, Positions
<1>7. answers' = answers + (IF run.at = "write_response" THEN 1 ELSE 0)
  BY <1>1, <1>3
<1>8. CASE BodyCame(rd) /\ Back("done", c) /\ rd' = r
  <2>1. ComesBack("done", c)
    BY <1>1, <1>7, <1>8 DEF ComesBack, Meanwhile, counts
  <2>2. /\ run'.count = 0 /\ run'.n = 0 /\ run'.at \notin Reading
        /\ conn' = "open" => At' = "write_response" /\ c'.status # "yield"
    BY <1>3, <2>1, BackAt DEF Reading
  <2>3. behind <= Len(rd.buf)
    BY <1>5, <1>8 DEF BodyCame
  <2> HIDE DEF behind
  <2>4. /\ r \in Readers /\ r.buf = rd.buf /\ r.lstart = rd.lstart /\ r.lnewline = rd.lnewline
        /\ r.lend = behind /\ r.mstart = rd.mstart /\ r.body = rd.body
    BY <1>4, <1>5 DEF Readers
  <2> HIDE DEF r
  <2>5. TypeData' /\ Came' /\ Fresh'
    BY <1>1, <1>8, <2>2, <2>4, SameBuffer
  <2>6. /\ rd'.lstart \in 0..rd'.lend /\ rd'.lnewline \in 0..rd'.lend
        /\ rd'.lend \in 0..Len(rd'.buf) /\ rd'.mstart \in 0..Len(rd'.buf)
        /\ rd'.body # 0 /\ rd'.body \in 0..rd'.lend
    BY <1>5, <1>6, <1>8, <2>3, <2>4
  <2>7. conn' = "open" => At' \notin {"read_request", "read_headers", "read_body"}
    BY <2>2
  <2>8. Positions'
    BY <2>2, <2>6, <2>7 DEF Positions
  <2> QED BY <2>5, <2>8 DEF Data
<1>9. CASE NoMoreData(run.count, run.n) /\ Back("yield", Yielded(c, run.at)) /\ rd' = rd
  <2>1. ComesBack("yield", Yielded(c, run.at))
    BY <1>1, <1>7, <1>9 DEF ComesBack, Meanwhile, counts
  <2>2. run'.count = 0 /\ run'.n = 0 /\ run'.at \notin Reading /\ (conn' = "open" => At' = run.at)
    BY <1>3, <2>1, BackAt DEF Reading
  <2>3. TypeData' /\ Came' /\ Fresh'
    BY <1>1, <1>3, <1>4, <1>9, <2>2, SameBuffer
  <2>4. Positions'
    BY <1>3, <1>9, <2>2, SamePositions
  <2> QED BY <2>3, <2>4 DEF Data
<1>10. CASE Back("error", c) /\ rd' = rd
  <2>1. ComesBack("error", c)
    BY <1>1, <1>7, <1>10 DEF ComesBack, Meanwhile, counts
  <2>2. run'.count = 0 /\ run'.n = 0 /\ run'.at \notin Reading /\ conn' # "open"
    BY <1>3, <2>1, BackAt DEF Reading
  <2>3. TypeData' /\ Came' /\ Fresh'
    BY <1>1, <1>3, <1>4, <1>10, <2>2, SameBuffer
  <2>4. Positions'
    BY <1>3, <1>10, <2>2, SamePositions
  <2> QED BY <2>3, <2>4 DEF Data
<1>11. CASE ~BodyCame(rd) /\ ReadSocket(rd, count)
  <2>1. count \in Nat
    BY <1>5, <1>11 DEF BodyCame
  <2> HIDE DEF count, behind, r
  <2>2. /\ rd' = [rd EXCEPT !.buf = rd'.buf] /\ run'.at = run.at
        /\ Len(rd'.buf) \in Len(rd.buf)..sent
    BY <1>4, <1>11, <2>1, SocketRead
  <2>3. TypeData' /\ Came' /\ Fresh'
    BY <1>1, <1>3, <1>4, <1>11, <2>1, MoreBuffer
  <2>4. At' = "read_body"
    BY <1>1, <2>2 DEF At
  <2>5. /\ rd'.mstart = rd.mstart /\ rd'.lend = rd.lend /\ rd'.lstart = rd.lstart
        /\ rd'.lnewline = rd.lnewline /\ rd'.body = rd.body /\ rd'.body # 0
    <3> DEFINE b == rd'.buf
    <3> HIDE DEF b
    <3>1. rd' = [rd EXCEPT !.buf = b]
      BY <2>2 DEF b
    <3>2. rd.body # 0
      BY <1>6
    <3> QED BY <1>4, <3>1, <3>2 DEF Readers
  <2>6. Len(rd'.buf) \in Nat /\ Len(rd.buf) <= Len(rd'.buf)
    <3>1. sent \in Nat
      BY StreamText
    <3> QED BY <1>5, <2>2, <3>1
  <2>7. rd'.mstart \in 0..Len(rd'.buf) /\ rd'.lend \in 0..Len(rd'.buf)
    BY <1>5, <1>6, <2>5, <2>6
  <2>8. Positions'
    BY <1>6, <2>4, <2>5, <2>7 DEF Positions
  <2> QED BY <2>3, <2>8 DEF Data
<1> QED BY <1>2, <1>8, <1>9, <1>10, <1>11

LEMMA WriteResponseData == Control /\ Data /\ WriteResponse => Data'
<1> SUFFICES ASSUME Control, Data, WriteResponse PROVE Data'
  OBVIOUS
<1>1. PICK out \in {"done", "error"} : Back(out, c)
  BY DEF WriteResponse
<1>2. run.at = "write_response" /\ answers' = answers + 1 /\ Meanwhile /\ rd' = rd
  BY DEF WriteResponse
<1>3. run.at \in Functions /\ conn = "open"
  BY <1>2, RunsOpen DEF Functions
<1>4. ComesBack(out, c)
  <2>1. out \in {"error", "yield", "done"} /\ out # "yield"
    OBVIOUS
  <2>2. answers' = answers + (IF run.at = "write_response" THEN 1 ELSE 0)
    BY <1>2
  <2> QED BY <1>1, <1>2, <1>3, <2>1, <2>2 DEF ComesBack, Meanwhile, counts
<1>5. /\ run'.at \in {"", "write_response"} /\ run'.count = 0 /\ run'.n = 0
      /\ conn' = "open" => out # "error"
      /\ conn' = "open" /\ out = "done" => At' = "write_response" /\ c'.status # "yield"
  BY <1>3, <1>4, BackAt
<1>6. conn' = "open" => At' = "write_response" /\ c'.status # "yield"
  BY <1>5
<1>7. rd' \in Readers
  BY <1>2 DEF Data, TypeData
<1>8. TypeData' /\ Came' /\ Fresh'
  BY <1>2, <1>5, <1>6, <1>7, SameBuffer
<1>9. Positions'
  BY <1>2, <1>3, <1>5, <1>6, SamePositions DEF Reading
<1> QED BY <1>8, <1>9 DEF Data

\* What the worker does with a mask.
LEMMA TakeData == Control /\ Data /\ (HandleGone \/ HandleOther \/ HandleReadable) => Data'
<1> SUFFICES ASSUME Control, Data, HandleGone \/ HandleOther \/ HandleReadable PROVE Data'
  OBVIOUS
<1>1. /\ conn = "open" /\ run.at = "" /\ evmk' = {} /\ stream' = stream /\ sent' = sent
      /\ line' = line /\ edge' = edge
  BY DEF HandleGone, HandleOther, HandleReadable, Take, client
<1>2. CASE HandleGone
  <2>1. conn' = "closed" /\ run' = Idle /\ rd' = rd
    BY <1>2 DEF HandleGone, Close
  <2>2. run'.at = "" /\ run'.count = 0 /\ run'.n = 0 /\ conn' # "open"
    BY <2>1 DEF Idle
  <2>5. run'.count \in Nat /\ run'.n \in 0..run'.count
    <3>1. run'.count = 0 /\ run'.n = 0
      BY <2>2
    <3> QED BY <3>1
  <2>3. TypeData' /\ Came' /\ Fresh'
    <3>1. TypeData'
      BY <1>1, <2>1, <2>5 DEF Data, TypeData
    <3>2. Came'
      BY <1>1, <2>1 DEF Data, Came
    <3>3. Fresh'
      BY <2>2 DEF Fresh
    <3> QED BY <3>1, <3>2, <3>3
  <2>4. Positions'
    BY <2>1, <2>2, SamePositions DEF Reading
  <2> QED BY <2>3, <2>4 DEF Data
<1>3. CASE HandleOther
  <2>1. conn' = conn /\ run' = run /\ rd' = rd /\ c' = c /\ "READ" \notin evmk
    BY <1>3 DEF HandleOther, server, Readable
  <2>2. TypeData' /\ Came' /\ Fresh'
    BY <1>1, <2>1 DEF Data, TypeData, Came, Fresh
  <2>3. Positions'
    BY <2>1, SamePositions DEF At
  <2> QED BY <2>2, <2>3 DEF Data
<1>4. CASE HandleReadable
  <2>1. /\ run' = Enters(Resumes(c)) /\ c' = Resumed(c) /\ conn' = conn
        /\ rd' = IF Resumes(c) = "write_response" THEN rd ELSE Forward(rd)
    BY <1>4 DEF HandleReadable
  <2>2. At = Resumes(c)
    BY <1>1 DEF At
  <2>3. /\ c \in Coroutines /\ requests \in {0, 1}
        /\ c.func = IF requests = 1 THEN "write_response" ELSE "read_request"
        /\ c.status = "yield" => c.kfunc \in Reading
    BY <1>1 DEF Control, TypeControl, Shape
  <2>4. Resumes(c) \in Functions
    BY <2>3 DEF Resumes, Reading, Functions
  <2>5. /\ run'.at = Resumes(c) /\ run'.count = 0 /\ run'.n = 0 /\ run'.at # ""
        /\ At' = At /\ c'.status = "ok"
    <3>1. run'.at = Resumes(c) /\ run'.count = 0 /\ run'.n = 0
      BY <2>1 DEF Enters
    <3>2. run'.at # ""
      BY <2>4, <3>1 DEF Functions
    <3>3. c'.status = "ok"
      BY <2>1, <2>3, CoroutineFields
    <3> QED BY <2>2, <3>1, <3>2, <3>3 DEF At
  <2>6. rd \in Readers
    BY DEF Data, TypeData
  <2>7. /\ rd' \in Readers /\ rd'.buf = rd.buf /\ rd'.lnewline = rd.lnewline
        /\ rd'.lend = rd.lend /\ rd'.mstart = rd.mstart /\ rd'.body = rd.body
        /\ rd'.bodylen = rd.bodylen /\ rd'.chunked = rd.chunked /\ rd'.lines = rd.lines
        /\ rd'.lstart \in {rd.lstart, rd.lend}
        /\ At # "write_response" => rd'.lstart = rd.lend
    BY <2>1, <2>2, <2>6, ForwardIs
  <2>8. ~NoMoreData(run'.count, run'.n) /\ run'.count \in Nat /\ run'.n \in 0..run'.count
    <3>1. run'.count = 0 /\ run'.n = 0
      BY <2>5
    <3> QED BY <3>1 DEF NoMoreData
  <2>9. TypeData' /\ Came' /\ Fresh'
    <3>1. TypeData'
      <4>1. rd' \in Readers /\ evmk' \subseteq {"READ", "WRITE", "RDH", "HUP"}
        BY <1>1, <2>7
      <4> QED BY <1>1, <2>8, <4>1 DEF Data, TypeData
    <3>2. Came'
      BY <1>1, <2>7 DEF Data, Came
    <3>3. Fresh'
      BY <2>5, <2>8 DEF Fresh
    <3> QED BY <3>1, <3>2, <3>3
  <2>10. run'.at \in Reading => rd'.lstart = rd'.lend
    BY <2>2, <2>5, <2>7 DEF Reading
  <2>11. rd.lend \in Nat
    BY <2>6 DEF Readers
  <2>12. rd'.lstart \in 0..rd'.lend
    BY <2>7, <2>11 DEF Data, Positions
  <2>13. Positions'
    BY <2>1, <2>5, <2>7, <2>10, <2>12 DEF Data, Positions
  <2> QED BY <2>9, <2>13 DEF Data
<1> QED BY <1>2, <1>3, <1>4

\* A new connection has read nothing.
LEMMA ConnectData ==
    ASSUME NEW s \in Streams, NEW set, Control, Connect(s, set) PROVE Data'
<1>1. /\ stream' = s /\ sent' = 0 /\ line' = "open" /\ edge' \subseteq {"WRITE"} /\ evmk' = {}
      /\ conn' = "open" /\ run' = Idle /\ rd' = NothingRead
      /\ c' = SetResume(Zeroed, reg, "read_request")
  BY DEF Connect
<1>2. c'.status = "ok" /\ c'.func = "read_request"
  <2>1. "read_request" \in Functions
    BY DEF Functions
  <2>2. NextRef(reg) \in Nat
    BY <1>1, ReferredType
  <2> QED BY <1>1, <2>1, <2>2, SetFirst
<1>3. run'.at = "" /\ run'.count = 0 /\ run'.n = 0 /\ At' = "read_request"
  BY <1>1, <1>2 DEF Idle, At, Resumes
<1>4. s \in Text /\ Len(s) \in Nat
  BY HttpAssumption DEF Text
<1> DEFINE e == <<>>
<1>5. e \in Text /\ Len(e) = 0
  BY DEF Text
<1>6. e = SubSeq(s, 1, 0)
  BY <1>4 DEF Text
<1>7. rd' = [buf |-> e, lstart |-> 0, lnewline |-> 0, lend |-> 0, mstart |-> 0, body |-> 0,
             method |-> "", bodylen |-> 0, chunked |-> FALSE, lines |-> 0, halved |-> FALSE]
  BY <1>1 DEF NothingRead
<1> HIDE DEF e
<1>8. /\ rd' \in Readers /\ rd'.buf = e /\ rd'.lstart = 0 /\ rd'.lnewline = 0
      /\ rd'.lend = 0 /\ rd'.mstart = 0 /\ rd'.body = 0 /\ rd'.bodylen = 0
      /\ ~rd'.chunked /\ rd'.lines = 0
  BY <1>5, <1>7 DEF Readers
<1>9. TypeData'
  <2>1. run'.count = 0 /\ run'.n = 0
    BY <1>3
  <2>2. run'.count \in Nat /\ run'.n \in 0..run'.count
    BY <2>1
  <2>3. sent' \in 0..Len(stream')
    BY <1>1, <1>4
  <2>4. /\ stream' \in Streams \union {<<>>} /\ line' \in {"open", "half", "reset"}
        /\ edge' \subseteq {"READ", "WRITE", "RDH", "HUP"}
        /\ evmk' \subseteq {"READ", "WRITE", "RDH", "HUP"}
    BY <1>1
  <2> QED BY <1>8, <2>2, <2>3, <2>4 DEF TypeData
<1>10. Came'
  BY <1>1, <1>5, <1>6, <1>8 DEF Came
<1>11. Positions'
  <2>1. Len(rd'.buf) = 0
    BY <1>5, <1>8
  <2>2. /\ rd'.lstart \in 0..rd'.lend /\ rd'.lnewline \in 0..rd'.lend
        /\ rd'.lend \in 0..Len(rd'.buf) /\ rd'.mstart \in 0..Len(rd'.buf)
        /\ rd'.lend <= rd'.mstart /\ rd'.body \in 0..rd'.lend
        /\ rd'.lstart = rd'.lend
    BY <1>8, <2>1
  <2>3. At' = "read_request" /\ At' # "read_body"
    BY <1>3
  <2> QED BY <1>8, <2>2, <2>3 DEF Positions
<1>12. Fresh'
  <2>1. run'.at \notin Reading /\ c'.status # "yield"
    BY <1>2, <1>3 DEF Reading
  <2> QED BY <2>1 DEF Fresh
<1> QED BY <1>9, <1>10, <1>11, <1>12 DEF Data

\* The client, the master and other services.
LEMMA ClientData ==
    ASSUME Silent, Data,
           \/ Send \/ HangUp("half") \/ HangUp("reset") \/ Collect
           \/ ConnectClosing \/ ClosePlain \/ UNCHANGED vars
    PROVE  Data'
<1>1. run' = run /\ rd' = rd /\ c' = c /\ conn' = conn /\ stream' = stream
  BY DEF Send, HangUp, Collect, ConnectClosing, ClosePlain, vars, server, client
<1>2. At' = At
  BY <1>1 DEF At
<1>3. Positions'
  BY <1>1, <1>2, SamePositions
<1>4. CASE Send
  <2>1. /\ sent < Len(stream) /\ sent' = sent + 1 /\ Raise({"READ"})
        /\ line' = line /\ evmk' = evmk
    BY <1>4 DEF Send
  <2>7. edge' \in {edge, edge \union {"READ"}} /\ (watched => "READ" \in edge')
    BY <2>1 DEF Raise
  <2>2. sent \in 0..Len(stream) /\ Len(stream) \in Nat
    BY StreamText
  <2>3. sent' \in 0..Len(stream)
    BY <2>1, <2>2
  <2>4. TypeData'
    BY <1>1, <2>1, <2>3, <2>7 DEF Data, TypeData
  <2>5. Came'
    <3>1. rd.buf \in Text
      BY DEF Data, TypeData, Readers
    <3>2. Len(rd.buf) \in Nat
      BY <3>1 DEF Text
    <3> QED BY <1>1, <2>1, <2>2, <3>2 DEF Data, Came
  <2>6. Fresh'
    BY <1>1, <2>7 DEF Fresh, Silent, Reading
  <2> QED BY <1>3, <2>4, <2>5, <2>6 DEF Data
<1>5. CASE HangUp("half") \/ HangUp("reset")
  <2>1. /\ line' \in {"half", "reset"} /\ sent' = sent /\ evmk' = evmk
        /\ edge' \in {edge, edge \union {"READ", "RDH"}, edge \union {"READ", "RDH", "HUP"}}
        /\ watched => "READ" \in edge'
    BY <1>5 DEF HangUp, Raise
  <2>2. edge' \subseteq {"READ", "WRITE", "RDH", "HUP"}
    BY <2>1 DEF Data, TypeData
  <2>3. TypeData' /\ Came'
    BY <1>1, <2>1, <2>2 DEF Data, TypeData, Came
  <2>4. Fresh'
    BY <1>1, <2>1 DEF Fresh, Silent, Reading
  <2> QED BY <1>3, <2>3, <2>4 DEF Data
<1>6. CASE Collect
  <2>1. evmk' = evmk \union edge /\ edge' = {} /\ sent' = sent /\ line' = line
    BY <1>6 DEF Collect, client
  <2>2. TypeData' /\ Came'
    BY <1>1, <2>1 DEF Data, TypeData, Came
  <2>3. "READ" \in edge \union evmk => "READ" \in edge' \union evmk'
    BY <2>1
  <2>4. Fresh'
    BY <1>1, <2>1, <2>3 DEF Data, Fresh
  <2> QED BY <1>3, <2>2, <2>4 DEF Data
<1>7. CASE ConnectClosing \/ ClosePlain \/ UNCHANGED vars
  <2>1. sent' = sent /\ line' = line /\ edge' = edge /\ evmk' = evmk
    BY <1>7 DEF ConnectClosing, ClosePlain, vars, client
  <2>2. TypeData' /\ Came' /\ Fresh'
    BY <1>1, <2>1 DEF Data, TypeData, Came, Fresh
  <2> QED BY <1>3, <2>2 DEF Data
<1> QED BY <1>4, <1>5, <1>6, <1>7

LEMMA InitData == Init => Data
<1> SUFFICES ASSUME Init PROVE Data
  OBVIOUS
<1>1. /\ stream = <<>> /\ sent = 0 /\ line = "open" /\ edge = {} /\ evmk = {}
      /\ conn = "none" /\ run = Idle /\ rd = NothingRead
  BY DEF Init
<1>2. run.at = "" /\ run.count = 0 /\ run.n = 0 /\ conn # "open"
  BY <1>1 DEF Idle
<1> DEFINE e == <<>>
<1>3. e \in Text /\ Len(e) = 0 /\ e = SubSeq(e, 1, 0)
  BY DEF Text
<1>4. rd = [buf |-> e, lstart |-> 0, lnewline |-> 0, lend |-> 0, mstart |-> 0, body |-> 0,
            method |-> "", bodylen |-> 0, chunked |-> FALSE, lines |-> 0, halved |-> FALSE]
  BY <1>1 DEF NothingRead
<1>5. stream = e
  BY <1>1
<1> HIDE DEF e
<1>6. /\ rd \in Readers /\ rd.buf = e /\ rd.lstart = 0 /\ rd.lnewline = 0
      /\ rd.lend = 0 /\ rd.mstart = 0 /\ rd.body = 0
  BY <1>3, <1>4 DEF Readers
<1>7. TypeData
  <2>1. stream \in Streams \union {<<>>}
    BY <1>1
  <2>2. run.count = 0 /\ run.n = 0
    BY <1>2
  <2>3. run.count \in Nat /\ run.n \in 0..run.count
    BY <2>2
  <2>4. sent \in 0..Len(stream)
    BY <1>1, <1>3, <1>5
  <2>5. /\ line \in {"open", "half", "reset"}
        /\ edge \subseteq {"READ", "WRITE", "RDH", "HUP"}
        /\ evmk \subseteq {"READ", "WRITE", "RDH", "HUP"}
    BY <1>1
  <2> QED BY <1>6, <2>1, <2>3, <2>4, <2>5 DEF TypeData
<1>8. Came
  BY <1>1, <1>3, <1>5, <1>6 DEF Came
<1>9. Positions
  <2>1. Len(rd.buf) = 0
    BY <1>3, <1>6
  <2>2. /\ rd.lstart \in 0..rd.lend /\ rd.lnewline \in 0..rd.lend
        /\ rd.lend \in 0..Len(rd.buf) /\ rd.mstart \in 0..Len(rd.buf)
        /\ rd.lend <= rd.mstart /\ rd.body \in 0..rd.lend
        /\ rd.lstart = rd.lend
    BY <1>6, <2>1
  <2> QED BY <1>2, <2>2 DEF Positions
<1>10. Fresh
  BY <1>2 DEF Fresh
<1> QED BY <1>7, <1>8, <1>9, <1>10 DEF Data

\* Every step keeps Data.
LEMMA NextData == Control /\ Silent /\ Data /\ [Next]_vars => Data'
<1> SUFFICES ASSUME Control, Silent, Data, [Next]_vars PROVE Data'
  OBVIOUS
<1>1. CASE \/ Send \/ HangUp("half") \/ HangUp("reset") \/ Collect
           \/ ConnectClosing \/ ClosePlain \/ UNCHANGED vars
  BY <1>1, ClientData
<1>2. CASE \E s \in Streams, set \in BOOLEAN : Connect(s, set)
  BY <1>2, ConnectData
<1>3. CASE HandleGone \/ HandleOther \/ HandleReadable
  BY <1>3, TakeData
<1>4. CASE ReadLine(LineFound)
  BY <1>4, ReadLineData
<1>5. CASE ReadRequest(LineFound)
  BY <1>5, ReadRequestData
<1>6. CASE ReadHeader(LineFound)
  BY <1>6, ReadHeaderData
<1>7. CASE EndHeaders(LineFound)
  BY <1>7, EndHeadersData
<1>8. CASE ReadBody
  BY <1>8, ReadBodyData
<1>9. CASE WriteResponse
  BY <1>9, WriteResponseData
<1> QED
  BY <1>1, <1>2, <1>3, <1>4, <1>5, <1>6, <1>7, <1>8, <1>9 DEF Next, Handle

\* A service whose event is not set has no mask that it could take.
LEMMA NextSilent == Control /\ Silent /\ [Next]_vars => Silent'
<1> SUFFICES ASSUME Control, Silent, [Next]_vars PROVE Silent'
  OBVIOUS
<1>1. CASE Send \/ HangUp("half") \/ HangUp("reset")
  BY <1>1 DEF Send, HangUp, Raise, server, Silent
<1>2. CASE Collect
  BY <1>2 DEF Collect, client, server, Silent
<1>3. CASE ConnectClosing \/ ClosePlain \/ UNCHANGED vars
  BY <1>3 DEF ConnectClosing, ClosePlain, client, server, vars, Silent
<1>4. CASE \E s \in Streams, set \in BOOLEAN : Connect(s, set)
  <2>1. PICK s \in Streams, set \in BOOLEAN : Connect(s, set)
    BY <1>4
  <2>2. /\ watched' = set /\ run' = Idle /\ c' = SetResume(Zeroed, reg, "read_request")
        /\ ~set => edge' = {} /\ evmk' = {}
    BY <2>1 DEF Connect
  <2>3. c'.status = "ok"
    <3>1. "read_request" \in Functions
      BY DEF Functions
    <3> QED BY <2>2, <3>1, ReferredType, SetFirst
  <2>4. run'.at = ""
    BY <2>2 DEF Idle
  <2> QED BY <2>2, <2>3, <2>4 DEF Silent
<1>5. CASE Handle
  <2>1. watched' = watched
    BY <1>5 DEF Handle, HandleGone, HandleOther, HandleReadable, Take, ReadLine, ReadRequest,
                ReadHeader, EndHeaders, ReadBody, WriteResponse, Meanwhile, client
  <2>2. conn = "open" /\ (evmk # {} \/ run.at # "")
    <3>1. run.at # "" => conn = "open"
      BY DEF Control, Shape
    <3> QED BY <1>5, <3>1 DEF Handle, HandleGone, HandleOther, HandleReadable, Take, ReadLine,
               ReadRequest, ReadHeader, EndHeaders, ReadBody, WriteResponse
  <2> QED BY <2>1, <2>2 DEF Silent
<1> QED BY <1>1, <1>2, <1>3, <1>4, <1>5 DEF Next

LEMMA InitSilent == Init => Silent
BY DEF Init, Silent

\* The reader's buffer and positions, whatever the client sends.
THEOREM DataInvariant == Spec => [](Control /\ Silent /\ Data)
<1>1. Init => Control /\ Silent /\ Data
  BY InitControl, InitSilent, InitData
<1>2. (Control /\ Silent /\ Data) /\ [Next]_vars => (Control /\ Silent /\ Data)'
  BY NextControl, NextSilent, NextData
<1> QED BY <1>1, <1>2, PTL DEF Spec

\* Edge triggered events: a suspended coroutine has read all that the client sent,
\* unless an event that will resume it is still on its way.
THEOREM SuspendedDrained == Spec => []Drained
<1>1. Data => Drained
  BY DEF Data, Fresh, Drained
<1> QED BY <1>1, DataInvariant, PTL

\* The types and the order of the positions, for any streams, lengths and limits.
THEOREM TypeCorrect == Spec => []TypeOK
<1>1. Control /\ Silent /\ Data => TypeOK
  <2> SUFFICES ASSUME Control, Silent, Data PROVE TypeOK
    OBVIOUS
  <2>1. /\ rd.buf \in Seq(STRING) /\ rd.method \in ReqLines \union {""}
        /\ rd.bodylen \in {0, BodyLength} /\ rd.chunked \in BOOLEAN
        /\ rd.halved \in BOOLEAN /\ rd.lines \in Nat
    BY DEF Data, TypeData, Readers, Text
  <2>2. /\ rd.lstart \in 0..rd.lend /\ rd.lnewline \in 0..rd.lend
        /\ rd.lend \in 0..Len(rd.buf) /\ rd.mstart \in 0..Len(rd.buf)
        /\ rd.body = 0 => rd.lend <= rd.mstart
        /\ rd.body \in 0..rd.lend
    BY DEF Data, Positions
  <2>3. /\ c.ref \in Nat \union {NoRef} /\ c.status \in {"none", "ok", "yield"}
        /\ c.func \in Functions \union {""} /\ c.kfunc \in Functions \union {""}
        /\ c.misused \in BOOLEAN
        /\ reg.free \in Seq(Nat) /\ reg.top \in Nat
        /\ answers \in Nat /\ requests \in {0, 1}
        /\ conn \in {"none", "open", "closed"} /\ stage \in {0, RdReq, WrRes}
        /\ run.at \in Functions \union {""}
    BY DEF Control, TypeControl, Coroutines, Registries
  <2>4. /\ stream \in Streams \union {<<>>} /\ sent \in 0..Len(stream)
        /\ line \in {"open", "half", "reset"}
        /\ edge \subseteq {"READ", "WRITE", "RDH", "HUP"}
        /\ evmk \subseteq {"READ", "WRITE", "RDH", "HUP"}
        /\ run.count \in Nat /\ run.n \in 0..run.count
    BY DEF Data, TypeData
  <2>5. watched \in BOOLEAN
    BY DEF Silent
  <2>6. held \subseteq Nat
    <3>1. held \subseteq 3..reg.top
      BY RefsPlaces DEF Control, Refs, Places, Taken
    <3>2. reg.top \in Nat
      BY <2>3
    <3> DEFINE k == reg.top
    <3>3. 3..k \subseteq Nat
      BY <3>2
    <3> QED BY <3>1, <3>3
  <2> QED BY <2>1, <2>2, <2>3, <2>4, <2>5, <2>6 DEF TypeOK
<1> QED BY <1>1, DataInvariant, PTL

-----------------------------------------------------------------------------
(* The lines and the request.                                              *)

\* The buffer as a part of the stream.
LEMMA BufferIs ==
    ASSUME Data
    PROVE  /\ stream \in Text /\ Len(stream) \in Nat /\ rd.buf \in Text
           /\ Len(rd.buf) \in 0..Len(stream) /\ rd.buf = SubSeq(stream, 1, Len(rd.buf))
           /\ \A i \in 1..Len(rd.buf) : rd.buf[i] = stream[i]
<1>1. stream \in Text /\ Len(stream) \in Nat /\ sent \in 0..Len(stream)
  BY StreamText
<1>2. rd.buf \in Text /\ rd.buf = SubSeq(stream, 1, Len(rd.buf)) /\ Len(rd.buf) <= sent
  BY DEF Data, TypeData, Readers, Came
<1>3. Len(rd.buf) \in Nat
  BY <1>2 DEF Text
<1>4. Len(rd.buf) \in 0..Len(stream)
  BY <1>1, <1>2, <1>3
<1> DEFINE k == Len(rd.buf)
           r == rd.buf
<1>5. k \in 0..Len(stream) /\ r = SubSeq(stream, 1, k)
  BY <1>2, <1>4
<1> HIDE DEF k, r
<1>6. \A i \in 1..k : r[i] = stream[i]
  BY <1>1, <1>5, PartType
<1> QED BY <1>1, <1>2, <1>4, <1>6 DEF k, r

\* What a step leaves alone when it neither ends a line nor a request.
LEMMA ExactKept ==
    ASSUME Exact, stream' = stream, requests' = requests,
           rd'.lend = rd.lend /\ rd'.body = rd.body /\ rd'.lines = rd.lines,
           rd'.method = rd.method /\ rd'.bodylen = rd.bodylen /\ rd'.chunked = rd.chunked,
           rd'.halved = rd.halved, rd'.buf = rd.buf \/ requests = 0,
           conn' = "open" => conn = "open" /\ (At' = At \/ At' = "write_response"),
           ~rd.halved /\ rd.body = 0 => Unbroken(stream, rd.lend, rd'.mstart)
    PROVE  Exact'
<1> SUFFICES ASSUME ~rd'.halved PROVE Lines' /\ Request'
  BY DEF Exact
<1>1. Lines /\ Request
  BY DEF Exact
<1>2. Lines'
  BY <1>1 DEF Lines
<1>3. requests' = 1 => Len(rd'.buf) >= RequestEnd(stream')
  BY <1>1 DEF Request
<1>4. /\ conn' = "open" /\ At' = "read_headers" => conn = "open" /\ At = "read_headers"
      /\ conn' = "open" /\ At' = "read_body" => conn = "open" /\ At = "read_body"
  OBVIOUS
<1>5. Request'
  BY <1>1, <1>3, <1>4 DEF Request
<1> QED BY <1>2, <1>5

LEMMA ExactSame ==
    ASSUME Exact, stream' = stream, requests' = requests,
           rd'.lend = rd.lend /\ rd'.body = rd.body /\ rd'.lines = rd.lines,
           rd'.method = rd.method /\ rd'.bodylen = rd.bodylen /\ rd'.chunked = rd.chunked,
           rd'.halved = rd.halved, rd'.buf = rd.buf \/ requests = 0,
           rd'.mstart = rd.mstart,
           conn' = "open" => conn = "open" /\ (At' = At \/ At' = "write_response")
    PROVE  Exact'
<1>1. ~rd.halved /\ rd.body = 0 => Unbroken(stream, rd.lend, rd'.mstart)
  BY DEF Exact, Lines
<1> QED BY <1>1, ExactKept

\* A line has ended, and not in the middle of its end.
LEMMA WholeLine ==
    ASSUME Control, Data, Exact, run.at \in {"read_request", "read_headers"},
           LineFound.end # 0, ~rd.halved, ~Halves(rd, LineFound.end)
    PROVE  /\ rd.lend \in LineEnds(stream) /\ rd.lend < Len(stream)
           /\ LineFound.end = EndOfLine(stream, rd.lend)
           /\ LineFound.end \in LineEnds(stream) /\ LineFound.end <= Len(stream)
           /\ rd.lines + 1 = Cardinality(LineEnds(stream) \intersect 1..LineFound.end)
           /\ LineFound.at = rd.lend <=> IsBreak(stream, rd.lend)
<1> DEFINE s == stream
           k == Len(rd.buf)
           r == rd.buf
           b == rd.lend
           n == rd.mstart
           f == LineFound
<1>1. s \in Text /\ Len(s) \in Nat /\ k \in 0..Len(s) /\ r = SubSeq(s, 1, k)
  BY BufferIs
<1>2. b \in Nat /\ b <= n /\ n \in 0..k /\ k \in Nat /\ rd.body = 0
  BY Search
<1>3. b \in 0..k /\ n \in b..k
  BY <1>1, <1>2
<1>4. b \in LineEnds(s) /\ rd.lines = Cardinality(LineEnds(s) \intersect 1..b)
  BY <1>2 DEF Exact, Lines
<1>5. Unbroken(s, b, n)
  BY <1>2 DEF Exact, Lines
<1>6. f = MatchUntil(Newlines, r, n) /\ f.end # 0
  BY DEF LineFound
<1> HIDE DEF s, k, r, b, n, f
<1>7. ~(f.end = k /\ k < Len(s) /\ IsPair(r[k], s[k + 1]))
  BY DEF Halves, IsPair, f, s, k, r
<1>8. b < Len(s) /\ f.end = EndOfLine(s, b) /\ f.end <= Len(s)
  <2>1. Ended(s, r, k, b, f)
    BY <1>1, <1>3, <1>5, <1>6, PartSearch
  <2>2. f.end \in 0..k
    BY <1>1, <1>3, <1>5, <1>6, PartSearch
  <2>3. b < Len(s) /\ f.end = EndOfLine(s, b)
    BY <1>6, <1>7, <2>1 DEF Ended
  <2>4. f.end <= Len(s)
    BY <1>1, <2>2
  <2> QED BY <2>3, <2>4
<1>9. f.at = b <=> IsBreak(s, b)
  <2>1. Unbroken(s, b, f.at)
    BY <1>1, <1>3, <1>5, <1>6, PartSearch
  <2>2. f.at \in n..k
    BY <1>1, <1>3, <1>5, <1>6, PartSearch
  <2>3. IsBreak(s, f.at)
    <3>1. Ended(s, r, k, b, f)
      BY <1>1, <1>3, <1>5, <1>6, PartSearch
    <3> QED BY <1>6, <3>1 DEF Ended
  <2>4. ASSUME f.at # b PROVE b \in b..f.at - 1
    BY <1>1, <1>2, <1>3, <2>2, <2>4 DEF b, n
  <2> QED BY <2>1, <2>3, <2>4 DEF Unbroken
<1>10. /\ f.end \in LineEnds(s)
       /\ Cardinality(LineEnds(s) \intersect 1..f.end) =
            Cardinality(LineEnds(s) \intersect 1..b) + 1
  BY <1>1, <1>4, <1>8, NextLine
<1> QED BY <1>4, <1>8, <1>9, <1>10 DEF f, s, b

\* The lines with one more.
LEMMA LinesOneMore ==
    ASSUME Control, Data, Exact, run.at \in {"read_request", "read_headers"},
           LineFound.end # 0, ~rd.halved, ~Halves(rd, LineFound.end), stream' = stream,
           rd'.lend = LineFound.end /\ rd'.mstart = LineFound.end,
           rd'.lines = rd.lines + 1, rd'.body \in {0, LineFound.end}
    PROVE  Lines'
<1> DEFINE e == LineFound.end
<1>1. e \in LineEnds(stream) /\ rd.lines + 1 = Cardinality(LineEnds(stream) \intersect 1..e)
  BY WholeLine
<1>2. e \in Nat
  BY Search
<1>3. rd'.lend = e /\ rd'.mstart = e /\ rd'.lines = rd.lines + 1 /\ rd'.body \in {0, e}
  OBVIOUS
<1> HIDE DEF e
<1>4. Unbroken(stream, e, e)
  BY <1>2 DEF Unbroken
<1> QED BY <1>1, <1>3, <1>4 DEF Lines

\* A line that has not ended: it is searched further next time.
LEMMA ReadLineExact == Control /\ Data /\ Exact /\ ReadLine(LineFound) => Exact'
<1> SUFFICES ASSUME Control, Data, Exact, ReadLine(LineFound) PROVE Exact'
  OBVIOUS
<1> DEFINE r == [rd EXCEPT !.mstart = LineFound.at]
           count == LineLength - 1
<1>1. /\ run.at \in {"read_request", "read_headers"}
      /\ Meanwhile /\ UNCHANGED answers
  BY DEF ReadLine
<1>2. \/ NoMoreData(run.count, run.n) /\ Back("yield", Yielded(c, run.at)) /\ rd' = r
      \/ Back("error", c) /\ rd' = r
      \/ ReadSocket(r, count)
  BY DEF ReadLine, SearchFrom
<1> HIDE DEF count
<1>3. /\ conn = "open" /\ At = run.at /\ run.at \in Reading /\ rd.body = 0
      /\ LineFound.at \in rd.mstart..Len(rd.buf) /\ Len(rd.buf) \in Nat
      /\ rd.mstart \in 0..Len(rd.buf)
  BY <1>1, Search
<1>4. stream' = stream /\ requests = 0
  BY <1>1, <1>3 DEF Meanwhile, client, Control, Shape
<1>5. /\ r \in Readers /\ r.buf = rd.buf /\ r.mstart = LineFound.at
      /\ r.lend = rd.lend /\ r.body = rd.body /\ r.lines = rd.lines
      /\ r.method = rd.method /\ r.bodylen = rd.bodylen
      /\ r.chunked = rd.chunked /\ r.halved = rd.halved
  <2>1. rd \in Readers /\ LineFound.at \in Nat
    BY <1>3 DEF Data, TypeData
  <2> QED BY <2>1 DEF Readers
<1> HIDE DEF r
<1>6. ~rd.halved => Unbroken(stream, rd.lend, LineFound.at)
  <2> SUFFICES ASSUME ~rd.halved
               PROVE  Unbroken(stream, rd.lend, LineFound.at)
    OBVIOUS
  <2> DEFINE s == stream
             k == Len(rd.buf)
             x == rd.buf
             b == rd.lend
             n == rd.mstart
  <2>1. s \in Text /\ k \in 0..Len(s) /\ x = SubSeq(s, 1, k)
    BY BufferIs
  <2>2. b \in Nat /\ b <= n /\ n \in 0..k /\ k \in Nat
    BY <1>1, Search
  <2>3. b \in 0..k /\ n \in b..k
    BY <2>2
  <2>4. Unbroken(s, b, n)
    BY <1>3 DEF Exact, Lines
  <2> DEFINE f == LineFound
  <2>5. f = MatchUntil(Newlines, x, n)
    BY DEF LineFound
  <2> HIDE DEF s, k, x, b, n, f
  <2>6. Unbroken(s, b, f.at)
    BY <2>1, <2>3, <2>4, <2>5, PartSearch
  <2> QED BY <2>6 DEF s, b, f
<1>7. run.at \in Functions /\ run.at # "write_response" /\ answers \in Nat
  BY <1>1 DEF Functions, Control, TypeControl
<1>8. answers' = answers + (IF run.at = "write_response" THEN 1 ELSE 0)
  <2>1. answers' = answers /\ run.at # "write_response" /\ answers \in Nat
    BY <1>1, <1>7
  <2> QED BY <2>1
<1>9. CASE /\ NoMoreData(run.count, run.n) /\ Back("yield", Yielded(c, run.at))
           /\ rd' = r
  <2>1. ComesBack("yield", Yielded(c, run.at))
    BY <1>1, <1>3, <1>7, <1>8, <1>9 DEF ComesBack, Meanwhile, counts
  <2>2. requests' = requests /\ (conn' = "open" => At' = At)
    BY <1>3, <2>1, BackWaits
  <2> QED BY <1>3, <1>4, <1>5, <1>6, <1>9, <2>2, ExactKept
<1>10. CASE Back("error", c) /\ rd' = r
  <2>1. ComesBack("error", c)
    BY <1>1, <1>3, <1>7, <1>8, <1>10 DEF ComesBack, Meanwhile, counts
  <2>2. requests' = requests /\ conn' # "open"
    BY <1>3, <2>1, BackFails
  <2> QED BY <1>3, <1>4, <1>5, <1>6, <1>10, <2>2, ExactKept
<1>11. CASE ReadSocket(r, count)
  <2>1. count \in Nat
    BY HttpAssumption DEF count
  <2>2. rd' = [r EXCEPT !.buf = rd'.buf] /\ run'.at = run.at
    BY <1>5, <1>11, <2>1, SocketRead
  <2>3. At' = At /\ conn' = conn /\ requests' = requests
    BY <1>11, <2>2 DEF ReadSocket, At
  <2>4. /\ rd'.mstart = r.mstart /\ rd'.lend = r.lend /\ rd'.body = r.body
        /\ rd'.lines = r.lines /\ rd'.method = r.method /\ rd'.bodylen = r.bodylen
        /\ rd'.chunked = r.chunked /\ rd'.halved = r.halved
    <3> DEFINE b == rd'.buf
    <3> HIDE DEF b
    <3>1. rd' = [r EXCEPT !.buf = b]
      BY <2>2 DEF b
    <3> QED BY <1>5, <3>1 DEF Readers
  <2> QED BY <1>3, <1>4, <1>5, <1>6, <2>3, <2>4, ExactKept
<1> QED BY <1>2, <1>9, <1>10, <1>11

\* The line of the request.
LEMMA FirstLine ==
    ASSUME Control, Data, Exact, run.at = "read_request", LineFound.end # 0, ~rd.halved,
           ~Halves(rd, LineFound.end), NEW r, r = AfterLine(LineFound), Line(r) # <<>>
    PROVE  /\ LineFound.end > 0 /\ Line(r)[1] = stream[1]
           /\ stream[1] = "v" => RequestEnd(stream) = LineFound.end
           /\ NoBlank(stream, LineFound.end) /\ Headers(stream, LineFound.end) = {stream[1]}
<1> DEFINE s == stream
           e == LineFound.end
<1>1. run.at \in {"read_request", "read_headers"}
  OBVIOUS
<1>2. rd.lend = 0
  BY <1>1, Search DEF Data, Positions
<1>3. s \in Text /\ Len(s) \in Nat
  BY BufferIs
<1>4. Line(r)[1] = rd.buf[1] /\ rd.buf[1] = s[1]
  <2>1. Line(r)[1] = rd.buf[1]
    BY <1>1, <1>2, LineIs
  <2>2. 0 < e /\ e \in 0..Len(rd.buf)
    BY <1>1, <1>2, AfterLineIs
  <2>3. 1 \in 1..Len(rd.buf)
    BY <2>2, BufferIs
  <2> QED BY <2>1, <2>3, BufferIs
<1>5. 0 \in LineEnds(s) /\ 0 < Len(s) /\ e = EndOfLine(s, 0) /\ e <= Len(s)
  BY <1>1, <1>2, WholeLine
<1> HIDE DEF s, e
<1>6. e \in 1..Len(s) + 1
  <2>1. 0 \in 0..Len(s)
    BY <1>3
  <2> QED BY <1>3, <1>5, <2>1, EndOfLineType
<1>7. NoBlank(s, 0) /\ Headers(s, 0) = {}
  BY <1>3, FirstHeaders
<1>8. ~(0 > 0 /\ IsBreak(s, 0))
  OBVIOUS
<1>9. NoBlank(s, e)
  BY <1>3, <1>5, <1>7, <1>8, NextHeader
<1>10. Headers(s, e) = {} \union {s[0 + 1]}
  BY <1>3, <1>5, <1>7, NextHeader
<1>11. s[1] = "v" => RequestEnd(s) = e
  <2>1. s # <<>>
    BY <1>5
  <2> QED BY <1>5, <2>1 DEF RequestEnd
<1> QED BY <1>4, <1>6, <1>9, <1>10, <1>11 DEF s, e

\* The method is the first character of the stream.
LEMMA ReadRequestExact == Control /\ Data /\ Exact /\ ReadRequest(LineFound) => Exact'
<1> SUFFICES ASSUME Control, Data, Exact, ReadRequest(LineFound), ~rd'.halved PROVE Lines' /\ Request'
  BY DEF Exact
<1> DEFINE r == AfterLine(LineFound)
           m == Line(r)[1]
           x == [r EXCEPT !.method = m]
           named == Line(r) # <<>> /\ m \in ReqLines
<1>1. /\ run.at = "read_request" /\ LineFound.end # 0 /\ Meanwhile /\ UNCHANGED answers
      /\ run.at \in {"read_request", "read_headers"} /\ run.at \in Functions
      /\ run.at \in Reading /\ run.at # "write_response"
  BY DEF ReadRequest, Functions, Reading
<1>2. \/ Back("error", c) /\ rd' = r
      \/ named /\ m = "v" /\ Back("done", c) /\ rd' = x
      \/ /\ named /\ m # "v" /\ rd' = Forward(x) /\ run' = Enters("read_headers")
         /\ UNCHANGED <<conn, stage, c, reg, requests>>
  BY DEF ReadRequest
<1>3. named => m \in ReqLines
  OBVIOUS
<1>4. /\ conn = "open" /\ answers \in Nat /\ requests = 0 /\ stream' = stream
      /\ rd.bodylen = 0 /\ ~rd.chunked
  BY <1>1, Search DEF Control, TypeControl, Shape, Data, Positions, Meanwhile, client
<1>5. /\ r \in Readers /\ r.buf = rd.buf /\ r.lend = LineFound.end
      /\ r.mstart = LineFound.end /\ r.lines = rd.lines + 1 /\ r.body = 0
      /\ r.bodylen = rd.bodylen /\ r.chunked = rd.chunked
      /\ r.halved <=> rd.halved \/ Halves(rd, LineFound.end)
  BY <1>1, AfterLineIs
<1>6. ~rd.halved /\ ~Halves(rd, LineFound.end) /\ named =>
        /\ LineFound.end > 0 /\ m = stream[1]
        /\ stream[1] = "v" => RequestEnd(stream) = LineFound.end
        /\ NoBlank(stream, LineFound.end) /\ Headers(stream, LineFound.end) = {stream[1]}
  BY <1>1, FirstLine
<1> HIDE DEF r, m, named
<1>7. m \in ReqLines =>
        /\ x \in Readers /\ x.buf = rd.buf /\ x.lend = LineFound.end
        /\ x.mstart = LineFound.end /\ x.lines = rd.lines + 1 /\ x.body = 0
        /\ x.method = m /\ x.bodylen = rd.bodylen /\ x.chunked = rd.chunked
        /\ x.halved = r.halved
  BY <1>5, MethodIs
<1> HIDE DEF x
<1>8. answers' = answers + (IF run.at = "write_response" THEN 1 ELSE 0)
  BY <1>1, <1>4
<1>9. CASE Back("error", c) /\ rd' = r
  <2>1. ComesBack("error", c)
    BY <1>1, <1>8, <1>9 DEF ComesBack, Meanwhile, counts
  <2>2. requests' = 0 /\ conn' # "open"
    BY <1>4, <2>1, BackFails
  <2>3. ~rd.halved /\ ~Halves(rd, LineFound.end)
    BY <1>5, <1>9
  <2>4. Lines'
    BY <1>1, <1>4, <1>5, <1>9, <2>3, LinesOneMore
  <2> QED BY <2>2, <2>4 DEF Request
<1>10. CASE named /\ m = "v" /\ Back("done", c) /\ rd' = x
  <2>1. ComesBack("done", c)
    BY <1>1, <1>8, <1>10 DEF ComesBack, Meanwhile, counts
  <2>2. conn' = "open" => At' = "write_response"
    BY <1>4, <2>1, BackDone
  <2>3. ~rd.halved /\ ~Halves(rd, LineFound.end)
    BY <1>3, <1>5, <1>7, <1>10
  <2>4. Lines'
    BY <1>1, <1>3, <1>4, <1>7, <1>10, <2>3, LinesOneMore
  <2>5. RequestEnd(stream') = LineFound.end /\ LineFound.end \in 0..Len(rd'.buf)
    BY <1>1, <1>3, <1>4, <1>6, <1>7, <1>10, <2>3, Search
  <2>6. Len(rd'.buf) \in Nat /\ rd'.buf = rd.buf
    BY <1>1, <1>3, <1>7, <1>10, Search
  <2>7. Len(rd'.buf) >= RequestEnd(stream')
    BY <2>5, <2>6
  <2> QED BY <2>2, <2>4, <2>7 DEF Request
<1>11. CASE /\ named /\ m # "v" /\ rd' = Forward(x) /\ run' = Enters("read_headers")
            /\ UNCHANGED <<conn, stage, c, reg, requests>>
  <2>1. /\ rd'.lend = LineFound.end /\ rd'.mstart = LineFound.end
        /\ rd'.lines = rd.lines + 1 /\ rd'.body = 0
        /\ rd'.method = m /\ rd'.bodylen = 0 /\ ~rd'.chunked /\ rd'.halved = r.halved
    BY <1>3, <1>4, <1>7, <1>11, ForwardIs
  <2>2. ~rd.halved /\ ~Halves(rd, LineFound.end)
    BY <1>5, <2>1
  <2>3. At' = "read_headers" /\ requests' = 0
    BY <1>4, <1>11 DEF Enters, At
  <2>4. Lines'
    BY <1>1, <1>4, <2>1, <2>2, LinesOneMore
  <2>5. /\ rd'.lend > 0 /\ rd'.method = stream'[1] /\ rd'.method # "v"
        /\ NoBlank(stream', rd'.lend) /\ Headers(stream', rd'.lend) = {m}
    BY <1>4, <1>6, <1>11, <2>1, <2>2
  <2>6. "c" \notin {m} /\ "k" \notin {m}
    BY <1>3, <1>11 DEF ReqLines
  <2>7. /\ rd'.bodylen = IF "c" \in Headers(stream', rd'.lend) THEN BodyLength ELSE 0
        /\ rd'.chunked <=> "k" \in Headers(stream', rd'.lend)
    BY <2>1, <2>5, <2>6
  <2>8. Request'
    BY <2>3, <2>5, <2>7 DEF Request
  <2> QED BY <2>4, <2>8
<1> QED BY <1>2, <1>9, <1>10, <1>11

\* The line of a header.
LEMMA HeaderLine ==
    ASSUME Control, Data, Exact, run.at = "read_headers", LineFound.end # 0, ~rd.halved,
           ~Halves(rd, LineFound.end), NEW r, r = AfterLine(LineFound), Line(r) # <<>>
    PROVE  /\ NoBlank(stream, LineFound.end)
           /\ Headers(stream, LineFound.end) = Headers(stream, rd.lend) \union {Line(r)[1]}
<1> DEFINE s == stream
           b == rd.lend
           e == LineFound.end
<1>1. run.at \in {"read_request", "read_headers"}
  OBVIOUS
<1>2. s \in Text
  BY BufferIs
<1>3. Line(r)[1] = s[b + 1]
  <2>1. Line(r)[1] = rd.buf[b + 1]
    BY <1>1, LineIs
  <2>2. b \in Nat /\ e \in b + 1..Len(rd.buf) /\ Len(rd.buf) \in Nat
    BY <1>1, AfterLineIs, Search
  <2>3. b + 1 \in 1..Len(rd.buf)
    BY <2>2
  <2> QED BY <2>1, <2>3, BufferIs
<1>4. b \in LineEnds(s) /\ b < Len(s) /\ e = EndOfLine(s, b) /\ e <= Len(s)
  BY <1>1, WholeLine
<1>5. ~IsBreak(s, b)
  <2>1. LineFound.at # rd.lend
    BY <1>1, LineIs
  <2> QED BY <1>1, <2>1, WholeLine
<1>6. NoBlank(s, b)
  BY <1>1, Search DEF Exact, Request
<1> HIDE DEF s, b, e
<1>7. NoBlank(s, e)
  BY <1>2, <1>4, <1>5, <1>6, NextHeader
<1>8. Headers(s, e) = Headers(s, b) \union {s[b + 1]}
  BY <1>2, <1>4, NextHeader
<1> QED BY <1>3, <1>7, <1>8 DEF s, b, e

\* A header is one more of those that the stream has before its empty line.
LEMMA ReadHeaderExact == Control /\ Data /\ Exact /\ ReadHeader(LineFound) => Exact'
<1> SUFFICES ASSUME Control, Data, Exact, ReadHeader(LineFound), ~rd'.halved PROVE Lines' /\ Request'
  BY DEF Exact
<1> DEFINE r == AfterLine(LineFound)
           name == Line(r)[1]
           b == IF name = "c" THEN BodyLength ELSE r.bodylen
           k == r.chunked \/ name = "k"
           x == [r EXCEPT !.bodylen = b, !.chunked = k]
<1>1. /\ run.at = "read_headers" /\ LineFound.end # 0 /\ Meanwhile /\ Line(r) # <<>>
      /\ run.at \in {"read_request", "read_headers"}
      /\ rd' = Forward(x) /\ run' = Enters("read_headers")
      /\ UNCHANGED <<conn, stage, c, reg, requests, answers>>
  BY DEF ReadHeader
<1>2. /\ conn = "open" /\ At = "read_headers" /\ requests = 0 /\ stream' = stream
  BY <1>1, Search DEF Control, Shape, Meanwhile, client
<1>3. /\ r \in Readers /\ r.lend = LineFound.end /\ r.mstart = LineFound.end
      /\ r.lines = rd.lines + 1 /\ r.body = 0 /\ r.method = rd.method
      /\ r.bodylen = rd.bodylen /\ r.chunked = rd.chunked
      /\ r.halved <=> rd.halved \/ Halves(rd, LineFound.end)
  BY <1>1, AfterLineIs
<1>4. ~rd.halved /\ ~Halves(rd, LineFound.end) =>
        /\ NoBlank(stream, LineFound.end)
        /\ Headers(stream, LineFound.end) = Headers(stream, rd.lend) \union {name}
  BY <1>1, HeaderLine
<1>5. LineFound.end \in Nat
  BY <1>1, Search
<1> HIDE DEF r, name
<1>6. b \in {0, BodyLength} /\ k \in BOOLEAN
  <2>1. r.bodylen \in {0, BodyLength} /\ r.chunked \in BOOLEAN
    BY <1>3 DEF Readers
  <2>2. k \in BOOLEAN
    BY Zenon
  <2> QED BY <2>1, <2>2
<1>7. /\ b = IF name = "c" THEN BodyLength ELSE rd.bodylen
      /\ k <=> rd.chunked \/ name = "k"
  BY <1>3
<1> HIDE DEF b, k
<1>8. /\ x \in Readers /\ x.lend = r.lend /\ x.mstart = r.mstart
      /\ x.lines = r.lines /\ x.body = r.body /\ x.method = r.method
      /\ x.bodylen = b /\ x.chunked = k /\ x.halved = r.halved
  <2>1. x = [r EXCEPT !.bodylen = b, !.chunked = k]
    OBVIOUS
  <2> HIDE DEF x
  <2> QED BY <1>3, <1>6, <2>1 DEF Readers
<1> HIDE DEF x
<1>9. /\ rd'.lend = LineFound.end /\ rd'.mstart = LineFound.end
      /\ rd'.lines = rd.lines + 1 /\ rd'.body = 0 /\ rd'.method = rd.method
      /\ rd'.bodylen = b /\ rd'.chunked = k /\ rd'.halved = r.halved
  BY <1>1, <1>3, <1>8, ForwardIs
<1>10. ~rd.halved /\ ~Halves(rd, LineFound.end)
  BY <1>3, <1>9
<1>11. Lines'
  BY <1>1, <1>2, <1>9, <1>10, LinesOneMore
<1>12. At' = "read_headers" /\ requests' = 0
  BY <1>1, <1>2 DEF Enters, At
<1>13. /\ rd.method = stream[1] /\ rd.method # "v"
       /\ rd.bodylen = IF "c" \in Headers(stream, rd.lend) THEN BodyLength ELSE 0
       /\ rd.chunked <=> "k" \in Headers(stream, rd.lend)
  BY <1>2, <1>10 DEF Exact, Request
<1>14. /\ rd'.lend > 0 /\ rd'.method = stream'[1] /\ rd'.method # "v"
       /\ NoBlank(stream', rd'.lend)
       /\ Headers(stream', rd'.lend) = Headers(stream, rd.lend) \union {name}
  BY <1>1, <1>2, <1>4, <1>5, <1>9, <1>10, <1>13
<1>15. /\ rd'.bodylen = IF "c" \in Headers(stream', rd'.lend) THEN BodyLength ELSE 0
       /\ rd'.chunked <=> "k" \in Headers(stream', rd'.lend)
  <2> DEFINE h == Headers(stream, rd.lend)
             g == Headers(stream', rd'.lend)
  <2>1. g = h \union {name}
    BY <1>14
  <2>2. /\ rd.bodylen = IF "c" \in h THEN BodyLength ELSE 0
        /\ rd.chunked <=> "k" \in h
    BY <1>13
  <2> HIDE DEF h, g
  <2>3. "c" \in g <=> "c" \in h \/ name = "c"
    BY <2>1
  <2>4. "k" \in g <=> "k" \in h \/ name = "k"
    BY <2>1
  <2>5. rd'.bodylen = IF "c" \in g THEN BodyLength ELSE 0
    BY <1>7, <1>9, <2>2, <2>3
  <2>6. rd'.chunked <=> "k" \in g
    BY <1>7, <1>9, <2>2, <2>4
  <2> QED BY <2>5, <2>6 DEF g
<1>16. Request'
  BY <1>12, <1>14, <1>15 DEF Request
<1> QED BY <1>11, <1>16

\* The empty line that ends the headers.
LEMMA LastLine ==
    ASSUME Control, Data, Exact, run.at = "read_headers", LineFound.end # 0, ~rd.halved,
           ~Halves(rd, LineFound.end), LineFound.at = rd.lend
    PROVE  RequestEnd(stream) =
             IF rd.method = "p" /\ ~rd.chunked THEN LineFound.end + rd.bodylen
             ELSE LineFound.end
<1> DEFINE s == stream
           b == rd.lend
           e == LineFound.end
           h == Headers(s, b)
<1>1. run.at \in {"read_request", "read_headers"}
  OBVIOUS
<1>2. s \in Text
  BY BufferIs
<1>3. /\ b \in LineEnds(s) /\ b < Len(s) /\ e = EndOfLine(s, b) /\ IsBreak(s, b)
  BY <1>1, WholeLine
<1>4. conn = "open" /\ At = "read_headers"
  BY <1>1, Search
<1>5. /\ b > 0 /\ NoBlank(s, b) /\ rd.method = s[1] /\ rd.method # "v"
      /\ rd.bodylen = IF "c" \in h THEN BodyLength ELSE 0
      /\ rd.chunked <=> "k" \in h
  BY <1>4 DEF Exact, Request
<1>6. e \in Nat /\ BodyLength \in Nat
  BY <1>1, Search, HttpAssumption
<1> HIDE DEF s, b, e
<1>7. RequestEnd(s) = IF s[1] = "p" /\ "c" \in h /\ "k" \notin h THEN e + BodyLength ELSE e
  BY <1>2, <1>3, <1>5, RequestEndIs
<1> HIDE DEF h
<1>8. RequestEnd(s) = IF rd.method = "p" /\ ~rd.chunked THEN e + rd.bodylen ELSE e
  BY <1>5, <1>6, <1>7
<1> QED BY <1>8 DEF s, e

\* The headers end where the first empty line of the stream ends.
LEMMA EndHeadersExact == Control /\ Data /\ Exact /\ EndHeaders(LineFound) => Exact'
<1> SUFFICES ASSUME Control, Data, Exact, EndHeaders(LineFound), ~rd'.halved PROVE Lines' /\ Request'
  BY DEF Exact
<1> DEFINE a == AfterLine(LineFound)
           e == LineFound.end
           r == IF rd.method = "p" THEN [a EXCEPT !.body = e] ELSE a
           empty == rd.method # "p" \/ rd.chunked \/ rd.bodylen = 0
<1>1. /\ run.at = "read_headers" /\ LineFound.end # 0 /\ Meanwhile /\ UNCHANGED answers
      /\ run.at \in {"read_request", "read_headers"} /\ run.at \in Functions
      /\ run.at \in Reading /\ run.at # "write_response"
  BY DEF EndHeaders, Functions, Reading
<1>2. /\ Line(r) = <<>>
      /\ \/ empty /\ Back("done", c) /\ rd' = r
         \/ /\ ~empty /\ rd' = Forward(r) /\ run' = Enters("read_body")
            /\ UNCHANGED <<conn, stage, c, reg, requests>>
  BY DEF EndHeaders
<1>3. /\ conn = "open" /\ answers \in Nat /\ requests = 0 /\ stream' = stream
      /\ rd.body = 0
  BY <1>1, Search DEF Control, TypeControl, Shape, Meanwhile, client
<1>4. /\ a \in Readers /\ a.buf = rd.buf /\ a.lend = e /\ a.lstart = rd.lend
      /\ a.lnewline = LineFound.at /\ a.mstart = e /\ a.lines = rd.lines + 1 /\ a.body = 0
      /\ a.method = rd.method /\ a.bodylen = rd.bodylen /\ a.chunked = rd.chunked
      /\ a.halved <=> rd.halved \/ Halves(rd, e)
  BY <1>1, AfterLineIs
<1>5. /\ e \in 0..Len(rd.buf) /\ e \in Nat /\ Len(rd.buf) \in Nat
      /\ rd.bodylen \in Nat /\ rd.chunked \in BOOLEAN
  <2>1. rd.bodylen \in {0, BodyLength} /\ rd.chunked \in BOOLEAN
    BY DEF Data, TypeData, Readers
  <2> QED BY <1>1, <2>1, Search, HttpAssumption
<1>6. Line(a) = <<>> <=> LineFound.at = rd.lend
  BY <1>1, LineIs
<1>7. ~rd.halved /\ ~Halves(rd, e) /\ LineFound.at = rd.lend =>
        RequestEnd(stream) = IF rd.method = "p" /\ ~rd.chunked THEN e + rd.bodylen ELSE e
  BY <1>1, LastLine
<1> HIDE DEF a, e
<1>8. /\ r \in Readers /\ r.buf = rd.buf /\ r.lstart = a.lstart /\ r.lnewline = a.lnewline
      /\ r.lend = e /\ r.mstart = e /\ r.lines = rd.lines + 1 /\ r.bodylen = rd.bodylen
      /\ r.halved = a.halved
      /\ r.body = IF rd.method = "p" THEN e ELSE 0
  <2>1. CASE rd.method = "p"
    <3>1. r = [a EXCEPT !.body = e]
      BY <2>1
    <3> HIDE DEF r
    <3> QED BY <1>4, <1>5, <2>1, <3>1, BodyIs
  <2>2. CASE rd.method # "p"
    BY <1>4, <2>2
  <2> QED BY <2>1, <2>2
<1> HIDE DEF r
<1>9. Line(r) = Line(a)
  BY <1>4, <1>8 DEF Line
<1>10. answers' = answers + (IF run.at = "write_response" THEN 1 ELSE 0)
  BY <1>1, <1>3
<1>11. rd'.halved = r.halved /\ rd'.lend = e /\ rd'.mstart = e /\ rd'.lines = rd.lines + 1
  BY <1>2, <1>8, ForwardIs
<1>12. rd'.body = r.body /\ rd'.bodylen = rd.bodylen /\ rd'.buf = rd.buf
  BY <1>2, <1>8, ForwardIs
<1>13. ~rd.halved /\ ~Halves(rd, e)
  BY <1>4, <1>8, <1>11
<1>14. RequestEnd(stream) = IF rd.method = "p" /\ ~rd.chunked THEN e + rd.bodylen ELSE e
  BY <1>2, <1>6, <1>7, <1>9, <1>13
<1>15. Lines'
  <2>1. rd'.body \in {0, e}
    BY <1>8, <1>12
  <2> QED BY <1>1, <1>3, <1>11, <1>13, <2>1, LinesOneMore DEF e
<1>16. CASE empty /\ Back("done", c) /\ rd' = r
  <2>1. ComesBack("done", c)
    BY <1>1, <1>10, <1>16 DEF ComesBack, Meanwhile, counts
  <2>2. conn' = "open" => At' = "write_response"
    BY <1>3, <2>1, BackDone
  <2>3. RequestEnd(stream') = e
    BY <1>3, <1>5, <1>14, <1>16
  <2>4. Len(rd'.buf) >= RequestEnd(stream')
    BY <1>5, <1>12, <2>3
  <2> QED BY <1>15, <2>2, <2>4 DEF Request
<1>17. CASE /\ ~empty /\ rd' = Forward(r) /\ run' = Enters("read_body")
            /\ UNCHANGED <<conn, stage, c, reg, requests>>
  <2>1. At' = "read_body" /\ requests' = 0
    BY <1>3, <1>17 DEF Enters, At
  <2>2. rd'.body = e /\ RequestEnd(stream') = e + rd.bodylen
    BY <1>3, <1>8, <1>12, <1>14, <1>17
  <2>3. rd'.body + rd'.bodylen = RequestEnd(stream')
    BY <1>12, <2>2
  <2>4. Request'
    BY <2>1, <2>3 DEF Request
  <2> QED BY <1>15, <2>4
<1> QED BY <1>2, <1>16, <1>17

\* The body ends where the request does.
LEMMA ReadBodyExact == Control /\ Data /\ Exact /\ ReadBody => Exact'
<1> SUFFICES ASSUME Control, Data, Exact, ReadBody PROVE Exact'
  OBVIOUS
<1> DEFINE behind == rd.lstart + rd.bodylen
           r == [rd EXCEPT !.lend = behind]
           count == behind - Len(rd.buf)
<1>1. /\ run.at = "read_body" /\ Meanwhile /\ UNCHANGED answers
      /\ run.at \in Functions /\ run.at \in Reading /\ run.at # "write_response" /\ run.at # ""
  BY DEF ReadBody, Functions, Reading
<1>2. \/ BodyCame(rd) /\ Back("done", c) /\ rd' = r
      \/ Back("yield", Yielded(c, run.at)) /\ rd' = rd
      \/ Back("error", c) /\ rd' = rd
      \/ ~BodyCame(rd) /\ ReadSocket(rd, count)
  BY DEF ReadBody
<1>3. /\ conn = "open" /\ answers \in Nat /\ At = run.at /\ requests = 0 /\ stream' = stream
  BY <1>1, RunsOpen DEF Control, TypeControl, Shape, At, Meanwhile, client
<1>4. rd \in Readers
  BY DEF Data, TypeData
<1>5. /\ rd.lstart \in Nat /\ rd.bodylen \in Nat /\ Len(rd.buf) \in Nat /\ behind \in Nat
  <2>1. rd.lstart \in Nat /\ rd.bodylen \in {0, BodyLength} /\ rd.buf \in Seq(STRING)
    BY <1>4 DEF Readers, Text
  <2>2. BodyLength \in Nat
    BY HttpAssumption
  <2> QED BY <2>1, <2>2
<1>6. /\ rd.lstart = rd.lend /\ rd.body > 0 /\ rd.lend = rd.body
  BY <1>1, <1>3 DEF Data, Positions
<1>7. answers' = answers + (IF run.at = "write_response" THEN 1 ELSE 0)
  BY <1>1, <1>3
<1>8. CASE BodyCame(rd) /\ Back("done", c) /\ rd' = r
  <2>1. ComesBack("done", c)
    BY <1>1, <1>7, <1>8 DEF ComesBack, Meanwhile, counts
  <2>2. conn' = "open" => At' = "write_response"
    BY <1>3, <2>1, BackDone
  <2>3. behind <= Len(rd.buf)
    BY <1>5, <1>8 DEF BodyCame
  <2>4. behind = rd.body + rd.bodylen
    BY <1>6
  <2> HIDE DEF behind
  <2>5. /\ rd'.buf = rd.buf /\ rd'.lend = behind /\ rd'.body = rd.body
        /\ rd'.lines = rd.lines /\ rd'.halved = rd.halved
    <3> HIDE DEF r
    <3>1. r.buf = rd.buf /\ r.lend = behind /\ r.body = rd.body
          /\ r.lines = rd.lines /\ r.halved = rd.halved
      BY <1>4, <1>5 DEF Readers, r
    <3> QED BY <1>8, <3>1
  <2> SUFFICES ASSUME ~rd'.halved PROVE Lines' /\ Request'
    BY DEF Exact
  <2>6. Lines /\ Request
    BY <2>5 DEF Exact
  <2>7. RequestEnd(stream) = behind
    BY <1>1, <1>3, <2>4, <2>6 DEF Request
  <2>8. Len(rd'.buf) >= RequestEnd(stream')
    BY <1>3, <1>5, <2>3, <2>5, <2>7
  <2>9. Request'
    BY <2>2, <2>8 DEF Request
  <2>10. rd.body \in LineEnds(stream) /\ rd.lines = Cardinality(LineEnds(stream) \intersect 1..rd.body)
    BY <1>6, <2>6 DEF Lines
  <2>11. Lines'
    BY <1>3, <1>6, <2>5, <2>7, <2>10 DEF Lines
  <2> QED BY <2>9, <2>11
<1>9. CASE Back("yield", Yielded(c, run.at)) /\ rd' = rd
  <2>1. ComesBack("yield", Yielded(c, run.at))
    BY <1>1, <1>7, <1>9 DEF ComesBack, Meanwhile, counts
  <2>2. requests' = requests /\ (conn' = "open" => At' = At)
    BY <1>3, <2>1, BackWaits
  <2> QED BY <1>3, <1>9, <2>2, ExactSame
<1>10. CASE Back("error", c) /\ rd' = rd
  <2>1. ComesBack("error", c)
    BY <1>1, <1>7, <1>10 DEF ComesBack, Meanwhile, counts
  <2>2. requests' = requests /\ conn' # "open"
    BY <1>3, <2>1, BackFails
  <2> QED BY <1>3, <1>10, <2>2, ExactSame
<1>11. CASE ~BodyCame(rd) /\ ReadSocket(rd, count)
  <2>1. count \in Nat
    BY <1>5, <1>11 DEF BodyCame
  <2> HIDE DEF count
  <2>2. rd' = [rd EXCEPT !.buf = rd'.buf] /\ run'.at = run.at
    BY <1>4, <1>11, <2>1, SocketRead
  <2>3. At' = At /\ conn' = conn /\ requests' = requests
    BY <1>11, <2>2 DEF ReadSocket, At
  <2>4. /\ rd'.mstart = rd.mstart /\ rd'.lend = rd.lend /\ rd'.body = rd.body
        /\ rd'.lines = rd.lines /\ rd'.method = rd.method /\ rd'.bodylen = rd.bodylen
        /\ rd'.chunked = rd.chunked /\ rd'.halved = rd.halved
    <3> DEFINE b == rd'.buf
    <3> HIDE DEF b
    <3>1. rd' = [rd EXCEPT !.buf = b]
      BY <2>2 DEF b
    <3> QED BY <1>4, <3>1 DEF Readers
  <2> QED BY <1>3, <2>3, <2>4, ExactSame
<1> QED BY <1>2, <1>8, <1>9, <1>10, <1>11

LEMMA WriteResponseExact == Control /\ Data /\ Exact /\ WriteResponse => Exact'
<1> SUFFICES ASSUME Control, Data, Exact, WriteResponse PROVE Exact'
  OBVIOUS
<1>1. PICK out \in {"done", "error"} : Back(out, c)
  BY DEF WriteResponse
<1>2. run.at = "write_response" /\ answers' = answers + 1 /\ Meanwhile /\ rd' = rd
  BY DEF WriteResponse
<1>3. /\ run.at \in Functions /\ conn = "open" /\ requests = 1 /\ stream' = stream
      /\ At = "write_response"
  BY <1>2, RunsOpen DEF Functions, Control, Shape, Meanwhile, client, At
<1>4. ComesBack(out, c)
  <2>1. out \in {"error", "yield", "done"} /\ out # "yield"
    OBVIOUS
  <2>2. answers' = answers + (IF run.at = "write_response" THEN 1 ELSE 0)
    BY <1>2
  <2> QED BY <1>1, <1>2, <1>3, <2>1, <2>2 DEF ComesBack, Meanwhile, counts
<1>5. /\ conn' = "open" /\ out = "done" => At' = "write_response"
      /\ conn' = "open" => out # "error"
      /\ out # "done" => requests' = requests
      /\ out = "done" => requests' = 1
  BY <1>3, <1>4, BackAt
<1>6. requests' = requests /\ (conn' = "open" => At' = "write_response")
  BY <1>3, <1>5
<1> QED BY <1>2, <1>3, <1>6, ExactSame

LEMMA TakeExact ==
    Control /\ Data /\ Exact /\ (HandleGone \/ HandleOther \/ HandleReadable) => Exact'
<1> SUFFICES ASSUME Control, Data, Exact, HandleGone \/ HandleOther \/ HandleReadable
             PROVE  Exact'
  OBVIOUS
<1>1. conn = "open" /\ run.at = "" /\ stream' = stream
  BY DEF HandleGone, HandleOther, HandleReadable, Take, client
<1>2. CASE HandleGone
  <2>1. conn' = "closed" /\ rd' = rd /\ requests' = requests
    BY <1>2 DEF HandleGone, Close
  <2> QED BY <1>1, <2>1, ExactSame
<1>3. CASE HandleOther
  <2>1. conn' = conn /\ run' = run /\ rd' = rd /\ c' = c /\ requests' = requests
    BY <1>3 DEF HandleOther, server
  <2>2. At' = At
    BY <2>1 DEF At
  <2> QED BY <1>1, <2>1, <2>2, ExactSame
<1>4. CASE HandleReadable
  <2>1. /\ run' = Enters(Resumes(c)) /\ conn' = conn /\ requests' = requests
        /\ rd' = IF Resumes(c) = "write_response" THEN rd ELSE Forward(rd)
    BY <1>4 DEF HandleReadable
  <2>2. Resumes(c) \in Functions
    <3>1. /\ c \in Coroutines /\ requests \in {0, 1}
          /\ c.func = IF requests = 1 THEN "write_response" ELSE "read_request"
          /\ c.status = "yield" => c.kfunc \in Reading
      BY <1>1 DEF Control, TypeControl, Shape
    <3> QED BY <3>1 DEF Resumes, Reading, Functions
  <2>3. At' = At
    <3>1. run'.at = Resumes(c)
      BY <2>1 DEF Enters
    <3> QED BY <1>1, <2>2, <3>1 DEF At, Functions
  <2>4. rd \in Readers
    BY DEF Data, TypeData
  <2>5. /\ rd'.buf = rd.buf /\ rd'.lend = rd.lend /\ rd'.body = rd.body
        /\ rd'.lines = rd.lines /\ rd'.method = rd.method /\ rd'.bodylen = rd.bodylen
        /\ rd'.chunked = rd.chunked /\ rd'.halved = rd.halved /\ rd'.mstart = rd.mstart
    BY <2>1, <2>4, ForwardIs
  <2> QED BY <1>1, <2>1, <2>3, <2>5, ExactSame
<1> QED BY <1>2, <1>3, <1>4

\* Nothing has been read.
LEMMA NothingExact ==
    ASSUME NEW s \in Text, stream' = s, rd' = NothingRead, requests' = 0,
           conn' = "open" => At' = "read_request"
    PROVE  Exact'
<1>1. rd'.lend = 0 /\ rd'.body = 0 /\ rd'.lines = 0 /\ rd'.mstart = 0
  BY DEF NothingRead
<1>2. 0 \in LineEnds(s)
  BY LineEndsClosed
<1>3. Cardinality(LineEnds(s) \intersect 1..0) = 0
  <2>1. LineEnds(s) \intersect 1..0 = {}
    OBVIOUS
  <2> QED BY <2>1, FS_EmptySet
<1>4. Unbroken(s, 0, 0)
  BY DEF Unbroken
<1>5. Lines'
  BY <1>1, <1>2, <1>3, <1>4 DEF Lines
<1>6. Request'
  BY DEF Request
<1> QED BY <1>5, <1>6 DEF Exact

LEMMA ConnectExact ==
    ASSUME NEW s \in Streams, NEW set, Control, Connect(s, set) PROVE Exact'
<1>1. /\ stream' = s /\ conn' = "open" /\ run' = Idle /\ rd' = NothingRead /\ requests' = 0
      /\ c' = SetResume(Zeroed, reg, "read_request")
  BY DEF Connect
<1>2. c'.status = "ok" /\ c'.func = "read_request"
  <2>1. "read_request" \in Functions
    BY DEF Functions
  <2>2. NextRef(reg) \in Nat
    BY <1>1, ReferredType
  <2> QED BY <1>1, <2>1, <2>2, SetFirst
<1>3. At' = "read_request"
  BY <1>1, <1>2 DEF Idle, At, Resumes
<1>4. s \in Text
  BY HttpAssumption DEF Text
<1> QED BY <1>1, <1>3, <1>4, NothingExact

\* The client, the master and other services.
LEMMA ClientExact ==
    ASSUME Exact,
           \/ Send \/ HangUp("half") \/ HangUp("reset") \/ Collect
           \/ ConnectClosing \/ ClosePlain \/ UNCHANGED vars
    PROVE  Exact'
<1>1. /\ stream' = stream /\ rd' = rd /\ requests' = requests /\ conn' = conn
      /\ run' = run /\ c' = c
  BY DEF Send, HangUp, Collect, ConnectClosing, ClosePlain, vars, server, client
<1>2. At' = At
  BY <1>1 DEF At
<1> QED BY <1>1, <1>2, ExactSame

LEMMA InitExact == Init => Exact
<1> SUFFICES ASSUME Init PROVE Exact
  OBVIOUS
<1>1. stream = <<>> /\ rd = NothingRead /\ requests = 0 /\ conn = "none"
  BY DEF Init
<1>2. stream \in Text
  BY <1>1 DEF Text
<1>3. rd.lend = 0 /\ rd.body = 0 /\ rd.lines = 0 /\ rd.mstart = 0
  BY <1>1 DEF NothingRead
<1>4. 0 \in LineEnds(stream)
  BY <1>2, LineEndsClosed
<1>5. Cardinality(LineEnds(stream) \intersect 1..0) = 0
  <2>1. LineEnds(stream) \intersect 1..0 = {}
    OBVIOUS
  <2> QED BY <2>1, FS_EmptySet
<1>6. Unbroken(stream, 0, 0)
  BY DEF Unbroken
<1>7. Lines
  BY <1>3, <1>4, <1>5, <1>6 DEF Lines
<1>8. Request
  BY <1>1 DEF Request
<1> QED BY <1>7, <1>8 DEF Exact

\* Every step keeps Exact.
LEMMA NextExact == Control /\ Data /\ Exact /\ [Next]_vars => Exact'
<1> SUFFICES ASSUME Control, Data, Exact, [Next]_vars PROVE Exact'
  OBVIOUS
<1>1. CASE \/ Send \/ HangUp("half") \/ HangUp("reset") \/ Collect
           \/ ConnectClosing \/ ClosePlain \/ UNCHANGED vars
  BY <1>1, ClientExact
<1>2. CASE \E s \in Streams, set \in BOOLEAN : Connect(s, set)
  BY <1>2, ConnectExact
<1>3. CASE HandleGone \/ HandleOther \/ HandleReadable
  BY <1>3, TakeExact
<1>4. CASE ReadLine(LineFound)
  BY <1>4, ReadLineExact
<1>5. CASE ReadRequest(LineFound)
  BY <1>5, ReadRequestExact
<1>6. CASE ReadHeader(LineFound)
  BY <1>6, ReadHeaderExact
<1>7. CASE EndHeaders(LineFound)
  BY <1>7, EndHeadersExact
<1>8. CASE ReadBody
  BY <1>8, ReadBodyExact
<1>9. CASE WriteResponse
  BY <1>9, WriteResponseExact
<1> QED
  BY <1>1, <1>2, <1>3, <1>4, <1>5, <1>6, <1>7, <1>8, <1>9 DEF Next, Handle

\* The inductive invariant.
THEOREM ExactInvariant == Spec => []IInv
<1>1. Init => IInv
  BY InitControl, InitSilent, InitData, InitExact DEF IInv
<1>2. IInv /\ [Next]_vars => IInv'
  BY NextControl, NextSilent, NextData, NextExact DEF IInv
<1> QED BY <1>1, <1>2, PTL DEF Spec

\* However the client's stream is cut into reads, l_http_read_line returns the lines
\* of the stream, each once and none left out, and the body follows them, unless
\* the two characters of a line end came apart: for every set of streams, every
\* line length, limit and body length.
THEOREM LinesReadExactly == Spec => []LinesRead
<1>1. IInv /\ TypeOK => LinesRead
  <2> SUFFICES ASSUME IInv, TypeOK PROVE LinesRead
    OBVIOUS
  <2>1. rd.buf = SubSeq(stream, 1, Len(rd.buf)) /\ Len(rd.buf) <= sent
    BY DEF IInv, Data, Came
  <2>2. stream \in Streams \union {<<>>}
    BY DEF TypeOK
  <2>3. EndsOf[stream] = LineEnds(stream) /\ RequestEndOf[stream] = RequestEnd(stream)
    BY <2>2 DEF EndsOf, RequestEndOf
  <2>4. ~rd.halved => Lines
    BY DEF IInv, Exact
  <2>5. ~rd.halved =>
          LET last == IF rd.body = 0 THEN rd.lend ELSE rd.body IN
            /\ last \in EndsOf[stream]
            /\ rd.lines = Cardinality(EndsOf[stream] \intersect 1..last)
            /\ rd.lend \in {last, RequestEndOf[stream]}
    BY <2>3, <2>4 DEF Lines
  <2> QED BY <2>1, <2>5 DEF LinesRead
<1> QED BY <1>1, ExactInvariant, TypeCorrect, PTL

\* No response is written before the whole request has come, with its headers and
\* the body they announce.
THEOREM AnsweredWhole == Spec => []AnsweredComplete
<1>1. IInv /\ TypeOK => AnsweredComplete
  <2> SUFFICES ASSUME IInv, TypeOK, answers > 0, ~rd.halved
               PROVE  Len(rd.buf) >= RequestEndOf[stream]
    BY DEF AnsweredComplete
  <2>1. requests = 1
    <3>1. requests \in {0, 1} /\ (requests = 0 => answers = 0)
      BY DEF IInv, Control, TypeControl, Shape
    <3>2. answers # 0
      OBVIOUS
    <3> QED BY <3>1, <3>2
  <2>2. Len(rd.buf) >= RequestEnd(stream)
    BY <2>1 DEF IInv, Exact, Request
  <2>3. RequestEndOf[stream] = RequestEnd(stream)
    BY DEF TypeOK, RequestEndOf
  <2> QED BY <2>2, <2>3
<1> QED BY <1>1, ExactInvariant, TypeCorrect, PTL

=============================================================================
