---------------------------- MODULE StringMatch ----------------------------
(***************************************************************************)
(* The string maps of src/src/lucy/core/match.c, with which line ends,     *)
(* blanks, methods and header names are recognised: several strings are    *)
(* matched at once, one character of the subject at a time.                *)
(*                                                                         *)
(* A map is a record: its strings, sequences of characters, and whether    *)
(* it tells upper from lower case.  A set of bits is a set of indices of   *)
(* strings; a pointer into a subject is the number of characters before    *)
(* it.                                                                     *)
(***************************************************************************)
EXTENDS Integers, Sequences, FiniteSets, SequencesExt, FiniteSetsExt

StrLimit == 32    \* map.strlimit

UpperOf == [a |-> "A", b |-> "B"]

\* Characters that a map takes for the same.
Same(map, c, d) ==
    \/ c = d
    \/ /\ ~map.cased
       /\ \/ c \in DOMAIN UpperOf /\ UpperOf[c] = d
          \/ d \in DOMAIN UpperOf /\ UpperOf[d] = c

Stored(map) ==
    {k \in DOMAIN map.strings : k <= StrLimit /\ map.strings[k] # <<>>}

\* t[i].a[ch].m: the strings whose i-th character is ch.
WithChar(map, i, ch) ==
    {k \in Stored(map) : i <= Len(map.strings[k]) /\ Same(map, map.strings[k][i], ch)}

\* t[i].a[ch].e: the strings that end with ch as their i-th character.
EndingWith(map, i, ch) ==
    {k \in WithChar(map, i, ch) : i = Len(map.strings[k])}

Size(map) == Max({Len(map.strings[k]) : k \in DOMAIN map.strings} \union {1})

NoMatch == [kind |-> "none", end |-> 0, id |-> 0]
TooShort == [kind |-> "short", end |-> 0, id |-> 0]
Matched(end, id) == [kind |-> "match", end |-> end, id |-> id]

\* Seeded fault: the first match ends the search, even if an earlier string of
\* the map may still match.
AnyEnds(cur, ends) == TRUE

\* The search ends when the first string that is left ends here.
FirstEnds(cur, ends) == Min(cur) \in ends

\* l_string_matchEx: cur are the strings that are left after some characters, p
\* the end of the last match, and ends the strings that ended there.
AtStart(map) == [cur |-> Stored(map), p |-> 0, ends |-> {}, stop |-> ""]

\* One turn of the loop, at the i-th character.
Turn(map, s, i, t) ==
    LET cur == t.cur \intersect WithChar(map, i, s[i])
        ends == cur \intersect EndingWith(map, i, s[i])
    IN  IF t.stop # "" THEN t
        ELSE IF cur = {} THEN [t EXCEPT !.stop = "mismatch"]
        ELSE IF ends = {} THEN [t EXCEPT !.cur = cur]
        ELSE [cur |-> cur, p |-> i, ends |-> ends,
              stop |-> IF FirstEnds(cur, ends) THEN "match" ELSE ""]

\* The loop, which goes to the end of the subject or of the longest string.
Scan(map, s) ==
    LET len == Min({Len(s), Size(map)})
        after[i \in 0..len] ==
          IF i = 0 THEN AtStart(map) ELSE Turn(map, s, i, after[i - 1])
    IN  after[len]

MatchEx(map, s) ==
    LET last == Scan(map, s)
    IN  IF s = <<>> THEN TooShort
        ELSE IF last.p > 0 THEN Matched(last.p, Min(last.ends))
        ELSE IF last.stop = "mismatch" THEN NoMatch
        ELSE TooShort

From(s, n) == SubSeq(s, n + 1, Len(s))

\* l_string_matchRepeat: the end of the last of the matches that follow each
\* other.
MatchRepeat(map, s) ==
    LET end[n \in 0..Len(s)] ==
          LET e == MatchEx(map, From(s, n)) IN
            IF e.kind = "match" THEN end[n + e.end] ELSE n
    IN  end[0]

\* Seeded fault: the loop counts before it compares.
OneLess(n) == IF n = 0 THEN 0 ELSE n - 1

Turns(n) == n

\* l_string_matchTimes: the end of the n-th match, or -1.
MatchTimes(map, n, s) ==
    LET end[i \in 0..n] ==
          IF i = 0 THEN 0
          ELSE LET e == MatchEx(map, From(s, end[i - 1]))
               IN  IF end[i - 1] >= 0 /\ e.kind = "match"
                   THEN end[i - 1] + e.end ELSE -1
    IN  end[Turns(n)]

\* Seeded fault: a rest that is too short is not told from one that does not
\* match.
Mismatched(map, s) == MatchEx(map, s).kind # "match" /\ s # <<>>

Unmatched(map, s) == MatchEx(map, s) = NoMatch

\* l_string_matchUntil, from the n-th character: where the first match begins,
\* or may begin if the subject goes on, and where it ends, 0 if it is too short.
MatchUntil(map, s, n) ==
    LET at[i \in n..Len(s)] ==
          IF Unmatched(map, From(s, i)) THEN at[i + 1] ELSE i
        e == MatchEx(map, From(s, at[n]))
    IN  [at |-> at[n], end |-> IF e.kind = "match" THEN at[n] + e.end ELSE 0]

\* Seeded fault: spaces that may go on are taken for skipped.
Anything(e) == TRUE

\* More characters could belong to the last space.
Complete(e) == e.kind # "short"

\* l_string_trimHead, and the first loop of the l_string_skipSpace functions.
TrimHead(spaces, s) == MatchRepeat(spaces, s)

\* l_string_skipSpaceAndMatch: the end of the match after the spaces, or 0.
SkipSpaceAndMatch(spaces, map, s) ==
    LET n == TrimHead(spaces, s)
        e == MatchEx(map, From(s, n))
    IN  IF e.kind = "match" THEN n + e.end ELSE 0

\* l_string_skipSpaceAndMatchUntil: the end of the first match after the
\* spaces, the place it may begin if there is none, 0 if the spaces may go on.
SkipSpaceAndMatchUntil(spaces, map, s) ==
    LET n == TrimHead(spaces, s)
        f == MatchUntil(map, s, n)
    IN  IF ~Complete(MatchEx(spaces, From(s, n))) THEN 0
        ELSE IF f.end # 0 THEN f.end ELSE f.at

\* l_string_skipSpaceAndMatchSub: the end of sub after the spaces, or 0.
SkipSpaceAndMatchSub(spaces, sub, s) ==
    LET n == TrimHead(spaces, s)
    IN  IF IsPrefix(sub, From(s, n)) THEN n + Len(sub) ELSE 0
=============================================================================
