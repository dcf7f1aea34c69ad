---------------------------- MODULE StringSearch ----------------------------
(***************************************************************************)
(* A subject that arrives character by character, as from a socket, is     *)
(* searched with the functions of StringMatch after each of them.          *)
(***************************************************************************)
EXTENDS StringMatch

CONSTANTS
    Letters,     \* characters of the map's strings
    Chars,       \* characters of the subject
    NumStrings,  \* strings of the map
    MaxString,   \* bound: length of a string
    MaxText      \* bound: length of the subject

\* l_stringmap_set takes no more strings than there are bits.
ASSUME SearchAssumption ==
    /\ NumStrings \in 1..StrLimit
    /\ MaxString \in Nat /\ MaxText \in Nat

VARIABLES map, text
vars == <<map, text>>

Init ==
    /\ map \in [strings : TupleOf(BoundedSeq(Letters, MaxString), NumStrings),
                cased : BOOLEAN]
    /\ text = <<>>

Arrive(c) ==
    /\ Len(text) < MaxText
    /\ text' = Append(text, c)
    /\ UNCHANGED map

Next == \E c \in Chars : Arrive(c)

Spec == Init /\ [][Next]_vars

-----------------------------------------------------------------------------
(* Properties.                                                             *)

\* A subject that begins with a string, letter by letter.
Begins(s, str) ==
    Len(str) <= Len(s) /\ \A i \in DOMAIN str : Same(map, str[i], s[i])

\* A subject that may grow into one that begins with a string.
MayBegin(s, str) ==
    Len(s) < Len(str) /\ \A i \in DOMAIN s : Same(map, str[i], s[i])

Strings == {k \in DOMAIN map.strings : map.strings[k] # <<>>}
Length(k) == Len(map.strings[k])

\* The three answers of l_string_matchEx tell whether the subject begins with a
\* string of the map, can yet come to do so, or cannot; and the string it names
\* is one.
Classified ==
    LET e == MatchEx(map, text)
        full == {k \in Strings : Begins(text, map.strings[k])}
        open == {k \in Strings : MayBegin(text, map.strings[k])}
    IN  /\ e.kind = "match" <=> full # {}
        /\ e.kind = "short" <=> full = {} /\ (open # {} \/ text = <<>>)
        /\ e.kind = "match" => e.id \in full /\ e.end = Length(e.id)

\* The order of a map is a choice: a string further ahead that also matches is
\* passed over only for a longer one, and only if a string ahead of it was
\* still open where it ended.
OrderedChoice ==
    LET e == MatchEx(map, text) IN
      e.kind = "match" =>
        \A k \in Strings :
          Begins(text, map.strings[k]) /\ k < e.id =>
            /\ Length(k) < e.end
            /\ \E j \in Strings : j < k /\ MayBegin(SubSeq(text, 1, Length(k)), map.strings[j])

\* "return 0 doesn't match, -1 too short, >s match success": the answer is the
\* right one of the three, and the string it names the right one of the map.
Answers == Classified /\ OrderedChoice

\* A search for a string that was not found goes on where it was left
\* when more has arrived, and finds what a search from the start would: this is
\* how l_http_read_line looks for the end of a line.
Resumes ==
    [][MatchUntil(map, text, 0).end = 0 =>
         MatchUntil(map, text', MatchUntil(map, text, 0).at)
           = MatchUntil(map, text', 0)]_vars

\* l_string_matchRepeat passes over as many matches as l_string_matchTimes can
\* count and no more.
Counted ==
    \E n \in 0..MaxText :
      /\ MatchTimes(map, n, text) = MatchRepeat(map, text)
      /\ MatchTimes(map, n + 1, text) = -1
      /\ n = 0 <=> MatchRepeat(map, text) = 0

\* Spaces: the first string of the map.
Spaces == [map EXCEPT !.strings = <<map.strings[1]>>]

\* When l_string_skipSpaceAndMatchUntil says that it has skipped the spaces, no
\* later character turns out to be one more; and then what
\* l_string_skipSpaceAndMatch and l_string_skipSpaceAndMatchSub found behind
\* them stays found.
SpacesStay ==
    [][LET sub == map.strings[NumStrings]
           found(s) == SkipSpaceAndMatch(Spaces, map, s)
           foundSub(s) == SkipSpaceAndMatchSub(Spaces, sub, s)
       IN  SkipSpaceAndMatchUntil(Spaces, map, text) # 0 =>
             /\ TrimHead(Spaces, text') = TrimHead(Spaces, text)
             /\ found(text) # 0 => found(text') >= found(text)
             /\ foundSub(text) # 0 => foundSub(text') = foundSub(text)]_vars
=============================================================================
