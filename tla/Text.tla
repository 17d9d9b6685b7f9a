-------------------------------- MODULE Text --------------------------------
(***************************************************************************)
(* Pure operations on byte strings: the glob matcher behind KEYS, SCAN and *)
(* CONFIG GET (vr_util.c), the splitting of a line into arguments, its     *)
(* inverse and the splitting on a separator (sds.c), the comparison of     *)
(* passwords (vr_server.c).  A byte is its code, a string a sequence of    *)
(* bytes followed by the null byte C puts there.                           *)
(***************************************************************************)
EXTENDS Integers, SequencesExt

LF == 10
CR == 13
Space == 32
Quote == 34
Dollar == 36
Apostrophe == 39
Star == 42
Hyphen == 45
Ask == 63
Open == 91
Backslash == 92
Close == 93
Caret == 94

Drop(s, n) == SubSeq(s, n + 1, Len(s))
At(s, i) == IF i <= Len(s) THEN s[i] ELSE 0
isspace(b) == b \in {9, 10, 11, 12, 13, 32}
isprint(b) == b \in 32 .. 126
tolower(b) == IF b \in 65 .. 90 THEN b + 32 ELSE b
Same(x, y, nocase) == IF nocase THEN tolower(x) = tolower(y) ELSE x = y

-----------------------------------------------------------------------------
\* stringmatchlen

\* Between the brackets: whether b is in the class, and the pattern after it.
\* An unclosed class ends with the pattern.
RECURSIVE Class(_, _, _, _)
Class(p, b, nocase, match) ==
    LET InRange(lo, hi) ==
            LET from == IF lo > hi THEN hi ELSE lo
                to == IF lo > hi THEN lo ELSE hi
            IN  IF nocase THEN tolower(b) \in tolower(from) .. tolower(to) ELSE b \in from .. to
    IN  CASE p = <<>> -> [rest |-> <<>>, match |-> match]
          [] p # <<>> /\ p[1] = Backslash -> Class(Drop(p, 2), b, nocase, match \/ At(p, 2) = b)
          [] p # <<>> /\ p[1] = Close -> [rest |-> Tail(p), match |-> match]
          [] Len(p) >= 3 /\ p[1] \notin {Backslash, Close} /\ p[2] = Hyphen ->
                Class(Drop(p, 3), b, nocase, match \/ InRange(p[1], p[3]))
          [] OTHER -> Class(Tail(p), b, nocase, match \/ Same(p[1], b, nocase))

RECURSIVE SkipStars(_)
SkipStars(p) == IF At(p, 1) = Star THEN SkipStars(Tail(p)) ELSE p

\* As soon as the string is used up only stars may be left of the pattern.
\* The string is empty at a class only when it was empty from the start: the
\* code then counts its length down to -1, so such calls are left out.
RECURSIVE stringmatchlen(_, _, _)
stringmatchlen(p, s, nocase) ==
    LET Onward(q) == IF Tail(s) = <<>> THEN SkipStars(q) = <<>> ELSE stringmatchlen(q, Tail(s), nocase)
        not == At(p, 2) = Caret
        class == Class(Drop(p, IF not THEN 2 ELSE 1), s[1], nocase, FALSE)
        literal == IF p[1] = Backslash /\ Len(p) >= 2 THEN Tail(p) ELSE p
    IN  IF p = <<>> THEN s = <<>>
        ELSE IF p[1] = Star
             THEN \/ SkipStars(p) = <<>>
                  \/ \E k \in 0 .. Len(s) - 1 : stringmatchlen(SkipStars(p), Drop(s, k), nocase)
        ELSE /\ s # <<>>
             /\ \/ p[1] = Ask /\ Onward(Tail(p))
                \/ p[1] = Open /\ class.match # not /\ Onward(class.rest)
                \/ p[1] \notin {Ask, Open} /\ Same(literal[1], s[1], nocase) /\ Onward(Tail(literal))

-----------------------------------------------------------------------------
\* sdscatrepr and sdssplitargs

HexDigits == [d \in 0 .. 15 |-> IF d < 10 THEN 48 + d ELSE 87 + d]
is_hex_digit(b) == b \in (48 .. 57) \union (97 .. 102) \union (65 .. 70)
hex_digit_to_int(b) == CHOOSE d \in 0 .. 15 : HexDigits[d] = tolower(b)

\* The letter after the backslash, and the byte it stands for.
Escapes == {<<110, LF>>, <<114, CR>>, <<116, 9>>, <<98, 8>>, <<97, 7>>}
Unescape(l) == IF \E e \in Escapes : e[1] = l THEN (CHOOSE e \in Escapes : e[1] = l)[2] ELSE l

sdscatrepr(s) ==
    LET Repr(b) ==
            CASE b \in {Backslash, Quote} -> <<Backslash, b>>
              [] \E e \in Escapes : e[2] = b -> <<Backslash, (CHOOSE e \in Escapes : e[2] = b)[1]>>
              [] isprint(b) /\ b \notin {Backslash, Quote} -> <<b>>
              [] OTHER -> <<Backslash, 120, HexDigits[b \div 16], HexDigits[b % 16]>>
    IN  <<Quote>> \o FlattenSeq([i \in DOMAIN s |-> Repr(s[i])]) \o <<Quote>>

\* One argument: its bytes and the line after it; the mode is the quote that is
\* open, 0 for none.  A closing quote must be followed by a space or the end.
RECURSIVE Argument(_, _, _)
Argument(l, current, mode) ==
    LET b == At(l, 1)
        hex == b = Backslash /\ At(l, 2) = 120 /\ is_hex_digit(At(l, 3)) /\ is_hex_digit(At(l, 4))
        done == [ok |-> TRUE, arg |-> current, rest |-> Drop(l, 1)]
        err == [ok |-> FALSE, arg |-> <<>>, rest |-> <<>>]
    IN  CASE mode = 0 /\ b \in {Space, LF, CR, 9, 0} -> done
          [] mode = 0 /\ b \in {Quote, Apostrophe} -> Argument(Tail(l), current, b)
          [] mode # 0 /\ b = mode -> IF At(l, 2) # 0 /\ ~isspace(At(l, 2)) THEN err ELSE done
          [] mode # 0 /\ b = 0 -> err
          [] mode = Quote /\ hex ->
                Argument(Drop(l, 4), Append(current, 16 * hex_digit_to_int(l[3]) + hex_digit_to_int(l[4])), mode)
          [] mode = Quote /\ b = Backslash /\ ~hex /\ At(l, 2) # 0 ->
                Argument(Drop(l, 2), Append(current, Unescape(l[2])), mode)
          [] mode = Apostrophe /\ b = Backslash /\ At(l, 2) = Apostrophe ->
                Argument(Drop(l, 2), Append(current, Apostrophe), mode)
          [] OTHER -> Argument(Tail(l), Append(current, b), mode)

RECURSIVE sdssplitargs(_)
sdssplitargs(l) ==
    LET a == Argument(l, <<>>, 0)
        more == sdssplitargs(a.rest)
    IN  IF l = <<>> THEN [ok |-> TRUE, argv |-> <<>>]
        ELSE IF isspace(l[1]) THEN sdssplitargs(Tail(l))
        ELSE IF a.ok /\ more.ok THEN [ok |-> TRUE, argv |-> <<a.arg>> \o more.argv]
        ELSE [ok |-> FALSE, argv |-> <<>>]

-----------------------------------------------------------------------------
\* sdssplitlen: j is where the separator is looked for, the token runs from start.
RECURSIVE SplitFrom(_, _, _, _)
SplitFrom(s, sep, start, j) ==
    IF j > Len(s) - Len(sep) THEN <<Drop(s, start)>>
    ELSE IF SubSeq(s, j + 1, j + Len(sep)) = sep
         THEN <<SubSeq(s, start + 1, j)>> \o SplitFrom(s, sep, j + Len(sep), j + Len(sep))
    ELSE SplitFrom(s, sep, start, j + 1)

sdssplitlen(s, sep) == IF s = <<>> THEN <<>> ELSE SplitFrom(s, sep, 0, 0)

-----------------------------------------------------------------------------
\* time_independent_strcmp: both strings, up to their null byte, in zeroed buffers of
\* the given size; zero when neither the buffers nor the lengths differ.
strlen(s) == IF \E i \in DOMAIN s : s[i] = 0 THEN (CHOOSE i \in DOMAIN s : s[i] = 0 /\ \A j \in 1 .. i - 1 : s[j] # 0) - 1
             ELSE Len(s)
time_independent_strcmp(a, b, size) ==
    LET Buffer(s) == [j \in 1 .. size |-> IF j <= strlen(s) THEN s[j] ELSE 0]
    IN  IF strlen(a) > size \/ strlen(b) > size THEN 1
        ELSE IF Buffer(a) # Buffer(b) \/ strlen(a) # strlen(b) THEN 1 ELSE 0

-----------------------------------------------------------------------------
\* What the operations are for.

\* A pattern as a sequence of elements: a star, or which of the
\* given bytes it stands for.
RECURSIVE ClassMembers(_, _, _)
ClassMembers(p, nocase, bytes) ==
    LET Fold(b) == IF nocase THEN tolower(b) ELSE b
        One(m, n) == LET r == ClassMembers(Drop(p, n), nocase, bytes)
                     IN  [rest |-> r.rest, in |-> m \union r.in]
    IN  IF p = <<>> THEN [rest |-> <<>>, in |-> {}]
        ELSE IF p[1] = Close THEN [rest |-> Tail(p), in |-> {}]
        ELSE IF p[1] = Backslash THEN One({p[2]}, 2)
        ELSE IF Len(p) >= 3 /\ p[2] = Hyphen
             THEN One({b \in bytes : Fold(b) \in (Fold(p[1]) .. Fold(p[3])) \union (Fold(p[3]) .. Fold(p[1]))}, 3)
        ELSE One({b \in bytes : Same(b, p[1], nocase)}, 1)

RECURSIVE Elements(_, _, _)
Elements(p, nocase, bytes) ==
    LET not == At(p, 2) = Caret
        class == ClassMembers(Drop(p, IF not THEN 2 ELSE 1), nocase, bytes)
        Then(star, in, rest) == <<[star |-> star, in |-> in]>> \o Elements(rest, nocase, bytes)
        Literal(q) == Then(FALSE, {b \in bytes : Same(b, q[1], nocase)}, Tail(q))
    IN  IF p = <<>> THEN <<>>
        ELSE IF p[1] = Star THEN Then(TRUE, {}, Tail(p))
        ELSE IF p[1] = Ask THEN Then(FALSE, bytes, Tail(p))
        ELSE IF p[1] = Open THEN Then(FALSE, IF not THEN bytes \ class.in ELSE class.in, class.rest)
        ELSE Literal(IF p[1] = Backslash /\ Len(p) > 1 THEN Tail(p) ELSE p)

RECURSIVE Aligned(_, _)
Aligned(es, s) ==
    IF es = <<>> THEN s = <<>>
    ELSE IF es[1].star THEN \E k \in 0 .. Len(s) : Aligned(Tail(es), Drop(s, k))
    ELSE s # <<>> /\ s[1] \in es[1].in /\ Aligned(Tail(es), Tail(s))

\* The calls the comparison is about: not a class that ends in a backslash (it
\* runs past the pattern), not an empty string against a class, and without
\* regard to case no escape inside a class (it is compared as it stands).
Regular(p, s, nocase) ==
    LET openAt == {i \in DOMAIN p : p[i] = Open}
        escaped == {i \in DOMAIN p : p[i] = Backslash /\ \E o \in openAt : o < i}
    IN  /\ s # <<>> \/ At(p, 1) # Open
        /\ IF nocase THEN escaped = {} ELSE Len(p) \notin escaped

Join(parts, sep) ==
    FlattenSeq([i \in DOMAIN parts |-> IF i = 1 THEN parts[i] ELSE sep \o parts[i]])
Holds(s, sep) == \E i \in 0 .. Len(s) - Len(sep) : SubSeq(s, i + 1, i + Len(sep)) = sep
=============================================================================
