--------------------------------- MODULE Sds ---------------------------------
(***************************************************************************)
(* The strings (src/src/sds.c) of the connection buffers: a length, some   *)
(* room and a terminator, changed in place; and the two splitters.  `str'  *)
(* is the string as its user thinks of it.                                 *)
(***************************************************************************)
EXTENDS Integers, Sequences, FiniteSets, SequencesExt, FiniteSetsExt

CONSTANTS
    Chars,     \* a set of one-character strings
    MaxLen,    \* bound on the length of a string
    MaxRoom,   \* bound on len + free
    Pieces,    \* what may be appended or copied, a set of strings
    Sets,      \* the sets of characters to trim
    Seps       \* the separators to split at

NUL   == "NUL"
Space == " "
Quote == "\""
Apostrophe == "'"
Backslash  == "\\"
Newline    == "NL"

SdsAssumption ==
    /\ NUL \in Chars /\ MaxLen \in Nat /\ MaxRoom \in Nat
    /\ \A t \in Pieces \cup Seps : t \in Seq(Chars)
    /\ \A t \in Seps : t # <<>>
    /\ \A c \in Sets : c \subseteq Chars

VARIABLES
    s,      \* [len, free, buf]: buf has every byte that was allocated
    str

vars == <<s, str>>

Garbage == "garbage"

\* sdsempty
Init == s = [len |-> 0, free |-> 0, buf |-> <<NUL>>] /\ str = <<>>

-----------------------------------------------------------------------------
(* The operations on the buffer *)

\* memcpy(buf + at, t): a write past the end makes buf longer than it is.
Overlay(buf, at, t) ==
    [j \in 1 .. Max({Len(buf), at + Len(t)}) |->
        IF at < j /\ j <= at + Len(t) THEN t[j - at]
        ELSE IF j <= Len(buf) THEN buf[j] ELSE Garbage]

\* t at offset `at', then the terminator; free is what is left of len + free.
Ended(x, at, t) ==
    LET len == at + Len(t) IN
    [len |-> len, free |-> x.len + x.free - len, buf |-> Overlay(x.buf, at, Append(t, NUL))]

\* Mutant of MakeRoom: without the byte of the terminator in the test
RoomForLess(x, addlen) ==
    LET newlen == (x.len + addlen) * 2 IN
    IF x.free >= addlen - 1 THEN x
    ELSE [x EXCEPT !.free = newlen - x.len, !.buf = Overlay(@, newlen, <<Garbage>>)]

\* sds_make_room_for
MakeRoom(x, addlen) ==
    LET newlen == (x.len + addlen) * 2 IN
    IF x.free >= addlen THEN x
    ELSE [x EXCEPT !.free = newlen - x.len, !.buf = Overlay(@, newlen, <<Garbage>>)]

sdscatlen(x, t) == Ended(MakeRoom(x, Len(t)), x.len, t)

sdscpylen(x, t) ==
    Ended(IF x.len + x.free < Len(t) THEN MakeRoom(x, Len(t) - x.len) ELSE x, 0, t)

sdsgrowzero(x, len) ==
    IF len <= x.len THEN x
    ELSE Ended(MakeRoom(x, len - x.len), x.len, [j \in 1 .. len - x.len |-> NUL])

sdsclear(x) == Ended(x, 0, <<>>)

\* strlen stops at the first NUL.
sdsupdatelen(x) ==
    LET reallen == Min({j \in 1 .. Len(x.buf) : x.buf[j] = NUL}) - 1
    IN  [x EXCEPT !.len = reallen, !.free = x.free + x.len - reallen]

\* strchr finds the terminator of cset, too.  sp and ep are offsets, ep stops
\* at the first byte.
sdstrim(x, cset) ==
    LET In(j) == x.buf[j + 1] \in cset \cup {NUL}
        sp == Min({j \in 0 .. x.len - 1 : ~In(j)} \cup {x.len})
        ep == Max({j \in 0 .. x.len - 1 : ~In(j)} \cup {0})
        len == IF x.len = 0 \/ sp > ep THEN 0 ELSE ep - sp + 1
    IN  Ended(x, 0, SubSeq(x.buf, sp + 1, sp + len))

sdsrange(x, first, last) ==
    LET From0(n) == IF n < 0 THEN Max({x.len + n, 0}) ELSE n
        start == From0(first)
        end   == IF From0(last) >= x.len THEN x.len - 1 ELSE From0(last)
        newlen == IF start > From0(last) \/ start >= x.len THEN 0 ELSE end - start + 1
    IN  IF x.len = 0 THEN x
        ELSE Ended(x, 0, SubSeq(x.buf, start + 1, start + newlen))

-----------------------------------------------------------------------------
(* The splitters *)

\* sep at offset j of t
At(t, j, sep) == j + Len(sep) <= Len(t) /\ SubSeq(t, j + 1, j + Len(sep)) = sep

\* sdssplitlen: one look per offset; a separator is jumped over.
Look(t, sep, st, j) ==
    IF j < st.start \/ ~At(t, j, sep) THEN st
    ELSE [tokens |-> Append(st.tokens, SubSeq(t, st.start + 1, j)), start |-> j + Len(sep)]

Looks(t, sep) == IF Len(t) < Len(sep) THEN 0 ELSE Len(t) - (Len(sep) - 1)

sdssplitlen(t, sep) ==
    LET after[n \in 0 .. Looks(t, sep)] ==
            IF n = 0 THEN [tokens |-> <<>>, start |-> 0] ELSE Look(t, sep, after[n - 1], n - 1)
        end == after[Looks(t, sep)]
    IN  IF t = <<>> THEN <<>>
        ELSE Append(end.tokens, SubSeq(t, end.start + 1, Len(t)))

\* sdscatrepr
Repr(c) ==
    CASE c \in {Backslash, Quote} -> <<Backslash, c>>
      [] c = Newline              -> <<Backslash, "n">>
      [] c = NUL                  -> <<Backslash, "x", "0", "0">>   \* not printable
      [] OTHER                    -> <<c>>
sdscatrepr(t) == <<Quote>> \o FlattenSeq([j \in DOMAIN t |-> Repr(t[j])]) \o <<Quote>>

IsSpace(c) == c \in {Space, Newline}
HexDigits  == {"0", "a"}              \* those of Chars and Repr
Byte(h, l) == IF h = "0" /\ l = "0" THEN NUL ELSE "byte " \o h \o l
Unescape(c) == CASE c = "n" -> Newline [] c = "a" -> "BEL" [] OTHER -> c

\* sdssplitargs reads a character a time; skip counts those that an escape
\* has taken already.
Char(line, j) == IF j <= Len(line) THEN line[j] ELSE NUL

Take(st, c, n) == [st EXCEPT !.current = Append(@, c), !.skip = n]
Done(st) == [st EXCEPT !.argv = Append(@, st.current), !.mode = "blank", !.current = <<>>]
Err(st)  == [st EXCEPT !.mode = "err"]

\* A quote that is closed must be followed by a blank.
Closed(line, st, j) ==
    IF Char(line, j + 1) = NUL \/ IsSpace(Char(line, j + 1)) THEN Done(st) ELSE Err(st)

Plain(st, c) ==
    CASE IsSpace(c) \/ c = NUL -> Done(st)
      [] c = Quote             -> [st EXCEPT !.mode = "quoted"]
      [] c = Apostrophe        -> [st EXCEPT !.mode = "single"]
      [] OTHER                 -> Take(st, c, 0)

IsHex(line, j) ==
    Char(line, j) = "x" /\ {Char(line, j + 1), Char(line, j + 2)} \subseteq HexDigits

Quoted(line, st, j) ==
    LET c == Char(line, j)
        d == Char(line, j + 1)
    IN  CASE c = Backslash /\ IsHex(line, j + 1) ->
                 Take(st, Byte(Char(line, j + 2), Char(line, j + 3)), 3)
          [] c = Backslash /\ d # NUL /\ ~IsHex(line, j + 1) -> Take(st, Unescape(d), 1)
          [] c = Quote -> Closed(line, st, j)
          [] c = NUL   -> Err(st)
          [] OTHER     -> Take(st, c, 0)

Single(line, st, j) ==
    LET c == Char(line, j) IN
    CASE c = Backslash /\ Char(line, j + 1) = Apostrophe -> Take(st, Apostrophe, 1)
      [] c = Apostrophe -> Closed(line, st, j)
      [] c = NUL        -> Err(st)
      [] OTHER          -> Take(st, c, 0)

Read(line, st, j) ==
    LET c == Char(line, j) IN
    CASE st.skip > 0 -> [st EXCEPT !.skip = @ - 1]
      [] st.skip = 0 /\ st.mode = "quoted" -> Quoted(line, st, j)
      [] st.skip = 0 /\ st.mode = "single" -> Single(line, st, j)
      [] st.skip = 0 /\ st.mode = "plain"  -> Plain(st, c)
      [] st.skip = 0 /\ st.mode = "blank" /\ c # NUL /\ ~IsSpace(c) ->
             Plain([st EXCEPT !.mode = "plain"], c)
      [] OTHER -> st

\* The argument vector, or NULL if a quote is not closed.
sdssplitargs(line) ==
    LET read[n \in 0 .. Len(line) + 1] ==
            IF n = 0 THEN [mode |-> "blank", current |-> <<>>, argv |-> <<>>, skip |-> 0]
            ELSE Read(line, read[n - 1], n)
        end == read[Len(line) + 1]
    IN  IF end.mode = "err" THEN <<"NULL">> ELSE end.argv

-----------------------------------------------------------------------------
(* The steps, each with what it promises *)

Change(x, t) ==
    /\ Len(t) <= MaxLen /\ x.len + x.free <= MaxRoom
    /\ s' = x /\ str' = t

Zeros(n) == [j \in 1 .. n |-> NUL]
Offset(n) == IF n < 0 THEN Max({Len(str) + n, 0}) ELSE n
Outer(cset) == {j \in DOMAIN str : str[j] \notin cset \cup {NUL}}

Cat  == \E t \in Pieces : Change(sdscatlen(s, t), str \o t)
Copy == \E t \in Pieces : Change(sdscpylen(s, t), t)
Grow == \E n \in 0 .. MaxLen :
           Change(sdsgrowzero(s, n), str \o Zeros(Max({n - Len(str), 0})))
Clear  == Change(sdsclear(s), <<>>)
Update == Change(sdsupdatelen(s), SubSeq(str, 1, Min({j \in DOMAIN str : str[j] = NUL} \cup {Len(str) + 1}) - 1))
Trim   == \E c \in Sets :
             Change(sdstrim(s, c), IF Outer(c) = {} THEN <<>>
                                   ELSE SubSeq(str, Min(Outer(c)), Max(Outer(c))))
Slice == \E first, last \in -MaxLen - 1 .. MaxLen :
             Change(sdsrange(s, first, last),
                    SubSeq(str, Offset(first) + 1, Min({Offset(last) + 1, Len(str)})))

Next == Cat \/ Copy \/ Grow \/ Clear \/ Update \/ Trim \/ Slice

Spec == Init /\ [][Next]_vars

-----------------------------------------------------------------------------
(* Properties *)

\* After any operations the buffer has the string and its terminator, and is
\* as long as len and free say: no operation writes past it (sds.c:59-277).
HoldsIt ==
    /\ s.len = Len(str) /\ s.free >= 0
    /\ SubSeq(s.buf, 1, s.len + 1) = Append(str, NUL)
    /\ Len(s.buf) = s.len + s.free + 1

\* The tokens with the separators between them are the string, and each ends
\* where the first separator begins (sds.c:320-385).  Of an empty string
\* there are none.
Splits ==
    \A sep \in Seps :
        LET tokens == sdssplitlen(str, sep)
            joined[n \in 1 .. Len(tokens)] ==
                IF n = 1 THEN tokens[1] ELSE joined[n - 1] \o sep \o tokens[n]
            First(t) == {j \in 0 .. Len(t) : At(t, j, sep)}
        IN  str # <<>> =>
              /\ joined[Len(tokens)] = str
              /\ \A j \in 1 .. Len(tokens) - 1 :
                    Min(First(tokens[j] \o sep)) = Len(tokens[j])
              /\ First(Last(tokens)) = {}

\* "sdscatrepr() is able to convert back a string into a quoted string in the
\* same format sdssplitargs() is able to parse" (sds.c:502-504), whatever the
\* string has in it.  Apostrophes will do for one without apostrophes, NULs
\* and backslashes.
RoundTrip ==
    /\ sdssplitargs(sdscatrepr(str)) = <<str>>
    /\ ToSet(str) \cap {Apostrophe, NUL, Backslash} = {} =>
          sdssplitargs(<<Apostrophe>> \o str \o <<Apostrophe>>) = <<str>>

IsAString == HoldsIt /\ Splits /\ RoundTrip
=============================================================================
