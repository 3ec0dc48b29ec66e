--------------------------------- MODULE Conf ---------------------------------
(***************************************************************************)
(* The reader of the configuration (conf_parse, src/src/conf.c): keys with *)
(* lists of values, nested blocks, included files, variables.  A call of   *)
(* conf_parse is a frame; the lines of the files are any lines.            *)
(***************************************************************************)
EXTENDS Integers, Sequences, FiniteSets, SequencesExt, FiniteSetsExt

CONSTANTS
    Keys,       \* none begins with a }
    Values,
    MaxLines,   \* bound: lines read in all
    MaxFiles    \* bound: files that match an include; depth of includes

ConfAssumption == MaxLines \in Nat /\ MaxFiles \in Nat

VARIABLES
    frames,    \* the calls of conf_parse, the innermost last
    outcome,   \* "running", or how conf_init has ended
    reads,     \* history: lines read
    values,    \* history: <<block, key, value>> for each assignment, in order
    blocks,    \* history: blocks begun
    wrong      \* history: why the reading went wrong, or "nothing"

vars == <<frames, outcome, reads, values, blocks, wrong>>

\* What a key has: entries, blocks, or nothing yet (type 0 of a new cv).
No    == [type |-> "no", list |-> <<>>]
Empty == [k \in Keys |-> No]

\* An include shares the conf of the frame that includes.
Frame(kind, key, id) ==
    [kind |-> kind, key |-> key, conf |-> Empty, id |-> id,
     field |-> "unset",  \* field[0]: not assigned, or it points into buf, at a
                         \* "brace" or at "other" text
     todo |-> 0]         \* files that match the include, and are to be read

Init ==
    /\ frames = <<Frame("main", "", 0)>>
    /\ outcome = "running"
    /\ reads = 0 /\ values = <<>> /\ blocks = 0
    /\ wrong = "nothing"

-----------------------------------------------------------------------------
top    == Len(frames)
Owner(j) == Max({m \in 1 .. j : frames[m].kind # "include"})
owner  == Owner(top)
conf   == frames[owner].conf

\* Mutant of Listed: the value is added at the end.
Added(cv, type, v) == [type |-> type, list |-> Append(cv.list, v)]

\* The latest is the first in the list.
Listed(cv, type, v) == [type |-> type, list |-> <<v>> \o cv.list]

\* str_explode assigns field[0] unless the line is blank.
Reads == reads < MaxLines /\ outcome = "running" /\ reads' = reads + 1
Seen(fs) == [fs EXCEPT ![top].field = "other"]

\* conf_evaluate: a variable is the latest value of a key of this block; if
\* it has none, of the environment, where there is none.
Evaluated(v) ==
    IF v \notin Keys THEN v
    ELSE IF conf[v].type = "entry" THEN conf[v].list[1] ELSE ""

\* The error path of conf_parse, in each call from the innermost to the
\* outermost: conf_free, return -1.  A call for an included file has freed
\* the conf of its caller, which frees it again; free_val meets the type 0 of
\* a block that was not finished, "never get here", and exits.
Unwound ==
    LET result[j \in DOMAIN frames] ==
            CASE frames[j].kind = "main"    -> "failed"
              [] frames[j].kind = "include" -> "undefined"
              [] frames[j].kind = "block"   ->
                   IF frames[Owner(j - 1)].conf[frames[j].key].type = "none"
                   THEN "exit" ELSE result[j - 1]
    IN  result[top]

Error(why) ==
    /\ outcome' = Unwound
    /\ wrong' = why
    /\ UNCHANGED <<frames, values, blocks>>

Undefined(why) ==
    /\ outcome' = "undefined"
    /\ wrong' = why
    /\ UNCHANGED <<frames, values, blocks>>

Goes == UNCHANGED <<outcome, wrong>>

-----------------------------------------------------------------------------
(* A line is read *)

\* key value, where the value may be a variable
Set(k, v) ==
    /\ Reads
    /\ \/ /\ conf[k].type \in {"no", "entry"}
          /\ frames' = Seen([frames EXCEPT
                               ![owner].conf[k] = Listed(@, "entry", Evaluated(v))])
          /\ values' = Append(values, <<frames[owner].id, k, Evaluated(v)>>)
          /\ Goes /\ UNCHANGED blocks
       \/ conf[k].type = "block" /\ Error("mixed")

\* key {
Block(k) ==
    /\ Reads
    /\ \/ /\ conf[k].type \in {"no", "block"}
          /\ frames' = Append(Seen([frames EXCEPT
                                ![owner].conf[k].type = IF @ = "no" THEN "none" ELSE @]),
                              Frame("block", k, blocks + 1))
          /\ blocks' = blocks + 1
          /\ Goes /\ UNCHANGED values
       \/ conf[k].type = "entry" /\ Error("mixed")

\* The call for a block returns 0, and the caller lists the block.
BlockEnds ==
    LET fs == Front(frames)
        b == [id |-> frames[top].id, conf |-> frames[top].conf]
    IN  frames' = [fs EXCEPT ![Owner(top - 1)].conf[frames[top].key] = Listed(@, "block", b)]

\* }, where a block may end
Close ==
    /\ Reads
    /\ \/ /\ frames[top].kind = "block"
          /\ BlockEnds
          /\ Goes /\ UNCHANGED <<values, blocks>>
       \/ frames[top].kind # "block" /\ Error("unbalanced")

\* # and anything: buf is overwritten, and field[0] still points into it.
Comment ==
    /\ Reads
    /\ \E at \in IF frames[top].field = "unset" THEN {"unset"} ELSE {"other", "brace"} :
          frames' = [frames EXCEPT ![top].field = at]
    /\ Goes /\ UNCHANGED <<values, blocks>>

\* A line without fields: field[0] is looked at all the same (conf.c:467).  It
\* may never have been assigned, or point at the } of a comment, which the
\* blanks of this line overwrite or leave, and then it ends a block.
Blank ==
    /\ Reads
    /\ \/ /\ frames' = IF frames[top].field = "brace" THEN Seen(frames) ELSE frames
          /\ Goes /\ UNCHANGED <<values, blocks>>
       \/ /\ frames[top].field = "brace"
          /\ \/ /\ frames[top].kind = "block"
                /\ BlockEnds
                /\ wrong' = "blank"
                /\ UNCHANGED <<outcome, values, blocks>>
             \/ frames[top].kind # "block" /\ Error("blank")
       \/ frames[top].field = "unset" /\ Undefined("field")

\* One field that is no brace
Word ==
    /\ Reads
    /\ frames' = Seen(frames)
    /\ Goes /\ UNCHANGED <<values, blocks>>

\* $ without a name
Lonely == Reads /\ Error("variable")

\* After a variable that was replaced, conf_evaluate frees its name twice.
LonelyAfterVariable == Reads /\ Undefined("freed name")

\* include: conf_init with the same conf for each file that matches.
Include(n) ==
    /\ Reads
    /\ \/ /\ Cardinality({j \in DOMAIN frames : frames[j].kind = "include"}) < MaxFiles
          /\ frames' = IF n = 0 THEN Seen(frames)
                       ELSE Append([Seen(frames) EXCEPT ![top].todo = n - 1],
                                   Frame("include", "", 0))
          /\ Goes /\ UNCHANGED <<values, blocks>>
       \/ Error("open")     \* no such directory, too many files open

\* fgets returns NULL.  A block may end like this, too.
EndOfFile ==
    /\ outcome = "running"
    /\ CASE frames[top].kind = "main"    -> outcome' = "ok" /\ UNCHANGED frames
         [] frames[top].kind = "block"   -> BlockEnds /\ UNCHANGED outcome
         [] frames[top].kind = "include" ->
              LET fs == Front(frames)
                  n  == fs[Len(fs)].todo
              IN  /\ frames' = IF n = 0 THEN fs
                               ELSE Append([fs EXCEPT ![Len(fs)].todo = n - 1],
                                           Frame("include", "", 0))
                  /\ UNCHANGED outcome
    /\ UNCHANGED <<reads, values, blocks, wrong>>

Next ==
    \/ \E k \in Keys, v \in Values \cup Keys : Set(k, v)
    \/ \E k \in Keys : Block(k)
    \/ Close \/ Comment \/ Blank \/ Word \/ Lonely \/ LonelyAfterVariable
    \/ \E n \in 0 .. MaxFiles : Include(n)
    \/ EndOfFile

Spec == Init /\ [][Next]_vars

-----------------------------------------------------------------------------
(* Properties *)

\* The blocks of a finished configuration, its top with id 0
Inner(bs) == bs \cup UNION {UNION {ToSet(c.conf[k].list) :
                    k \in {k \in Keys : c.conf[k].type = "block"}} : c \in bs}
AllBlocks == FoldLeft(LAMBDA bs, j : Inner(bs), {[id |-> 0, conf |-> frames[1].conf]},
                      [j \in 1 .. blocks |-> j])

\* conf_get_str_value gives the value that was read last, in this file or in
\* one it includes, and conf_array_foreach gives all of them, the latest
\* first, for every key of every block (conf.c:382-465), unless a blank line
\* after a comment has ended a block in the place of a } (conf.c:467).
LatestFirst ==
    outcome = "ok" /\ wrong = "nothing" =>
        /\ Cardinality(AllBlocks) = blocks + 1
        /\ \A c \in AllBlocks, k \in Keys :
              LET assigned == SelectSeq(values, LAMBDA a : a[1] = c.id /\ a[2] = k)
              IN  c.conf[k].type # "block" =>
                     c.conf[k].list = Reverse([j \in DOMAIN assigned |-> assigned[j][3]])

\* A wrong line of the main file, outside its blocks, is reported and the
\* configuration freed, once; nothing else is, but for a blank line where
\* field[0] points at the } of a comment (conf.c:471).  In a block whose key
\* is new an error ends the process at the exit of conf.c:145, "never get
\* here", without a word; in an included file the configuration is freed a
\* second time (conf.c:213, 480).
ErrorsReported ==
    LET Around(kind) == \E j \in DOMAIN frames : frames[j].kind = kind IN
    /\ outcome = "failed" => wrong # "nothing" /\ ~Around("include")
    /\ outcome = "exit"   => Around("block")
    /\ outcome = "undefined" => Around("include") \/ wrong \in {"field", "freed name"}

ReadsRight == LatestFirst /\ ErrorsReported
=============================================================================
