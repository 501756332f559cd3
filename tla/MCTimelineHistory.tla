-------------------------- MODULE MCTimelineHistory --------------------------
(***************************************************************************)
(* Inputs for rewind_parseTimeLineHistory.                                 *)
(***************************************************************************)
EXTENDS TimelineHistory

Chars == {"0", "1", "A", "/", "#", "TAB", "z", "NL"}

\* Every buffer of up to four characters, and every five-character line
\* of digits, "/" and tabs (the shortest "%u\t%X/%X" lines): every way
\* sscanf and the line cutting can go on a short input.
ShortBuffers == SeqOf(Chars, 4) \cup [1 .. 5 -> {"0", "1", "A", "/", "TAB"}]

\* Lines of history files: well-formed ones, with TLIs 0, 1, 2 and 10, a
\* switchpoint with a hex digit and one with several digits; a space-less
\* line, one with trailing text, one without a switchpoint; comments and
\* blank lines.
Lines ==
  { <<"1", "TAB", "0", "/", "1">>, <<"2", "TAB", "0", "/", "A">>,
    <<"0", "TAB", "1", "/", "0">>, <<"1", "0", "TAB", "1", "/", "1", "0">>,
    <<"1", "A", "/", "1">>, <<"2", "TAB", "1", "/", "1", "TAB", "z">>,
    <<"2", "TAB", "1">>, <<"TAB", "#", "1">>, <<>> }

\* Files of one to three lines, each line ended by a newline or not.
Join(ls) == FlattenSeq([k \in 1 .. Len(ls) |->
                          IF k < Len(ls) THEN ls[k] \o <<"NL">> ELSE ls[k]])

HistoryFiles == { Join(ls) : ls \in UNION {[1 .. m -> Lines] : m \in 1 .. 3} }

\* Both kinds of input in one run.
AllBuffers == ShortBuffers \cup HistoryFiles
====
