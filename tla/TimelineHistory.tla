--------------------------- MODULE TimelineHistory ---------------------------
(***************************************************************************)
(* rewind_parseTimeLineHistory (src/src/bin/pg_rewind/timeline.c): the     *)
(* parser of a timeline history file.  The buffer is a sequence of         *)
(* characters over a small alphabet: decimal digits "0" "1", the hex       *)
(* digit "A", "/", "#", a tab "TAB", one other character "z", and the      *)
(* newline "NL".  Each iteration of the parse loop is one step; the        *)
(* sscanf(fline, "%u\t%X/%X") call is modelled by what it does.            *)
(*                                                                         *)
(* An XLogRecPtr built as (hi << 32 | lo) from two 32-bit halves is the    *)
(* pair <<hi, lo>>: the halves never overlap, and pairs compare the way    *)
(* the 64-bit values do.                                                   *)
(***************************************************************************)
EXTENDS Integers, SequencesExt

CONSTANTS
  Buffers,     \* the history file contents the parser may be given
  TargetTLIs   \* the targetTLI values it may be called with

VARIABLES
  buffer, targetTLI,  \* the arguments
  bufptr,             \* index of the next unread character
  lastline,
  entries,            \* the TimeLineHistoryEntry array built so far
  lasttli, prevend,
  status              \* "loop", "done" (returned) or "error" (exit(1))

vars == <<buffer, targetTLI, bufptr, lastline, entries, lasttli, prevend,
          status>>

InvalidXLogRecPtr == <<0, 0>>

DecDigits == {"0", "1"}
HexDigits == {"0", "1", "A"}
DigitVal  == [d \in HexDigits |-> IF d = "A" THEN 10 ELSE IF d = "1" THEN 1 ELSE 0]

\* isspace on the characters a line can hold (a line holds no newline).
IsSpace(c) == c = "TAB"

-----------------------------------------------------------------------------
(* sscanf(fline, "%u\t%X/%X", &tli, &switchpoint_hi, &switchpoint_lo).     *)

\* The first index at or after i that is not white space.
RECURSIVE SkipSpace(_, _)
SkipSpace(l, i) == IF i <= Len(l) /\ IsSpace(l[i]) THEN SkipSpace(l, i + 1)
                   ELSE i

\* strtoul-style conversion: the longest run of digits of D from i, in
\* the given base; next is the index after the run.
RECURSIVE ReadDigits(_, _, _, _, _)
ReadDigits(l, i, D, base, acc) ==
  IF i <= Len(l) /\ l[i] \in D
  THEN ReadDigits(l, i + 1, D, base, acc * base + DigitVal[l[i]])
  ELSE [val |-> acc, next |-> i]

\* A directive %u or %X: skip white space, then at least one digit.
Converts(l, i, D) == SkipSpace(l, i) <= Len(l) /\ l[SkipSpace(l, i)] \in D
Convert(l, i, D, base) == ReadDigits(l, SkipSpace(l, i), D, base, 0)

\* The number of fields assigned (-1 for EOF: input ends before the first
\* conversion) and their values.  The "\t" of the format matches any
\* amount of white space, none included, and %X skips white space itself;
\* the "/" must be the very next character.
\* Mutant: the %X after the "/" does not skip white space.
SscanfNoSkipAfterSlash(l) ==
  LET u == Convert(l, 1, DecDigits, 10)
      h == Convert(l, u.next, HexDigits, 16)
      slash == h.next <= Len(l) /\ l[h.next] = "/"
      lo == ReadDigits(l, h.next + 1, HexDigits, 16, 0)
      n == CASE SkipSpace(l, 1) > Len(l)       -> -1
             [] ~Converts(l, 1, DecDigits)     -> 0
             [] ~Converts(l, u.next, HexDigits) -> 1
             [] ~slash \/ h.next + 1 > Len(l) \/ l[h.next + 1] \notin HexDigits -> 2
             [] OTHER -> 3
  IN  [nfields |-> n, tli |-> u.val, hi |-> h.val, lo |-> lo.val]

Sscanf(l) ==
  LET u == Convert(l, 1, DecDigits, 10)
      h == Convert(l, u.next, HexDigits, 16)
      slash == h.next <= Len(l) /\ l[h.next] = "/"
      lo == Convert(l, h.next + 1, HexDigits, 16)
      n == CASE SkipSpace(l, 1) > Len(l)       -> -1
             [] ~Converts(l, 1, DecDigits)     -> 0
             [] ~Converts(l, u.next, HexDigits) -> 1
             [] ~slash \/ ~Converts(l, h.next + 1, HexDigits) -> 2
             [] OTHER -> 3
  IN  [nfields |-> n, tli |-> u.val, hi |-> h.val, lo |-> lo.val]

-----------------------------------------------------------------------------
(* The parse loop.                                                         *)

\* Mutant: the character after the newline is skipped as well.
NextLineStartSkipTwo(e) == e + 2

\* Where the next line starts: past the newline (or the NUL) at e.
NextLineStart(e) == e + 1

\* The end of the line that starts at bufptr: the next newline, or the
\* position after the terminating NUL.
LineEnd(b, p) ==
  LET nl == {j \in p .. Len(b) : b[j] = "NL"}
  IN  IF nl = {} THEN Len(b) + 1 ELSE Min(nl)

\* Blank lines and lines whose first non-space character is '#'.
IsSkipped(l) == SkipSpace(l, 1) > Len(l) \/ l[SkipSpace(l, 1)] = "#"

\* Mutant: the order check applies to the first entry too.
OutOfOrderFirstToo(f) == f.tli <= lasttli

\* A TLI not above the previous line's: "Timeline IDs must be in
\* increasing sequence".
OutOfOrder(f) == entries # <<>> /\ f.tli <= lasttli

Init ==
  /\ buffer \in Buffers
  /\ targetTLI \in TargetTLIs
  /\ bufptr = 1
  /\ lastline = FALSE
  /\ entries = <<>>
  /\ lasttli = 0
  /\ prevend = InvalidXLogRecPtr
  /\ status = "loop"

\* One iteration of while (!lastline): cut the next line at its newline,
\* skip it if blank or a comment, else scan it, check it, append it.
ParseLine ==
  /\ status = "loop" /\ ~lastline
  /\ LET e == LineEnd(buffer, bufptr)
         fline == SubSeq(buffer, bufptr, e - 1)
         f == Sscanf(fline)
         sw == <<f.hi, f.lo>>
     IN  /\ lastline' = (e > Len(buffer))
         /\ bufptr' = NextLineStart(e)
         /\ CASE IsSkipped(fline) ->
                   UNCHANGED <<entries, lasttli, prevend, status>>
              [] f.nfields # 3 \/ OutOfOrder(f) ->
                   /\ status' = "error"
                   /\ UNCHANGED <<entries, lasttli, prevend>>
              [] OTHER ->
                   /\ lasttli' = f.tli
                   /\ entries' = Append(entries, [tli |-> f.tli,
                                                  begin |-> prevend,
                                                  end |-> sw])
                   /\ prevend' = sw
                   /\ UNCHANGED status
  /\ UNCHANGED <<buffer, targetTLI>>

\* After the loop: the target must exceed every listed TLI; append the
\* open-ended entry for the tip of the target timeline.
ParseTip ==
  /\ status = "loop" /\ lastline
  /\ IF entries # <<>> /\ targetTLI <= lasttli
     THEN /\ status' = "error"
          /\ UNCHANGED entries
     ELSE /\ entries' = Append(entries, [tli |-> targetTLI, begin |-> prevend,
                                         end |-> InvalidXLogRecPtr])
          /\ status' = "done"
  /\ UNCHANGED <<buffer, targetTLI, bufptr, lastline, lasttli, prevend>>

Next == ParseLine \/ ParseTip

Spec == Init /\ [][Next]_vars /\ WF_vars(Next)

-----------------------------------------------------------------------------
(***************************************************************************)
(* Reference definition of what the parser accepts and returns, stated    *)
(* without the scanning loop: lines are the pieces between newlines, a    *)
(* data line is one that is not blank or a comment, and its fields are   *)
(* given by how the line splits around its runs of digits.                *)
(***************************************************************************)

\* The lines of b: the pieces between consecutive newlines.
RefLines(b) ==
  LET cuts == SetToSortSeq({j \in 1 .. Len(b) : b[j] = "NL"}
                             \cup {0, Len(b) + 1}, <)
  IN  [k \in 1 .. Len(cuts) - 1 |-> SubSeq(b, cuts[k] + 1, cuts[k + 1] - 1)]

RefIgnored(l) ==
  \/ \A j \in 1 .. Len(l) : l[j] = "TAB"
  \/ \E j \in 1 .. Len(l) : l[j] = "#" /\ \A k \in 1 .. j - 1 : l[k] = "TAB"

RefValue(l, i, j, base) ==
  FoldLeft(LAMBDA acc, d : acc * base + DigitVal[d], 0, SubSeq(l, i, j))

AllIn(l, i, j, S) == \A k \in i .. j : l[k] \in S
Ends(l, j, S) == j + 1 > Len(l) \/ l[j + 1] \notin S

\* The field triples of l: tabs, a decimal run [a..b], tabs, a hex run
\* [c..d], "/", tabs, a hex run [e..g], anything; every run is maximal.
RefFields(l) ==
  LET n == Len(l)
      Tabs(i, j) == AllIn(l, i, j, {"TAB"})
      Run(i, j, D) == i <= j /\ AllIn(l, i, j, D) /\ Ends(l, j, D)
      Splits ==
        UNION { UNION { UNION { UNION { UNION {
          { <<a, b, c, d, e, g>> : g \in {x \in e .. n : Run(e, x, HexDigits)} }
            : e \in {x \in d + 2 .. n : Tabs(d + 2, x - 1)} }
            : d \in {x \in c .. n : Run(c, x, HexDigits) /\ x < n /\ l[x + 1] = "/"} }
            : c \in {x \in b + 1 .. n : Tabs(b + 1, x - 1)} }
            : b \in {x \in a .. n : Run(a, x, DecDigits)} }
            : a \in {x \in 1 .. n : Tabs(1, x - 1)} }
  IN  { <<RefValue(l, t[1], t[2], 10), RefValue(l, t[3], t[4], 16),
          RefValue(l, t[5], t[6], 16)>> : t \in Splits }

RefData(b) == SelectSeq(RefLines(b), LAMBDA l : ~RefIgnored(l))

\* The fields of every data line, when each has some.
RefParsed(b) ==
  [k \in 1 .. Len(RefData(b)) |-> CHOOSE f \in RefFields(RefData(b)[k]) : TRUE]

\* The history file format of the spec (section 6) as the parser reads it.
RefAccepts(b, t) ==
  LET D == RefData(b)
      F == RefParsed(b)
      n == Len(D)
  IN  /\ \A k \in 1 .. n : RefFields(D[k]) # {}
      /\ \A k \in 1 .. n - 1 : F[k][1] < F[k + 1][1]
      /\ n > 0 => F[n][1] < t

\* One entry per listed timeline, each beginning where the previous one
\* ended, then the open-ended target timeline.
RefHistory(b, t) ==
  LET F == RefParsed(b)
      n == Len(F)
      End(k) == <<F[k][2], F[k][3]>>
  IN  [k \in 1 .. n + 1 |->
         [tli |-> IF k <= n THEN F[k][1] ELSE t,
          begin |-> IF k = 1 THEN InvalidXLogRecPtr ELSE End(k - 1),
          end |-> IF k <= n THEN End(k) ELSE InvalidXLogRecPtr]]

-----------------------------------------------------------------------------
(* Properties.                                                             *)

TypeOK ==
  /\ buffer \in Buffers /\ targetTLI \in TargetTLIs
  /\ bufptr \in 1 .. Len(buffer) + 2 /\ lastline \in BOOLEAN
  /\ status \in {"loop", "done", "error"}
  /\ Len(entries) <= Len(buffer) + 1

\* rewind_parseTimeLineHistory, with its line cutting, its sscanf and its
\* checks, returns exactly the reference history for every file it
\* accepts, and exits with an error on exactly the files the reference
\* rejects: increasing timeline IDs, a target above all of them, and
\* entries chained end to begin.
ParseMatchesReference ==
  /\ status = "done" =>
       RefAccepts(buffer, targetTLI) /\ entries = RefHistory(buffer, targetTLI)
  /\ status = "error" => ~RefAccepts(buffer, targetTLI)

-----------------------------------------------------------------------------
(* Statement of the spec the code does not keep (violation run).           *)

\* Spec section 6: a history line is <timelineId>\t<highHex>/<lowHex>, and
\* malformed lines are fatal parse errors.  The code ignores whatever
\* follows the last field, and sscanf's "\t" matches any white space or
\* none at all.
StrictLine(l) ==
  \E a \in 1 .. Len(l), b \in 1 .. Len(l) :
     /\ 1 < a /\ a + 1 < b /\ b < Len(l)
     /\ AllIn(l, 1, a - 1, DecDigits) /\ l[a] = "TAB"
     /\ AllIn(l, a + 1, b - 1, HexDigits) /\ l[b] = "/"
     /\ AllIn(l, b + 1, Len(l), HexDigits)

SpecMalformedRejected ==
  status = "done" => \A k \in 1 .. Len(RefData(buffer)) : StrictLine(RefData(buffer)[k])

=============================================================================
