------------------------------ MODULE Filters ------------------------------
(***************************************************************************)
(* The programs of user/src/phase6 that read a file or the console piece   *)
(* by piece: cat, wc, head and grep.                                       *)
(*                                                                         *)
(* A read of a file returns all that there is, up to the length asked for; *)
(* a read of the console returns one line at most, and the rest of a long  *)
(* line at the next read.  Text is a sequence of characters, "nl" and "sp" *)
(* among them; it has no NUL.                                              *)
(*                                                                         *)
(* As in Proc, a definition that adds a suffix to the name of the one that *)
(* follows it is a mutant of that definition.                              *)
(***************************************************************************)
EXTENDS Integers, Sequences, SequencesExt, FiniteSets, FiniteSetsExt

CONSTANTS
  BUFSIZE,   \* sizeof(buf)
  TEN,       \* the lines that head prints (10)
  Content,   \* Content[name]: the text of a file
  Args,      \* the names that are given to a program, one sequence per call
  Typed,     \* the lines that are typed on the console
  MaxTyped,  \* how many of them, at most
  Patterns   \* the patterns for grep

VARIABLES
  prog,     \* the program
  re,       \* grep's pattern
  argv,     \* the names that are still to be opened
  from,     \* where fd reads: a file, the console, or no open file
  seen,     \* what has been read from there
  pending,  \* typed and not yet read
  typed,    \* lines typed
  buf,      \* head: the part of buf that was ever filled; grep: its m bytes
  counts,   \* wc: l, w, c and inword
  line,     \* head: lines printed
  stale,    \* head: a read was shorter than the filled part of buf
  out,      \* what was written since fd was opened
  full,     \* standard output takes nothing more
  status    \* "in": in cat(fd) and so on, "next": before an open, or exited

filter_vars == <<prog, re, argv, from, seen, pending, typed, buf, counts, line, stale,
                 out, full, status>>
unchanging == <<prog, re, full>>

Progs == {"cat", "wc", "head", "grep"}
zero == [l |-> 0, w |-> 0, c |-> 0, inword |-> FALSE]

-----------------------------------------------------------------------------
(***************************************************************************)
(* main: without names the program reads fd 0, otherwise one file after    *)
(* the other.  buf is global: it keeps what the last file has left there.  *)
(***************************************************************************)

\* Whether cat(fd), wc(fd) ... is running.
running(p) == prog = p /\ status = "in"

exit(s) == status' = s /\ UNCHANGED <<from, seen, buf, counts, line, stale, out>>

start(f, rest) ==
  /\ from' = f /\ argv' = rest
  /\ seen' = <<>> /\ out' = <<>>
  /\ counts' = zero /\ line' = 0
  /\ status' = "in"

\* What fd 0 is.
Stdin == {"console", "closed"} \cup DOMAIN Content

FiltersInit ==
  /\ prog \in Progs
  /\ re \in IF prog = "grep" THEN Patterns ELSE {<<>>}
  /\ full \in BOOLEAN
  /\ argv \in Args
  /\ from \in IF argv = <<>> THEN Stdin ELSE {"none"}
  /\ seen = <<>> /\ pending = <<>> /\ typed = 0
  /\ buf = <<>> /\ counts = zero /\ line = 0 /\ stale = FALSE
  /\ out = <<>>
  /\ status = IF argv = <<>> THEN "in" ELSE "next"

open ==
  /\ status = "next"
  /\ IF Head(argv) \in DOMAIN Content
     THEN /\ start(Head(argv), Tail(argv))
          /\ buf' = IF prog = "head" THEN buf ELSE <<>>
          /\ UNCHANGED stale
     ELSE exit("1") /\ argv' = Tail(argv)
  /\ UNCHANGED <<unchanging, pending, typed>>

\* The loop over the names, and exit(0) behind it.
close == status' = IF argv = <<>> THEN "0" ELSE "next"

-----------------------------------------------------------------------------
(***************************************************************************)
(* read and write.                                                         *)
(***************************************************************************)

cut(s, len) == [data |-> SubSeq(s, 1, Min({len, Len(s)})),
                left |-> SubSeq(s, len + 1, Len(s))]

\* The results of a read, which is empty at the end of a file and if len is 0.
\* The console has no end: a program that reads it waits for the next line.
reads(len) ==
  IF from \in DOMAIN Content
  THEN {[data |-> cut(SubSeq(Content[from], Len(seen) + 1, Len(Content[from])), len).data,
         left |-> <<>>, typed |-> typed]}
  ELSE IF from = "closed" THEN {}
  ELSE IF len = 0 THEN {[data |-> <<>>, left |-> pending, typed |-> typed]}
  ELSE IF pending # <<>>
  THEN {[data |-> cut(pending, len).data, left |-> cut(pending, len).left, typed |-> typed]}
  ELSE {[data |-> cut(s, len).data, left |-> cut(s, len).left, typed |-> typed + 1] :
          s \in IF typed < MaxTyped THEN Typed ELSE {}}

got(r) ==
  /\ seen' = seen \o r.data
  /\ pending' = r.left
  /\ typed' = r.typed

write(s) == out' = IF full THEN out ELSE out \o s

\* One round of "while ((n = read(fd, buf, len)) > 0)".
piece(len, body(_)) ==
  \E r \in reads(len) : r.data # <<>> /\ got(r) /\ body(r.data)

at_end(len) == \E r \in reads(len) : r.data = <<>>

\* read returns -1; grep does not look.
read_error ==
  /\ status = "in" /\ from = "closed"
  /\ exit(IF prog = "grep" THEN "0" ELSE "1")
  /\ UNCHANGED <<unchanging, argv, pending, typed>>

-----------------------------------------------------------------------------
(* cat.                                                                    *)

cat_body(data) ==
  /\ write(data)
  /\ status' = IF full THEN "1" ELSE "in"

cat ==
  /\ running("cat")
  /\ \/ piece(BUFSIZE, cat_body)
     \/ at_end(BUFSIZE) /\ close /\ UNCHANGED <<seen, pending, typed, out>>
  /\ UNCHANGED <<unchanging, argv, from, buf, counts, line, stale>>

-----------------------------------------------------------------------------
(* wc.                                                                     *)

\* One character.
count(k, ch) ==
  [c |-> k.c + 1,
   l |-> IF ch = "nl" THEN k.l + 1 ELSE k.l,
   w |-> IF ch \notin {"nl", "sp"} /\ ~k.inword THEN k.w + 1 ELSE k.w,
   inword |-> ch \notin {"nl", "sp"}]

wc_body_fresh(data) == counts' = FoldLeft(count, [counts EXCEPT !.inword = FALSE], data)
wc_body(data) == counts' = FoldLeft(count, counts, data)

wc ==
  /\ running("wc")
  /\ \/ piece(BUFSIZE, wc_body) /\ UNCHANGED <<out, status>>
     \/ /\ at_end(BUFSIZE)
        /\ write(<<counts.l, counts.w, counts.c>>)
        /\ close
        /\ UNCHANGED <<seen, pending, typed, counts>>
  /\ UNCHANGED <<unchanging, argv, from, buf, line, stale>>

-----------------------------------------------------------------------------
(* head.                                                                   *)

newlines(s) == {i \in DOMAIN s : s[i] = "nl"}

nth_newline(s, n) ==
  SelectInSeq([i \in DOMAIN s |-> Cardinality(newlines(SubSeq(s, 1, i)))],
              LAMBDA k : k = n)
\* s up to its n-th end of line, or all of it.
first_lines(s, n) ==
  SubSeq(s, 1, IF Cardinality(newlines(s)) < n THEN Len(s) ELSE nth_newline(s, n))

\* read does not end the text with a NUL, so that the loop goes on through
\* what earlier reads have left behind the text.  Behind buf there are zeros.
in_buf(data) == data \o SubSeq(buf, Len(data) + 1, Len(buf))

head_body(data) ==
  /\ buf' = in_buf(data)
  /\ stale' = (stale \/ Len(data) < Len(buf))
  /\ write(first_lines(in_buf(data), TEN - line))
  /\ line' = Min({TEN, line + Cardinality(newlines(in_buf(data)))})
  /\ status' = IF full THEN "1" ELSE "in"

head_more == line < TEN

head ==
  /\ running("head")
  /\ \/ head_more /\ piece(BUFSIZE, head_body)
     \/ /\ ~head_more \/ at_end(BUFSIZE)
        /\ close
        /\ UNCHANGED <<seen, pending, typed, out, buf, line, stale>>
  /\ UNCHANGED <<unchanging, argv, from, counts>>

-----------------------------------------------------------------------------
(* grep.                                                                   *)

RECURSIVE matchhere(_, _), matchstar(_, _, _)

\* re at the beginning of text ...
matchhere(r, text) ==
  IF r = <<>> THEN TRUE
  ELSE IF Len(r) >= 2 /\ r[2] = "*"
  THEN matchstar(r[1], SubSeq(r, 3, Len(r)), text)
  ELSE IF r = <<"$">> THEN text = <<>>
  ELSE /\ text # <<>> /\ r[1] \in {".", text[1]}
       /\ matchhere(Tail(r), Tail(text))

\* ... and c*re.
matchstar(c, r, text) ==
  \/ matchhere(r, text)
  \/ /\ text # <<>> /\ c \in {".", text[1]}
     /\ matchstar(c, r, Tail(text))

match(r, text) ==
  IF r # <<>> /\ r[1] = "^" THEN matchhere(Tail(r), text)
  ELSE \E i \in 1 .. Len(text) + 1 : matchhere(r, SubSeq(text, i, Len(text)))

\* The line of s that ends at i, without its end.
line_at(s, i) == SubSeq(s, Max({0} \cup {j \in newlines(s) : j < i}) + 1, i - 1)

\* The lines in the buffer that match are written ...
matching(s) ==
  FlattenSeq([i \in DOMAIN s |->
                IF s[i] = "nl" /\ match(re, line_at(s, i))
                THEN Append(line_at(s, i), "nl") ELSE <<>>])

\* ... and what follows the last end of line is moved to the front.
kept(s) == SubSeq(s, Max({0} \cup newlines(s)) + 1, Len(s))

grep_body(data) ==
  /\ write(matching(buf \o data))
  /\ buf' = kept(buf \o data)

\* The space behind the unfinished line, with a place left for the NUL.
space == BUFSIZE - Len(buf) - 1

grep ==
  /\ running("grep")
  /\ \/ piece(space, grep_body) /\ UNCHANGED status
     \/ at_end(space) /\ close /\ UNCHANGED <<seen, pending, typed, buf, out>>
  /\ UNCHANGED <<unchanging, argv, from, counts, line, stale>>

exited == status \in {"0", "1"} /\ UNCHANGED filter_vars

\* Nobody types any more: the program waits.
idle ==
  /\ status = "in" /\ from = "console" /\ pending = <<>> /\ typed = MaxTyped
  /\ UNCHANGED filter_vars

FiltersNext == open \/ read_error \/ cat \/ wc \/ head \/ grep \/ exited \/ idle

FiltersSpec == FiltersInit /\ [][FiltersNext]_filter_vars

-----------------------------------------------------------------------------
(***************************************************************************)
(* Properties.                                                             *)
(***************************************************************************)

\* A pattern as a sequence of items, each a character, with a star or without:
\* where the stars are that are no characters, and where the items begin.
star(r) ==
  LET s[j \in 1 .. Len(r) + 1] == j > 1 /\ j <= Len(r) /\ r[j] = "*" /\ ~s[j - 1]
  IN s
begins(r) == SelectSeq([j \in DOMAIN r |-> j], LAMBDA j : ~star(r)[j])

\* Text that a pattern without anchors stands for: it can be cut into pieces,
\* one for each item.
stands_for(r, text) ==
  LET b == begins(r)
      fits(j, c) == r[j] \in {".", c}
  IN \E cuts \in [0 .. Len(b) -> 0 .. Len(text)] :
       /\ cuts[0] = 0 /\ cuts[Len(b)] = Len(text)
       /\ \A i \in 1 .. Len(b) :
            /\ cuts[i - 1] <= cuts[i]
            /\ star(r)[b[i] + 1] \/ cuts[i] = cuts[i - 1] + 1
            /\ \A k \in cuts[i - 1] + 1 .. cuts[i] : fits(b[i], text[k])

\* Some part of the line is what the pattern stands for, at the beginning
\* after ^, at the end before $.
selected(r, text) ==
  LET front == r # <<>> /\ r[1] = "^"
      body == IF front THEN Tail(r) ELSE r
      back == body # <<>> /\ Last(body) = "$"
  IN \E i \in 1 .. Len(text) + 1, k \in 0 .. Len(text) :
       /\ i <= k + 1
       /\ front => i = 1
       /\ back => k = Len(text)
       /\ stands_for(IF back THEN Front(body) ELSE body, SubSeq(text, i, k))

words(s) ==
  {i \in DOMAIN s : s[i] \notin {"nl", "sp"} /\ (i > 1 => s[i - 1] \in {"nl", "sp"})}

\* What the program should have written after it has read s.
meant(s) ==
  CASE prog = "cat" -> s
    [] prog = "wc" -> <<Cardinality(newlines(s)), Cardinality(words(s)), Len(s)>>
    [] prog = "head" -> first_lines(s, TEN)
    [] prog = "grep" -> FlattenSeq([i \in DOMAIN s |->
                          IF s[i] = "nl" /\ selected(re, line_at(s, i))
                          THEN Append(line_at(s, i), "nl") ELSE <<>>])

\* The output depends on the text alone, not on the pieces in which it was
\* read, and it is that of the whole text: words, lines and matches that begin
\* in one read and end in a later one are neither lost nor counted twice.  For
\* head this holds while no read is shorter than one before it; grep sees the
\* text up to the first line that does not fit its buffer.
Filtered ==
  /\ prog \in Progs /\ ~full /\ ~stale /\ from # "none" /\ status # "1"
       /\ (prog = "wc" => status # "in") =>
       out = meant(seen)
  /\ status \in {"next", "0"} /\ from \in DOMAIN Content =>
       \/ seen = Content[from]
       \/ prog = "head" /\ line = TEN
       \/ prog = "grep" /\ Len(buf) = BUFSIZE - 1
=============================================================================
