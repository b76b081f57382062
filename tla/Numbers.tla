------------------------------ MODULE Numbers ------------------------------
(***************************************************************************)
(* Numbers as text: vsprintf of lib/src/stdio.c with its conversion number, *)
(* strtol and strtoul of lib/src/stdlib, and scanf of user/ulib/scanf.c,   *)
(* which reads fd 0 through a buffer of its own.  A long has W bits.       *)
(*                                                                         *)
(* Text is a sequence of characters.  The conversions %a and %A of network *)
(* addresses are left out, nothing in the system uses them; no argument of *)
(* %s is a null pointer.                                                   *)
(*                                                                         *)
(* As in Proc, a definition that adds a suffix to the name of the one that *)
(* follows it is a mutant of that definition.                              *)
(***************************************************************************)
EXTENDS Integers, Sequences, SequencesExt, FiniteSets, FiniteSetsExt

CONSTANTS
  W,      \* bits of a long, an int and a pointer
  Calls,  \* calls of sprintf: a format, its arguments, and what is printed
  Texts,  \* what strtol and strtoul are given besides
  SCAN,   \* size of the buffer for a number in scanf (32)
  Reads   \* how many characters a read of scanf may return

ULONG_MAX == 2^W - 1
LONG_MAX == 2^(W - 1) - 1
LONG_MIN == -2^(W - 1)

\* The casts to unsigned long and to long.
unsigned(x) == x % 2^W
signed(u) == IF u > LONG_MAX THEN u - 2^W ELSE u

digits == <<"0", "1", "2", "3", "4", "5", "6", "7", "8", "9",
            "a", "b", "c", "d", "e", "f", "g", "h">>
upper_digits == SubSeq(digits, 1, 10) \o <<"A", "B", "C", "D", "E", "F", "G", "H">>
decimal == ToSet(SubSeq(digits, 1, 10))

\* What a character is worth as a digit, 99 if it is none.
digit(c) ==
  Min({99} \cup {i - 1 : i \in {k \in DOMAIN digits : c \in {digits[k], upper_digits[k]}}})

at(s, i) == IF i \in DOMAIN s THEN s[i] ELSE "NUL"
span(s, i, C) == Min({k \in i .. Len(s) + 1 : at(s, k) \notin C})
repeat(c, n) == [i \in 1 .. n |-> c]

-----------------------------------------------------------------------------
(***************************************************************************)
(* Printing.                                                               *)
(***************************************************************************)

RECURSIVE figures(_, _)
figures(n, base) ==
  IF n < base THEN <<n>> ELSE Append(figures(n \div base, base), n % base)

sign_of(num, type) ==
  IF "SIGN" \notin type THEN <<>>
  ELSE IF num < 0 THEN <<"-">>
  ELSE IF "PLUS" \in type THEN <<"+">>
  ELSE IF "SPACE" \in type THEN <<" ">> ELSE <<>>

prefix_of(base, type) ==
  IF "HEX_PREP" \notin type THEN <<>>
  ELSE CASE base = 16 -> <<"0", "x">> [] base = 8 -> <<"0">> [] OTHER -> <<>>

\* -num of the least long is itself; as an unsigned number it is right.
magnitude(num, type) == unsigned(IF "SIGN" \in type /\ num < 0 THEN -num ELSE num)

\* The parts of a number in a field of the given size.
laid_out(front, body, pad, type) ==
  CASE "LEFT" \in type -> front \o body \o repeat(" ", pad)
    [] "ZEROPAD" \in type /\ "LEFT" \notin type -> front \o repeat("0", pad) \o body
    [] OTHER -> repeat(" ", pad) \o front \o body

number(num, base, size, precision, type) ==
  LET dig == IF "UPPERCASE" \in type THEN upper_digits ELSE digits
      fig == figures(magnitude(num, type), base)
      body == repeat("0", precision - Len(fig)) \o [i \in DOMAIN fig |-> dig[fig[i] + 1]]
      front == sign_of(num, type) \o prefix_of(base, type)
  IN laid_out(front, body, size - Len(front) - Len(body), type)

\* A conversion as far as it has been read: d = [flags, width, precision, ps,
\* args], with -1 for what is not given.
flag_names == [c \in {"-", "+", " ", "#", "0"} |->
                 CASE c = "-" -> "LEFT" [] c = "+" -> "PLUS" [] c = " " -> "SPACE"
                   [] c = "#" -> "HEX_PREP" [] c = "0" -> "ZEROPAD"]

read_flags(f, i, args) ==
  LET e == span(f, i, DOMAIN flag_names)
  IN [flags |-> {flag_names[f[k]] : k \in i .. e - 1}, ps |-> e, args |-> args,
      width |-> -1, precision |-> -1]

skip_atoi(f, i) ==
  FoldLeft(LAMBDA n, c : n * 10 + digit(c), 0, SubSeq(f, i, span(f, i, decimal) - 1))

\* A width that is an argument may be negative: that is the flag -.
read_width(f, d) ==
  IF at(f, d.ps) \in decimal
  THEN [d EXCEPT !.width = skip_atoi(f, d.ps), !.ps = span(f, @, decimal)]
  ELSE IF at(f, d.ps) = "*"
  THEN [d EXCEPT !.width = IF d.args[1] < 0 THEN -d.args[1] ELSE d.args[1],
                 !.flags = IF d.args[1] < 0 THEN @ \cup {"LEFT"} ELSE @,
                 !.args = Tail(@), !.ps = @ + 1]
  ELSE d

read_precision(f, d) ==
  IF at(f, d.ps) # "." THEN d
  ELSE IF at(f, d.ps + 1) = "*"
  THEN [d EXCEPT !.precision = Max({0, d.args[1]}), !.args = Tail(@), !.ps = @ + 2]
  ELSE [d EXCEPT !.precision = skip_atoi(f, d.ps + 1), !.ps = span(f, @ + 1, decimal)]

read_qualifier(f, d) == IF at(f, d.ps) \in {"l", "L"} THEN [d EXCEPT !.ps = @ + 1] ELSE d

\* %c and %s.
justified(s, d) ==
  IF "LEFT" \in d.flags THEN s \o repeat(" ", d.width - Len(s))
  ELSE repeat(" ", d.width - Len(s)) \o s

string(s, d) ==
  justified(IF d.precision < 0 THEN s ELSE SubSeq(s, 1, Min({d.precision, Len(s)})), d)

integer(d, base, flags) == number(d.args[1], base, d.width, d.precision, d.flags \cup flags)

pointer(d) ==
  IF d.width = -1 THEN number(unsigned(d.args[1]), 16, W \div 4, d.precision, d.flags \cup {"ZEROPAD"})
  ELSE number(unsigned(d.args[1]), 16, d.width, d.precision, d.flags)

converted(c, d) ==
  CASE c = "c" -> justified(<<d.args[1]>>, d)
    [] c = "s" -> string(d.args[1], d)
    [] c = "p" -> pointer(d)
    [] c = "o" -> integer(d, 8, {})
    [] c = "X" -> integer(d, 16, {"UPPERCASE"})
    [] c = "x" -> integer(d, 16, {})
    [] c \in {"d", "i"} -> integer(d, 10, {"SIGN"})
    [] c = "u" -> integer(d, 10, {})

conversions == {"c", "s", "p", "o", "X", "x", "d", "i", "u"}

RECURSIVE vsprintf(_, _, _)

\* The text of the conversion d, and of what follows it.
after(f, d) ==
  LET c == at(f, d.ps)
  IN IF c \in conversions THEN converted(c, d) \o vsprintf(f, d.ps + 1, Tail(d.args))
     ELSE (IF c = "%" THEN <<>> ELSE <<"%">>) \o (IF c = "NUL" THEN <<>> ELSE <<c>>)
            \o vsprintf(f, d.ps + 1, d.args)

\* The text of the format f from i on.
vsprintf(f, i, args) ==
  IF i > Len(f) THEN <<>>
  ELSE IF f[i] # "%" THEN <<f[i]>> \o vsprintf(f, i + 1, args)
  ELSE after(f, read_qualifier(f, read_precision(f, read_width(f, read_flags(f, i + 1, args)))))

-----------------------------------------------------------------------------
(***************************************************************************)
(* Reading: strtol and strtoul.                                            *)
(***************************************************************************)

spaces == {" ", "nl"}
blank(s) == span(s, 1, spaces)
signs(s, i) == IF at(s, i) \in {"-", "+"} THEN i + 1 ELSE i

\* Where the digits of s begin, and their base.
has_0x(s, i, base) == base \in {0, 16} /\ at(s, i) = "0" /\ at(s, i + 1) \in {"x", "X"}
first_digit(s, i, base) == IF has_0x(s, i, base) THEN i + 2 ELSE i
real_base(s, i, base) ==
  IF has_0x(s, i, base) THEN 16
  ELSE IF base # 0 THEN base
  ELSE IF at(s, i) = "0" THEN 8 ELSE 10

last_digit(s, i, base) == Min({k \in i .. Len(s) + 1 : digit(at(s, k)) >= base}) - 1

\* The loop over the digits; limit is the largest value that is legal.
gather_equal(r, c, base, limit) ==
  IF r.over \/ r.acc >= limit \div base THEN [r EXCEPT !.over = TRUE]
  ELSE [r EXCEPT !.acc = @ * base + c]
gather(r, c, base, limit) ==
  IF \/ r.over \/ r.acc > limit \div base
     \/ r.acc = limit \div base /\ c > limit % base
  THEN [r EXCEPT !.over = TRUE]
  ELSE [r EXCEPT !.acc = @ * base + c]

accumulated(s, i, base, limit) ==
  FoldLeft(LAMBDA r, c : gather(r, digit(c), base, limit), [acc |-> 0, over |-> FALSE],
           SubSeq(s, i, last_digit(s, i, base)))

gathered(s, i, base, limit) ==
  accumulated(s, first_digit(s, i, base), real_base(s, i, base), limit)

negative(s) == at(s, blank(s)) = "-"

strtol(s, base) ==
  LET r == gathered(s, signs(s, blank(s)), base, IF negative(s) THEN -LONG_MIN ELSE LONG_MAX)
  IN IF r.over THEN (IF negative(s) THEN LONG_MIN ELSE LONG_MAX)
     ELSE signed(unsigned(IF negative(s) THEN -r.acc ELSE r.acc))

strtoul(s, base) ==
  LET r == gathered(s, signs(s, blank(s)), base, ULONG_MAX)
  IN IF r.over THEN ULONG_MAX
     ELSE unsigned(IF negative(s) THEN -r.acc ELSE r.acc)

-----------------------------------------------------------------------------
(***************************************************************************)
(* scanf.  in = [buf, reads]: the characters between head and tail of its  *)
(* buffer, and what the reads to come will return; at the end they return  *)
(* nothing, and the character is 0.                                        *)
(***************************************************************************)

refill(in) ==
  IF in.reads = <<>> THEN in ELSE [buf |-> Head(in.reads), reads |-> Tail(in.reads)]

filled(in) == IF in.buf = <<>> THEN refill(in) ELSE in
peekchar(in) == at(filled(in).buf, 1)
getchar(in) == IF peekchar(in) = "NUL" THEN in ELSE [filled(in) EXCEPT !.buf = Tail(@)]

RECURSIVE remove_space(_), throw(_), gets(_, _, _), scanf_from(_, _, _, _)

remove_space(in) == IF peekchar(in) \in spaces THEN remove_space(getchar(in)) ELSE in
throw_not(in) == in
throw(in) == IF peekchar(in) \in spaces \cup {"NUL"} THEN in ELSE throw(getchar(in))

\* At most n more characters of a word behind s; what is too much is dropped.
gets(in, n, s) ==
  IF n = 0 \/ peekchar(in) \in spaces \cup {"NUL"} THEN [in |-> throw(in), s |-> s]
  ELSE gets(getchar(in), n - 1, Append(s, peekchar(in)))

number_of(c, s) ==
  CASE c = "d" -> strtol(s, 10) [] c = "u" -> strtoul(s, 10) [] c = "x" -> strtoul(s, 16)

\* The rest of the conversion c, which stands before f[i], with the word w.
with_number(f, i, c, w, vals) == scanf_from(f, i, w.in, Append(vals, number_of(c, w.s)))
with_string(f, i, w, vals) == scanf_from(f, i, w.in, Append(vals, w.s))

\* What scanf stores, for the format f from i on.  The word of %s has no limit.
\* After an unknown conversion the format goes on behind the %.
scanf_from(f, i, in, vals) ==
  IF i > Len(f) THEN vals
  ELSE IF f[i] \in spaces THEN scanf_from(f, i + 1, remove_space(in), vals)
  ELSE IF f[i] # "%"
  THEN scanf_from(f, i + 1, IF f[i] = peekchar(in) THEN getchar(in) ELSE in, vals)
  ELSE CASE at(f, i + 1) = "c" -> scanf_from(f, i + 2, getchar(in), Append(vals, peekchar(in)))
         [] at(f, i + 1) = "s" -> with_string(f, i + 2, gets(remove_space(in), -1, <<>>), vals)
         [] at(f, i + 1) \in {"d", "u", "x"} ->
              with_number(f, i + 2, f[i + 1], gets(remove_space(in), SCAN - 1, <<>>), vals)
         [] OTHER -> scanf_from(f, i + 1, in, vals)

-----------------------------------------------------------------------------
(***************************************************************************)
(* A program that prints a number and reads the text, or reads a text that *)
(* somebody has typed.                                                     *)
(***************************************************************************)

VARIABLES
  call,    \* the call of sprintf, if there was one
  text,    \* the text
  radix,   \* the base that it is read with; 1 before that, 2 with scanf
  value,   \* what strtol returns
  uvalue   \* what strtoul returns

number_vars == <<call, text, radix, value, uvalue>>

\* call.want says what call.fmt asks for, call.num is the argument that is
\* printed, and call.extra counts what is printed before and after it.
nocall == [fmt |-> <<>>, args |-> <<>>, num |-> 0, want |-> <<>>, extra |-> 0]

NumbersInit ==
  /\ \/ call \in Calls /\ text = <<>>
     \/ call = nocall /\ text \in Texts
  /\ radix = 1 /\ value = 0 /\ uvalue = 0

sprintf ==
  /\ call # nocall /\ text = <<>>
  /\ text' = vsprintf(call.fmt, 1, call.args)
  /\ UNCHANGED <<call, radix, value, uvalue>>

\* strtol, as in atoi, and strtoul.
read_as(b) ==
  /\ text # <<>> /\ radix = 1
  /\ radix' = b
  /\ value' = strtol(text, b)
  /\ uvalue' = strtoul(text, b)
  /\ UNCHANGED <<call, text>>

\* The text is typed twice and read with scanf("%d%c%x"), k characters a time.
typed_twice == text \o <<"nl">> \o text \o <<"nl">>
in_pieces(s, k) ==
  [i \in 1 .. (Len(s) + k - 1) \div k |-> SubSeq(s, (i - 1) * k + 1, Min({i * k, Len(s)}))]

scanf(k) ==
  /\ text # <<>> /\ radix = 1
  /\ radix' = 2
  /\ \E vals \in {scanf_from(<<"%", "d", "%", "c", "%", "x">>, 1,
                             [buf |-> <<>>, reads |-> in_pieces(typed_twice, k)], <<>>)} :
       value' = vals[1] /\ uvalue' = vals[3]
  /\ UNCHANGED <<call, text>>

was_read == radix # 1 /\ UNCHANGED number_vars

NumbersNext ==
  \/ sprintf
  \/ \E b \in {0, 8, 10, 16} : read_as(b)
  \/ \E k \in Reads : scanf(k)
  \/ was_read

NumbersSpec == NumbersInit /\ [][NumbersNext]_number_vars

-----------------------------------------------------------------------------
(***************************************************************************)
(* Properties.                                                             *)
(***************************************************************************)

base_of(conv) == CASE conv = "o" -> 8 [] conv \in {"x", "X", "p"} -> 16 [] OTHER -> 10
is_signed(conv) == conv \in {"d", "i"}

\* The bases that give back what was printed: the one of the conversion, and 0
\* where the flag # has marked it.
own_bases(want) ==
  {base_of(want.conv)} \cup (IF "#" \in want.flags /\ base_of(want.conv) # 10 THEN {0} ELSE {})

\* How long the text is that want asks for, with nothing before and after it.
length_of(want, num) ==
  LET b == base_of(want.conv)
      v == IF is_signed(want.conv) THEN (IF num < 0 THEN -num ELSE num) ELSE unsigned(num)
      least == CHOOSE n \in 1 .. W + 1 : v < b^n /\ (n = 1 \/ v >= b^(n - 1))
      mark == IF is_signed(want.conv) THEN (IF num < 0 \/ want.flags \cap {"+", " "} # {} THEN 1 ELSE 0)
              ELSE IF "#" \in want.flags THEN (CASE b = 8 -> 1 [] b = 16 -> 2 [] OTHER -> 0)
              ELSE 0
      field == IF want.conv = "p" /\ want.width = -1 THEN W \div 4 ELSE want.width
  IN Max({field, mark + Max({want.precision, least})})

\* The number that a text stands for, however large.
worth(s, i, b) ==
  LET e == last_digit(s, i, b)
  IN MapThenSumSet(LAMBDA k : digit(s[k]) * b^(e - k), i .. e)
meaning(s, b) ==
  LET i == signs(s, blank(s))
      v == worth(s, first_digit(s, i, b), real_base(s, i, b))
  IN IF negative(s) THEN -v ELSE v

as_long(v) == Max({LONG_MIN, Min({LONG_MAX, v})})
as_unsigned(v) == IF v \in -ULONG_MAX .. ULONG_MAX THEN unsigned(v) ELSE ULONG_MAX

\* The n-th word of a text, as much of it as scanf takes.
word(s, n) ==
  LET begin == {i \in DOMAIN s : s[i] \notin spaces /\ (i = 1 \/ s[i - 1] \in spaces)}
      i == CHOOSE k \in begin : Cardinality({j \in begin : j < k}) = n - 1
      e == Min({k \in i .. Len(s) : s[k] \in spaces})
  IN SubSeq(s, i, Min({e - 1, i + SCAN - 2}))

\* sprintf, strtol and scanf agree on what a text means, to the last value of a
\* long.  A number that was printed, with any flags, width and precision, is as
\* long as the conversion asks for and is read back as itself, the least long
\* too, whose negation overflows in number().  A text that was typed is read as
\* the number that it stands for or, where this is no long, as the nearest one:
\* the test with cutoff and cutlim lets nothing past that would wrap.  And scanf
\* finds the words of its input wherever the reads cut it, the word behind one
\* that was too long as well.
ReadsBack ==
  /\ (call # nocall /\ text # <<>>) => Len(text) = call.extra + length_of(call.want, call.num)
  /\ (call # nocall /\ radix \notin {1, 2}) =>
       (radix \in own_bases(call.want) =>
          IF is_signed(call.want.conv) /\ radix # 0 THEN value = call.num
          ELSE uvalue = unsigned(call.num))
  /\ (call = nocall /\ radix \notin {1, 2}) =>
       value = as_long(meaning(text, radix)) /\ uvalue = as_unsigned(meaning(text, radix))
  /\ radix = 2 =>
       /\ value = as_long(meaning(word(typed_twice, 1), 10))
       /\ uvalue = as_unsigned(meaning(word(typed_twice, 2), 16))
=============================================================================
