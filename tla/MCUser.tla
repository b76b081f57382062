------------------------------- MODULE MCUser -------------------------------
(***************************************************************************)
(* Instance for TLC of the modules about what user programs do on their    *)
(* own: a process is one that uses the heap (Malloc), one of the filters   *)
(* (Filters), one that prints and reads numbers (Numbers), or the one with *)
(* producers and consumers (CondSem).  The other values are in the .cfg    *)
(* file.                                                                   *)
(***************************************************************************)
EXTENDS Malloc, Filters, Numbers, CondSem, TLC

CONSTANTS p1, p2, p3, c1, c2, c3

\* A process that is no filter.
NoFilter ==
  /\ prog \in {"heap", "numbers", "threads"} /\ re = <<>> /\ full = FALSE
  /\ argv = <<>> /\ from = "none"
  /\ seen = <<>> /\ pending = <<>> /\ typed = 0
  /\ buf = <<>> /\ counts = zero /\ line = 0 /\ stale = FALSE
  /\ out = <<>> /\ status = "in"

NoNumbers == call = nocall /\ text = <<>> /\ radix = 1 /\ value = 0 /\ uvalue = 0

UserInit ==
  /\ Init /\ CondInit
  /\ NoFilter \/ FiltersInit
  /\ IF prog = "numbers" THEN NumbersInit ELSE NoNumbers

user_vars == <<vars, filter_vars, number_vars, cond_vars>>

UserNext ==
  \/ prog = "heap" /\ Next /\ UNCHANGED <<filter_vars, number_vars, cond_vars>>
  \/ FiltersNext /\ UNCHANGED <<vars, number_vars, cond_vars>>
  \/ prog = "numbers" /\ NumbersNext /\ UNCHANGED <<vars, filter_vars, cond_vars>>
  \/ prog = "threads" /\ CondNext /\ UNCHANGED <<vars, filter_vars, number_vars>>

UserSpec == UserInit /\ [][UserNext]_user_vars

a == "a"
b == "b"
nl == "nl"
sp == "sp"

\* One file ends in an unfinished line, one is longer than a buffer, and one
\* has a line that is.
TheFiles ==
  "one" :> <<a, b, nl, nl, b, a>>
  @@ "two" :> <<b, sp, a, nl, b, sp, a, nl, nl>>
  @@ "empty" :> <<>>
  @@ "long" :> <<a, nl, b, b, b, b, b, b, nl, a, nl>>

TheArgs == {<<>>, <<"one", "two">>, <<"two", "one">>, <<"empty", "one">>,
            <<"long", "nofile", "one">>}

TheLines == {<<nl>>, <<a, nl>>, <<a, b, nl>>, <<sp, b, nl>>,
             <<a, sp, b, b, a, nl>>, <<b, b, a, b, a, sp, nl>>}

\* Anchors, stars, and stars that are plain characters.
ThePatterns == {<<>>, <<a, ".", "*", a>>, <<"^", b>>, <<b, "$">>, <<a, b, "*", "$">>,
                <<"^", "$">>, <<"*", a>>, <<"$", "*", a>>, <<a, "*", "*">>}

\* One conversion between a string and a literal: each flag, the width and the
\* precision written in the format or given as an argument, longer and shorter
\* than the number.
TheFlags == {<<>>, <<"-">>, <<"0">>, <<"+">>, <<" ">>, <<"#">>, <<"#", "0">>, <<"-", "0", "+">>}
Width == {[fmt |-> <<>>, args |-> <<>>, is |-> -1], [fmt |-> <<"5">>, args |-> <<>>, is |-> 5],
          [fmt |-> <<"*">>, args |-> <<-7>>, is |-> 7]}
Precision == {[fmt |-> <<>>, args |-> <<>>, is |-> -1], [fmt |-> <<".", "4">>, args |-> <<>>, is |-> 4],
              [fmt |-> <<".", "*">>, args |-> <<-1>>, is |-> 0]}
Longs == {LONG_MIN, LONG_MIN + 1, -100, -10, -1, 0, 1, 7, 9, 64, LONG_MAX}

Call(flags, w, p, conv, n) ==
  [fmt |-> <<"%", "2", "s", "%">> \o flags \o w.fmt \o p.fmt \o <<"l", conv, "%", "%">>,
   args |-> <<<<>>>> \o w.args \o p.args \o <<n>>,
   num |-> n, extra |-> 3,
   want |-> [flags |-> ToSet(flags), width |-> w.is, precision |-> p.is, conv |-> conv]]

TheCalls == {Call(f, w, p, c, n) : f \in TheFlags, w \in Width, p \in Precision,
                                   c \in {"d", "u", "o", "x", "X", "p"}, n \in Longs}

\* On both sides of the limits of a long of eight bits.
TheTexts == {s \o p \o d : s \in {<<>>, <<"-">>, <<" ", "+">>},
                           p \in {<<>>, <<"0">>, <<"0", "x">>},
                           d \in UNION {[1 .. n -> {"1", "2", "5", "7", "8", "f"}] : n \in 1 .. 3}}
=============================================================================
