------------------------------- MODULE Shell -------------------------------
(***************************************************************************)
(* The shell, user/src/phase6/sh.c: the line input of the user library     *)
(* (user/ulib/scanf.c), the parser, and the processes that run a command.  *)
(*                                                                         *)
(* A line is a sequence of characters and a pointer into it is an index;   *)
(* the NUL behind the last character has index Len(b) + 1.  The pointer    *)
(* that a parsing function leaves is NULL after a panic, with which the    *)
(* process ends.                                                           *)
(*                                                                         *)
(* An action is what a process does up to its next system call that other  *)
(* processes can notice.  The calls do what kernel/src/syscall.c says; in  *)
(* particular a process that exits leaves its children without parent, and *)
(* a zombie without parent keeps its PCB for ever.                         *)
(*                                                                         *)
(* As in Proc, a definition that adds a suffix to the name of the one that *)
(* follows it is a mutant of that definition.                              *)
(***************************************************************************)
EXTENDS Integers, Sequences, SequencesExt, FiniteSets, FiniteSetsExt

CONSTANTS
  NPROC,      \* PCBs for user processes
  NBUF,       \* sizeof(buf): the longest command and its NUL
  MAXARGS,    \* size of argv
  MAX_UFILE,  \* file descriptors of a process
  Lines,      \* what may be typed, newline included
  FirstLines, \* what may be typed while the machine is as it was at boot
  Programs,   \* <<directory, name>> of every program
  Stored,     \* <<directory, name>> of every file at the start
  Subdir      \* Subdir[<<directory, name>>]: where chdir leads

NUL == "NUL"
whitespace == {" ", "\n"}
symbols == {"<", "|", ">", "&", ";", "(", ")"}
Root == "/"
Pids == 1 .. NPROC
sh == 1                        \* the process that runs main
NULL == 0

ASSUME ShellAssumption ==
  /\ NPROC \in Nat \ {0} /\ NBUF \in Nat \ {0} /\ MAXARGS \in Nat \ {0}
  /\ MAX_UFILE \in Nat /\ MAX_UFILE >= 3
  /\ \A l \in Lines \cup FirstLines : Last(l) = "\n"

-----------------------------------------------------------------------------
(***************************************************************************)
(* Tokens.                                                                 *)
(***************************************************************************)

at(b, s) == IF s \in DOMAIN b THEN b[s] ELSE NUL

\* The first position from s on whose character is not in C, or the end.
span(b, s, C) == Min({k \in s .. Len(b) + 1 : at(b, k) \notin C})
skip(b, s) == span(b, s, whitespace)

letters(b) == ToSet(b) \ (whitespace \cup symbols)

\* Behind the token that starts at q: a word, one symbol, or >>.
token_end(b, q) ==
  IF at(b, q) \notin symbols THEN span(b, q, letters(b))
  ELSE IF at(b, q) = ">" /\ at(b, q + 1) = ">" THEN q + 2 ELSE q + 1

token_kind(b, q, eq) ==
  IF q > Len(b) THEN NUL
  ELSE IF b[q] \notin symbols THEN "a" ELSE IF eq = q + 2 THEN "+" ELSE b[q]

token_at(b, q, eq) ==
  [tok |-> token_kind(b, q, eq), q |-> q, eq |-> eq, ps |-> skip(b, eq)]

\* The token behind s, where it starts and ends, and where the next one is.
gettoken(b, s) == token_at(b, skip(b, s), token_end(b, skip(b, s)))

peek(b, s, toks) == at(b, skip(b, s)) \in toks

-----------------------------------------------------------------------------
(***************************************************************************)
(* The command tree.  A word is known by where it starts and ends.         *)
(***************************************************************************)

execcmd(argv) == [type |-> "EXEC", argv |-> argv]
redircmd(cmd, r) == [type |-> "REDIR", cmd |-> cmd, file |-> r.file,
                     fd |-> r.fd, mode |-> r.mode]
pipecmd(l, r) == [type |-> "PIPE", left |-> l, right |-> r]
listcmd(l, r) == [type |-> "LIST", left |-> l, right |-> r]
backcmd(cmd) == [type |-> "BACK", cmd |-> cmd]

word(t) == [q |-> t.q, eq |-> t.eq]

\* What parseredirs passes to redircmd; mode stands for mode and whence.
redirection(tok, w) ==
  [file |-> w, fd |-> IF tok = "<" THEN 0 ELSE 1,
   mode |-> CASE tok = "<" -> "read" [] tok = ">" -> "trunc" [] tok = "+" -> "append"]

found(s, cmd) == [ps |-> s, cmd |-> cmd]
nocmd == [type |-> "none"]
panicked == [ps |-> NULL, cmd |-> nocmd]

RECURSIVE parseredirs(_, _, _), parseargs(_, _, _), parseexec(_, _),
          parsepipe(_, _), parsebacks(_, _), parseline(_, _), ends(_),
          strings(_, _)

redirect(cmd, rs) == FoldLeft(redircmd, cmd, rs)

\* The redirections at s, behind those of rs; the last one is outermost.
redir_file(b, tok, f, rs) ==
  IF f.tok # "a" THEN [ps |-> NULL, rs |-> rs]
  ELSE parseredirs(b, f.ps, Append(rs, redirection(tok, word(f))))
parseredirs(b, s, rs) ==
  IF s = NULL \/ ~peek(b, s, {"<", ">"}) THEN [ps |-> s, rs |-> rs]
  ELSE redir_file(b, gettoken(b, s).tok, gettoken(b, gettoken(b, s).ps), rs)

\* The loop of parseexec: the word t, with the redirections behind it.
next_arg(b, r, argv, t) ==
  IF t.tok \in {"|", ")", "&", ";", NUL} THEN found(r.ps, redirect(execcmd(argv), r.rs))
  ELSE IF t.tok # "a" \/ Len(argv) + 1 >= MAXARGS THEN panicked
  ELSE parseargs(b, parseredirs(b, t.ps, r.rs), Append(argv, word(t)))
parseargs(b, r, argv) ==
  IF r.ps = NULL THEN panicked ELSE next_arg(b, r, argv, gettoken(b, r.ps))

\* parseblock behind its parseline: the parenthesis and the redirections of r.
block_redirs(cmd, n) ==
  IF n.ps = NULL THEN panicked ELSE found(n.ps, redirect(cmd, n.rs))
close_block(b, r) ==
  IF r.ps = NULL \/ ~peek(b, r.ps, {")"}) THEN panicked
  ELSE block_redirs(r.cmd, parseredirs(b, gettoken(b, r.ps).ps, <<>>))

parseexec(b, s) ==
  IF peek(b, s, {"("})
  THEN close_block(b, parseline(b, gettoken(b, s).ps))
  ELSE parseargs(b, parseredirs(b, s, <<>>), <<>>)

\* Whether the command of r is followed by sym, and the two sides of sym.
follows(b, r, sym) == r.ps # NULL /\ peek(b, r.ps, {sym})
join(l, r, op(_, _)) ==
  IF r.ps = NULL THEN panicked ELSE found(r.ps, op(l, r.cmd))

pipe_rest(b, r) ==
  IF follows(b, r, "|") THEN join(r.cmd, parsepipe(b, gettoken(b, r.ps).ps), pipecmd)
  ELSE r
parsepipe(b, s) == pipe_rest(b, parseexec(b, s))

\* The first loop of parseline, and the list behind it.
parsebacks(b, r) ==
  IF follows(b, r, "&") THEN parsebacks(b, found(gettoken(b, r.ps).ps, backcmd(r.cmd)))
  ELSE r
list_rest(b, r) ==
  IF follows(b, r, ";") THEN join(r.cmd, parseline(b, gettoken(b, r.ps).ps), listcmd)
  ELSE r
parseline(b, s) == list_rest(b, parsebacks(b, parsepipe(b, s)))

\* Where nulterminate writes a NUL.
ends_argv(cmd) ==
  CASE cmd.type = "EXEC"  -> {w.eq : w \in ToSet(cmd.argv)}
    [] cmd.type \in {"REDIR", "BACK"} -> ends(cmd.cmd)
    [] cmd.type \in {"LIST", "PIPE"} -> ends(cmd.left) \cup ends(cmd.right)
ends(cmd) ==
  CASE cmd.type = "EXEC"  -> {w.eq : w \in ToSet(cmd.argv)}
    [] cmd.type = "REDIR" -> ends(cmd.cmd) \cup {cmd.file.eq}
    [] cmd.type = "BACK"  -> ends(cmd.cmd)
    [] cmd.type \in {"LIST", "PIPE"} -> ends(cmd.left) \cup ends(cmd.right)

nulterminate(b, cmd) == [k \in DOMAIN b |-> IF k \in ends(cmd) THEN NUL ELSE b[k]]

\* The C string that a pointer to w reads as, and a tree with its strings.
string(b, w) == SubSeq(b, w.q, span(b, w.q, ToSet(b) \ {NUL}) - 1)
strings(b, cmd) ==
  CASE cmd.type = "EXEC"  ->
         [cmd EXCEPT !.argv = [i \in DOMAIN @ |-> string(b, @[i])]]
    [] cmd.type = "REDIR" ->
         [cmd EXCEPT !.cmd = strings(b, @), !.file = string(b, @)]
    [] cmd.type = "BACK"  -> [cmd EXCEPT !.cmd = strings(b, @)]
    [] cmd.type \in {"LIST", "PIPE"} ->
         [cmd EXCEPT !.left = strings(b, @), !.right = strings(b, @)]

\* Leftovers are a syntax error.
finish(b, r) ==
  IF r.ps = NULL THEN panicked
  ELSE IF skip(b, r.ps) # Len(b) + 1 THEN panicked
  ELSE found(r.ps, strings(nulterminate(b, r.cmd), r.cmd))

parsecmd(b) == finish(b, parseline(b, 1))

\* The results for all that getline can return, as a table.
parsed ==
  [b \in UNION {{SubSeq(l, i, j) : i, j \in DOMAIN l} : l \in Lines \cup FirstLines}
     |-> parsecmd(b)]

-----------------------------------------------------------------------------
(***************************************************************************)
(* Processes.                                                              *)
(***************************************************************************)

VARIABLES
  proc,    \* the PCBs, and the memory of the program each one runs
  pend,    \* what the shell's stdio buffer still holds
  files,   \* the files that exist
  halted   \* the kernel has stopped

vars == <<proc, pend, files, halted>>

none == <<>>
console == <<Root, <<"d", "e", "v">>>>
closed == [file |-> none, mode |-> "closed"]
opened(f, mode) == [file |-> f, mode |-> mode]

\* line is buf, cmd the argument of runcmd.  job is not in the code: the process
\* that a BACK command forked and that this process works for, or sh.
unused == [pc |-> "unused", parent |-> NULL, line |-> none, cmd |-> nocmd,
           fds |-> none, cwd |-> Root, job |-> NULL]

\* The asserted results of main's open and two dups: descriptors 0, 1 and 2.
first_fds ==
  [i \in 0 .. MAX_UFILE - 1 |-> IF i <= 2 THEN opened(console, "rdwr") ELSE closed]

Init ==
  /\ proc = [p \in Pids |->
               IF p = sh THEN [unused EXCEPT !.pc = "prompt", !.fds = first_fds,
                                             !.job = sh]
               ELSE unused]
  /\ pend = <<>>
  /\ files = Stored
  /\ halted = FALSE

runs(p, pc) == ~halted /\ proc[p].pc = pc
goto(p, pc) == [proc EXCEPT ![p].pc = pc]

free_pcbs == {p \in Pids : proc[p].pc = "unused"}

\* fork1: the child goes on as c, the parent at pc; without a PCB the parent
\* panics, be it the shell itself.
fork1(p, c, pc) ==
  IF free_pcbs = {} THEN goto(p, "exit")
  ELSE LET q == Min(free_pcbs)
       IN [proc EXCEPT ![q] = [c EXCEPT !.parent = p,
                                        !.job = IF @ = NULL THEN q ELSE @],
                       ![p].pc = pc]

children(p) == {c \in Pids : proc[c].pc # "unused" /\ proc[c].parent = p}
zombies(p) == {c \in children(p) : proc[c].pc = "zombie"}

\* wait(0): -1 at once without children, else when there is a zombie, the
\* first of which is freed.
waited_not(p) == TRUE
waited(p) == children(p) = {} \/ zombies(p) # {}
reap_not(p) == proc
reap(p) == IF zombies(p) = {} THEN proc
           ELSE [proc EXCEPT ![Min(zombies(p))] = unused]

\* exit, from a program, a panic, or the end of runcmd.
exit(p) ==
  /\ runs(p, "exit")
  /\ proc' = [q \in Pids |->
                IF q = p THEN [unused EXCEPT !.pc = "zombie",
                                 !.parent = proc[p].parent, !.job = proc[p].job]
                ELSE IF q \in children(p) THEN [proc[q] EXCEPT !.parent = NULL]
                ELSE proc[q]]
  /\ UNCHANGED <<pend, files, halted>>

\* The end of a program, which is not the shell's doing.
program_ends(p) ==
  /\ runs(p, "prog")
  /\ proc' = goto(p, "exit")
  /\ UNCHANGED <<pend, files, halted>>

-----------------------------------------------------------------------------
(***************************************************************************)
(* main.                                                                   *)
(***************************************************************************)

\* gets: up to NBUF - 1 characters, up to the newline; the rest stays in the
\* buffer of the library.
getline_len(chars) == Min({NBUF - 1, span(chars, 1, ToSet(chars) \ {"\n"})})

is_cd(b) == Len(b) >= 3 /\ SubSeq(b, 1, 3) = <<"c", "d", " ">>

as_at_boot == /\ files = Stored /\ proc[sh].cwd = Root
              /\ \A p \in Pids \ {sh} : proc[p].pc = "unused"
keyboard == Lines \cup (IF as_at_boot THEN FirstLines ELSE {})

\* The console hands out whole lines and no end of file.  refill is called
\* when all that was read is used up.
getcmd ==
  /\ runs(sh, "prompt")
  /\ \E chars \in IF pend = <<>> THEN keyboard ELSE {pend} :
       LET b == SubSeq(chars, 1, getline_len(chars))
       IN /\ proc' = [proc EXCEPT ![sh].line = b,
                                  ![sh].pc = IF is_cd(b) THEN "cd" ELSE "fork"]
          /\ pend' = SubSeq(chars, Len(b) + 1, Len(chars))
  /\ UNCHANGED <<files, halted>>

\* The last character is cut off, newline or not.
cd_path(b) == SubSeq(b, 4, Len(b) - 1)

chdir ==
  /\ runs(sh, "cd")
  /\ LET to == <<proc[sh].cwd, cd_path(proc[sh].line)>>
     IN proc' = [proc EXCEPT ![sh].cwd = IF to \in DOMAIN Subdir THEN Subdir[to] ELSE @,
                             ![sh].line = none, ![sh].pc = "prompt"]
  /\ UNCHANGED <<pend, files, halted>>

main_fork ==
  /\ runs(sh, "fork")
  /\ proc' = fork1(sh, [proc[sh] EXCEPT !.pc = "parse"], "wait")
  /\ UNCHANGED <<pend, files, halted>>

main_wait ==
  /\ runs(sh, "wait")
  /\ waited(sh)
  /\ proc' = [reap(sh) EXCEPT ![sh].pc = "prompt", ![sh].line = none]
  /\ UNCHANGED <<pend, files, halted>>

-----------------------------------------------------------------------------
(***************************************************************************)
(* runcmd.                                                                 *)
(***************************************************************************)

parse(p) ==
  /\ runs(p, "parse")
  /\ \E r \in {parsed[proc[p].line]} :
       proc' = [proc EXCEPT ![p].cmd = r.cmd,
                            ![p].pc = IF r.ps = NULL THEN "exit" ELSE "run"]
  /\ UNCHANGED <<pend, files, halted>>

runcmd(p, type) == runs(p, "run") /\ proc[p].cmd.type = type

\* Where a process is that cannot exec its program.
exec_failed_again == "run"
exec_failed == "exit"

run_exec(p) ==
  /\ runcmd(p, "EXEC")
  /\ LET argv == proc[p].cmd.argv
     IN IF argv = <<>> THEN proc' = goto(p, "exit")
        ELSE IF <<proc[p].cwd, argv[1]>> \in Programs
        THEN proc' = goto(p, "prog")
        ELSE proc' = goto(p, exec_failed)
  /\ UNCHANGED <<pend, files, halted>>

\* close: the descriptor that open is to find free.
close_no(fds, fd) == fds
close(fds, fd) == [fds EXCEPT ![fd] = closed]

\* open: the lowest free descriptor.
open(fds, f, mode) ==
  [fds EXCEPT ![Min({i \in DOMAIN fds : fds[i] = closed})] = opened(f, mode)]

\* close, open and lseek are calls of their own, but nobody else sees the
\* descriptors, or the offset of a file just opened.
run_redir(p) ==
  /\ runcmd(p, "REDIR")
  /\ LET c == proc[p].cmd
         f == <<proc[p].cwd, c.file>>
         fds == close(proc[p].fds, c.fd)
     IN IF c.mode = "read" /\ f \notin files
        THEN /\ proc' = [proc EXCEPT ![p].fds = fds, ![p].pc = "exit"]
             /\ UNCHANGED files
        ELSE /\ proc' = [proc EXCEPT ![p].fds = open(fds, f, c.mode), ![p].cmd = c.cmd]
             /\ files' = files \cup {f}
  /\ UNCHANGED <<pend, halted>>

run_list(p) ==
  /\ runcmd(p, "LIST")
  /\ proc' = fork1(p, [proc[p] EXCEPT !.cmd = @.left], "left")
  /\ UNCHANGED <<pend, files, halted>>

list_wait(p) ==
  /\ runs(p, "left")
  /\ waited(p)
  /\ proc' = [reap(p) EXCEPT ![p].pc = "run", ![p].cmd = @.right]
  /\ UNCHANGED <<pend, files, halted>>

\* The child is on its own: the parent exits and does not wait.
run_back(p) ==
  /\ runcmd(p, "BACK")
  /\ proc' = fork1(p, [proc[p] EXCEPT !.cmd = @.cmd, !.job = NULL], "exit")
  /\ UNCHANGED <<pend, files, halted>>

\* pipe is a TODO() of the kernel: it panics.
run_pipe(p) ==
  /\ runcmd(p, "PIPE")
  /\ halted' = TRUE
  /\ UNCHANGED <<proc, pend, files>>

\* Nothing runs any more: the kernel has panicked, or the shell has exited.
stopped ==
  /\ halted \/ \A p \in Pids : proc[p].pc \in {"unused", "zombie"}
  /\ UNCHANGED vars

step(p) ==
  \/ parse(p) \/ run_exec(p) \/ run_redir(p) \/ run_list(p) \/ list_wait(p)
  \/ run_back(p) \/ run_pipe(p) \/ program_ends(p) \/ exit(p)

main == chdir \/ main_fork \/ main_wait

Next == getcmd \/ chdir \/ main_fork \/ main_wait
          \/ (\E p \in Pids : step(p)) \/ stopped

\* Every process gets the CPU (property ReadyRuns of Serial), and programs end.
\* Nobody has to type.
Fairness == WF_vars(main) /\ \A p \in Pids : WF_vars(step(p))

Spec == Init /\ [][Next]_vars /\ Fairness

-----------------------------------------------------------------------------
(***************************************************************************)
(* What a line means: the grammar, by splitting the tokens of a line at    *)
(* the operators that bind least, without a parser.                        *)
(***************************************************************************)

\* The first > of each pair in a row of them, every other symbol, and every
\* letter that does not continue a word starts a token.
starts(b) ==
  {k \in DOMAIN b :
     /\ b[k] \notin whitespace
     /\ IF b[k] = ">"
        THEN (k - Min({j \in 1 .. k : \A i \in j .. k : b[i] = ">"})) % 2 = 0
        ELSE b[k] \in symbols \/ k = 1 \/ b[k - 1] \in whitespace \cup symbols}

token(b, k) ==
  IF b[k] \in symbols
  THEN [t |-> IF b[k] = ">" /\ at(b, k + 1) = ">" THEN "+" ELSE b[k], w |-> none]
  ELSE [t |-> "a", w |-> SubSeq(b, k, Min({j \in k + 1 .. Len(b) + 1 :
                           at(b, j) \in whitespace \cup symbols \cup {NUL}}) - 1)]

\* f of the elements of S, in their order.
pick(S, f(_)) ==
  [i \in 1 .. Cardinality(S) |->
     f(CHOOSE x \in S : Cardinality({y \in S : y <= x}) = i)]

tokens(b) == pick(starts(b), LAMBDA k : token(b, k))

depth(ts, i) == Cardinality({j \in 1 .. i - 1 : ts[j].t = "("})
                  - Cardinality({j \in 1 .. i - 1 : ts[j].t = ")"})
outer(ts, sym) == {i \in DOMAIN ts : ts[i].t = sym /\ depth(ts, i) = 0}
before(ts, i) == SubSeq(ts, 1, i - 1)
behind(ts, i) == SubSeq(ts, i + 1, Len(ts))

redir_at(ts) == {i \in DOMAIN ts : ts[i].t \in {"<", ">", "+"}}
words_at(ts) == {i \in DOMAIN ts : ts[i].t = "a" /\ i - 1 \notin redir_at(ts)}

\* Words and redirections only, and each redirection has its file.
plain(ts) == /\ \A i \in DOMAIN ts : ts[i].t \in {"a", "<", ">", "+"}
             /\ \A i \in redir_at(ts) : i + 1 \in DOMAIN ts /\ ts[i + 1].t = "a"

redirected(c, ts) ==
  redirect(c, pick(redir_at(ts), LAMBDA i : redirection(ts[i].t, ts[i + 1].w)))

\* The set of the trees of ts: one, or none if ts is not a command.
RECURSIVE line_of(_), back_of(_), pipe_of(_), simple_of(_), programs_of(_)
line_of(ts) ==
  IF outer(ts, ";") = {} THEN back_of(ts)
  ELSE LET i == Min(outer(ts, ";"))
       IN {listcmd(l, r) : l \in back_of(before(ts, i)), r \in line_of(behind(ts, i))}
back_of(ts) ==
  IF ts # <<>> /\ Last(ts).t = "&" THEN {backcmd(c) : c \in back_of(Front(ts))}
  ELSE pipe_of(ts)
pipe_of(ts) ==
  IF outer(ts, "|") = {} THEN simple_of(ts)
  ELSE LET i == Min(outer(ts, "|"))
       IN {pipecmd(l, r) : l \in simple_of(before(ts, i)), r \in pipe_of(behind(ts, i))}
simple_of(ts) ==
  IF ts # <<>> /\ ts[1].t = "("
  THEN UNION {LET rest == behind(ts, i)
              IN IF plain(rest) /\ words_at(rest) = {}
                 THEN {redirected(c, rest) : c \in line_of(SubSeq(ts, 2, i - 1))}
                 ELSE {} :
                i \in {j \in DOMAIN ts : ts[j].t = ")" /\ depth(ts, j) = 1}}
  ELSE IF plain(ts) /\ Cardinality(words_at(ts)) < MAXARGS
  THEN {redirected(execcmd(pick(words_at(ts), LAMBDA i : ts[i].w)), ts)}
  ELSE {}

meaning(b) == line_of(tokens(b))

\* The programs of a tree with their input and output, none where they take
\* over what the shell has: the redirection next to the program wins.
programs_of(c) ==
  CASE c.type = "EXEC"  -> {[argv |-> c.argv, io |-> <<closed, closed>>]}
    [] c.type = "REDIR" ->
         {[g EXCEPT !.io[c.fd + 1] = IF @ = closed THEN opened(c.file, c.mode) ELSE @]
            : g \in programs_of(c.cmd)}
    [] c.type = "BACK"  -> programs_of(c.cmd)
    [] c.type \in {"LIST", "PIPE"} -> programs_of(c.left) \cup programs_of(c.right)

-----------------------------------------------------------------------------
(***************************************************************************)
(* Properties.                                                             *)
(***************************************************************************)

\* The recursive descent through one buffer, with its NULs written afterwards,
\* finds the command that the grammar gives to the line, words and files
\* included, and refuses exactly the lines that are no command.
ParseIsMeaning ==
  \A p \in Pids : proc[p].pc = "parse" =>
    {r.cmd : r \in {x \in {parsed[proc[p].line]} : x.ps # NULL}}
      = meaning(proc[p].line)

\* A program that runs is one of the line it was typed in, in the directory
\* the shell was in, and descriptors 0 and 1 are the files of its redirections
\* or the console, 2 the console, with no other one open.
expected_fds(g, dir) ==
  [i \in 0 .. MAX_UFILE - 1 |->
     IF i <= 1 /\ g.io[i + 1] # closed
     THEN opened(<<dir, g.io[i + 1].file>>, g.io[i + 1].mode)
     ELSE first_fds[i]]
RunsTheLine ==
  \A p \in Pids : proc[p].pc = "prog" =>
    \E c \in meaning(proc[p].line) : \E g \in programs_of(c) :
      /\ proc[p].cmd.argv = g.argv
      /\ proc[p].fds = expected_fds(g, proc[p].cwd)
      /\ \A i \in 0 .. 1 : g.io[i + 1] # closed => proc[p].fds[i].file \in files

\* What is not in the background happens one after the other: of the shell and
\* the processes of a command, and of those of a background command, at most
\* one is not waiting for another.  In particular nothing is read while a
\* command runs, and the right side of a list starts when the left is done.
OneActivePerJob ==
  \A j \in Pids :
    Cardinality({p \in Pids : /\ proc[p].job = j
                              /\ proc[p].pc \notin {"unused", "zombie", "wait", "left"}})
      <= 1

\* A command costs no PCB unless it is in the background: at the prompt all of
\* them are back, and a zombie that nobody will reap was forked by a BACK (or
\* is the shell).
OnlyBackgroundLeaks ==
  /\ proc[sh].pc = "prompt" => \A p \in Pids \ {sh} : proc[p].job # sh
  /\ \A p \in Pids : proc[p].pc = "zombie" /\ proc[p].parent = NULL => proc[p].job = p

\* The shell comes back to its prompt from every line, or ends because there
\* was no PCB for its child (fork1), or the kernel panics in pipe.
PromptReturns ==
  proc[sh].pc \in {"fork", "wait", "cd"}
    ~> (proc[sh].pc \in {"prompt", "zombie"} \/ halted)
=============================================================================
