------------------------------- MODULE Shell -------------------------------
(***************************************************************************)
(* The shell sh.c at work: main() and the processes of runcmd(), with      *)
(* their descriptors and pipes, as fork, exit, wait, pipe, dup, close and  *)
(* open of the kernel serve them.  Calls that change only the caller's own *)
(* descriptors are done in one step with the next call.                    *)
(***************************************************************************)
EXTENDS ShellParser, FiniteSets, FiniteSetsExt

CONSTANTS
  NPROC,      (* processes; number 1 is the shell                          *)
  NOFILE,     (* descriptors of a process                                  *)
  Lines,      (* the lines that may be typed first, second, and so on      *)
  Programs,   (* names that exec() finds                                   *)
  Files,      (* names that open() finds, or can create                    *)
  CallsFail   (* whether fork() and pipe() may fail                        *)

ASSUME ShellAssumption ==
  /\ NPROC \in Nat \ {0} /\ NOFILE \in Nat \ {0, 1, 2, 3, 4}
  /\ MAXARGS \in Nat \ {0} /\ Len(Lines) \in Nat
  /\ CallsFail \in BOOLEAN

VARIABLES
  pc,       (* where a process is                                          *)
  cmd,      (* the command it runs                                         *)
  ofile,    (* its open files                                              *)
  parent,   (* 0 is init                                                   *)
  pfd,      (* p[2] of runcmd()                                            *)
  jobs,     (* the lines typed, each with its tree                         *)
  job,      (* history: which of them a process belongs to ...             *)
  path,     (* ... and the way through its tree to the process's command   *)
  failed    (* history: lines during which a fork() failed                 *)

vars == <<pc, cmd, ofile, parent, pfd, jobs, job, path, failed>>

Procs == 1 .. NPROC
shell == 1
Fds == 0 .. NOFILE - 1
NoCmd == execcmd(<< >>)
None == [kind |-> "none"]
Console == [kind |-> "console"]
Std == [fd \in Fds |-> IF fd <= 2 THEN Console ELSE None]

(* The shell as init starts it, after the loop that opens the console. *)
Init ==
  /\ pc = [p \in Procs |-> IF p = shell THEN "prompt" ELSE "unused"]
  /\ cmd = [p \in Procs |-> NoCmd]
  /\ ofile = [p \in Procs |-> IF p = shell THEN Std ELSE [fd \in Fds |-> None]]
  /\ parent = [p \in Procs |-> 0]
  /\ pfd = [p \in Procs |-> <<0, 0>>]
  /\ jobs = << >>
  /\ job = [p \in Procs |-> 0]
  /\ path = [p \in Procs |-> << >>]
  /\ failed = {}

-----------------------------------------------------------------------------
(* Descriptors: tables before and after a call. *)
fdalloc(t) == Min({fd \in Fds : t[fd] = None})
close(t, fd) == [t EXCEPT ![fd] = None]
open(t, file) == [t EXCEPT ![fdalloc(t)] = file]
dup(t, fd) == open(t, t[fd])

Pipe(p, end) == [kind |-> end, job |-> job[p], at |-> path[p]]

-----------------------------------------------------------------------------
Unused == {q \in Procs : pc[q] = "unused"}
Goes(p, where) == pc' = [pc EXCEPT ![p] = where]

(* The line that p works for. *)
Job(p) == IF p = shell THEN Len(jobs) ELSE job[p]

(* fork(): the child has the parent's files, and begins at `start' with c. *)
fork(p, next, start, c, step) ==
  LET q == Min(Unused)
  IN  /\ Unused # {}
      /\ pc' = [pc EXCEPT ![p] = next, ![q] = start]
      /\ cmd' = [cmd EXCEPT ![q] = c]
      /\ ofile' = [ofile EXCEPT ![q] = ofile[p]]
      /\ parent' = [parent EXCEPT ![q] = p]
      /\ pfd' = [pfd EXCEPT ![q] = pfd[p]]
      /\ job' = [job EXCEPT ![q] = Job(p)]
      /\ path' = [path EXCEPT ![q] = path[p] \o step]
      /\ UNCHANGED <<jobs, failed>>

(***************************************************************************)
(* exit(): the files are closed, children go to init, which waits for them *)
(* at once; a process whose parent lives stays as a zombie.  init starts   *)
(* another shell when the shell exits.                                     *)
(***************************************************************************)
exit(p) ==
  LET gone(q) == parent[q] = p /\ pc[q] = "zombie"
      orphan == parent[p] = 0
  IN  /\ pc' = [q \in Procs |->
                  IF q = p THEN (IF p = shell THEN "prompt"
                                 ELSE IF orphan THEN "unused" ELSE "zombie")
                  ELSE IF gone(q) THEN "unused" ELSE pc[q]]
      /\ parent' = [q \in Procs |-> IF parent[q] = p THEN 0 ELSE parent[q]]
      /\ ofile' = [ofile EXCEPT ![p] = IF p = shell THEN Std ELSE [fd \in Fds |-> None]]
      /\ cmd' = [cmd EXCEPT ![p] = NoCmd]
      /\ pfd' = [pfd EXCEPT ![p] = <<0, 0>>]
      /\ job' = [q \in Procs |-> IF pc'[q] = "unused" THEN 0 ELSE job[q]]
      /\ path' = [q \in Procs |-> IF pc'[q] = "unused" THEN << >> ELSE path[q]]
      /\ UNCHANGED jobs

(* fork1() panics when fork() fails. *)
fork1(p, next, start, c, step) ==
  \/ fork(p, next, start, c, step)
  \/ /\ CallsFail \/ Unused = {}
     /\ exit(p)
     /\ failed' = failed \cup {Job(p)}

(* wait(): one zombie child is reaped, or there is no child. *)
wait(p, next) ==
  LET kids == {q \in Procs : parent[q] = p /\ pc[q] # "unused"}
      zombies == {q \in kids : pc[q] = "zombie"}
  IN  /\ \/ /\ zombies # {}
            /\ pc' = [pc EXCEPT ![p] = next, ![Min(zombies)] = "unused"]
            /\ parent' = [parent EXCEPT ![Min(zombies)] = 0]
            /\ job' = [job EXCEPT ![Min(zombies)] = 0]
            /\ path' = [path EXCEPT ![Min(zombies)] = << >>]
         \/ /\ kids = {}
            /\ Goes(p, next)
            /\ UNCHANGED <<parent, job, path>>
      /\ UNCHANGED <<cmd, ofile, pfd, jobs, failed>>

-----------------------------------------------------------------------------
(***************************************************************************)
(* main(): a line is read, a child parses and runs it, the shell waits.    *)
(* The shell changes directory itself, and exits at the end of its input   *)
(* (an empty line), when init starts another.                              *)
(***************************************************************************)
getcmd(line) ==
  /\ pc[shell] = "prompt"
  /\ Len(jobs) < Len(Lines)
  /\ line \in Lines[Len(jobs) + 1]
  /\ jobs' = Append(jobs, [line |-> line, tree |-> parsecmd(line)])
  /\ Goes(shell, IF line = << >> \/ IsPrefix(<<"c", "d", " ">>, line)
                    THEN "prompt" ELSE "fork")
  /\ UNCHANGED <<cmd, ofile, parent, pfd, job, path, failed>>

main_fork == pc[shell] = "fork" /\ fork1(shell, "wait", "parse", NoCmd, << >>)

main_wait == pc[shell] = "wait" /\ wait(shell, "prompt")

(* The child has a copy of the line, and runs what parsecmd() makes of it. *)
parse(p) ==
  LET tree == jobs[job[p]].tree
  IN  /\ pc[p] = "parse"
      /\ IF tree.type = "PANIC"
           THEN exit(p) /\ UNCHANGED failed
           ELSE /\ cmd' = [cmd EXCEPT ![p] = tree]
                /\ Goes(p, "run")
                /\ UNCHANGED <<ofile, parent, pfd, jobs, job, path, failed>>

Runs(p, type) == pc[p] = "run" /\ cmd[p].type = type

run_exec(p) ==
  /\ Runs(p, "EXEC")
  /\ IF cmd[p].argv # << >> /\ Head(cmd[p].argv) \in Programs
       THEN Goes(p, "program") /\ UNCHANGED <<cmd, ofile, parent, pfd, jobs, job, path>>
       ELSE exit(p)
  /\ UNCHANGED failed

run_redir(p) ==
  LET c == cmd[p]
      t == close(ofile[p], c.fd)
  IN  /\ Runs(p, "REDIR")
      /\ IF c.file \in Files
           THEN /\ ofile' = [ofile EXCEPT ![p] = open(t, [kind |-> "file", name |-> c.file])]
                /\ cmd' = [cmd EXCEPT ![p] = c.cmd]
                /\ path' = [path EXCEPT ![p] = Append(@, "cmd")]
                /\ UNCHANGED <<pc, parent, pfd, jobs, job>>
           ELSE exit(p)
      /\ UNCHANGED failed

run_list(p) ==
  Runs(p, "LIST") /\ fork1(p, "list", "run", cmd[p].left, <<"left">>)

(* The shell's child goes on with the right side once the left side is done. *)
list_wait(p) ==
  pc[p] = "list" /\ wait(p, "right")

list_right(p) ==
  /\ pc[p] = "right"
  /\ cmd' = [cmd EXCEPT ![p] = @.right]
  /\ path' = [path EXCEPT ![p] = Append(@, "right")]
  /\ Goes(p, "run")
  /\ UNCHANGED <<ofile, parent, pfd, jobs, job, failed>>

(* pipe(p), or panic("pipe"). *)
run_pipe(p) ==
  LET r == fdalloc(ofile[p])
      t == open(ofile[p], Pipe(p, "read"))
      w == fdalloc(t)
  IN  /\ Runs(p, "PIPE")
      /\ \/ /\ ofile' = [ofile EXCEPT ![p] = open(t, Pipe(p, "write"))]
            /\ pfd' = [pfd EXCEPT ![p] = <<r, w>>]
            /\ Goes(p, "pipe")
            /\ UNCHANGED <<cmd, parent, jobs, job, path>>
         \/ CallsFail /\ exit(p)
      /\ UNCHANGED failed

pipe_left(p) ==
  pc[p] = "pipe" /\ fork1(p, "pipe2", "left end", cmd[p].left, <<"left">>)

pipe_right(p) ==
  pc[p] = "pipe2" /\ fork1(p, "pipe3", "right end", cmd[p].right, <<"right">>)

(* A child makes end `e' of the pipe its descriptor fd, and closes both ends. *)
Becomes_KeepsOther(p, fd, e) == close(dup(close(ofile[p], fd), e), e)
Becomes(p, fd, e) ==
  LET t == dup(close(ofile[p], fd), e)
  IN  close(close(t, pfd[p][1]), pfd[p][2])

ends(p) ==
  /\ pc[p] \in {"left end", "right end"}
  /\ ofile' = [ofile EXCEPT ![p] = IF pc[p] = "left end" THEN Becomes(p, 1, pfd[p][2])
                                                         ELSE Becomes(p, 0, pfd[p][1])]
  /\ Goes(p, "run")
  /\ UNCHANGED <<cmd, parent, pfd, jobs, job, path, failed>>

(* The parent's descriptors, before it waits twice. *)
Closed_KeepsWrite(p) == close(ofile[p], pfd[p][1])
Closed(p) == close(close(ofile[p], pfd[p][1]), pfd[p][2])

pipe_close(p) ==
  /\ pc[p] = "pipe3"
  /\ ofile' = [ofile EXCEPT ![p] = Closed(p)]
  /\ Goes(p, "wait1")
  /\ UNCHANGED <<cmd, parent, pfd, jobs, job, path, failed>>

(* The two waits of PIPE, and the exit after them. *)
pipe_wait_Once(p) == pc[p] = "wait1" /\ wait(p, "done")
pipe_wait(p) ==
  \/ pc[p] = "wait1" /\ wait(p, "wait2")
  \/ pc[p] = "wait2" /\ wait(p, "done")

(* BACK: the child runs the command, the parent is done. *)
run_back(p) ==
  Runs(p, "BACK") /\ fork1(p, "done", "run", cmd[p].cmd, <<"back">>)

done(p) == pc[p] = "done" /\ exit(p) /\ UNCHANGED failed

(***************************************************************************)
(* A program (external) reads its standard input to the end, and exits: a  *)
(* pipe ends only when nobody has the write end open any more.             *)
(***************************************************************************)
program(p) ==
  LET in == ofile[p][0]
  IN  /\ pc[p] = "program"
      /\ in.kind = "read" =>
           \A q \in Procs, fd \in Fds :
             ofile[q][fd].kind = "write" =>
               ofile[q][fd].job # in.job \/ ofile[q][fd].at # in.at
      /\ exit(p)
      /\ UNCHANGED failed

Step(p) ==
  \/ parse(p) \/ run_exec(p) \/ run_redir(p)
  \/ run_list(p) \/ list_wait(p) \/ list_right(p)
  \/ run_pipe(p) \/ pipe_left(p) \/ pipe_right(p) \/ ends(p) \/ pipe_close(p)
  \/ pipe_wait(p) \/ run_back(p) \/ done(p) \/ program(p)

Next ==
  \/ \E line \in UNION Range(Lines) : getcmd(line)
  \/ main_fork
  \/ main_wait
  \/ \E p \in Procs \ {shell} : Step(p)

(* Processes go on, unless they wait; nobody has to type. *)
Fairness ==
  /\ WF_vars(main_fork) /\ WF_vars(main_wait)
  /\ \A p \in Procs \ {shell} : WF_vars(Step(p))

Spec == Init /\ [][Next]_vars /\ Fairness

-----------------------------------------------------------------------------
(* The trees that the grammar has for each line. *)
Sentences == [line \in UNION Range(Lines) |-> Grammar(line)]

(***************************************************************************)
(* What the grammar says of the command at the end of a path: the command  *)
(* itself, and where its input and output are, given those of the tree.    *)
(***************************************************************************)
RECURSIVE Meaning(_, _, _, _, _)
Meaning(tree, way, i, j, io) ==
  LET at == SubSeq(way, 1, i - 1)
      pipe(end) == [kind |-> end, job |-> j, at |-> at]
      down(sub, new) == Meaning(sub, way, i + 1, j, new)
  IN  IF i > Len(way) THEN [cmd |-> tree, in |-> io[1], out |-> io[2]]
      ELSE CASE tree.type = "REDIR" ->
                  down(tree.cmd,
                       LET f == [kind |-> "file", name |-> tree.file]
                       IN  IF tree.fd = 0 THEN <<f, io[2]>> ELSE <<io[1], f>>)
             [] tree.type = "BACK" -> down(tree.cmd, io)
             [] tree.type = "LIST" -> down(tree[way[i]], io)
             [] tree.type = "PIPE" /\ way[i] = "left" ->
                  down(tree.left, <<io[1], pipe("write")>>)
             [] tree.type = "PIPE" /\ way[i] = "right" ->
                  down(tree.right, <<pipe("read"), io[2]>>)

(***************************************************************************)
(* runcmd() and the parser together: a program runs only if its line is a  *)
(* sentence of the grammar, and then with the arguments, the input and the *)
(* output the grammar gives it, and without any other descriptor: a pipe   *)
(* end left open would keep a reader from its end of file.                 *)
(***************************************************************************)
RightEnds ==
  \A p \in Procs : pc[p] = "program" =>
    \E tree \in Sentences[jobs[job[p]].line] :
      LET m == Meaning(tree, path[p], 1, job[p], <<Console, Console>>)
      IN  /\ cmd[p] = m.cmd
          /\ ofile[p] = [fd \in Fds |-> CASE fd = 0 -> m.in [] fd = 1 -> m.out
                                          [] fd = 2 -> Console [] OTHER -> None]

InBackground(p) == \E i \in 1 .. Len(path[p]) : path[p][i] = "back"

(***************************************************************************)
(* main() and the waits of runcmd(): when the shell prompts again, all of  *)
(* the line that was not put into the background has finished, pipelines   *)
(* inside lists and blocks included, unless a fork() failed.               *)
(***************************************************************************)
ForegroundDone ==
  pc[shell] \in {"prompt", "fork"} =>
    \A p \in Procs \ {shell} :
      pc[p] # "unused" => InBackground(p) \/ job[p] \in failed

(***************************************************************************)
(* Every line ends: no process of a pipeline waits for input that its own  *)
(* parent or its neighbour keeps from ending, also when a fork() fails.    *)
(***************************************************************************)
LineEnds == pc[shell] = "wait" ~> pc[shell] = "prompt"

=============================================================================
