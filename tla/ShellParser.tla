---------------------------- MODULE ShellParser ----------------------------
(***************************************************************************)
(* The parser of sh.c, a recursive descent over the characters of a line,  *)
(* and the grammar it is meant for.  A function that moves *ps returns the *)
(* rest of the line; panic() is the result Panic.  Words are kept as       *)
(* sequences of characters: nulterminate() and the pointers into the line  *)
(* are left out.                                                           *)
(***************************************************************************)
EXTENDS Integers, Sequences, SequencesExt

CONSTANT MAXARGS

whitespace == {" ", "\n"}
symbols == {"<", "|", ">", "&", ";", "(", ")"}

(* Constructors. *)
execcmd(argv) == [type |-> "EXEC", argv |-> argv]
redircmd(sub, file, mode, fd) ==
  [type |-> "REDIR", cmd |-> sub, file |-> file, mode |-> mode, fd |-> fd]
pipecmd(left, right) == [type |-> "PIPE", left |-> left, right |-> right]
listcmd(left, right) == [type |-> "LIST", left |-> left, right |-> right]
backcmd(sub) == [type |-> "BACK", cmd |-> sub]

Panic == [cmd |-> [type |-> "PANIC"], rest |-> << >>]
Bad(p) == p.cmd.type = "PANIC"

-----------------------------------------------------------------------------
From(s, i) == SubSeq(s, i, Len(s))

(* The position of the first character that is not one of cs. *)
Past(s, cs) ==
  CHOOSE i \in 1 .. Len(s) + 1 :
    /\ i <= Len(s) => s[i] \notin cs
    /\ \A j \in 1 .. i - 1 : s[j] \in cs

Skip(s) == From(s, Past(s, whitespace))

(* The length of the word that s begins with. *)
WordLen(s) ==
  (CHOOSE i \in 1 .. Len(s) + 1 :
     /\ i <= Len(s) => s[i] \in whitespace \cup symbols
     /\ \A j \in 1 .. i - 1 : s[j] \notin whitespace \cup symbols) - 1

(* gettoken(): the kind of token, its text, and the line after it. *)
gettoken(line) ==
  LET s == Skip(line)
      k == IF s[1] \notin symbols THEN WordLen(s)
           ELSE IF s[1] = ">" /\ Len(s) > 1 /\ s[2] = ">" THEN 2 ELSE 1
  IN  IF s = << >> THEN [tok |-> "0", text |-> << >>, rest |-> << >>]
      ELSE [tok |-> IF s[1] \notin symbols THEN "a" ELSE IF k = 2 THEN "+" ELSE s[1],
            text |-> SubSeq(s, 1, k),
            rest |-> Skip(From(s, k + 1))]

peek(line, toks) == LET s == Skip(line) IN s # << >> /\ s[1] \in toks

-----------------------------------------------------------------------------
Redirect(tok, cmd, file) ==
  IF tok = "<" THEN redircmd(cmd, file, "O_RDONLY", 0)
               ELSE redircmd(cmd, file, "O_WRONLY|O_CREATE", 1)

RECURSIVE parseredirs(_, _)
parseredirs(cmd, s) ==
  LET t == gettoken(s)
      q == gettoken(t.rest)
  IN  IF ~peek(s, {"<", ">"}) THEN [cmd |-> cmd, rest |-> s]
      ELSE IF q.tok # "a" THEN Panic
      ELSE parseredirs(Redirect(t.tok, cmd, q.text), q.rest)

(* The tree under construction with the arguments of its execcmd. *)
RECURSIVE WithArgs(_, _)
WithArgs(ret, argv) ==
  IF ret.type = "EXEC" THEN execcmd(argv)
                       ELSE [ret EXCEPT !.cmd = WithArgs(ret.cmd, argv)]

(* The loop of parseexec(): ret is the tree so far, argv the words so far. *)
RECURSIVE parseargs(_, _, _)
parseargs(ret, argv, s) ==
  LET t == gettoken(s)
      more == Append(argv, t.text)
      p == parseredirs(ret, t.rest)
  IN  IF peek(s, {"|", ")", "&", ";"}) \/ t.tok = "0"
        THEN [cmd |-> WithArgs(ret, argv), rest |-> s]
      ELSE IF t.tok # "a" \/ Len(more) >= MAXARGS \/ Bad(p) THEN Panic
      ELSE parseargs(p.cmd, more, p.rest)

(* After "(", line is what parseline() makes of the rest. *)
parseblock(line) ==
  IF Bad(line) \/ ~peek(line.rest, {")"}) THEN Panic
  ELSE parseredirs(line.cmd, gettoken(line.rest).rest)

parseexec(s, line) ==
  LET p == parseredirs(execcmd(<< >>), s)
  IN  IF peek(s, {"("}) THEN parseblock(line)
      ELSE IF Bad(p) THEN Panic ELSE parseargs(p.cmd, << >>, p.rest)

RECURSIVE parsebacks(_)
parsebacks(p) ==
  IF Bad(p) \/ ~peek(p.rest, {"&"}) THEN p
  ELSE parsebacks([cmd |-> backcmd(p.cmd), rest |-> gettoken(p.rest).rest])

(* l alone, or the tree of l and of the r that follows the separator. *)
Joined(l, sep, r, tree) ==
  IF Bad(l) \/ ~peek(l.rest, {sep}) THEN l
  ELSE IF Bad(r) THEN Panic
  ELSE [cmd |-> tree, rest |-> r.rest]

(* parseline() and parsepipe(), which call each other through a block. *)
parsers[f \in {"parseline", "parsepipe"}, s \in Seq(STRING)] ==
  LET exec == parseexec(s, parsers["parseline", gettoken(s).rest])
      pipe == parsers["parsepipe", gettoken(exec.rest).rest]
      backs == parsebacks(parsers["parsepipe", s])
      line == parsers["parseline", gettoken(backs.rest).rest]
  IN  IF f = "parsepipe" THEN Joined(exec, "|", pipe, pipecmd(exec.cmd, pipe.cmd))
                         ELSE Joined(backs, ";", line, listcmd(backs.cmd, line.cmd))

(* parsecmd(): the tree of a line, or a panic. *)
parsecmd(s) ==
  LET p == parsers["parseline", s]
  IN  IF Bad(p) \/ Skip(p.rest) # << >> THEN Panic.cmd ELSE p.cmd

-----------------------------------------------------------------------------
(***************************************************************************)
(* The grammar, as the set of trees of a sequence of tokens:               *)
(*   line  ::= pipe &* | pipe &* ; line     pipe  ::= exec | exec '|' pipe *)
(*   exec  ::= ( line ) redir*  |  any mixture of words and redirections   *)
(* The last redirection written is the outermost, and applies first.       *)
(***************************************************************************)
RECURSIVE Tokens(_), LineTrees(_), PipeTrees(_), ExecTrees(_), BackTrees(_)

Tokens(s) ==
  LET t == gettoken(s)
  IN  IF t.tok = "0" THEN << >> ELSE <<t>> \o Tokens(t.rest)

Kind(ts, i) == ts[i].tok
Before(ts, i) == SubSeq(ts, 1, i - 1)

Combined(f(_, _), A, B) == {f(a, b) : a \in A, b \in B}

(* Words and redirections in any order. *)
SimpleTree(ts) ==
  LET files == {i \in 2 .. Len(ts) : Kind(ts, i - 1) \in {"<", ">", "+"}}
      words == SelectSeq([i \in 1 .. Len(ts) |-> [at |-> i, t |-> ts[i]]],
                         LAMBDA x : x.at \notin files /\ x.t.tok = "a")
      argv == [i \in 1 .. Len(words) |-> words[i].t.text]
  IN  FoldLeft(LAMBDA c, i : IF i \in files THEN Redirect(Kind(ts, i - 1), c, ts[i].text)
                                            ELSE c,
               execcmd(argv), [i \in 1 .. Len(ts) |-> i])

IsSimple(ts) ==
  /\ \A i \in 1 .. Len(ts) : Kind(ts, i) \in {"a", "<", ">", "+"}
  /\ \A i \in 1 .. Len(ts) :
       Kind(ts, i) # "a" => i < Len(ts) /\ Kind(ts, i + 1) = "a"
  /\ Len(SelectSeq(ts, LAMBDA t : t.tok = "a"))
       - Len(SelectSeq(ts, LAMBDA t : t.tok # "a")) < MAXARGS

ExecTrees(ts) ==
  (IF IsSimple(ts) THEN {SimpleTree(ts)} ELSE {})
  \cup UNION {LET redirs == From(ts, i + 1)
              IN  IF /\ Kind(ts, 1) = "(" /\ Kind(ts, i) = ")"
                     /\ Len(redirs) % 2 = 0
                     /\ \A j \in 1 .. Len(redirs) :
                          (Kind(redirs, j) \in {"<", ">", "+"}) <=> (j % 2 = 1)
                     /\ \A j \in 1 .. Len(redirs) : j % 2 = 0 => Kind(redirs, j) = "a"
                  THEN {FoldLeft(LAMBDA c, j : Redirect(Kind(redirs, 2 * j - 1), c,
                                                        redirs[2 * j].text),
                                 inner, [j \in 1 .. Len(redirs) \div 2 |-> j])
                          : inner \in LineTrees(SubSeq(ts, 2, i - 1))}
                  ELSE {} : i \in 2 .. Len(ts)}

Splits(ts, tok) == {i \in 1 .. Len(ts) : Kind(ts, i) = tok}

PipeTrees(ts) ==
  ExecTrees(ts)
  \cup UNION {Combined(pipecmd, ExecTrees(Before(ts, i)), PipeTrees(From(ts, i + 1)))
                : i \in Splits(ts, "|")}

BackTrees(ts) ==
  PipeTrees(ts)
  \cup (IF ts # << >> /\ Kind(ts, Len(ts)) = "&"
          THEN {backcmd(c) : c \in BackTrees(Front(ts))} ELSE {})

LineTrees(ts) ==
  BackTrees(ts)
  \cup UNION {Combined(listcmd, BackTrees(Before(ts, i)), LineTrees(From(ts, i + 1)))
                : i \in Splits(ts, ";")}

Grammar(s) == LineTrees(Tokens(s))

=============================================================================
