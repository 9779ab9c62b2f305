-------------------------------- MODULE Grep --------------------------------
(***************************************************************************)
(* grep.c: main(), the loop over a buffer that reads fill piece by piece,  *)
(* and the matcher, beside what a pattern is meant to match.  Texts have   *)
(* no '\0' in them.                                                        *)
(***************************************************************************)
EXTENDS Integers, Sequences, SequencesExt, FiniteSetsExt

CONSTANTS
  BufSize,    (* sizeof(buf) - 1: a byte is kept for the final '\0'        *)
  Patterns,
  Arguments   (* the files that may be named: each a list of contents,     *)
              (* Missing for a file that does not open                     *)

Missing == <<"missing">>
NL == "\n"

ASSUME GrepAssumption == BufSize \in Nat \ {0}

VARIABLES
  pattern,
  files,      (* argv[i] ...                                               *)
  input,      (* what is still to be read of the open file                 *)
  buf,        (* the first m characters of buf                             *)
  out,        (* the lines written for this file                           *)
  kept,       (* history: the text read so far without what was dropped    *)
  state       (* "main", "read" or "exit"                                  *)

grepvars == <<pattern, files, input, buf, out, kept, state>>

GrepInit ==
  /\ pattern \in Patterns
  /\ files \in Arguments
  /\ input = << >> /\ buf = << >>
  /\ out = << >> /\ kept = << >>
  /\ state = "main"

-----------------------------------------------------------------------------
RECURSIVE matchhere(_, _), matchstar(_, _, _)

Rest(s, k) == SubSeq(s, k + 1, Len(s))

matchhere(re, text) ==
  IF re = << >> THEN TRUE
  ELSE IF Len(re) > 1 /\ re[2] = "*" THEN matchstar(re[1], Rest(re, 2), text)
  ELSE IF re = <<"$">> THEN text = << >>
  ELSE /\ text # << >>
       /\ re[1] = "." \/ re[1] = text[1]
       /\ matchhere(Rest(re, 1), Rest(text, 1))

matchstar_OneOrMore(c, re, text) ==
  /\ text # << >>
  /\ text[1] = c \/ c = "."
  /\ matchhere(re, Rest(text, 1)) \/ matchstar(c, re, Rest(text, 1))

matchstar(c, re, text) ==
  \/ matchhere(re, text)
  \/ /\ text # << >>
     /\ text[1] = c \/ c = "."
     /\ matchstar(c, re, Rest(text, 1))

match(re, text) ==
  IF re # << >> /\ re[1] = "^" THEN matchhere(Rest(re, 1), text)
  ELSE \E k \in 0 .. Len(text) : matchhere(re, Rest(text, k))

-----------------------------------------------------------------------------
(* The lines of a text that end, and what follows the last newline. *)
RECURSIVE LinesOf(_), Tail0(_)
LinesOf(s) ==
  IF ~Contains(s, NL) THEN << >>
  ELSE LET q == SelectInSeq(s, LAMBDA c : c = NL)
       IN  <<SubSeq(s, 1, q - 1)>> \o LinesOf(Rest(s, q))

Tail0(s) ==
  IF ~Contains(s, NL) THEN s
  ELSE Tail0(Rest(s, SelectInSeq(s, LAMBDA c : c = NL)))

(* main(): the next file, or the end. *)
grep_open ==
  /\ state = "main"
  /\ IF files = << >> \/ Head(files) = Missing
       THEN state' = "exit" /\ UNCHANGED <<files, input>>
       ELSE /\ state' = "read"
            /\ input' = Head(files)
            /\ files' = Tail(files)
  /\ buf' = << >>
  /\ kept' = << >>
  /\ out' = << >>
  /\ UNCHANGED pattern

(***************************************************************************)
(* A turn of the loop of grep(): a read() of some of the input, the lines  *)
(* that end in the buffer, and what stays in it.  A buffer without any     *)
(* newline is dropped, full or not.                                        *)
(***************************************************************************)
Keeps(text) == IF Contains(text, NL) THEN Tail0(text) ELSE << >>

grep_read(n) ==
  LET text == buf \o SubSeq(input, 1, n)
  IN  /\ state = "read" /\ n \in 1 .. Len(input)
      /\ n <= BufSize - Len(buf)
      /\ input' = Rest(input, n)
      /\ out' = out \o SelectSeq(LinesOf(text), LAMBDA line : match(pattern, line))
      /\ buf' = Keeps(text)
      /\ kept' = IF Contains(text, NL) THEN kept \o SubSeq(input, 1, n)
                 ELSE SubSeq(kept, 1, Len(kept) - Len(buf))
      /\ UNCHANGED <<pattern, files, state>>

(* read() returns 0, at the end or because the buffer has no room. *)
grep_close ==
  /\ state = "read"
  /\ Min({Len(input), BufSize - Len(buf)}) = 0
  /\ state' = "main"
  /\ UNCHANGED <<pattern, files, input, buf, out, kept>>

GrepNext ==
  \/ grep_open
  \/ \E n \in 1 .. BufSize : grep_read(n)
  \/ grep_close

-----------------------------------------------------------------------------
(***************************************************************************)
(* What a pattern means: items c and c*, where `.' is any character; a     *)
(* first ^ and a last $ hold the match to the ends of the line, and are    *)
(* characters anywhere else.                                               *)
(***************************************************************************)
RECURSIVE Items(_)
Items(re) ==
  IF re = << >> THEN << >>
  ELSE IF Len(re) > 1 /\ re[2] = "*"
    THEN <<[c |-> re[1], star |-> TRUE]>> \o Items(Rest(re, 2))
  ELSE <<[c |-> re[1], star |-> FALSE]>> \o Items(Rest(re, 1))

(* The items take counts[i] characters each, from position k of the text. *)
Fits(items, counts, k, text) ==
  LET start(i) == k + FoldLeft(LAMBDA n, j : n + counts[j], 0, [j \in 1 .. i - 1 |-> j])
  IN  /\ start(Len(items) + 1) <= Len(text)
      /\ \A i \in 1 .. Len(items) :
           /\ items[i].star \/ counts[i] = 1
           /\ \A j \in start(i) + 1 .. start(i) + counts[i] :
                items[i].c \in {".", text[j]}

Means(re, text) ==
  LET first == re # << >> /\ re[1] = "^"
      all == Items(IF first THEN Tail(re) ELSE re)
      last == all # << >> /\ Last(all) = [c |-> "$", star |-> FALSE]
      items == IF last THEN Front(all) ELSE all
  IN  \E k \in 0 .. (IF first THEN 0 ELSE Len(text)),
         counts \in [1 .. Len(items) -> 0 .. Len(text)] :
        /\ Fits(items, counts, k, text)
        /\ last => k + FoldLeft(LAMBDA n, c : n + c, 0, counts) = Len(text)

(***************************************************************************)
(* grep(): however the input is cut into reads, the lines written are the  *)
(* lines the pattern means, in order and each once, of the text without    *)
(* the pieces that `if(p == buf) m = 0' dropped; nothing is dropped while  *)
(* every read brings or meets a newline, and the buffer never fills up     *)
(* with text it has to keep.                                               *)
(***************************************************************************)
GrepExact ==
  /\ out = SelectSeq(LinesOf(kept), LAMBDA line : Means(pattern, line))
  /\ buf = Tail0(kept)
  /\ Len(buf) < BufSize

=============================================================================
