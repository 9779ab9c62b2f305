------------------------------ MODULE Console ------------------------------
(***************************************************************************)
(* The console: the input ring that interrupts fill and read() empties,    *)
(* and the screen on which it is echoed.  Code under cons.lock is one      *)
(* step.  consoleintr() is taken with one character at a time: a call that *)
(* finds several does the same as one call for each.  consoleread() and    *)
(* consolewrite() give up the inode's lock, which is therefore left out.   *)
(***************************************************************************)
EXTENDS Keyboard, Sequences, FiniteSets, FiniteSetsExt

CONSTANTS
  Procs,       (* processes that use the console                           *)
  INPUT_BUF,   (* slots of input.buf                                       *)
  UINT,        (* the indices count modulo this                            *)
  ROWS, COLS,  (* the screen; text stays above its last row                *)
  Serial,      (* characters from the serial port                          *)
  Counts,      (* n of read()                                              *)
  Outputs      (* what programs write                                      *)

ASSUME ConsoleAssumption ==
  /\ {INPUT_BUF, UINT, ROWS, COLS} \subseteq Nat \ {0}
  /\ UINT % INPUT_BUF = 0 /\ INPUT_BUF < UINT
  /\ (ROWS - 2) * COLS >= INPUT_BUF
  /\ Counts \subseteq Nat \ {0}

VARIABLES
  input,    (* struct input: buf, r, w, e                                  *)
  screen,   (* CGA memory crt and the cursor pos; and, as a history, from  *)
            (* where on the line being typed is shown                      *)
  mixed,    (* history: output has come since that line began              *)
  pc,       (* where each process is                                       *)
  n, dst,   (* consoleread(): characters still wanted, and got             *)
  killed    (* proc->killed                                                *)

vars == <<shift, down, pend, input, screen, mixed, pc, n, dst, killed>>
keyVars == <<shift, down, pend>>
readVars == <<n, dst, killed>>

Sub(a, b) == (a - b) % UINT
At(in, i) == in.buf[i % INPUT_BUF]
End == (ROWS - 1) * COLS

consoleinit ==
  /\ KeyboardInit
  /\ input = [buf |-> [i \in 0 .. INPUT_BUF - 1 |-> "NUL"], r |-> 0, w |-> 0, e |-> 0]
  /\ screen = [crt |-> [i \in 0 .. ROWS * COLS - 1 |-> "NUL"], pos |-> 0, from |-> 0]
  /\ mixed = FALSE
  /\ pc = [p \in Procs |-> "user"]
  /\ n = [p \in Procs |-> 0]
  /\ dst = [p \in Procs |-> << >>]
  /\ killed = [p \in Procs |-> FALSE]

-----------------------------------------------------------------------------
(* The text moves up a row, and the rest is blank from the cursor on. *)
Scrolled(crt, pos) ==
  [i \in DOMAIN crt |-> IF pos <= i /\ i < End THEN "NUL"
                        ELSE IF i < End - COLS THEN crt[i + COLS] ELSE crt[i]]

(* cgaputc(); BACKSPACE is "BS".  The cursor's cell is blanked. *)
cgaputc(s, c) ==
  LET pos == CASE c = "NL" -> s.pos + COLS - (s.pos % COLS)
               [] c = "BS" -> IF s.pos > 0 THEN s.pos - 1 ELSE 0
               [] OTHER -> s.pos + 1
      crt == IF c \in {"NL", "BS"} THEN s.crt ELSE [s.crt EXCEPT ![s.pos] = c]
      full == pos \div COLS >= ROWS - 1
      top == IF full THEN pos - COLS ELSE pos
      new == IF full THEN Scrolled(crt, top) ELSE crt
  IN  [crt |-> [new EXCEPT ![top] = "SP"], pos |-> top,
       from |-> IF full THEN s.from - COLS ELSE s.from]

(* The screen after consputc() of each character of a sequence. *)
consputs(s, str) ==
  LET After[i \in 0 .. Len(str)] ==
        IF i = 0 THEN s ELSE cgaputc(After[i - 1], str[i])
  IN  After[Len(str)]

BackSpaces(k) == [i \in 1 .. k |-> "BS"]

-----------------------------------------------------------------------------
(* How many characters ^U, or else backspace, takes back. *)
Erases(c) ==
  LET line == Sub(input.e, input.w)
      sameLine(k) == \A j \in 1 .. k : At(input, Sub(input.e, j)) # "NL"
  IN  IF c = "KILL" THEN Max({k \in 0 .. line : sameLine(k)})
      ELSE IF line = 0 THEN 0 ELSE 1

(* What is echoed for them. *)
Echo_Once(c) == BackSpaces(IF Erases(c) = 0 THEN 0 ELSE 1)
Echo(c) == BackSpaces(Erases(c))

Commits_NotFull(c, in) == c \in {"NL", "EOF"}

(* The line is finished, and read() may have it. *)
Commits(c, in) == c \in {"NL", "EOF"} \/ in.e = (in.r + INPUT_BUF) % UINT

wakeup == [p \in Procs |-> IF pc[p] = "asleep" THEN "awake" ELSE pc[p]]

(* A process has decided to sleep, and still has cons.lock. *)
Unlocked == \A p \in Procs : pc[p] # "sleep"

(* The screen becomes s; what is typed next begins a new line or goes on. *)
Shows(s, new, mix) ==
  /\ screen' = IF new THEN [s EXCEPT !.from = s.pos] ELSE s
  /\ mixed' = (mix /\ ~new)

(* A character is put into the ring and echoed, if there is room. *)
Put(c) ==
  LET ch == IF c = "CR" THEN "NL" ELSE c
      in == [input EXCEPT !.buf[input.e % INPUT_BUF] = ch, !.e = (@ + 1) % UINT]
  IN  IF c # "NUL" /\ Sub(input.e, input.r) < INPUT_BUF
        THEN /\ IF Commits(ch, in)
                  THEN input' = [in EXCEPT !.w = in.e] /\ pc' = wakeup
                  ELSE input' = in /\ UNCHANGED pc
             /\ Shows(cgaputc(screen, ch), Commits(ch, in), mixed)
        ELSE UNCHANGED <<input, screen, mixed, pc>>

(* consoleintr() for one character.  (procdump() changes nothing here.) *)
consoleintr(c) ==
  /\ Unlocked
  /\ \/ /\ c \in {"KILL", "BS", "DEL"}
        /\ input' = [input EXCEPT !.e = Sub(@, Erases(c))]
        /\ Shows(consputs(screen, Echo(c)), mixed /\ input'.e = input.w, mixed)
        /\ UNCHANGED pc
     \/ /\ c \notin {"KILL", "BS", "DEL"}
        /\ Put(c)
  /\ UNCHANGED readVars

kbdintr ==
  \E data \in Bytes :
    /\ Sends(data)
    /\ shift' = kbdgetc(data).bits
    /\ consoleintr(kbdgetc(data).c)

uartintr ==
  \E c \in Serial : consoleintr(c) /\ UNCHANGED keyVars

-----------------------------------------------------------------------------
Eof_Eaten(got) == 1

(* An EOF that ends a call with characters is left for the next call. *)
Eof(got) == IF got > 0 THEN 0 ELSE 1

(* Back in trap(), a killed process exits. *)
Returns(p) == IF killed[p] THEN "gone" ELSE "user"

(***************************************************************************)
(* The loop of consoleread(), for a call that wants `left' characters and  *)
(* has `got': it ends with the count, a newline or an EOF; if the ring is  *)
(* empty first, the process returns -1 if it was killed, or will sleep.    *)
(***************************************************************************)
ReadLoop(p, left, got) ==
  LET c(i) == At(input, input.r + i)
      most == Min({left, Sub(input.w, input.r)})
      ends == {i \in 0 .. most - 1 : c(i) \in {"NL", "EOF"}}
      stop == Min(ends)
      k == IF ends = {} THEN most ELSE IF c(stop) = "NL" THEN stop + 1 ELSE stop
      eof == ends # {} /\ c(stop) = "EOF"
      more == ends = {} /\ k < left
      all == got \o [i \in 1 .. k |-> c(i - 1)]
  IN  /\ input' = [input EXCEPT !.r = (@ + k + (IF eof THEN Eof(Len(all)) ELSE 0)) % UINT]
      /\ dst' = [dst EXCEPT ![p] = all]
      /\ n' = [n EXCEPT ![p] = IF more THEN left - k ELSE 0]
      /\ pc' = [pc EXCEPT ![p] = IF more /\ ~killed[p] THEN "sleep" ELSE Returns(p)]

consoleread(p, count) ==
  /\ pc[p] = "user"
  /\ Unlocked
  /\ ReadLoop(p, count, << >>)
  /\ UNCHANGED <<shift, down, pend, screen, mixed, killed>>

consoleread_on(p) ==
  /\ pc[p] = "awake"
  /\ Unlocked
  /\ ReadLoop(p, n[p], dst[p])
  /\ UNCHANGED <<shift, down, pend, screen, mixed, killed>>

(* sleep(&input.r, &cons.lock); kill() may have come since the test. *)
sleep(p) ==
  /\ pc[p] = "sleep"
  /\ pc' = [pc EXCEPT ![p] = "asleep"]
  /\ UNCHANGED <<shift, down, pend, input, screen, mixed, n, dst, killed>>

consolewrite(p, str) ==
  /\ pc[p] = "user"
  /\ Unlocked
  /\ UNCHANGED <<shift, down, pend, input, pc, n, dst, killed>>
  /\ Shows(consputs(screen, str), input.e = input.w, TRUE)

(* kill() of a process inside consoleread(). *)
kill(p) ==
  /\ pc[p] \in {"sleep", "asleep", "awake"}
  /\ ~killed[p]
  /\ killed' = [killed EXCEPT ![p] = TRUE]
  /\ pc' = [pc EXCEPT ![p] = IF @ = "asleep" THEN "awake" ELSE @]
  /\ UNCHANGED <<shift, down, pend, input, screen, mixed, n, dst>>

Next ==
  \/ kbdintr
  \/ uartintr
  \/ \E p \in Procs :
       \/ \E count \in Counts : consoleread(p, count)
       \/ consoleread_on(p) \/ sleep(p)
       \/ \E str \in Outputs : consolewrite(p, str)
       \/ kill(p)

Spec == consoleinit /\ [][Next]_vars

-----------------------------------------------------------------------------
(* The ring between two indices, as a sequence. *)
Between(a, b) == [i \in 1 .. Sub(b, a) |-> At(input, a + i - 1)]

Chars == {"u", "U", "d", "D", "NL", "EOF"} \cup (Serial \ {"CR", "KILL", "BS", "DEL"})

Abstract == INSTANCE LineInput WITH
  Readers <- Procs, Char <- Chars, Size <- INPUT_BUF,
  ready <- Between(input.r, input.w), line <- Between(input.w, input.e), given <- dst

(***************************************************************************)
(* The ring with its three indices, which wrap, is a line editor before a  *)
(* queue: erasing never reaches finished characters, nothing is lost or    *)
(* read twice, a read ends at a newline, and an EOF ends one read only.    *)
(***************************************************************************)
Lines == Abstract!Spec

(***************************************************************************)
(* Input never gets stuck: a full ring, which drops every key, can be      *)
(* read, although it may hold no newline; and nobody is asleep while there *)
(* is something to read, whichever of several readers took a part before.  *)
(***************************************************************************)
NeverWedged ==
  /\ Sub(input.e, input.r) = INPUT_BUF => input.w = input.e
  /\ Sub(input.e, input.r) <= INPUT_BUF
  /\ \A p \in Procs : pc[p] = "asleep" => input.r = input.w

(***************************************************************************)
(* Echo: the line being typed stands on the screen before the cursor, and  *)
(* erased characters do not, across row ends and scrolling, unless output  *)
(* has come in between.                                                    *)
(***************************************************************************)
EditedIsShown ==
  LET len == Sub(input.e, input.w)
  IN  ~mixed =>
        /\ screen.pos = screen.from + len
        /\ \A i \in 1 .. len :
             screen.crt[screen.pos - i] = At(input, Sub(input.e, i))

=============================================================================
