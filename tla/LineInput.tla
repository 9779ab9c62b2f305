----------------------------- MODULE LineInput -----------------------------
(***************************************************************************)
(* What the console promises to programs that read it: a line that is      *)
(* edited, and a bounded queue of finished lines.                          *)
(***************************************************************************)
EXTENDS Integers, Sequences

CONSTANTS Readers, Char, Size

VARIABLES
  ready,   (* finished characters nobody has read                          *)
  line,    (* the line being typed                                         *)
  given    (* what each reader's last call has so far                      *)

vars == <<ready, line, given>>

Final == {"NL", "EOF"}

Init ==
  /\ ready = << >>
  /\ line = << >>
  /\ given = [p \in Readers |-> << >>]

(* A character joins the line; it ends the line if it is final, or the last to fit. *)
Type(c) ==
  LET l == Append(line, c)
  IN  /\ Len(ready) + Len(l) <= Size
      /\ IF c \in Final \/ Len(ready) + Len(l) = Size
           THEN ready' = ready \o l /\ line' = << >>
           ELSE line' = l /\ UNCHANGED ready
      /\ UNCHANGED given

Erase ==
  /\ line # << >>
  /\ line' \in {SubSeq(line, 1, Len(line) - 1), << >>}
  /\ UNCHANGED <<ready, given>>

(***************************************************************************)
(* A reader that had `old' gets k more characters: not beyond a newline,   *)
(* not an EOF.  An EOF ends the call, and is used up by an empty one.      *)
(***************************************************************************)
Read(p, old, k) ==
  LET all == old \o SubSeq(ready, 1, k)
      rest == SubSeq(ready, k + 1, Len(ready))
  IN  /\ k <= Len(ready)
      /\ \A i \in 1 .. k : ready[i] # "EOF" /\ (ready[i] = "NL" => i = k)
      /\ given' = [given EXCEPT ![p] = all]
      /\ ready' = IF all = << >> /\ rest # << >> /\ Head(rest) = "EOF" THEN Tail(rest)
                                                                      ELSE rest
      /\ UNCHANGED line

Next ==
  \/ \E c \in Char : Type(c)
  \/ Erase
  \/ \E p \in Readers, k \in 0 .. Size : Read(p, << >>, k) \/ Read(p, given[p], k)

Spec == Init /\ [][Next]_vars

=============================================================================
