------------------------------ MODULE Keyboard ------------------------------
(***************************************************************************)
(* The keyboard driver kbd.c: scan codes to characters.  A key is named by *)
(* its index in the tables of kbd.h; the keyboard sends a key above 127 as *)
(* two bytes, the first of them 0xE0, each with an interrupt of its own.   *)
(***************************************************************************)
EXTENDS Integers

CONSTANT Keys   (* the keys that are used *)

(* No byte that a key sends is 0 or 0xE0. *)
ASSUME KeysAssumption == Keys \subseteq 1 .. 255 /\ \A k \in Keys : k % 128 \notin {0, 96}

VARIABLES
  shift,   (* kbdgetc()'s static bits                                      *)
  down,    (* keys with a shiftcode that are held down                     *)
  pend     (* the byte that follows the 0xE0 just sent, or 0               *)

E0 == 224

(* shiftcode[] and togglecode[] *)
shiftcode(k) ==
  CASE k \in {29, 157} -> {"CTL"}
    [] k \in {42, 54} -> {"SHIFT"}
    [] k \in {56, 184} -> {"ALT"}
    [] OTHER -> {}

togglecode(k) ==
  CASE k = 58 -> {"CAPSLOCK"}
    [] k = 69 -> {"NUMLOCK"}
    [] k = 70 -> {"SCROLLLOCK"}
    [] OTHER -> {}

(* normalmap, shiftmap and ctlmap, at backspace, U, Enter and D. *)
normalmap(k) ==
  CASE k = 14 -> "BS" [] k = 22 -> "u" [] k \in {28, 156} -> "NL" [] k = 32 -> "d"
    [] OTHER -> "NUL"

shiftmap(k) ==
  CASE k = 14 -> "BS" [] k = 22 -> "U" [] k \in {28, 156} -> "NL" [] k = 32 -> "D"
    [] OTHER -> "NUL"

ctlmap(k) ==
  CASE k = 22 -> "KILL" [] k \in {28, 156} -> "CR" [] k = 32 -> "EOF"
    [] OTHER -> "NUL"

charcode(bits, k) ==
  IF "CTL" \in bits THEN ctlmap(k)
  ELSE IF "SHIFT" \in bits THEN shiftmap(k) ELSE normalmap(k)

Swapped(c) ==
  CASE c = "u" -> "U" [] c = "U" -> "u" [] c = "d" -> "D" [] c = "D" -> "d"
    [] OTHER -> c

released_KeepsEsc(data) ==
  LET k == IF "E0ESC" \in shift THEN data ELSE data - 128
  IN  shift \ shiftcode(k)

(* The bits after the release of a key. *)
released(data) ==
  LET k == IF "E0ESC" \in shift THEN data ELSE data - 128
  IN  shift \ (shiftcode(k) \cup {"E0ESC"})

(* The bits after a key is pressed: set, or toggled. *)
pressed(k) ==
  LET bits == (shift \ {"E0ESC"}) \cup shiftcode(k)
  IN  (bits \ togglecode(k)) \cup (togglecode(k) \ bits)

(* kbdgetc() with data in the port: the new bits, and the character returned. *)
kbdgetc(data) ==
  IF data = E0 THEN [bits |-> shift \cup {"E0ESC"}, c |-> "NUL"]
  ELSE IF data >= 128 THEN [bits |-> released(data), c |-> "NUL"]
  ELSE LET k == IF "E0ESC" \in shift THEN data + 128 ELSE data
           c == charcode(pressed(k), k)
       IN  [bits |-> pressed(k),
            c |-> IF "CAPSLOCK" \in pressed(k) THEN Swapped(c) ELSE c]

-----------------------------------------------------------------------------
(* The byte, or the byte after the 0xE0, for key k going down or up. *)
Code(k, up) == (k % 128) + (IF up THEN 128 ELSE 0)

Bytes == {E0} \cup {Code(k, up) : k \in Keys, up \in BOOLEAN}

Moves(k, up) ==
  down' = IF shiftcode(k) = {} THEN down ELSE IF up THEN down \ {k} ELSE down \cup {k}

(* The keyboard sends data: a key moves, or what is left of a key that did. *)
Sends(data) ==
  \/ /\ pend = 0
     /\ \E k \in Keys, up \in BOOLEAN :
          /\ shiftcode(k) # {} => (up <=> k \in down)
          /\ Moves(k, up)
          /\ IF k < 128 THEN data = Code(k, up) /\ pend' = 0
                        ELSE data = E0 /\ pend' = Code(k, up)
  \/ /\ pend # 0
     /\ data = pend
     /\ pend' = 0
     /\ UNCHANGED down

KeyboardInit == shift = {} /\ down = {} /\ pend = 0

(***************************************************************************)
(* kbdgetc() keeps track of the keys: between keys no half of an E0 escape *)
(* is left to spoil the next key, and no modifier stays set once every key *)
(* that sets it is up, in whatever order left and right keys move.         *)
(***************************************************************************)
ModifiersMatch ==
  /\ pend # 0 <=> "E0ESC" \in shift
  /\ pend = 0 => \A m \in shift \cap {"CTL", "SHIFT", "ALT"} :
                   \E k \in down : m \in shiftcode(k)

=============================================================================
