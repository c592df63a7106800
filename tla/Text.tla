-------------------------------- MODULE Text --------------------------------
(***************************************************************************)
(* Texts, as far as the layouts of wire.rs, request.rs and verify.rs tell  *)
(* their characters apart.  A text is a sequence of characters; a run of   *)
(* characters that the code writes and looks for as a whole, such as       *)
(* ;expires= or the name of a line, is one character here.                 *)
(***************************************************************************)
EXTENDS Integers, Sequences, ClientError

CONSTANTS
  UPPERCASE,     \* A to Z
  ALPHANUMERIC,  \* letters and digits
  GRAPHIC,       \* 0x21 to 0x7e, and runs of these
  PRINTABLE,     \* 0x20 to 0x7e, and runs of these
  CHARACTERS,    \* any
  NOT_YET        \* a call has not returned

SPACE == " "
LF    == "LF"

ASSUME CharacterAssumption ==
  /\ UPPERCASE \subseteq ALPHANUMERIC
  /\ ALPHANUMERIC \subseteq GRAPHIC
  /\ GRAPHIC \subseteq PRINTABLE
  /\ PRINTABLE \subseteq CHARACTERS
  /\ SPACE \in PRINTABLE \ GRAPHIC
  /\ LF \in CHARACTERS \ PRINTABLE
  /\ {"/", "@", "?", "#", "-", "_"} \subseteq GRAPHIC \ ALPHANUMERIC

Over(text, class) == \A i \in 1 .. Len(text) : text[i] \in class

Holds(text, class) == \E i \in 1 .. Len(text) : text[i] \in class

StartsWith(text, c) == text # << >> /\ text[1] = c

(* text.trim() == text                                                     *)
IsTrimmed(text) ==
  text # << >> => {text[1], text[Len(text)]} \cap {SPACE, LF} = {}

-----------------------------------------------------------------------------
(* str::find of one character, 0 if it is not there, and split_once.       *)
Find(text, c) ==
  LET at == {i \in 1 .. Len(text) : text[i] = c}
  IN IF at = {} THEN 0 ELSE CHOOSE i \in at : \A j \in at : i <= j

Before(text, i) == SubSeq(text, 1, i - 1)
After(text, i)  == SubSeq(text, i + 1, Len(text))

(***************************************************************************)
(* valid_header_value and valid_uri_value.                                 *)
(***************************************************************************)
(* A slip the runs must notice: white space at the ends goes unnoticed.    *)
HeaderValueUntrimmed(text) == text # << >> /\ Over(text, PRINTABLE)

ValidHeaderValue(text) ==
  /\ text # << >>
  /\ IsTrimmed(text)
  /\ Over(text, PRINTABLE)

ValidUriValue(text) == text # << >> /\ Over(text, GRAPHIC)
=============================================================================
