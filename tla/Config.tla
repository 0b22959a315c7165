------------------------------- MODULE Config -------------------------------
(***************************************************************************)
(* config.c: load_config reads home.conf one character at a time into the  *)
(* array vars, get_var_value looks a name up.  A character is one of the   *)
(* three with a meaning or an atom of text; a name or a value is a         *)
(* sequence of atoms.                                                      *)
(***************************************************************************)
EXTENDS Integers, SequencesExt

CONSTANTS
  MAX_VARS,        \* places in vars (15 in the code)
  MAX_VAR_SIZE,    \* characters of a buffer, its final 0 included (256)
  Char,            \* characters, NL, CR and EQ among them
  ConfFiles,       \* contents of home.conf
  Absent           \* no such file

ASSUME VarsAssumption == MAX_VARS \in Nat \ {0} /\ MAX_VAR_SIZE \in Nat \ {0, 1}

NL == "NL"    \* '\n'
CR == "CR"    \* '\r'
EQ == "EQ"    \* '='
ASSUME FileIsText == {NL, CR, EQ} \subseteq Char /\ ConfFiles \ {Absent} \subseteq Seq(Char)
NotFound == <<NL>>    \* get_var_value ends the process

Slots == 1 .. MAX_VARS
Zeroed == [i \in Slots |-> [name |-> <<>>, value |-> <<>>]]
BeforeLoad == [vars |-> Zeroed, buf |-> <<>>, idx |-> 1, overrun |-> FALSE]

\* set_var_name, set_var_value; a place past the array is memory that is not vars.
SetVar(s, field) ==
  IF s.idx \in Slots THEN [s EXCEPT !.vars[s.idx][field] = s.buf, !.buf = <<>>]
                     ELSE [s EXCEPT !.overrun = TRUE, !.buf = <<>>]

\* Mutants: a blank line is skipped; every line goes to the same slot.
NextSlotAfterText(s) == IF s.buf = <<>> THEN s.idx ELSE s.idx + 1
NextSlotSame(s) == s.idx

\* The loop's body.  A part that fills the buffer ends the loop.
NextSlot(s) == s.idx + 1
ReadChar(s, c) ==
  IF Len(s.buf) >= MAX_VAR_SIZE - 1 THEN s
  ELSE CASE c = CR -> s
         [] c = EQ -> SetVar(s, "name")
         [] c = NL -> [SetVar(s, "value") EXCEPT !.idx = NextSlot(s)]
         [] OTHER  -> [s EXCEPT !.buf = Append(s.buf, c)]

\* The loop: its state after each character.
Loading(text) ==
  LET state[n \in 0 .. Len(text)] ==
        IF n = 0 THEN BeforeLoad ELSE ReadChar(state[n - 1], text[n])
  IN state
Loaded == [text \in ConfFiles \ {Absent} |-> Loading(text)[Len(text)]]

\* A variable was written past the array.
Overrun(text) == Loaded[text].overrun

\* get_var_value: the first slot of that name.
GetVar(vars, name) ==
  LET found == {i \in Slots : vars[i].name = name}
  IN IF found = {} THEN NotFound ELSE vars[Min(found)].value

-----------------------------------------------------------------------------
(* What the file says, without a loop over its characters: lines, and their *)
(* parts between '='.                                                      *)

Positions(s, c) == {i \in DOMAIN s : s[i] = c}
LastOf(S) == IF S = {} THEN 0 ELSE Max(S)

\* The text without its carriage returns.
WithoutCR(text) ==
  LET kept[n \in 0 .. Len(text)] ==
        IF n = 0 THEN <<>>
        ELSE IF text[n] = CR THEN kept[n - 1] ELSE Append(kept[n - 1], text[n])
  IN kept[Len(text)]

\* How long the part between separators is that ends at position p.
PartAt(text, p) == p - LastOf({i \in 1 .. p : text[i] \in {NL, EQ}})

\* The text up to the first part that is too long for the buffer.
UpToLongPart(text) ==
  LET long == {p \in DOMAIN text : PartAt(text, p) >= MAX_VAR_SIZE - 1}
  IN IF long = {} THEN text ELSE SubSeq(text, 1, Min(long))
Readable(text) == UpToLongPart(WithoutCR(text))

\* Where the lines end; the last line is what follows the last '\n'.
Ends(text) == Positions(text, NL) \cup {Len(text) + 1}
LineTo(text, end) ==
  SubSeq(text, 1 + LastOf({e \in Ends(text) : e < end}), end - 1)

\* A line's name is the part before its last '=', its value the part after it.
NameOf(line) ==
  LET last == LastOf(Positions(line, EQ))
      first == LastOf(Positions(SubSeq(line, 1, last - 1), EQ))
  IN IF last = 0 THEN <<>> ELSE SubSeq(line, first + 1, last - 1)
ValueOf(line) == SubSeq(line, LastOf(Positions(line, EQ)) + 1, Len(line))

\* The value of the first of the lines that fit the array which has the name; a
\* last line without its end has no value.
Stated(file, name) ==
  LET text == Readable(file)
      fits(end) == Cardinality({e \in Ends(text) : e < end}) < MAX_VARS
      named == {end \in Ends(text) : fits(end) /\ NameOf(LineTo(text, end)) = name}
  IN CASE named = {} -> NotFound
       [] named = {Len(text) + 1} -> <<>>
       [] OTHER -> ValueOf(LineTo(text, Min(named)))
=============================================================================
