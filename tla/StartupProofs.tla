---------------------------- MODULE StartupProofs ----------------------------
(***************************************************************************)
(* Theorems about Startup, and about the reading of home.conf on which     *)
(* they rest.  The loop of load_config goes through the file character by  *)
(* character; what it should find is defined by lines and parts of lines.  *)
(* The lemmas say how each of these definitions changes when the text gets *)
(* one character longer, and that the loop's state changes alike: after n  *)
(* characters it is what the text so far says, line by line (Parsed).      *)
(***************************************************************************)
EXTENDS Startup, SetInduction, FiniteSetTheorems, SequenceTheorems, TLAPS

-----------------------------------------------------------------------------
(* Greatest and least elements. *)

LEMMA MaxIs ==
  ASSUME NEW S \in SUBSET Int, NEW l \in S, \A s \in S : s <= l
  PROVE  Max(S) = l
<1>1. \E x \in S : \A y \in S : x >= y
  OBVIOUS
<1>2. Max(S) \in S /\ \A y \in S : Max(S) >= y
  BY <1>1 DEF Max
<1>3. Max(S) \in Int /\ l \in Int
  BY <1>2
<1> HIDE DEF Max
<1>4. Max(S) <= l /\ l <= Max(S)
  BY <1>2
<1> QED
  BY <1>3, <1>4

LEMMA MinIs ==
  ASSUME NEW S \in SUBSET Int, NEW l \in S, \A s \in S : l <= s
  PROVE  Min(S) = l
<1>1. \E x \in S : \A y \in S : x <= y
  OBVIOUS
<1>2. Min(S) \in S /\ \A y \in S : Min(S) <= y
  BY <1>1 DEF Min
<1>3. Min(S) \in Int /\ l \in Int
  BY <1>2
<1> HIDE DEF Min
<1>4. Min(S) <= l /\ l <= Min(S)
  BY <1>2
<1> QED
  BY <1>3, <1>4

LEMMA MinFacts ==
  ASSUME NEW S \in SUBSET Nat, S # {}
  PROVE  Min(S) \in S /\ \A s \in S : Min(S) <= s
<1>1. \E x \in S : \A y \in S : x <= y
  BY LeastElement
<1> QED
  BY <1>1 DEF Min

LEMMA LastOfIs ==
  ASSUME NEW S \in SUBSET Int, NEW l \in S, \A s \in S : s <= l
  PROVE  LastOf(S) = l
  BY MaxIs DEF LastOf

LEMMA LastOfFacts ==
  ASSUME NEW n \in Nat, NEW S \in SUBSET (1 .. n)
  PROVE  /\ LastOf(S) \in 0 .. n
         /\ S = {} => LastOf(S) = 0
         /\ S # {} => LastOf(S) \in S
         /\ \A s \in S : s <= LastOf(S)
<1>1. CASE S = {}
  BY <1>1 DEF LastOf
<1>2. CASE S # {}
  <2> DEFINE T == {n - s : s \in S}
  <2>1. T \in SUBSET Nat /\ T # {}
    BY <1>2
  <2>2. PICK m \in T : \A t \in T : m <= t
    <3> HIDE DEF T
    <3> QED
      BY <2>1, LeastElement
  <2>3. PICK l \in S : m = n - l
    BY <2>2
  <2>4. \A s \in S : s <= l
    BY <2>2, <2>3
  <2>5. LastOf(S) = l
    BY <2>4, LastOfIs
  <2> QED
    BY <2>4, <2>5
<1> QED
  BY <1>1, <1>2

-----------------------------------------------------------------------------
(* The parts of a line that grows by a character. *)

LEMMA PartOfLonger ==
  ASSUME NEW s \in Seq(Char), NEW c \in Char
  PROVE  /\ \A m \in Nat \ {0}, n \in 0 .. Len(s) : SubSeq(Append(s, c), m, n) = SubSeq(s, m, n)
         /\ \A m \in 1 .. Len(s) + 1 :
              SubSeq(Append(s, c), m, Len(s) + 1) = Append(SubSeq(s, m, Len(s)), c)
<1>1. ASSUME NEW m \in Nat \ {0}, NEW n \in 0 .. Len(s)
      PROVE  SubSeq(Append(s, c), m, n) = SubSeq(s, m, n)
  OBVIOUS
<1>2. ASSUME NEW m \in 1 .. Len(s) + 1
      PROVE  SubSeq(Append(s, c), m, Len(s) + 1) = Append(SubSeq(s, m, Len(s)), c)
  <2> DEFINE a == SubSeq(Append(s, c), m, Len(s) + 1)
             b == Append(SubSeq(s, m, Len(s)), c)
  <2>1. a \in Seq(Char) /\ b \in Seq(Char)
    OBVIOUS
  <2>2. Len(a) = Len(s) + 2 - m /\ Len(b) = Len(s) + 2 - m
    OBVIOUS
  <2>3. \A i \in 1 .. Len(s) + 2 - m : a[i] = b[i]
    OBVIOUS
  <2> QED
    BY <2>1, <2>2, <2>3
<1> QED
  BY <1>1, <1>2

LEMMA PositionsOf ==
  ASSUME NEW s \in Seq(Char), NEW d
  PROVE  /\ Positions(s, d) \subseteq 1 .. Len(s)
         /\ Positions(<<>>, d) = {}
         /\ \A c \in Char : Positions(Append(s, c), d) =
              IF c = d THEN Positions(s, d) \cup {Len(s) + 1} ELSE Positions(s, d)
  BY DEF Positions

LEMMA EmptyLine == NameOf(<<>>) = <<>> /\ ValueOf(<<>>) = <<>>
<1>1. Positions(<<>>, EQ) = {}
  BY DEF Positions
<1>2. LastOf({}) = 0
  BY DEF LastOf
<1> QED
  BY <1>1, <1>2 DEF NameOf, ValueOf

\* A character that is no '=' only makes the value longer.
LEMMA LineGrows ==
  ASSUME NEW s \in Seq(Char), NEW c \in Char, c # EQ
  PROVE  /\ NameOf(Append(s, c)) = NameOf(s)
         /\ ValueOf(Append(s, c)) = Append(ValueOf(s), c)
<1> DEFINE t == Append(s, c)
           last == LastOf(Positions(s, EQ))
<1>1. LastOf(Positions(t, EQ)) = last
  BY PositionsOf
<1>2. last \in 0 .. Len(s)
  BY PositionsOf, LastOfFacts
<1>3. t \in Seq(Char) /\ Len(t) = Len(s) + 1
  OBVIOUS
<1> HIDE DEF last
<1>4. ValueOf(t) = Append(ValueOf(s), c)
  <2>1. last + 1 \in 1 .. Len(s) + 1
    BY <1>2
  <2> QED
    BY <1>1, <1>3, <2>1, PartOfLonger DEF ValueOf, last
<1>5. NameOf(t) = NameOf(s)
  <2>1. CASE last = 0
    BY <1>1, <2>1 DEF NameOf, last
  <2>2. CASE last # 0
    <3>1. 1 \in Nat \ {0} /\ last - 1 \in 0 .. Len(s)
      BY <1>2, <2>2
    <3>2. SubSeq(t, 1, last - 1) = SubSeq(s, 1, last - 1)
      BY <3>1, PartOfLonger
    <3> DEFINE first == LastOf(Positions(SubSeq(s, 1, last - 1), EQ))
    <3>3. first + 1 \in Nat \ {0}
      <4> DEFINE u == SubSeq(s, 1, last - 1)
      <4>1. u \in Seq(Char) /\ Len(u) \in Nat
        BY <3>1
      <4> HIDE DEF u
      <4>2. LastOf(Positions(u, EQ)) \in 0 .. Len(u)
        BY <4>1, PositionsOf, LastOfFacts
      <4> QED
        BY <4>1, <4>2 DEF u
    <3> HIDE DEF first
    <3>4. SubSeq(t, first + 1, last - 1) = SubSeq(s, first + 1, last - 1)
      BY <3>1, <3>3, PartOfLonger
    <3> QED
      BY <1>1, <2>2, <3>2, <3>4 DEF NameOf, last, first
  <2> QED
    BY <2>1, <2>2
<1> QED
  BY <1>4, <1>5

\* With another '=' what was the value becomes the name, and the value is empty again.
LEMMA LineNamed ==
  ASSUME NEW s \in Seq(Char)
  PROVE  /\ NameOf(Append(s, EQ)) = ValueOf(s)
         /\ ValueOf(Append(s, EQ)) = <<>>
<1> DEFINE t == Append(s, EQ)
           first == LastOf(Positions(s, EQ))
<1>0. EQ \in Char
  BY FileIsText
<1>1. LastOf(Positions(t, EQ)) = Len(s) + 1
  <2> DEFINE P == Positions(s, EQ) \cup {Len(s) + 1}
  <2>1. Positions(t, EQ) = P /\ Positions(s, EQ) \subseteq 1 .. Len(s)
    BY <1>0, PositionsOf
  <2>2. P \in SUBSET Int /\ Len(s) + 1 \in P /\ \A p \in P : p <= Len(s) + 1
    BY <2>1
  <2> HIDE DEF P
  <2> QED
    BY <2>1, <2>2, LastOfIs
<1>2. t \in Seq(Char) /\ Len(t) = Len(s) + 1
  BY <1>0
<1>3. ValueOf(t) = <<>>
  BY <1>1, <1>2 DEF ValueOf
<1>4. SubSeq(t, 1, Len(s)) = s
  BY <1>0
<1>5. first \in 0 .. Len(s)
  BY PositionsOf, LastOfFacts
<1> HIDE DEF first
<1>6. SubSeq(t, first + 1, Len(s)) = SubSeq(s, first + 1, Len(s))
  <2>1. first + 1 \in Nat \ {0} /\ Len(s) \in 0 .. Len(s)
    BY <1>5
  <2> QED
    BY <1>0, <2>1, PartOfLonger
<1>7. NameOf(t) = ValueOf(s)
  <2>1. Len(s) + 1 # 0 /\ (Len(s) + 1) - 1 = Len(s)
    OBVIOUS
  <2> QED
    BY <1>1, <1>4, <1>6, <2>1 DEF NameOf, ValueOf, first
<1> QED
  BY <1>3, <1>7

-----------------------------------------------------------------------------
(* The lines of a text that grows by a character. *)

\* How many lines end before position e, and what place the line ending at e has.
Before(text, e) == {p \in Positions(text, NL) : p < e}
Place(text, e) == Cardinality(Before(text, e)) + 1

LEMMA EndsOf ==
  ASSUME NEW s \in Seq(Char)
  PROVE  /\ Ends(s) \subseteq 1 .. Len(s) + 1
         /\ \A e \in Ends(s) : {x \in Ends(s) : x < e} = Before(s, e)
         /\ \A e \in Ends(s) : e = Len(s) + 1 \/ e \in Positions(s, NL)
         /\ Positions(s, NL) \subseteq Ends(s) /\ Len(s) + 1 \in Ends(s)
         /\ Positions(s, NL) \subseteq 1 .. Len(s)
<1>1. Positions(s, NL) \subseteq 1 .. Len(s)
  BY PositionsOf
<1> QED
  BY <1>1 DEF Ends, Before

LEMMA PlaceFacts ==
  ASSUME NEW s \in Seq(Char), NEW e
  PROVE  /\ IsFiniteSet(Before(s, e)) /\ Place(s, e) \in Nat \ {0}
         /\ \A f : e \in Positions(s, NL) /\ f \in Ends(s) /\ e < f => Place(s, e) < Place(s, f)
<1>1. \A f : IsFiniteSet(Before(s, f)) /\ Cardinality(Before(s, f)) \in Nat
  <2> SUFFICES ASSUME NEW f
               PROVE  IsFiniteSet(Before(s, f)) /\ Cardinality(Before(s, f)) \in Nat
    OBVIOUS
  <2>1. IsFiniteSet(1 .. Len(s))
    BY FS_Interval
  <2>2. Before(s, f) \in SUBSET (1 .. Len(s))
    BY PositionsOf DEF Before
  <2>3. IsFiniteSet(Before(s, f))
    BY <2>1, <2>2, FS_Subset
  <2> QED
    BY <2>3, FS_CardinalityType
<1>2. ASSUME NEW f, e \in Positions(s, NL), f \in Ends(s), e < f
      PROVE  Place(s, e) < Place(s, f)
  <2> DEFINE B == Before(s, e)
             D == Before(s, f)
  <2>1. e \notin B /\ B \cup {e} \in SUBSET D
    BY <1>2, EndsOf DEF Before
  <2>2. IsFiniteSet(B) /\ IsFiniteSet(D) /\ Cardinality(B) \in Nat /\ Cardinality(D) \in Nat
    BY <1>1
  <2> HIDE DEF B, D
  <2>3. Cardinality(B \cup {e}) = Cardinality(B) + 1
    BY <2>1, <2>2, FS_AddElement
  <2>4. Cardinality(B \cup {e}) <= Cardinality(D)
    BY <2>1, <2>2, FS_Subset
  <2> QED
    BY <2>2, <2>3, <2>4 DEF Place, B, D
<1> QED
  BY <1>1, <1>2 DEF Place

LEMMA LineIs ==
  ASSUME NEW s \in Seq(Char), NEW e \in Ends(s)
  PROVE  /\ LineTo(s, e) = SubSeq(s, 1 + LastOf(Before(s, e)), e - 1)
         /\ LastOf(Before(s, e)) \in 0 .. e - 1 /\ e - 1 \in 0 .. Len(s)
         /\ LineTo(s, e) \in Seq(Char)
<1>1. {x \in Ends(s) : x < e} = Before(s, e) /\ e \in 1 .. Len(s) + 1
  BY EndsOf
<1>2. Before(s, e) \in SUBSET (1 .. e - 1)
  BY <1>1, EndsOf DEF Before
<1>3. LastOf(Before(s, e)) \in 0 .. e - 1 /\ e - 1 \in 0 .. Len(s)
  BY <1>1, <1>2, LastOfFacts
<1>4. LineTo(s, e) = SubSeq(s, 1 + LastOf(Before(s, e)), e - 1)
  BY <1>1 DEF LineTo
<1>5. SubSeq(s, 1 + LastOf(Before(s, e)), e - 1) \in Seq(Char)
  <2> DEFINE m == 1 + LastOf(Before(s, e))
             n == e - 1
  <2>1. m \in Nat \ {0} /\ n \in 0 .. Len(s)
    BY <1>3
  <2> HIDE DEF m, n
  <2>2. SubSeq(s, m, n) \in Seq(Char)
    BY <2>1
  <2> QED
    BY <2>2 DEF m, n
<1> QED
  BY <1>3, <1>4, <1>5

\* A line that has ended stays as it is.
LEMMA EndedLineKept ==
  ASSUME NEW s \in Seq(Char), NEW c \in Char, NEW e \in Positions(s, NL)
  PROVE  /\ Before(Append(s, c), e) = Before(s, e)
         /\ Place(Append(s, c), e) = Place(s, e)
         /\ LineTo(Append(s, c), e) = LineTo(s, e)
         /\ e \in Ends(Append(s, c))
<1> DEFINE t == Append(s, c)
<1>1. t \in Seq(Char) /\ Len(t) = Len(s) + 1 /\ e \in 1 .. Len(s)
  BY PositionsOf
<1>2. e \in Ends(s) /\ e \in Ends(t) /\ Before(t, e) = Before(s, e)
  BY <1>1, PositionsOf DEF Ends, Before
<1>3. LineTo(t, e) = SubSeq(t, 1 + LastOf(Before(s, e)), e - 1)
  BY <1>1, <1>2, LineIs
<1>4. /\ LineTo(s, e) = SubSeq(s, 1 + LastOf(Before(s, e)), e - 1)
      /\ LastOf(Before(s, e)) \in 0 .. e - 1 /\ e - 1 \in 0 .. Len(s)
  BY <1>2, LineIs
<1>5. 1 + LastOf(Before(s, e)) \in Nat \ {0}
  BY <1>1, <1>4
<1> QED
  BY <1>2, <1>3, <1>4, <1>5, PartOfLonger DEF Place

\* A character other than the end of a line makes the last line longer.
LEMMA LastLineGrows ==
  ASSUME NEW s \in Seq(Char), NEW c \in Char, c # NL
  PROVE  LET t == Append(s, c)
         IN  /\ Positions(t, NL) = Positions(s, NL)
             /\ Place(t, Len(t) + 1) = Place(s, Len(s) + 1)
             /\ LineTo(t, Len(t) + 1) = Append(LineTo(s, Len(s) + 1), c)
<1> DEFINE t == Append(s, c)
<1>1. t \in Seq(Char) /\ Len(t) = Len(s) + 1 /\ Len(s) \in Nat
  OBVIOUS
<1>2. Positions(t, NL) = Positions(s, NL) /\ Positions(s, NL) \subseteq 1 .. Len(s)
  BY PositionsOf
<1>3. Before(t, Len(t) + 1) = Before(s, Len(s) + 1)
  BY <1>1, <1>2 DEF Before
<1> DEFINE b == LastOf(Before(s, Len(s) + 1))
<1>4. /\ LineTo(s, Len(s) + 1) = SubSeq(s, 1 + b, Len(s)) /\ b \in 0 .. Len(s)
  <2>1. Len(s) + 1 \in Ends(s) /\ (Len(s) + 1) - 1 = Len(s)
    BY <1>1 DEF Ends
  <2> QED
    BY <2>1, LineIs
<1>5. LineTo(t, Len(t) + 1) = SubSeq(t, 1 + b, Len(s) + 1)
  <2>1. Len(t) + 1 \in Ends(t) /\ (Len(t) + 1) - 1 = Len(s) + 1
    BY <1>1 DEF Ends
  <2> QED
    BY <1>1, <1>3, <2>1, LineIs
<1> HIDE DEF b
<1>6. 1 + b \in 1 .. Len(s) + 1
  BY <1>1, <1>4
<1>7. SubSeq(t, 1 + b, Len(s) + 1) = Append(SubSeq(s, 1 + b, Len(s)), c)
  BY <1>6, PartOfLonger
<1> QED
  BY <1>2, <1>3, <1>4, <1>5, <1>7 DEF Place

\* The end of a line leaves the line as it is and begins an empty one.
LEMMA LastLineEnds ==
  ASSUME NEW s \in Seq(Char)
  PROVE  LET t == Append(s, NL)
         IN  /\ Positions(t, NL) = Positions(s, NL) \cup {Len(s) + 1}
             /\ Place(t, Len(s) + 1) = Place(s, Len(s) + 1)
             /\ LineTo(t, Len(s) + 1) = LineTo(s, Len(s) + 1)
             /\ Place(t, Len(t) + 1) = Place(s, Len(s) + 1) + 1
             /\ LineTo(t, Len(t) + 1) = <<>>
<1> DEFINE t == Append(s, NL)
           n == Len(s) + 1
<1>0. NL \in Char
  BY FileIsText
<1>1. t \in Seq(Char) /\ Len(t) = n /\ n \in Nat \ {0} /\ n - 1 = Len(s)
  BY <1>0
<1>2. Positions(t, NL) = Positions(s, NL) \cup {n} /\ Positions(s, NL) \subseteq 1 .. Len(s)
  BY <1>0, PositionsOf
<1>3. /\ Before(t, n) = Before(s, n) /\ n \notin Before(s, n)
      /\ Before(t, n + 1) = Before(s, n) \cup {n}
  BY <1>1, <1>2 DEF Before
<1>4. n \in Ends(t) /\ n + 1 \in Ends(t) /\ n \in Ends(s)
  BY <1>1, <1>2 DEF Ends
<1>5. LineTo(t, n) = LineTo(s, n)
  <2> DEFINE b == LastOf(Before(s, n))
  <2>1. LineTo(s, n) = SubSeq(s, 1 + b, Len(s)) /\ b \in 0 .. Len(s)
    BY <1>1, <1>4, LineIs
  <2>2. LineTo(t, n) = SubSeq(t, 1 + b, Len(s))
    BY <1>1, <1>3, <1>4, LineIs
  <2> HIDE DEF b
  <2>3. 1 + b \in Nat \ {0} /\ Len(s) \in 0 .. Len(s)
    BY <1>1, <2>1
  <2>4. SubSeq(t, 1 + b, Len(s)) = SubSeq(s, 1 + b, Len(s))
    BY <1>0, <2>3, PartOfLonger
  <2> QED
    BY <2>1, <2>2, <2>4
<1>6. LineTo(t, n + 1) = <<>>
  <2> DEFINE B == Before(t, n + 1)
  <2>1. B \in SUBSET Int /\ n \in B /\ \A p \in B : p <= n
    BY <1>1, <1>2, <1>3 DEF Before
  <2> HIDE DEF B
  <2>2. LastOf(B) = n
    BY <2>1, LastOfIs
  <2>3. LineTo(t, n + 1) = SubSeq(t, 1 + n, (n + 1) - 1)
    BY <1>1, <1>4, <2>2, LineIs DEF B
  <2>4. SubSeq(t, 1 + n, (n + 1) - 1) = <<>>
    BY <1>1, SubSeqEmpty
  <2> QED
    BY <2>3, <2>4
<1>7. Place(t, n + 1) = Place(s, n) + 1
  <2>1. IsFiniteSet(Before(s, n)) /\ Cardinality(Before(s, n)) \in Nat
    BY PlaceFacts, FS_CardinalityType
  <2>2. Cardinality(Before(s, n) \cup {n}) = Cardinality(Before(s, n)) + 1
    BY <1>3, <2>1, FS_AddElement
  <2> QED
    BY <1>3, <2>1, <2>2 DEF Place
<1>8. Place(t, n) = Place(s, n)
  BY <1>3 DEF Place
<1> QED
  BY <1>1, <1>2, <1>5, <1>6, <1>7, <1>8

-----------------------------------------------------------------------------
(* One turn of the loop of load_config. *)

Buffer == {b \in Seq(Char) : Len(b) < MAX_VAR_SIZE}
Unset  == [name |-> <<>>, value |-> <<>>]
LoadState ==
  [vars : [Slots -> [name : Buffer, value : Buffer]], buf : Buffer, idx : Nat \ {0},
   overrun : BOOLEAN]

LEMMA BeforeLoadType == BeforeLoad \in LoadState
<1>1. <<>> \in Buffer
  BY VarsAssumption DEF Buffer
<1> QED
  BY <1>1 DEF BeforeLoad, Zeroed, LoadState

\* SetVar as a record, without EXCEPT.
LEMMA SetVarIs ==
  ASSUME NEW s \in LoadState, NEW field \in {"name", "value"}
  PROVE  LET v == [s.vars EXCEPT ![s.idx] = [@ EXCEPT ![field] = s.buf]]
         IN  SetVar(s, field) =
               [vars |-> IF s.idx \in Slots THEN v ELSE s.vars, buf |-> <<>>, idx |-> s.idx,
                overrun |-> IF s.idx \in Slots THEN s.overrun ELSE TRUE]
  BY DEF SetVar, LoadState

\* ReadChar by the kind of character and whether the buffer is full.
LEMMA ReadCharIs ==
  ASSUME NEW s \in LoadState, NEW c \in Char
  PROVE  /\ Len(s.buf) >= MAX_VAR_SIZE - 1 => ReadChar(s, c) = s
         /\ c = CR => ReadChar(s, c) = s
         /\ Len(s.buf) < MAX_VAR_SIZE - 1 =>
              /\ c = EQ => ReadChar(s, c) = SetVar(s, "name")
              /\ c = NL => ReadChar(s, c) = [SetVar(s, "value") EXCEPT !.idx = s.idx + 1]
              /\ c \notin {CR, EQ, NL} => ReadChar(s, c) = [s EXCEPT !.buf = Append(s.buf, c)]
<1>1. CR # EQ /\ CR # NL /\ EQ # NL
  BY DEF CR, EQ, NL
<1>2. Len(s.buf) \in Nat /\ MAX_VAR_SIZE \in Nat
  BY VarsAssumption DEF LoadState, Buffer
<1> DEFINE full == Len(s.buf) >= MAX_VAR_SIZE - 1
<1>3. full <=> ~(Len(s.buf) < MAX_VAR_SIZE - 1)
  BY <1>2
<1> HIDE DEF full
<1>4. ReadChar(s, c) = IF full THEN s
                       ELSE CASE c = CR -> s
                              [] c = EQ -> SetVar(s, "name")
                              [] c = NL -> [SetVar(s, "value") EXCEPT !.idx = s.idx + 1]
                              [] OTHER  -> [s EXCEPT !.buf = Append(s.buf, c)]
  BY DEF ReadChar, NextSlot, full
<1>5. full \/ c = CR => ReadChar(s, c) = s
  BY <1>1, <1>4
<1>6. ~full /\ c = EQ => ReadChar(s, c) = SetVar(s, "name")
  BY <1>1, <1>4
<1>7. ~full /\ c = NL => ReadChar(s, c) = [SetVar(s, "value") EXCEPT !.idx = s.idx + 1]
  BY <1>1, <1>4
<1>8. ~full /\ c \notin {CR, EQ, NL} => ReadChar(s, c) = [s EXCEPT !.buf = Append(s.buf, c)]
  BY <1>4
<1> QED
  BY <1>3, <1>5, <1>6, <1>7, <1>8 DEF full

LEMMA ReadCharType ==
  ASSUME NEW s \in LoadState, NEW c \in Char
  PROVE  ReadChar(s, c) \in LoadState
<1>0. /\ s.vars \in [Slots -> [name : Buffer, value : Buffer]] /\ s.buf \in Buffer
      /\ s.idx \in Nat \ {0} /\ s.overrun \in BOOLEAN /\ <<>> \in Buffer
      /\ Len(s.buf) \in Nat /\ MAX_VAR_SIZE \in Nat
  BY VarsAssumption DEF LoadState, Buffer
<1>1. ASSUME NEW field \in {"name", "value"} PROVE SetVar(s, field) \in LoadState
  <2> DEFINE v == [s.vars EXCEPT ![s.idx] = [@ EXCEPT ![field] = s.buf]]
  <2>1. s.idx \in Slots => v \in [Slots -> [name : Buffer, value : Buffer]]
    BY <1>0
  <2> DEFINE w == IF s.idx \in Slots THEN v ELSE s.vars
             o == IF s.idx \in Slots THEN s.overrun ELSE TRUE
  <2>2. SetVar(s, field) = [vars |-> w, buf |-> <<>>, idx |-> s.idx, overrun |-> o]
    BY SetVarIs
  <2> HIDE DEF v
  <2>3. w \in [Slots -> [name : Buffer, value : Buffer]] /\ o \in BOOLEAN
    BY <1>0, <2>1
  <2> HIDE DEF w, o
  <2> QED
    BY <1>0, <2>2, <2>3 DEF LoadState
<1>2. CASE Len(s.buf) >= MAX_VAR_SIZE - 1 \/ c = CR
  BY <1>2, ReadCharIs
<1>3. CASE Len(s.buf) < MAX_VAR_SIZE - 1 /\ c = EQ
  BY <1>1, <1>3, ReadCharIs
<1>4. CASE Len(s.buf) < MAX_VAR_SIZE - 1 /\ c = NL
  <2>1. ReadChar(s, c) = [SetVar(s, "value") EXCEPT !.idx = s.idx + 1]
    BY <1>4, ReadCharIs
  <2>2. SetVar(s, "value") \in LoadState /\ s.idx + 1 \in Nat \ {0}
    BY <1>0, <1>1
  <2> QED
    BY <2>1, <2>2 DEF LoadState
<1>5. CASE Len(s.buf) < MAX_VAR_SIZE - 1 /\ c \notin {CR, EQ, NL}
  <2>1. ReadChar(s, c) = [s EXCEPT !.buf = Append(s.buf, c)]
    BY <1>5, ReadCharIs
  <2>2. Append(s.buf, c) \in Buffer
    BY <1>0, <1>5 DEF Buffer
  <2> QED
    BY <2>1, <2>2 DEF LoadState
<1> QED
  BY <1>0, <1>2, <1>3, <1>4, <1>5

-----------------------------------------------------------------------------
(* The loop's state is the text read so far, line by line. *)

\* What the line that ends at position e puts into its place.
LineVar(text, e) ==
  [name  |-> NameOf(LineTo(text, e)),
   value |-> IF e = Len(text) + 1 THEN <<>> ELSE ValueOf(LineTo(text, e))]

Parsed(s, text) ==
  /\ s.idx = Place(text, Len(text) + 1)
  /\ s.buf = ValueOf(LineTo(text, Len(text) + 1))
  /\ \A e \in Ends(text) : Place(text, e) \in Slots =>
       s.vars[Place(text, e)] = LineVar(text, e)
  /\ \A i \in Slots : i > s.idx => s.vars[i] = Unset
  /\ \A i \in 1 .. s.idx : \E e \in Ends(text) : Place(text, e) = i

LEMMA NothingParsed == Parsed(BeforeLoad, <<>>)
<1>1. Positions(<<>>, NL) = {}
  BY DEF Positions
<1>2. Before(<<>>, 1) = {} /\ Ends(<<>>) = {1} /\ Len(<<>>) = 0
  BY <1>1 DEF Before, Ends
<1>3. Place(<<>>, 1) = 1
  BY <1>2, FS_EmptySet DEF Place
<1>4. LineTo(<<>>, 1) = <<>>
  <2>1. <<>> \in Seq(Char) /\ 1 \in Ends(<<>>)
    BY <1>2
  <2>2. LastOf({}) = 0
    BY DEF LastOf
  <2>3. LineTo(<<>>, 1) = SubSeq(<<>>, 1 + 0, 1 - 1)
    BY <1>2, <2>1, <2>2, LineIs
  <2>4. SubSeq(<<>>, 1 + 0, 1 - 1) = <<>>
    BY SubSeqEmpty
  <2> QED
    BY <2>3, <2>4
<1>5. LineVar(<<>>, 1) = Unset
  BY <1>2, <1>4, EmptyLine DEF LineVar, Unset
<1> QED
  BY <1>2, <1>3, <1>4, <1>5, EmptyLine DEF Parsed, BeforeLoad, Zeroed, Unset

\* The places of two lines differ.
LEMMA PlacesDiffer ==
  ASSUME NEW s \in Seq(Char), NEW e \in Positions(s, NL)
  PROVE  /\ Place(s, e) < Place(s, Len(s) + 1) /\ Place(s, e) \in Nat \ {0}
         /\ Place(s, Len(s) + 1) \in Nat \ {0} /\ e # Len(s) + 1
<1>1. e \in 1 .. Len(s) /\ Len(s) + 1 \in Ends(s)
  BY EndsOf
<1>2. e < Len(s) + 1
  BY <1>1
<1> QED
  BY <1>1, <1>2, PlaceFacts

LEMMA LineVarKept ==
  ASSUME NEW s \in Seq(Char), NEW c \in Char, NEW e \in Positions(s, NL)
  PROVE  /\ Place(Append(s, c), e) = Place(s, e)
         /\ LineVar(Append(s, c), e) = LineVar(s, e)
<1>1. e # Len(s) + 1 /\ e # Len(Append(s, c)) + 1
  BY PositionsOf
<1> QED
  BY <1>1, EndedLineKept DEF LineVar

\* Of the array only the place of the last line changes, and the line is not ended.
LEMMA ParsedInLine ==
  ASSUME NEW s, NEW r, NEW text \in Seq(Char), NEW c \in Char, c # NL, Parsed(s, text),
         r.idx = s.idx,
         r.buf = ValueOf(Append(LineTo(text, Len(text) + 1), c)),
         \A i \in Slots : i # s.idx => r.vars[i] = s.vars[i],
         s.idx \in Slots =>
           r.vars[s.idx] = [name  |-> NameOf(Append(LineTo(text, Len(text) + 1), c)),
                            value |-> <<>>]
  PROVE  Parsed(r, Append(text, c))
<1> DEFINE t == Append(text, c)
           m == Len(text) + 1
           n == Len(t) + 1
           line == LineTo(text, m)
<1>1. t \in Seq(Char) /\ n \in Nat \ {0}
  OBVIOUS
<1>2. /\ Positions(t, NL) = Positions(text, NL)
      /\ Place(t, n) = Place(text, m)
      /\ LineTo(t, n) = Append(line, c)
  BY LastLineGrows
<1>3. /\ Place(text, m) = s.idx /\ s.idx \in Nat \ {0}
      /\ \A e \in Ends(text) : Place(text, e) \in Slots =>
           s.vars[Place(text, e)] = LineVar(text, e)
      /\ \A i \in Slots : i > s.idx => s.vars[i] = Unset
      /\ \A i \in 1 .. s.idx : \E e \in Ends(text) : Place(text, e) = i
  BY PlaceFacts DEF Parsed
<1>4. \A e \in Positions(text, NL) :
        /\ Place(t, e) = Place(text, e) /\ LineVar(t, e) = LineVar(text, e)
        /\ Place(text, e) # s.idx /\ e \in Ends(text)
  BY <1>3, LineVarKept, PlacesDiffer, EndsOf
<1>5. LineVar(t, n) = [name |-> NameOf(Append(line, c)), value |-> <<>>]
  BY <1>2 DEF LineVar
<1>6. Ends(t) = Positions(text, NL) \cup {n} /\ Ends(text) = Positions(text, NL) \cup {m}
  BY <1>2 DEF Ends
<1> HIDE DEF t, m, n, line
<1>7. \A e \in Ends(t) : Place(t, e) \in Slots => r.vars[Place(t, e)] = LineVar(t, e)
  <2>1. ASSUME NEW e \in Positions(text, NL), Place(t, e) \in Slots
        PROVE  r.vars[Place(t, e)] = LineVar(t, e)
    BY <1>3, <1>4, <2>1
  <2>2. Place(t, n) \in Slots => r.vars[Place(t, n)] = LineVar(t, n)
    BY <1>2, <1>3, <1>5 DEF line, m
  <2> QED
    BY <1>6, <2>1, <2>2
<1>8. \A i \in Slots : i > r.idx => r.vars[i] = Unset
  BY <1>3 DEF Slots
<1>9. \A i \in 1 .. r.idx : \E e \in Ends(t) : Place(t, e) = i
  <2> SUFFICES ASSUME NEW i \in 1 .. s.idx PROVE \E e \in Ends(t) : Place(t, e) = i
    OBVIOUS
  <2>1. PICK e \in Ends(text) : Place(text, e) = i
    BY <1>3
  <2> QED
    BY <1>2, <1>4, <1>6, <2>1
<1>10. r.buf = ValueOf(LineTo(t, n))
  BY <1>2 DEF line, m
<1> QED
  BY <1>2, <1>3, <1>7, <1>8, <1>9, <1>10 DEF Parsed, t, n

\* The last line is ended.
LEMMA ParsedEnd ==
  ASSUME NEW s, NEW r, NEW text \in Seq(Char), Parsed(s, text),
         r.idx = s.idx + 1, r.buf = <<>>,
         \A i \in Slots : i # s.idx => r.vars[i] = s.vars[i],
         s.idx \in Slots =>
           r.vars[s.idx] = [name  |-> NameOf(LineTo(text, Len(text) + 1)),
                            value |-> ValueOf(LineTo(text, Len(text) + 1))]
  PROVE  Parsed(r, Append(text, NL))
<1> DEFINE t == Append(text, NL)
           m == Len(text) + 1
           n == Len(t) + 1
           line == LineTo(text, m)
<1>0. NL \in Char
  BY FileIsText
<1>1. t \in Seq(Char) /\ n \in Nat \ {0} /\ m # n
  BY <1>0
<1>2. /\ Positions(t, NL) = Positions(text, NL) \cup {m}
      /\ Place(t, m) = Place(text, m) /\ Place(t, n) = Place(text, m) + 1
      /\ LineTo(t, m) = line /\ LineTo(t, n) = <<>>
  BY LastLineEnds
<1>3. /\ Place(text, m) = s.idx /\ s.idx \in Nat \ {0}
      /\ \A e \in Ends(text) : Place(text, e) \in Slots =>
           s.vars[Place(text, e)] = LineVar(text, e)
      /\ \A i \in Slots : i > s.idx => s.vars[i] = Unset
      /\ \A i \in 1 .. s.idx : \E e \in Ends(text) : Place(text, e) = i
  BY PlaceFacts DEF Parsed
<1>4. \A e \in Positions(text, NL) :
        /\ Place(t, e) = Place(text, e) /\ LineVar(t, e) = LineVar(text, e)
        /\ Place(text, e) # s.idx /\ e \in Ends(text)
  BY <1>0, <1>3, LineVarKept, PlacesDiffer, EndsOf
<1>5. /\ LineVar(t, m) = [name |-> NameOf(line), value |-> ValueOf(line)]
      /\ LineVar(t, n) = Unset
  BY <1>1, <1>2, EmptyLine DEF LineVar, Unset
<1>6. /\ Ends(t) = Positions(text, NL) \cup {m, n}
      /\ Ends(text) = Positions(text, NL) \cup {m}
  BY <1>2 DEF Ends
<1> HIDE DEF t, m, n, line
<1>7. \A e \in Ends(t) : Place(t, e) \in Slots => r.vars[Place(t, e)] = LineVar(t, e)
  <2>1. ASSUME NEW e \in Positions(text, NL), Place(t, e) \in Slots
        PROVE  r.vars[Place(t, e)] = LineVar(t, e)
    BY <1>3, <1>4, <2>1
  <2>2. Place(t, m) \in Slots => r.vars[Place(t, m)] = LineVar(t, m)
    BY <1>2, <1>3, <1>5 DEF line, m
  <2>3. Place(t, n) \in Slots => r.vars[Place(t, n)] = LineVar(t, n)
    BY <1>2, <1>3, <1>5
  <2> QED
    BY <1>6, <2>1, <2>2, <2>3
<1>8. \A i \in Slots : i > r.idx => r.vars[i] = Unset
  BY <1>3 DEF Slots
<1>9. \A i \in 1 .. r.idx : \E e \in Ends(t) : Place(t, e) = i
  <2> SUFFICES ASSUME NEW i \in 1 .. s.idx + 1 PROVE \E e \in Ends(t) : Place(t, e) = i
    OBVIOUS
  <2>1. CASE i = s.idx + 1
    BY <1>2, <1>3, <1>6, <2>1
  <2>2. CASE i \in 1 .. s.idx
    <3>1. PICK e \in Ends(text) : Place(text, e) = i
      BY <1>3, <2>2
    <3> QED
      BY <1>2, <1>4, <1>6, <3>1
  <2> QED
    BY <1>3, <2>1, <2>2
<1>10. r.buf = ValueOf(LineTo(t, n)) /\ r.idx = Place(t, n)
  BY <1>2, <1>3, EmptyLine
<1> QED
  BY <1>7, <1>8, <1>9, <1>10 DEF Parsed, t, n

\* A character that is read keeps the state in step with the text.
LEMMA ParsedStep ==
  ASSUME NEW s \in LoadState, NEW text \in Seq(Char), NEW c \in Char, c # CR,
         Parsed(s, text), Len(s.buf) < MAX_VAR_SIZE - 1
  PROVE  Parsed(ReadChar(s, c), Append(text, c))
<1> DEFINE line == LineTo(text, Len(text) + 1)
           r == ReadChar(s, c)
<1>1. line \in Seq(Char) /\ s.buf = ValueOf(line)
  <2>1. Len(text) + 1 \in Ends(text)
    BY EndsOf
  <2> QED
    BY <2>1, LineIs DEF Parsed
<1>2. s.idx \in Slots => s.vars[s.idx] = [name |-> NameOf(line), value |-> <<>>]
  <2>1. Len(text) + 1 \in Ends(text) /\ s.idx = Place(text, Len(text) + 1)
    BY EndsOf DEF Parsed
  <2> QED
    BY <2>1 DEF Parsed, LineVar
<1>3. EQ # NL /\ CR # NL /\ s.vars \in [Slots -> [name : Buffer, value : Buffer]]
  BY DEF EQ, NL, CR, LoadState
<1> HIDE DEF line
<1>4. CASE c = EQ
  <2>1. r = SetVar(s, "name")
    BY <1>4, ReadCharIs
  <2> DEFINE v == [s.vars EXCEPT ![s.idx] = [@ EXCEPT !["name"] = s.buf]]
             w == IF s.idx \in Slots THEN v ELSE s.vars
             o == IF s.idx \in Slots THEN s.overrun ELSE TRUE
  <2>2. r.idx = s.idx /\ r.buf = <<>> /\ r.vars = w
    <3>1. SetVar(s, "name") = [vars |-> w, buf |-> <<>>, idx |-> s.idx, overrun |-> o]
      BY SetVarIs
    <3> HIDE DEF w, o
    <3> QED
      BY <2>1, <3>1
  <2>3. \A i \in Slots : i # s.idx => r.vars[i] = s.vars[i]
    BY <1>3, <2>2
  <2>4. s.idx \in Slots => r.vars[s.idx] = [name |-> ValueOf(line), value |-> <<>>]
    BY <1>1, <1>2, <1>3, <2>2
  <2> HIDE DEF v, r
  <2>5. NameOf(Append(line, EQ)) = ValueOf(line) /\ ValueOf(Append(line, EQ)) = <<>>
    BY <1>1, LineNamed
  <2>6. Parsed(r, Append(text, c))
    BY <1>3, <1>4, <2>2, <2>3, <2>4, <2>5, ParsedInLine DEF line
  <2> QED
    BY <2>6 DEF r
<1>5. CASE c = NL
  <2>1. r = [SetVar(s, "value") EXCEPT !.idx = s.idx + 1]
    BY <1>5, ReadCharIs
  <2> DEFINE v == [s.vars EXCEPT ![s.idx] = [@ EXCEPT !["value"] = s.buf]]
             w == IF s.idx \in Slots THEN v ELSE s.vars
             o == IF s.idx \in Slots THEN s.overrun ELSE TRUE
  <2>2. r.idx = s.idx + 1 /\ r.buf = <<>> /\ r.vars = w
    <3>1. SetVar(s, "value") = [vars |-> w, buf |-> <<>>, idx |-> s.idx, overrun |-> o]
      BY SetVarIs
    <3> HIDE DEF w, o
    <3> QED
      BY <2>1, <3>1
  <2>3. \A i \in Slots : i # s.idx => r.vars[i] = s.vars[i]
    BY <1>3, <2>2
  <2>4. s.idx \in Slots => r.vars[s.idx] = [name |-> NameOf(line), value |-> ValueOf(line)]
    BY <1>1, <1>2, <1>3, <2>2
  <2> HIDE DEF v, r
  <2>5. Parsed(r, Append(text, NL))
    BY <2>2, <2>3, <2>4, ParsedEnd DEF line
  <2> QED
    BY <1>5, <2>5 DEF r
<1>6. CASE c \notin {EQ, NL}
  <2>1. r = [s EXCEPT !.buf = Append(s.buf, c)]
    BY <1>6, ReadCharIs
  <2>2. r.idx = s.idx /\ r.buf = Append(s.buf, c) /\ r.vars = s.vars
    BY <2>1 DEF LoadState
  <2>3. /\ NameOf(Append(line, c)) = NameOf(line)
        /\ ValueOf(Append(line, c)) = Append(ValueOf(line), c)
    BY <1>1, <1>6, LineGrows
  <2> HIDE DEF r
  <2>4. Parsed(r, Append(text, c))
    BY <1>1, <1>2, <1>6, <2>2, <2>3, ParsedInLine DEF line
  <2> QED
    BY <2>4 DEF r
<1> QED
  BY <1>4, <1>5, <1>6

-----------------------------------------------------------------------------
(* The recursive functions, character by character. *)

\* The recursive definition of Loading has a solution, and its states are of their type.
LEMMA LoadingIs ==
  ASSUME NEW text \in Seq(Char)
  PROVE  /\ Loading(text) \in [0 .. Len(text) -> LoadState]
         /\ Loading(text)[0] = BeforeLoad
         /\ \A n \in 1 .. Len(text) : Loading(text)[n] = ReadChar(Loading(text)[n - 1], text[n])
<1> DEFINE N == Len(text)
           Solves(g) == g = [n \in 0 .. N |-> IF n = 0 THEN BeforeLoad
                                              ELSE ReadChar(g[n - 1], text[n])]
           F == [n \in 1 .. N |-> [s \in LoadState |-> ReadChar(s, text[n])]]
<1>1. N \in Nat /\ \A n \in 1 .. N : text[n] \in Char
  OBVIOUS
<1>2. F \in [1 .. N -> [LoadState -> LoadState]]
  BY <1>1, ReadCharType
<1> HIDE DEF F, N
<1>3. PICK g \in [0 .. N -> LoadState] :
        g[0] = BeforeLoad /\ \A n \in 1 .. N : g[n] = F[n][g[n - 1]]
  <2> DEFINE b == BeforeLoad
  <2>1. N \in Nat /\ b \in LoadState
    BY <1>1, BeforeLoadType
  <2> HIDE DEF b
  <2>2. \E g : Follows(g, N, LoadState, b, F)
    BY <1>2, <2>1, RecursionTo
  <2> QED
    BY <2>2 DEF Follows, b
<1>4. \A n \in 1 .. N : n - 1 \in 0 .. N /\ n \in 0 .. N /\ n # 0
  BY <1>1
<1>5. \A n \in 1 .. N : g[n] = ReadChar(g[n - 1], text[n])
  BY <1>3, <1>4 DEF F
<1>6. Solves(g)
  <2> DEFINE h == [n \in 0 .. N |-> IF n = 0 THEN BeforeLoad ELSE ReadChar(g[n - 1], text[n])]
  <2>1. \A n \in 0 .. N : g[n] = h[n]
    BY <1>1, <1>3, <1>5
  <2> QED
    BY <1>3, <2>1
<1>7. Solves(Loading(text))
  <2>1. Loading(text) = CHOOSE f : Solves(f)
    BY DEF Loading, N
  <2> HIDE DEF Solves
  <2> QED
    BY <1>6, <2>1
<1> DEFINE f == Loading(text)
<1> HIDE DEF f
<1>8. /\ DOMAIN f = 0 .. N /\ f[0] = BeforeLoad
      /\ \A n \in 1 .. N : f[n] = ReadChar(f[n - 1], text[n])
  BY <1>1, <1>4, <1>7 DEF f
<1>9. \A n \in 0 .. N : f[n] \in LoadState
  <2> DEFINE S == {n \in 0 .. N : f[n] \in LoadState}
  <2>1. 0 \in S
    BY <1>1, <1>8, BeforeLoadType
  <2>2. ASSUME NEW n \in 0 .. N - 1, n \in S PROVE n + 1 \in S
    <3> DEFINE k == n + 1
    <3>1. k \in 1 .. N /\ k - 1 = n /\ k \in 0 .. N /\ f[n] \in LoadState
      BY <1>1, <2>2
    <3> HIDE DEF k
    <3>2. f[k] = ReadChar(f[n], text[k]) /\ text[k] \in Char
      BY <1>1, <1>8, <3>1
    <3>3. f[k] \in LoadState
      BY <3>1, <3>2, ReadCharType
    <3>4. k \in S
      BY <3>1, <3>3
    <3> QED
      BY <3>4 DEF k
  <2> HIDE DEF S
  <2>3. \A n \in 0 .. N : n \in S
    BY <1>1, <2>1, <2>2, InductionTo
  <2> QED
    BY <2>3 DEF S
<1>10. f \in [0 .. N -> LoadState]
  <2>1. f = [n \in 0 .. N |-> f[n]]
    BY <1>7 DEF f
  <2> QED
    BY <1>9, <2>1
<1> QED
  BY <1>8, <1>10 DEF f, N

\* What is left of the first n characters without the carriage returns.
Kept(text) ==
  LET kept[n \in 0 .. Len(text)] ==
        IF n = 0 THEN <<>>
        ELSE IF text[n] = CR THEN kept[n - 1] ELSE Append(kept[n - 1], text[n])
  IN kept

\* Likewise the text without carriage returns.
LEMMA KeptIs ==
  ASSUME NEW text \in Seq(Char)
  PROVE  /\ WithoutCR(text) = Kept(text)[Len(text)]
         /\ Kept(text) \in [0 .. Len(text) -> Seq(Char)]
         /\ Kept(text)[0] = <<>>
         /\ \A n \in 1 .. Len(text) : Kept(text)[n] =
              IF text[n] = CR THEN Kept(text)[n - 1] ELSE Append(Kept(text)[n - 1], text[n])
<1> DEFINE N == Len(text)
           empty == <<>>
           More(s, c) == IF c = CR THEN s ELSE Append(s, c)
           Solves(g) == g = [n \in 0 .. N |-> IF n = 0 THEN empty ELSE More(g[n - 1], text[n])]
           F == [n \in 1 .. N |-> [s \in Seq(Char) |-> More(s, text[n])]]
<1>1. N \in Nat /\ \A n \in 1 .. N : text[n] \in Char
  OBVIOUS
<1>2. \A s \in Seq(Char), c \in Char : More(s, c) \in Seq(Char)
  OBVIOUS
<1>m. Kept(text) = CHOOSE f : Solves(f)
  BY DEF Kept
<1> HIDE DEF N, More
<1>3. F \in [1 .. N -> [Seq(Char) -> Seq(Char)]]
  BY <1>1, <1>2
<1> HIDE DEF F
<1>4. empty \in Seq(Char)
  OBVIOUS
<1> HIDE DEF empty
<1>5. PICK g \in [0 .. N -> Seq(Char)] :
        g[0] = empty /\ \A n \in 1 .. N : g[n] = F[n][g[n - 1]]
  <2> DEFINE S == Seq(Char)
             b == empty
             G == F
             M == N
  <2>1. M \in Nat /\ b \in S
    BY <1>1, <1>4
  <2>2. G \in [1 .. M -> [S -> S]]
    BY <1>3
  <2> HIDE DEF S, b, G, M
  <2>3. \E g : Follows(g, M, S, b, G)
    BY ONLY <2>1, <2>2, RecursionTo
  <2> QED
    BY <2>3 DEF Follows, S, b, G, M
<1>6. \A n \in 1 .. N : n - 1 \in 0 .. N /\ n \in 0 .. N /\ n # 0
  BY <1>1
<1>7. \A n \in 1 .. N : g[n] = More(g[n - 1], text[n])
  BY <1>5, <1>6 DEF F
<1>8. Solves(g)
  <2> DEFINE h == [n \in 0 .. N |-> IF n = 0 THEN empty ELSE More(g[n - 1], text[n])]
  <2>1. \A n \in 0 .. N : g[n] = h[n]
    BY <1>1, <1>5, <1>7
  <2> QED
    BY <1>5, <2>1
<1>9. Solves(Kept(text))
  <2> HIDE DEF Solves
  <2> QED
    BY <1>8, <1>m
<1> DEFINE f == Kept(text)
<1> HIDE DEF f
<1>10. /\ f = [n \in 0 .. N |-> f[n]] /\ f[0] = empty
       /\ \A n \in 1 .. N : f[n] = More(f[n - 1], text[n])
  <2>1. f = [n \in 0 .. N |-> IF n = 0 THEN empty ELSE More(f[n - 1], text[n])]
    BY <1>9 DEF f
  <2>2. 0 \in 0 .. N
    BY <1>1
  <2>3. f[0] = empty
    BY <2>1, <2>2
  <2>4. \A n \in 1 .. N : f[n] = More(f[n - 1], text[n])
    BY <2>1, <1>6
  <2>5. f = [n \in 0 .. N |-> f[n]]
    BY <2>1
  <2> QED
    BY <2>3, <2>4, <2>5
<1>11. \A n \in 0 .. N : f[n] \in Seq(Char)
  <2> DEFINE S == {n \in 0 .. N : f[n] \in Seq(Char)}
  <2>1. 0 \in S
    BY <1>1, <1>4, <1>10
  <2>2. ASSUME NEW n \in 0 .. N - 1, n \in S PROVE n + 1 \in S
    <3> DEFINE k == n + 1
    <3>1. k \in 1 .. N /\ k - 1 = n /\ k \in 0 .. N /\ f[n] \in Seq(Char)
      BY <1>1, <2>2
    <3> HIDE DEF k
    <3>2. f[k] = More(f[n], text[k]) /\ text[k] \in Char
      BY <1>1, <1>10, <3>1
    <3>3. k \in S
      BY <1>2, <3>1, <3>2
    <3> QED
      BY <3>3 DEF k
  <2> HIDE DEF S
  <2>3. \A n \in 0 .. N : n \in S
    BY <1>1, <2>1, <2>2, InductionTo
  <2> QED
    BY <2>3 DEF S
<1>12. f \in [0 .. N -> Seq(Char)]
  BY <1>10, <1>11
<1>13. WithoutCR(text) = Kept(text)[Len(text)]
  BY DEF WithoutCR, Kept
<1> QED
  BY <1>10, <1>12, <1>13 DEF f, N, More, empty

-----------------------------------------------------------------------------
(* A part that fills the buffer. *)

Long(text) == {p \in DOMAIN text : PartAt(text, p) >= MAX_VAR_SIZE - 1}

LEMMA PartType ==
  ASSUME NEW text, NEW p \in Nat
  PROVE  PartAt(text, p) \in 0 .. p
<1> DEFINE S == {i \in 1 .. p : text[i] \in {NL, EQ}}
<1>1. S \in SUBSET (1 .. p)
  OBVIOUS
<1> HIDE DEF S
<1>2. LastOf(S) \in 0 .. p
  BY <1>1, LastOfFacts
<1> QED
  BY <1>2 DEF PartAt, S

\* A separator begins a part; another character makes the last part longer.
LEMMA PartGrows ==
  ASSUME NEW text \in Seq(Char), NEW c \in Char
  PROVE  /\ \A p \in 0 .. Len(text) : PartAt(Append(text, c), p) = PartAt(text, p)
         /\ PartAt(Append(text, c), Len(text) + 1) =
              IF c \in {NL, EQ} THEN 0 ELSE PartAt(text, Len(text)) + 1
<1> DEFINE t == Append(text, c)
           n == Len(text) + 1
           S(u, p) == {i \in 1 .. p : u[i] \in {NL, EQ}}
<1>1. t \in Seq(Char) /\ Len(t) = n /\ t[n] = c /\ n \in Nat \ {0} /\ n - 1 = Len(text)
  OBVIOUS
<1>2. \A i \in 1 .. Len(text) : t[i] = text[i]
  OBVIOUS
<1>3. \A p \in 0 .. Len(text) : S(t, p) = S(text, p)
  BY <1>2
<1>4. \A u, p : PartAt(u, p) = p - LastOf(S(u, p))
  BY DEF PartAt
<1> HIDE DEF t
<1>5. \A p \in 0 .. Len(text) : PartAt(t, p) = PartAt(text, p)
  BY <1>3, <1>4
<1>6. CASE c \in {NL, EQ}
  <2>1. n \in S(t, n) /\ S(t, n) \in SUBSET Int /\ \A i \in S(t, n) : i <= n
    BY <1>1, <1>6
  <2> HIDE DEF S
  <2>2. LastOf(S(t, n)) = n
    BY <2>1, LastOfIs
  <2>3. PartAt(t, n) = 0
    BY <1>1, <1>4, <2>2
  <2> QED
    BY <1>5, <1>6, <2>3 DEF t, n
<1>7. CASE c \notin {NL, EQ}
  <2>1. S(t, n) = S(text, Len(text))
    <3>1. \A i \in 1 .. n : i = n \/ i \in 1 .. Len(text)
      BY <1>1
    <3>2. \A i \in 1 .. Len(text) : i \in 1 .. n
      BY <1>1
    <3> QED
      BY <1>1, <1>2, <1>7, <3>1, <3>2
  <2>2. S(text, Len(text)) \in SUBSET (1 .. Len(text)) /\ Len(text) \in Nat
    OBVIOUS
  <2> HIDE DEF S
  <2>3. LastOf(S(text, Len(text))) \in 0 .. Len(text)
    BY <2>2, LastOfFacts
  <2>4. PartAt(t, n) = PartAt(text, Len(text)) + 1
    BY <1>4, <2>1, <2>2, <2>3
  <2> QED
    BY <1>5, <1>7, <2>4 DEF t, n
<1> QED
  BY <1>6, <1>7

\* The text that is read ends in a part that fills the buffer exactly when it has one.
LEMMA UpToLongIs ==
  ASSUME NEW text \in Seq(Char)
  PROVE  LET r == UpToLongPart(text)
         IN  /\ r \in Seq(Char)
             /\ Long(text) = {} => r = text /\ PartAt(r, Len(r)) < MAX_VAR_SIZE - 1
             /\ Long(text) # {} => PartAt(r, Len(r)) >= MAX_VAR_SIZE - 1
<1>0. MAX_VAR_SIZE \in Nat /\ MAX_VAR_SIZE - 1 > 0 /\ Len(text) \in Nat
  BY VarsAssumption
<1>1. CASE Long(text) = {}
  <2>1. UpToLongPart(text) = text
    BY <1>1 DEF UpToLongPart, Long
  <2>2. PartAt(text, Len(text)) < MAX_VAR_SIZE - 1
    <3>1. CASE Len(text) = 0
      <4>1. PartAt(text, 0) = 0
        <5>1. PartAt(text, 0) \in 0 .. 0
          BY PartType
        <5> QED
          BY <5>1
      <4> QED
        BY <1>0, <3>1, <4>1
    <3>2. CASE Len(text) # 0
      <4>1. Len(text) \in DOMAIN text /\ PartAt(text, Len(text)) \in Int
        BY <1>0, <3>2, PartType
      <4> QED
        BY <1>0, <1>1, <4>1 DEF Long
    <3> QED
      BY <3>1, <3>2
  <2> QED
    BY <1>1, <2>1, <2>2
<1>2. CASE Long(text) # {}
  <2> DEFINE m == Min(Long(text))
  <2>1. Long(text) \in SUBSET Nat /\ Long(text) \in SUBSET (1 .. Len(text))
    BY DEF Long
  <2>2. m \in Long(text)
    BY <1>2, <2>1, MinFacts
  <2>3. UpToLongPart(text) = SubSeq(text, 1, m)
    BY <1>2 DEF UpToLongPart, Long
  <2>4. m \in 1 .. Len(text) /\ PartAt(text, m) >= MAX_VAR_SIZE - 1
    BY <2>1, <2>2 DEF Long
  <2> HIDE DEF m
  <2> DEFINE r == SubSeq(text, 1, m)
  <2>5. r \in Seq(Char) /\ Len(r) = m /\ \A i \in 1 .. m : r[i] = text[i]
    BY <2>4
  <2>6. PartAt(r, m) = PartAt(text, m)
    <3>1. {i \in 1 .. m : r[i] \in {NL, EQ}} = {i \in 1 .. m : text[i] \in {NL, EQ}}
      BY <2>5
    <3> QED
      BY <3>1 DEF PartAt
  <2> QED
    BY <1>2, <2>3, <2>4, <2>5, <2>6
<1> QED
  BY <1>1, <1>2

\* Nothing that follows a part that fills the buffer is read.
LEMMA UpToLongGrows ==
  ASSUME NEW text \in Seq(Char), NEW c \in Char
  PROVE  /\ Long(text) = {} => UpToLongPart(Append(text, c)) = Append(text, c)
         /\ Long(text) # {} => UpToLongPart(Append(text, c)) = UpToLongPart(text)
<1> DEFINE t == Append(text, c)
           n == Len(text) + 1
<1>1. t \in Seq(Char) /\ Len(t) = n /\ DOMAIN t = 1 .. n /\ DOMAIN text = 1 .. Len(text)
      /\ Len(text) \in Nat
  OBVIOUS
<1>2. \A p \in 1 .. Len(text) : p \in Long(t) <=> p \in Long(text)
  <2> SUFFICES ASSUME NEW p \in 1 .. Len(text) PROVE p \in Long(t) <=> p \in Long(text)
    OBVIOUS
  <2>1. PartAt(t, p) = PartAt(text, p)
    BY PartGrows
  <2> HIDE DEF t
  <2> QED
    BY <1>1, <2>1 DEF Long
<1>3. Long(t) \in SUBSET (1 .. n) /\ Long(text) \in SUBSET (1 .. Len(text))
  BY <1>1 DEF Long
<1> HIDE DEF t
<1>4. CASE Long(text) = {}
  <2>1. Long(t) = {} \/ Long(t) = {n}
    BY <1>1, <1>2, <1>3, <1>4
  <2>2. CASE Long(t) = {}
    BY <2>2, <1>4 DEF UpToLongPart, Long, t
  <2>3. CASE Long(t) = {n}
    <3>1. Min({n}) = n
      <4>1. {n} \in SUBSET Int /\ n \in {n} /\ \A p \in {n} : n <= p
        BY <1>1
      <4> DEFINE S == {n}
      <4> HIDE DEF S
      <4>2. Min(S) = n
        BY <4>1, MinIs DEF S
      <4> QED
        BY <4>2 DEF S
    <3>2. UpToLongPart(t) = SubSeq(t, 1, Min(Long(t)))
      BY <2>3 DEF UpToLongPart, Long
    <3>3. SubSeq(t, 1, n) = t
      BY <1>1, SubSeqFull
    <3> QED
      BY <1>4, <2>3, <3>1, <3>2, <3>3 DEF t
  <2> QED
    BY <2>1, <2>2, <2>3
<1>5. CASE Long(text) # {}
  <2> DEFINE m == Min(Long(text))
  <2>1. m \in Long(text) /\ \A p \in Long(text) : m <= p
    <3>1. Long(text) \in SUBSET Nat
      BY <1>3
    <3> QED
      BY <1>5, <3>1, MinFacts
  <2> HIDE DEF m
  <2>2. m \in 1 .. Len(text)
    BY <1>3, <2>1
  <2>3. m \in Long(t) /\ Long(t) \in SUBSET Int /\ \A p \in Long(t) : m <= p
    BY <1>1, <1>2, <1>3, <2>1, <2>2
  <2>4. Min(Long(t)) = m
    BY <2>3, MinIs
  <2>5. UpToLongPart(t) = SubSeq(t, 1, m) /\ UpToLongPart(text) = SubSeq(text, 1, m)
    BY <1>5, <2>3, <2>4 DEF UpToLongPart, Long, m
  <2>6. SubSeq(t, 1, m) = SubSeq(text, 1, m)
    <3>1. 1 \in Nat \ {0} /\ m \in 0 .. Len(text)
      BY <2>2
    <3> QED
      BY <3>1, PartOfLonger DEF t
  <2> QED
    BY <1>5, <2>5, <2>6 DEF t
<1> QED
  BY <1>4, <1>5

-----------------------------------------------------------------------------
(* The loop as a whole. *)

\* The loop's state once the text, without carriage returns, has been read.
ParsedUpTo(s, text) ==
  LET r == UpToLongPart(text)
  IN  Parsed(s, r) /\ Len(s.buf) = PartAt(r, Len(r))

LEMMA SetVarBuffer ==
  ASSUME NEW s \in LoadState, NEW field \in {"name", "value"}
  PROVE  SetVar(s, field).buf = <<>>
<1> DEFINE v == [s.vars EXCEPT ![s.idx] = [@ EXCEPT ![field] = s.buf]]
           w == IF s.idx \in Slots THEN v ELSE s.vars
           o == IF s.idx \in Slots THEN s.overrun ELSE TRUE
<1>1. SetVar(s, field) = [vars |-> w, buf |-> <<>>, idx |-> s.idx, overrun |-> o]
  BY SetVarIs
<1> HIDE DEF w, o
<1> QED
  BY <1>1

\* The buffer is as long as the part that is being read.
LEMMA ReadCharBuffer ==
  ASSUME NEW s \in LoadState, NEW c \in Char \ {CR}, Len(s.buf) < MAX_VAR_SIZE - 1
  PROVE  Len(ReadChar(s, c).buf) = IF c \in {NL, EQ} THEN 0 ELSE Len(s.buf) + 1
<1>1. CASE c = EQ
  <2>1. ReadChar(s, c) = SetVar(s, "name") /\ SetVar(s, "name").buf = <<>>
    BY <1>1, ReadCharIs, SetVarBuffer
  <2> QED
    BY <1>1, <2>1
<1>2. CASE c = NL
  <2> DEFINE r == SetVar(s, "value")
  <2>1. ReadChar(s, c) = [r EXCEPT !.idx = s.idx + 1] /\ r.buf = <<>>
    BY <1>2, ReadCharIs, SetVarBuffer
  <2> HIDE DEF r
  <2>2. [r EXCEPT !.idx = s.idx + 1].buf = r.buf
    OBVIOUS
  <2> QED
    BY <1>2, <2>1, <2>2
<1>3. CASE c \notin {NL, EQ}
  <2>1. ReadChar(s, c).buf = Append(s.buf, c)
    BY <1>3, ReadCharIs DEF LoadState
  <2>2. s.buf \in Seq(Char)
    BY DEF LoadState, Buffer
  <2> QED
    BY <1>3, <2>1, <2>2
<1> QED
  BY <1>1, <1>2, <1>3

\* Every character keeps the state in step with the text without carriage returns.
LEMMA LoadingParsed ==
  ASSUME NEW text \in Seq(Char), NEW n \in 0 .. Len(text)
  PROVE  ParsedUpTo(Loading(text)[n], Kept(text)[n])
<1> DEFINE N == Len(text)
           f == Loading(text)
           g == Kept(text)
           M == MAX_VAR_SIZE - 1
<1>1. N \in Nat /\ \A k \in 1 .. N : text[k] \in Char
  OBVIOUS
<1>2. /\ f \in [0 .. N -> LoadState] /\ f[0] = BeforeLoad
      /\ \A k \in 1 .. N : f[k] = ReadChar(f[k - 1], text[k])
  BY LoadingIs
<1>3. /\ g \in [0 .. N -> Seq(Char)] /\ g[0] = <<>>
      /\ \A k \in 1 .. N : g[k] = IF text[k] = CR THEN g[k - 1] ELSE Append(g[k - 1], text[k])
  BY KeptIs
<1>4. ParsedUpTo(BeforeLoad, <<>>)
  <2> DEFINE e == <<>>
  <2>1. e \in Seq(Char) /\ Long(e) = {} /\ Len(e) = 0
    BY DEF Long
  <2>2. Parsed(BeforeLoad, e) /\ Len(BeforeLoad.buf) = 0
    BY NothingParsed DEF BeforeLoad
  <2> HIDE DEF e
  <2>3. UpToLongPart(e) = e
    BY <2>1, UpToLongIs
  <2>4. PartAt(e, 0) = 0
    <3>1. 0 \in Nat
      OBVIOUS
    <3>2. PartAt(e, 0) \in 0 .. 0
      BY ONLY <3>1, PartType
    <3> QED
      BY <3>2
  <2>5. ParsedUpTo(BeforeLoad, e)
    BY <2>1, <2>2, <2>3, <2>4 DEF ParsedUpTo
  <2> QED
    BY <2>5 DEF e
<1>5. ASSUME NEW s \in LoadState, NEW t \in Seq(Char), NEW c \in Char, ParsedUpTo(s, t)
      PROVE  ParsedUpTo(ReadChar(s, c), IF c = CR THEN t ELSE Append(t, c))
  <2> DEFINE r == UpToLongPart(t)
  <2>1. Parsed(s, r) /\ Len(s.buf) = PartAt(r, Len(r))
    BY <1>5 DEF ParsedUpTo
  <2>2. CASE c = CR
    BY <1>5, <2>2, ReadCharIs
  <2>3. CASE c # CR /\ Long(t) # {}
    <3>1. Len(s.buf) >= M /\ UpToLongPart(Append(t, c)) = r
      BY <2>1, <2>3, UpToLongIs, UpToLongGrows
    <3>2. ReadChar(s, c) = s
      BY <3>1, ReadCharIs
    <3> QED
      BY <2>1, <2>3, <3>1, <3>2 DEF ParsedUpTo
  <2>4. CASE c # CR /\ Long(t) = {}
    <3>1. r = t /\ Len(s.buf) < M /\ UpToLongPart(Append(t, c)) = Append(t, c)
      BY <2>1, <2>4, UpToLongIs, UpToLongGrows
    <3>2. Parsed(ReadChar(s, c), Append(t, c))
      BY <2>1, <2>4, <3>1, ParsedStep
    <3>3. Len(ReadChar(s, c).buf) = IF c \in {NL, EQ} THEN 0 ELSE Len(s.buf) + 1
      BY <2>4, <3>1, ReadCharBuffer
    <3>4. PartAt(Append(t, c), Len(t) + 1) = IF c \in {NL, EQ} THEN 0 ELSE PartAt(t, Len(t)) + 1
      BY PartGrows
    <3>5. Len(Append(t, c)) = Len(t) + 1
      OBVIOUS
    <3> QED
      BY <2>1, <2>4, <3>1, <3>2, <3>3, <3>4, <3>5 DEF ParsedUpTo
  <2> QED
    BY <2>2, <2>3, <2>4
<1> HIDE DEF f, g, N
<1> DEFINE S == {k \in 0 .. N : ParsedUpTo(f[k], g[k])}
<1>6. 0 \in S
  BY <1>1, <1>2, <1>3, <1>4
<1>7. ASSUME NEW k \in 0 .. N - 1, k \in S PROVE k + 1 \in S
  <2> DEFINE j == k + 1
  <2>1. j \in 1 .. N /\ j \in 0 .. N /\ j - 1 = k /\ k \in 0 .. N
    BY <1>1
  <2>2. ParsedUpTo(f[k], g[k])
    BY <1>7
  <2> HIDE DEF j
  <2>3. /\ f[j] = ReadChar(f[k], text[j]) /\ text[j] \in Char
        /\ g[j] = IF text[j] = CR THEN g[k] ELSE Append(g[k], text[j])
        /\ f[k] \in LoadState /\ g[k] \in Seq(Char)
    BY <1>1, <1>2, <1>3, <2>1
  <2>4. ParsedUpTo(f[j], g[j])
    BY <1>5, <2>2, <2>3
  <2>5. j \in S
    BY <2>1, <2>4
  <2> QED
    BY <2>5 DEF j
<1> HIDE DEF S
<1>8. \A k \in 0 .. N : k \in S
  BY <1>1, <1>6, <1>7, InductionTo
<1> QED
  BY <1>8 DEF S, f, g, N

\* After the whole file the state is what the readable part of it says.
LEMMA LoadedParsed ==
  ASSUME NEW text \in ConfFiles \ {Absent}
  PROVE  Loaded[text] \in LoadState /\ Readable(text) \in Seq(Char)
         /\ Parsed(Loaded[text], Readable(text))
<1>1. text \in Seq(Char)
  BY FileIsText
<1> DEFINE n == Len(text)
<1>2. n \in 0 .. Len(text)
  BY <1>1
<1>3. Loaded[text] = Loading(text)[n]
  BY DEF Loaded
<1>4. WithoutCR(text) = Kept(text)[n] /\ Kept(text)[n] \in Seq(Char)
  BY <1>1, <1>2, KeptIs
<1>5. Loading(text)[n] \in LoadState
  BY <1>1, <1>2, LoadingIs
<1>6. ParsedUpTo(Loading(text)[n], Kept(text)[n])
  BY <1>1, <1>2, LoadingParsed
<1> HIDE DEF n
<1>7. UpToLongPart(Kept(text)[n]) \in Seq(Char)
  BY <1>4, UpToLongIs
<1> QED
  BY <1>3, <1>4, <1>5, <1>6, <1>7 DEF ParsedUpTo, Readable

-----------------------------------------------------------------------------
(* A look-up. *)

\* The first slot with a name is that of the first line which has it and fits the array.
LEMMA LookUp ==
  ASSUME NEW s \in LoadState, NEW text \in Seq(Char), Parsed(s, text), NEW name, name # <<>>
  PROVE  LET fits(end) == Cardinality({e \in Ends(text) : e < end}) < MAX_VARS
             named == {end \in Ends(text) : fits(end) /\ NameOf(LineTo(text, end)) = name}
         IN  GetVar(s.vars, name) = CASE named = {} -> NotFound
                                      [] named = {Len(text) + 1} -> <<>>
                                      [] OTHER -> ValueOf(LineTo(text, Min(named)))
<1> DEFINE fits(end) == Cardinality({e \in Ends(text) : e < end}) < MAX_VARS
           named == {end \in Ends(text) : fits(end) /\ NameOf(LineTo(text, end)) = name}
           found == {i \in Slots : s.vars[i].name = name}
           place(e) == Place(text, e)
           last == Len(text) + 1
<1>0. MAX_VARS \in Nat \ {0} /\ Slots = 1 .. MAX_VARS
  BY VarsAssumption DEF Slots
<1>1. \A e \in Ends(text) : place(e) \in Nat \ {0} /\ (fits(e) <=> place(e) \in Slots)
  <2> SUFFICES ASSUME NEW e \in Ends(text)
               PROVE  place(e) \in Nat \ {0} /\ (fits(e) <=> place(e) \in Slots)
    OBVIOUS
  <2>1. {x \in Ends(text) : x < e} = Before(text, e)
    BY EndsOf
  <2>2. place(e) = Cardinality(Before(text, e)) + 1 /\ place(e) \in Nat \ {0}
    BY PlaceFacts DEF Place
  <2>3. Cardinality(Before(text, e)) \in Nat
    BY PlaceFacts, FS_CardinalityType
  <2>4. fits(e) <=> Cardinality(Before(text, e)) < MAX_VARS
    BY <2>1
  <2> HIDE DEF fits, place
  <2> QED
    BY <1>0, <2>2, <2>3, <2>4
<1>2. \A d, e \in Ends(text) : d < e => place(d) < place(e)
  <2> SUFFICES ASSUME NEW d \in Ends(text), NEW e \in Ends(text), d < e
               PROVE  place(d) < place(e)
    OBVIOUS
  <2>1. d # last
    BY EndsOf
  <2>2. d \in Positions(text, NL)
    BY <2>1, EndsOf
  <2> QED
    BY <2>2, PlaceFacts
<1>3. Ends(text) \subseteq 1 .. last /\ last \in Ends(text) /\ last \in Nat
  BY EndsOf
<1>4. \A e \in Ends(text) : place(e) \in Slots => s.vars[place(e)] = LineVar(text, e)
  BY DEF Parsed
<1>5. \A i \in found : \E e \in Ends(text) : place(e) = i
  <2> SUFFICES ASSUME NEW i \in found PROVE \E e \in Ends(text) : place(e) = i
    OBVIOUS
  <2>1. i <= s.idx
    <3>1. CASE i > s.idx
      BY <3>1 DEF Parsed, Unset
    <3>2. i \in Nat /\ s.idx \in Nat
      BY <1>0 DEF LoadState
    <3> QED
      BY <3>1, <3>2
  <2>2. i \in 1 .. s.idx
    BY <1>0, <2>1 DEF LoadState
  <2> QED
    BY <2>2 DEF Parsed
<1> HIDE DEF fits, place, last
<1>6. \A e \in Ends(text) : e \in named <=> place(e) \in found
  <2> SUFFICES ASSUME NEW e \in Ends(text) PROVE e \in named <=> place(e) \in found
    OBVIOUS
  <2>1. place(e) \in Slots => s.vars[place(e)].name = NameOf(LineTo(text, e))
    <3>1. place(e) \in Slots => s.vars[place(e)] = LineVar(text, e)
      BY <1>4
    <3>2. LineVar(text, e).name = NameOf(LineTo(text, e))
      <4> DEFINE v == IF e = Len(text) + 1 THEN <<>> ELSE ValueOf(LineTo(text, e))
      <4>1. LineVar(text, e) = [name |-> NameOf(LineTo(text, e)), value |-> v]
        BY DEF LineVar
      <4> HIDE DEF v
      <4> QED
        BY <4>1
    <3> QED
      BY <3>1, <3>2
  <2>2. e \in named <=> fits(e) /\ NameOf(LineTo(text, e)) = name
    OBVIOUS
  <2>3. place(e) \in found <=> place(e) \in Slots /\ s.vars[place(e)].name = name
    OBVIOUS
  <2> HIDE DEF named, found
  <2> QED
    BY <1>1, <2>1, <2>2, <2>3
<1>7. \A i \in found : \E e \in named : place(e) = i
  BY <1>5, <1>6
<1>8. named \in SUBSET (1 .. last) /\ found \in SUBSET Nat /\ named \in SUBSET Ends(text)
  BY <1>0, <1>3
<1>9. GetVar(s.vars, name) = IF found = {} THEN NotFound ELSE s.vars[Min(found)].value
  BY DEF GetVar
<1>10. found \in SUBSET Slots
  OBVIOUS
<1> HIDE DEF named, found
<1>11. CASE named = {}
  <2>1. found = {}
    BY <1>7, <1>11
  <2> QED
    BY <1>9, <1>11, <2>1 DEF named, fits
<1>12. CASE named # {}
  <2> DEFINE m == Min(named)
  <2>1. m \in named /\ \A e \in named : m <= e
    <3>1. named \in SUBSET Nat
      BY <1>3, <1>8
    <3> QED
      BY <1>12, <3>1, MinFacts
  <2> HIDE DEF m
  <2>2. m \in Ends(text) /\ m \in 1 .. last /\ place(m) \in found
    BY <1>6, <1>8, <2>1
  <2>3. \A i \in found : place(m) <= i
    <3> SUFFICES ASSUME NEW i \in found PROVE place(m) <= i
      OBVIOUS
    <3>1. PICK e \in named : place(e) = i
      BY <1>7
    <3>2. m <= e /\ e \in Ends(text) /\ e \in Nat /\ m \in Nat
      BY <1>3, <1>8, <2>1, <2>2
    <3>3. m = e \/ m < e
      BY <3>2
    <3> QED
      BY <1>1, <1>2, <2>2, <3>1, <3>2, <3>3
  <2>4. Min(found) = place(m)
    <3>1. found \in SUBSET Int
      BY <1>8
    <3> QED
      BY <2>2, <2>3, <3>1, MinIs
  <2>5. GetVar(s.vars, name) = LineVar(text, m).value
    BY <1>4, <1>9, <1>10, <2>2, <2>4
  <2>6. CASE m = last
    <3>1. named = {last}
      <4>1. \A e \in named : e <= last /\ last <= e /\ e \in Nat
        BY <1>3, <1>8, <2>1, <2>6
      <4>2. \A e \in named : e = last
        BY <1>3, <4>1
      <4> QED
        BY <2>1, <2>6, <4>2
    <3> QED
      BY <1>12, <2>5, <2>6, <3>1 DEF LineVar, last, named, fits
  <2>7. CASE m # last
    <3>1. named # {last}
      BY <2>1, <2>7
    <3>2. GetVar(s.vars, name) = ValueOf(LineTo(text, Min(named)))
      BY <2>5, <2>7 DEF LineVar, last, m
    <3> QED
      BY <1>12, <3>1, <3>2 DEF last, named, fits
  <2> QED
    BY <2>6, <2>7
<1> QED
  BY <1>11, <1>12

\* What get_var_value finds after load_config is what the file states.
LEMMA LoadedStates ==
  ASSUME NEW text \in ConfFiles \ {Absent}, NEW name, name # <<>>
  PROVE  GetVar(Loaded[text].vars, name) = Stated(text, name)
  BY LoadedParsed, LookUp DEF Stated

-----------------------------------------------------------------------------
(* The process from its start until it serves. *)

StateType ==
  /\ conf \in ConfFiles /\ xml \in XmlFiles
  /\ phase \in Phases
  /\ vars \in [Slots -> [name : Buffer, value : Buffer]]
  /\ devices \in Seq(Element) /\ Len(devices) <= MAX_DEVICES
  /\ read = [conf |-> read.conf, xml |-> read.xml]
  /\ refused \subseteq listed
  /\ edits \in 0 .. MaxEdits /\ faults \in 0 .. MaxFaults

\* vars is what load_config made of the file it read.
LoadedVars ==
  phase \notin {"down", "config"} =>
    read.conf \in ConfFiles \ {Absent} /\ vars = Loaded[read.conf].vars

\* devices is what set_devices has accepted of the file it read.
AcceptedDevices ==
  phase \in {"start", "serve", "deaf"} =>
    /\ read.xml \in XmlFiles \ {Absent} /\ devices = Fitting(read.xml)
    /\ \A i \in DOMAIN devices : /\ Complete(devices[i])
                                 /\ devices[i].pin => Defined(BASE)
                                 /\ devices[i].analyzer => Defined(MODBUS)

KnownPort == phase \in {"serve", "deaf"} => Defined(PORT)

\* Only an id that is long, or not in the array, is refused, and only by a server.
RefusedAreUnknown ==
  /\ \A id \in refused : id \in LongIds \/ \A i \in DOMAIN devices : devices[i].id # id
  /\ phase \in {"config", "devices", "start"} => refused = {}

StartInv == StateType /\ LoadedVars /\ AcceptedDevices /\ KnownPort /\ RefusedAreUnknown

LEMMA EmptyVars == Zeroed \in [Slots -> [name : Buffer, value : Buffer]]
  BY BeforeLoadType DEF BeforeLoad, LoadState

\* The devices that fit are the first ones of the file.
LEMMA FittingIs ==
  ASSUME NEW f \in XmlFiles \ {Absent}
  PROVE  /\ f \in Seq(Element)
         /\ Fitting(f) \in Seq(Element) /\ Len(Fitting(f)) <= MAX_DEVICES
         /\ DOMAIN Fitting(f) \subseteq DOMAIN f
         /\ \A i \in DOMAIN Fitting(f) : Fitting(f)[i] = f[i]
         /\ Len(f) <= MAX_DEVICES => Fitting(f) = f
<1> DEFINE n == IF Len(f) > MAX_DEVICES THEN MAX_DEVICES ELSE Len(f)
<1>1. f \in Seq(Element) /\ MAX_DEVICES \in Nat /\ Len(f) \in Nat
  BY FileAssumption, StartAssumption
<1>2. n \in 0 .. Len(f) /\ n <= MAX_DEVICES /\ (Len(f) <= MAX_DEVICES => n = Len(f))
  BY <1>1
<1>3. Fitting(f) = SubSeq(f, 1, n)
  BY DEF Fitting
<1> HIDE DEF n
<1> DEFINE g == SubSeq(f, 1, n)
<1>4. g \in Seq(Element) /\ Len(g) = n /\ \A i \in 1 .. n : g[i] = f[i]
  BY <1>1, <1>2
<1>5. n = Len(f) => g = f
  BY <1>1, SubSeqFull
<1>6. DOMAIN g = 1 .. n /\ DOMAIN f = 1 .. Len(f)
  BY <1>1, <1>4
<1> HIDE DEF g
<1>7. 1 .. n \subseteq 1 .. Len(f)
  BY <1>1, <1>2
<1>8. Len(f) <= MAX_DEVICES => g = f
  BY <1>2, <1>5
<1> QED
  BY <1>1, <1>2, <1>3, <1>4, <1>6, <1>7, <1>8 DEF g

LEMMA StartsWell == Init => StartInv
<1> SUFFICES ASSUME Init PROVE StartInv
  OBVIOUS
<1>1. devices \in Seq(Element) /\ Len(devices) = 0 /\ DOMAIN devices = {}
  BY DEF Init
<1>2. StateType
  BY <1>1, EmptyVars, StartAssumption DEF Init, StateType, Phases, NoFiles
<1>3. LoadedVars /\ AcceptedDevices /\ KnownPort
  BY DEF Init, LoadedVars, AcceptedDevices, KnownPort
<1>4. RefusedAreUnknown
  BY <1>1 DEF Init, RefusedAreUnknown
<1> QED
  BY <1>2, <1>3, <1>4 DEF StartInv

\* A process may end at any time.
LEMMA StopKeeps == ASSUME StartInv, Stop PROVE StartInv'
<1>1. /\ phase' = "down"
      /\ UNCHANGED <<conf, xml, edits, vars, devices, read, listed, refused, faults>>
  BY DEF Stop, fileVars, memVars, askVars
<1> QED
  BY <1>1 DEF StartInv, StateType, LoadedVars, AcceptedDevices, KnownPort, RefusedAreUnknown, Phases

LEMMA NextKeeps == StartInv /\ [Next]_startVars => StartInv'
<1> SUFFICES ASSUME StartInv, [Next]_startVars PROVE StartInv'
  OBVIOUS
<1> USE DEF fileVars, memVars, askVars
<1>1. CASE LoadConfig
  <2>1. CASE conf = Absent
    BY <1>1, <2>1, StopKeeps DEF LoadConfig
  <2>2. CASE conf # Absent
    <3>1. /\ phase = "config" /\ phase' = "devices" /\ vars' = Loaded[conf].vars
          /\ read' = [read EXCEPT !.conf = conf]
          /\ UNCHANGED <<conf, xml, edits, devices, listed, refused, faults>>
      BY <1>1, <2>2 DEF LoadConfig
    <3>2. conf \in ConfFiles \ {Absent} /\ Loaded[conf] \in LoadState
      BY <2>2, LoadedParsed DEF StartInv, StateType
    <3>3. read' = [conf |-> conf, xml |-> read.xml]
      BY <3>1 DEF StartInv, StateType
    <3>4. StateType'
      BY <3>1, <3>2, <3>3 DEF StartInv, StateType, Phases, LoadState
    <3>5. LoadedVars'
      BY <3>1, <3>2, <3>3 DEF LoadedVars
    <3>6. AcceptedDevices' /\ KnownPort' /\ RefusedAreUnknown'
      BY <3>1 DEF StartInv, AcceptedDevices, KnownPort, RefusedAreUnknown
    <3> QED
      BY <3>4, <3>5, <3>6 DEF StartInv
  <2> QED
    BY <2>1, <2>2
<1>2. CASE SetDevices
  <2> DEFINE bad == \/ xml = Absent
                    \/ \E i \in DOMAIN Fitting(xml) : ~Complete(xml[i])
                    \/ \E name \in Needed(Fitting(xml)) : ~Defined(name)
  <2>1. CASE bad
    BY <1>2, <2>1, StopKeeps DEF SetDevices
  <2>2. CASE ~bad
    <3>1. /\ phase = "devices" /\ phase' = "start" /\ devices' = Fitting(xml)
          /\ read' = [read EXCEPT !.xml = xml]
          /\ UNCHANGED <<conf, xml, edits, vars, listed, refused, faults>>
      BY <1>2, <2>2 DEF SetDevices
    <3>2. xml \in XmlFiles \ {Absent}
      BY <2>2 DEF StartInv, StateType
    <3>3. read' = [conf |-> read.conf, xml |-> xml]
      BY <3>1 DEF StartInv, StateType
    <3>4. StateType'
      BY <3>1, <3>2, <3>3, FittingIs DEF StartInv, StateType, Phases
    <3>5. LoadedVars'
      BY <3>1, <3>3 DEF StartInv, LoadedVars
    <3>6. AcceptedDevices'
      <4>1. ASSUME NEW i \in DOMAIN Fitting(xml)
            PROVE  /\ Complete(Fitting(xml)[i])
                   /\ Fitting(xml)[i].pin => Defined(BASE)
                   /\ Fitting(xml)[i].analyzer => Defined(MODBUS)
        <5>1. Complete(Fitting(xml)[i])
          BY <2>2, <3>2, FittingIs
        <5>2. Fitting(xml)[i].pin => BASE \in Needed(Fitting(xml))
          BY DEF Needed
        <5>3. Fitting(xml)[i].analyzer => MODBUS \in Needed(Fitting(xml))
          BY DEF Needed
        <5> QED
          BY <2>2, <5>1, <5>2, <5>3
      <4>2. \A name : Defined(name)' <=> Defined(name)
        BY <3>1 DEF Defined
      <4> QED
        BY <3>1, <3>2, <3>3, <4>1, <4>2 DEF AcceptedDevices
    <3>7. KnownPort' /\ RefusedAreUnknown'
      BY <3>1 DEF StartInv, KnownPort, RefusedAreUnknown
    <3> QED
      BY <3>4, <3>5, <3>6, <3>7 DEF StartInv
  <2> QED
    BY <2>1, <2>2
<1>3. ASSUME NEW bound \in BOOLEAN, StartServer(bound) PROVE StartInv'
  <2>1. CASE ~Defined(PORT)
    BY <1>3, <2>1, StopKeeps DEF StartServer
  <2>2. CASE Defined(PORT)
    <3>1. /\ phase = "start" /\ phase' \in {"serve", "deaf"}
          /\ faults' = faults \/ (faults < MaxFaults /\ faults' = faults + 1)
          /\ UNCHANGED <<conf, xml, edits, vars, devices, read, listed, refused>>
      BY <1>3, <2>2 DEF StartServer
    <3>2. \A name : Defined(name)' <=> Defined(name)
      BY <3>1 DEF Defined
    <3>3. faults' \in 0 .. MaxFaults
      BY <3>1, StartAssumption DEF StartInv, StateType
    <3>4. StateType'
      BY <3>1, <3>3 DEF StartInv, StateType, Phases
    <3>5. LoadedVars' /\ RefusedAreUnknown'
      BY <3>1 DEF StartInv, LoadedVars, RefusedAreUnknown
    <3>6. AcceptedDevices' /\ KnownPort'
      BY <2>2, <3>1, <3>2 DEF StartInv, AcceptedDevices, KnownPort
    <3> QED
      BY <3>4, <3>5, <3>6 DEF StartInv
  <2> QED
    BY <2>1, <2>2
<1>4. CASE LogWithoutDatabase \/ DieOfOverrun
  BY <1>4, StopKeeps DEF LogWithoutDatabase, DieOfOverrun
<1>5. CASE GetAllDevices
  <2>1. /\ phase = "serve" /\ refused' = {}
        /\ UNCHANGED <<conf, xml, edits, phase, vars, devices, read, faults>>
    BY <1>5 DEF GetAllDevices
  <2>2. \A name : Defined(name)' <=> Defined(name)
    BY <2>1 DEF Defined
  <2> QED
    BY <2>1, <2>2 DEF StartInv, StateType, LoadedVars, AcceptedDevices, KnownPort,
                      RefusedAreUnknown
<1>6. ASSUME NEW id \in listed, GetDevice(id) PROVE StartInv'
  <2>1. /\ phase = "serve" /\ id \in listed
        /\ UNCHANGED <<conf, xml, edits, phase, vars, devices, read, listed, faults>>
        /\ \/ refused' = refused
           \/ /\ refused' = refused \cup {id}
              /\ id \in LongIds \/ \A i \in DOMAIN devices : devices[i].id # id
    BY <1>6 DEF GetDevice, MustMatch
  <2>2. \A name : Defined(name)' <=> Defined(name)
    BY <2>1 DEF Defined
  <2>3. StateType' /\ LoadedVars'
    BY <2>1 DEF StartInv, StateType, LoadedVars
  <2>4. AcceptedDevices' /\ KnownPort'
    BY <2>1, <2>2 DEF StartInv, AcceptedDevices, KnownPort
  <2>5. RefusedAreUnknown'
    BY <2>1 DEF StartInv, RefusedAreUnknown
  <2> QED
    BY <2>3, <2>4, <2>5 DEF StartInv
<1>7. CASE Boot
  <2>1. /\ phase' = "config" /\ vars' = Zeroed /\ devices' = <<>> /\ read' = NoFiles
        /\ listed' = {} /\ refused' = {}
        /\ UNCHANGED <<conf, xml, edits, faults>>
    BY <1>7 DEF Boot
  <2>2. StateType'
    BY <2>1, EmptyVars, StartAssumption DEF StartInv, StateType, Phases, NoFiles
  <2>3. LoadedVars' /\ AcceptedDevices' /\ KnownPort'
    BY <2>1 DEF LoadedVars, AcceptedDevices, KnownPort
  <2>4. RefusedAreUnknown'
    BY <2>1 DEF RefusedAreUnknown
  <2> QED
    BY <2>2, <2>3, <2>4 DEF StartInv
<1>8. CASE Edit
  <2>1. /\ edits < MaxEdits /\ edits' = edits + 1
        /\ conf' \in ConfFiles /\ xml' \in XmlFiles
        /\ UNCHANGED <<phase, vars, devices, read, listed, refused, faults>>
    BY <1>8, FileAssumption DEF Edit, StartInv, StateType
  <2>2. \A name : Defined(name)' <=> Defined(name)
    BY <2>1 DEF Defined
  <2>3. edits' \in 0 .. MaxEdits
    BY <2>1, StartAssumption DEF StartInv, StateType
  <2>4. StateType' /\ LoadedVars' /\ RefusedAreUnknown'
    BY <2>1, <2>3 DEF StartInv, StateType, LoadedVars, RefusedAreUnknown
  <2>5. AcceptedDevices' /\ KnownPort'
    BY <2>1, <2>2 DEF StartInv, AcceptedDevices, KnownPort
  <2> QED
    BY <2>4, <2>5 DEF StartInv
<1>9. CASE UNCHANGED startVars
  <2>1. UNCHANGED <<conf, xml, edits, phase, vars, devices, read, listed, refused, faults>>
    BY <1>9 DEF startVars
  <2>2. \A name : Defined(name)' <=> Defined(name)
    BY <2>1 DEF Defined
  <2> QED
    BY <2>1, <2>2 DEF StartInv, StateType, LoadedVars, AcceptedDevices, KnownPort,
                      RefusedAreUnknown
<1> QED
  BY <1>1, <1>2, <1>3, <1>4, <1>5, <1>6, <1>7, <1>8, <1>9 DEF Next, MainStep

LEMMA StartInvariant == Spec => []StartInv
  BY StartsWell, NextKeeps, PTL DEF Spec

\* Type correctness, for every size of the arrays and all files: no more devices than
\* places are set, and no name or value is longer than its buffer.
THEOREM StartTyped == Spec => []TypeOK
<1>1. StartInv => TypeOK
  <2> SUFFICES ASSUME StartInv PROVE TypeOK
    OBVIOUS
  <2>1. ASSUME NEW t \in Texts PROVE Len(t) < MAX_VAR_SIZE
    BY DEF Texts, StartInv, StateType, Buffer
  <2> QED
    BY <2>1 DEF StartInv, StateType, TypeOK
<1> QED
  BY <1>1, StartInvariant, PTL

\* While the invariant holds, a look-up finds what the file that was read states.
LEMMA LookUpsAgree ==
  ASSUME StartInv, phase \notin {"down", "config"}, NEW name \in {BASE, PORT, MODBUS, DB}
  PROVE  GetVar(vars, name) = Stated(read.conf, name)
<1>1. read.conf \in ConfFiles \ {Absent} /\ vars = Loaded[read.conf].vars /\ name # <<>>
  BY NameAssumption DEF StartInv, LoadedVars
<1> QED
  BY <1>1, LoadedStates

\* load_config and get_var_value read every home.conf as its lines say, whatever blank
\* lines, '=', '\r', parts without end and lines beyond the array it has.
THEOREM ConfigIsRead == Spec => []ConfigRead
<1>1. StartInv => ConfigRead
  BY LookUpsAgree DEF ConfigRead
<1> QED
  BY <1>1, StartInvariant, PTL

\* A process that listens serves only devices that are complete, and what they and the
\* server itself need is stated in the home.conf that was read.
THEOREM ServerIsConfigured == Spec => []ServesConfigured
<1>1. StartInv => ServesConfigured
  <2> SUFFICES ASSUME StartInv, phase = "serve" PROVE ServesConfigured
    BY DEF ServesConfigured
  <2>1. \A name \in {BASE, PORT, MODBUS, DB} : Defined(name) => Stated(read.conf, name) # NotFound
    BY LookUpsAgree DEF Defined
  <2> QED
    BY <2>1 DEF StartInv, AcceptedDevices, KnownPort, ServesConfigured
<1> QED
  BY <1>1, StartInvariant, PTL

\* get_device refuses a device that get_all_devices listed only when its id is too long
\* to be compared, or devices.xml was edited after the start, has too many devices or does
\* not have the device any more.
THEOREM RefusedForAReason == Spec => []ListedAreServed
<1>1. StartInv => ListedAreServed
  <2> SUFFICES ASSUME StartInv, phase = "serve", NEW id \in refused, id \notin LongIds,
                      xml = read.xml, ~(Len(xml) > MAX_DEVICES)
               PROVE  \A i \in DOMAIN xml : xml[i].id # id
    BY DEF ListedAreServed
  <2>1. xml \in XmlFiles \ {Absent} /\ devices = Fitting(xml)
    BY DEF StartInv, AcceptedDevices
  <2>2. Len(xml) <= MAX_DEVICES
    BY <2>1, FittingIs, StartAssumption
  <2>3. devices = xml
    BY <2>1, <2>2, FittingIs
  <2> QED
    BY <2>3 DEF StartInv, RefusedAreUnknown
<1> QED
  BY <1>1, StartInvariant, PTL
=============================================================================
