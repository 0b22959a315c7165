---------------------------- MODULE WebPageProofs ----------------------------
(***************************************************************************)
(* Theorems about WebPage: for any page, any number of fetches in flight,  *)
(* and any number of changes, failures and reloads.                *)
(***************************************************************************)
EXTENDS WebPage, SequenceTheorems, TLAPS

Versions == 0 .. MaxChanges
Fetches ==
  [set : BOOLEAN, answer : {Pending, Failed, Unknown, Garbled} \cup Versions,
   overlapped : BOOLEAN]

\* What is in flight and what is counted.
FlightInv ==
  /\ kind \in [Sections -> Kinds]
  /\ fetches \in [Sections -> Seq(Fetches)]
  /\ count \in [{"changes", "fails", "reloads"} -> Nat]
  /\ count["changes"] <= MaxChanges
  /\ \A s \in Sections : version[s] <= count["changes"]

\* A device is in the table only when its section fits and the elements are there.
TableInv ==
  \A s \in Sections : devices[s] # Nothing => data_fields /\ kind[s] # "misfit"

\* Nothing is shown or answered before it is so, and an answer that is alone in
\* flight is not older than the drawing.
OrderInv ==
  \A s \in Sections :
    /\ shown[s] <= version[s]
    /\ \A i \in DOMAIN fetches[s] :
         /\ fetches[s][i].answer <= version[s]
         /\ ~fetches[s][i].overlapped =>
              /\ Len(fetches[s]) = 1
              /\ fetches[s][i].answer \in Versions => shown[s] <= fetches[s][i].answer

IInv == TypeOK /\ FlightInv /\ TableInv /\ OrderInv /\ MissingOnlyByFailure

-----------------------------------------------------------------------------
\* The answers that are no values are told apart from the values.
LEMMA AnswerFacts ==
  /\ \A v \in Versions : v \notin {Nothing, Pending, Failed, Unknown, Garbled} /\ v \in Nat
  /\ \A a \in {Nothing, Pending, Failed, Unknown, Garbled} : a \in Int /\ a < 0
  /\ Nothing \notin {Pending, Failed, Unknown, Garbled} /\ Pending \notin {Failed, Unknown, Garbled}
  /\ Versions \subseteq Nothing .. MaxChanges /\ Nothing \in Nothing .. MaxChanges
  BY BoundAssumption DEF Versions, Nothing, Pending, Failed, Unknown, Garbled

\* What is left of a queue when one place has been taken out of it.
LEMMA WithoutFacts ==
  ASSUME NEW S, NEW q \in Seq(S), NEW i \in DOMAIN q
  PROVE  /\ Without(q, i) \in Seq(S) /\ Len(Without(q, i)) = Len(q) - 1
         /\ \A j \in DOMAIN Without(q, i) : \E k \in DOMAIN q : Without(q, i)[j] = q[k]
         /\ \A k \in DOMAIN q : k # i => \E j \in DOMAIN Without(q, i) : Without(q, i)[j] = q[k]
         /\ Len(q) = 1 => Without(q, i) = <<>>
<1> DEFINE a == SubSeq(q, 1, i - 1)
           b == SubSeq(q, i + 1, Len(q))
<1>1. i \in 1 .. Len(q) /\ Len(q) \in Nat /\ DOMAIN q = 1 .. Len(q)
  OBVIOUS
<1>2. a \in Seq(S) /\ Len(a) = i - 1 /\ \A k \in 1 .. i - 1 : a[k] = q[k]
  BY <1>1
<1>3. b \in Seq(S) /\ Len(b) = Len(q) - i /\ \A k \in 1 .. Len(q) - i : b[k] = q[i + k]
  BY <1>1
<1> HIDE DEF a, b
<1>4. a \o b \in Seq(S) /\ Len(a \o b) = Len(q) - 1
  <2>1. a \o b \in Seq(S) /\ Len(a \o b) = Len(a) + Len(b)
    BY <1>2, <1>3, ConcatProperties
  <2>2. (i - 1) + (Len(q) - i) = Len(q) - 1
    BY <1>1
  <2> QED
    BY <1>2, <1>3, <2>1, <2>2
<1>5. \A k \in 1 .. Len(q) - 1 : (a \o b)[k] = IF k < i THEN q[k] ELSE q[k + 1]
  <2> SUFFICES ASSUME NEW k \in 1 .. Len(q) - 1
               PROVE  (a \o b)[k] = IF k < i THEN q[k] ELSE q[k + 1]
    OBVIOUS
  <2>1. (a \o b)[k] = IF k <= Len(a) THEN a[k] ELSE b[k - Len(a)]
    <3>1. Len(a) + Len(b) = Len(q) - 1
      BY <1>1, <1>2, <1>3
    <3> QED
      BY <1>2, <1>3, <3>1, ConcatProperties
  <2>2. CASE k < i
    BY <1>1, <1>2, <2>1, <2>2
  <2>3. CASE ~(k < i)
    <3>1. k - Len(a) \in 1 .. Len(q) - i /\ ~(k <= Len(a)) /\ i + (k - Len(a)) = k + 1
      BY <1>1, <1>2, <2>3
    <3> QED
      BY <1>3, <2>1, <2>3, <3>1
  <2> QED
    BY <2>2, <2>3
<1>6. Without(q, i) = a \o b
  BY DEF Without, a, b
<1>7. DOMAIN (a \o b) = 1 .. Len(q) - 1
  BY <1>4
<1>8. ASSUME NEW j \in DOMAIN (a \o b) PROVE \E k \in DOMAIN q : (a \o b)[j] = q[k]
  <2>1. j \in 1 .. Len(q) - 1
    BY <1>7
  <2>2. j \in 1 .. Len(q) /\ j + 1 \in 1 .. Len(q)
    BY <1>1, <2>1
  <2> QED
    BY <1>1, <1>5, <2>1, <2>2
<1>9. ASSUME NEW k \in DOMAIN q, k # i PROVE \E j \in DOMAIN (a \o b) : (a \o b)[j] = q[k]
  <2>1. CASE k < i
    <3>1. k \in 1 .. Len(q) - 1
      BY <1>1, <2>1
    <3> QED
      BY <1>5, <1>7, <2>1, <3>1
  <2>2. CASE k > i
    <3>1. k - 1 \in 1 .. Len(q) - 1 /\ ~(k - 1 < i) /\ (k - 1) + 1 = k
      BY <1>1, <2>2
    <3> QED
      BY <1>5, <1>7, <3>1
  <2> QED
    BY <1>1, <1>9, <2>1, <2>2
<1>10. Len(q) = 1 => a \o b = <<>>
  BY <1>4
<1> QED
  BY <1>4, <1>6, <1>8, <1>9, <1>10

\* What a handled answer is worth.
LEMMA ValueFacts ==
  ASSUME NEW f \in Fetches, f.answer # Pending
  PROVE  Value(f) # Nothing => Value(f) = f.answer /\ f.answer \in Versions
  BY DEF Fetches, Value

LEMMA FetchFacts ==
  /\ \A a, b \in BOOLEAN : Fetch(a, b) \in Fetches /\ Fetch(a, b).answer = Pending
                           /\ Fetch(a, b).set = a /\ Fetch(a, b).overlapped = b
  /\ Pending < 0 /\ Pending \in Int /\ Pending \notin Versions
  BY AnswerFacts DEF Fetch, Fetches

LEMMA AnswerInt == ASSUME NEW f \in Fetches PROVE f.answer \in Int
<1>1. f.answer \in {Pending, Failed, Unknown, Garbled} \cup Versions
  BY DEF Fetches
<1> QED
  BY <1>1 DEF Versions, Pending, Failed, Unknown, Garbled

\* A page that is loaded has an empty table and one fetch for each section.
LEMMA TableLoaded ==
  ASSUME NEW table, table = [s \in Sections |-> Nothing]
  PROVE  /\ table \in [Sections -> Nothing .. MaxChanges]
         /\ \A s \in Sections : table[s] = Nothing
  BY AnswerFacts

LEMMA FlightLoaded ==
  ASSUME NEW flight, flight = [s \in Sections |-> <<Fetch(TRUE, FALSE)>>]
  PROVE  /\ flight \in [Sections -> Seq(Fetches)]
         /\ \A s \in Sections :
              /\ Len(flight[s]) = 1 /\ 1 \in DOMAIN flight[s]
              /\ \A i \in DOMAIN flight[s] : flight[s][i] = Fetch(TRUE, FALSE)
<1>1. \A f \in Fetches : /\ <<f>> \in Seq(Fetches) /\ Len(<<f>>) = 1 /\ 1 \in DOMAIN <<f>>
                         /\ \A i \in DOMAIN <<f>> : <<f>>[i] = f
  OBVIOUS
<1>2. Fetch(TRUE, FALSE) \in Fetches
  BY FetchFacts
<1> QED
  BY <1>1, <1>2

\* The parts of the invariant that a page that has just been loaded is to satisfy.
LEMMA LoadedInv ==
  ASSUME NEW table, table = [s \in Sections |-> Nothing],
         NEW flight, flight = [s \in Sections |-> <<Fetch(TRUE, FALSE)>>],
         NEW v \in [Sections -> Versions]
  PROVE  /\ \A s \in Sections :
              /\ table[s] <= v[s]
              /\ \A i \in DOMAIN flight[s] :
                   /\ flight[s][i].answer <= v[s]
                   /\ flight[s][i].answer \notin Versions
         /\ \A s \in Sections : Len(flight[s]) = 1
         /\ \A s \in Sections : \E i \in DOMAIN flight[s] : flight[s][i].set
<1>1. \A s \in Sections : table[s] = Nothing
  BY TableLoaded
<1>2. /\ \A s \in Sections : Len(flight[s]) = 1 /\ 1 \in DOMAIN flight[s]
      /\ \A s \in Sections : \A i \in DOMAIN flight[s] : flight[s][i] = Fetch(TRUE, FALSE)
  BY FlightLoaded
<1>3. \A s \in Sections : v[s] \in Int /\ v[s] >= 0
  BY DEF Versions
<1>4. Nothing \in Int /\ Nothing < 0
  BY DEF Nothing
<1>5. \A s \in Sections : Nothing <= v[s] /\ Pending <= v[s]
  BY <1>3, <1>4, FetchFacts
<1>6. Fetch(TRUE, FALSE).answer = Pending /\ Fetch(TRUE, FALSE).set
  BY FetchFacts
<1>7. ASSUME NEW s \in Sections, NEW i \in DOMAIN flight[s]
      PROVE  flight[s][i].answer = Pending /\ flight[s][i].set
  BY <1>2, <1>6
<1>8. ASSUME NEW s \in Sections PROVE \E i \in DOMAIN flight[s] : flight[s][i].set
  BY <1>2, <1>7
<1> QED
  BY <1>1, <1>2, <1>5, <1>7, <1>8, FetchFacts

LEMMA InitIInv == Init => IInv
<1> SUFFICES ASSUME Init PROVE IInv
  OBVIOUS
<1> USE DEF Init
<1>1. version \in [Sections -> Versions] /\ kind \in [Sections -> Kinds]
  BY BoundAssumption, PageAssumption DEF Versions
<1>2. TypeOK
  BY <1>1, TableLoaded DEF TypeOK, Versions
<1>3. FlightInv
  <2>1. fetches \in [Sections -> Seq(Fetches)]
    BY FlightLoaded
  <2>3. /\ count \in [{"changes", "fails", "reloads"} -> Nat]
        /\ count["changes"] = 0 /\ 0 <= MaxChanges
    BY BoundAssumption
  <2>4. \A s \in Sections : version[s] = 0
    OBVIOUS
  <2>5. count["changes"] <= MaxChanges /\ \A s \in Sections : version[s] <= count["changes"]
    BY <2>3, <2>4
  <2> QED
    BY ONLY <1>1, <2>1, <2>3, <2>5 DEF FlightInv
<1>4. /\ \A s \in Sections : \A i \in DOMAIN fetches[s] :
           fetches[s][i].answer <= version[s] /\ fetches[s][i].answer \notin Versions
      /\ \A s \in Sections : shown[s] <= version[s] /\ Len(fetches[s]) = 1
      /\ \A s \in Sections : \E i \in DOMAIN fetches[s] : fetches[s][i].set
  BY <1>1, LoadedInv
<1>5. OrderInv
  BY <1>4 DEF OrderInv
<1>6. MissingOnlyByFailure
  BY <1>4 DEF MissingOnlyByFailure
<1>7. TableInv
  BY DEF TableInv
<1> QED
  BY <1>2, <1>3, <1>5, <1>6, <1>7 DEF IInv

-----------------------------------------------------------------------------
(* The server. *)

LEMMA CountFacts ==
  ASSUME IInv, NEW e \in {"changes", "fails", "reloads"}, NEW max \in Nat,
         Count(e, max)
  PROVE  /\ count' \in [{"changes", "fails", "reloads"} -> Nat]
         /\ count'["changes"] = IF e = "changes" THEN count["changes"] + 1 ELSE count["changes"]
         /\ count'[e] <= max
  BY DEF IInv, FlightInv, Count

LEMMA ChangeIInv == ASSUME IInv, NEW s \in Sections, Change(s) PROVE IInv'
<1> USE DEF Change, tableVars
<1>1. /\ count' \in [{"changes", "fails", "reloads"} -> Nat]
      /\ count'["changes"] = count["changes"] + 1 /\ count'["changes"] <= MaxChanges
  BY CountFacts, BoundAssumption
<1>2. \A t \in Sections : /\ version[t] \in Nat /\ version[t] <= count["changes"]
                          /\ version'[t] = IF t = s THEN version[t] + 1 ELSE version[t]
  BY DEF IInv, TypeOK, FlightInv
<1>3. count["changes"] \in Nat /\ MaxChanges \in Nat
  BY BoundAssumption DEF IInv, FlightInv
<1>4. \A t \in Sections : /\ version'[t] \in 0 .. MaxChanges
                          /\ version'[t] <= count'["changes"] /\ version[t] <= version'[t]
  BY <1>1, <1>2, <1>3
<1>5. version' \in [Sections -> 0 .. MaxChanges]
  BY <1>4 DEF IInv, TypeOK
<1>6. TypeOK' /\ FlightInv'
  BY <1>1, <1>4, <1>5 DEF IInv, TypeOK, FlightInv
<1>7. OrderInv'
  <2> SUFFICES ASSUME NEW t \in Sections
               PROVE  /\ shown[t] <= version'[t]
                      /\ \A i \in DOMAIN fetches[t] : fetches[t][i].answer <= version'[t]
    BY DEF IInv, OrderInv
  <2>1. shown[t] \in Int /\ version[t] \in Int /\ version'[t] \in Int
    BY <1>2, <1>4 DEF IInv, TypeOK, Nothing
  <2>2. ASSUME NEW i \in DOMAIN fetches[t] PROVE fetches[t][i].answer \in Int
    <3>1. fetches[t][i] \in Fetches
      BY DEF IInv, FlightInv
    <3> QED
      BY <3>1, AnswerInt
  <2> QED
    BY <1>4, <2>1, <2>2 DEF IInv, OrderInv
<1>8. TableInv' /\ MissingOnlyByFailure'
  BY DEF IInv, TableInv, MissingOnlyByFailure
<1> QED
  BY <1>6, <1>7, <1>8 DEF IInv

\* An answer that comes: it is no value, or the device's values at this moment.
LEMMA AnsweredIInv ==
  ASSUME IInv, NEW s \in Sections, NEW i \in DOMAIN fetches[s],
         NEW a \in {Failed, Unknown, Garbled, version[s]},
         fetches[s][i].answer = Pending,
         fetches' = [fetches EXCEPT ![s][i].answer = a],
         UNCHANGED <<serverVars, tableVars>>,
         count' \in [{"changes", "fails", "reloads"} -> Nat],
         count'["changes"] = count["changes"]
  PROVE  IInv'
<1> USE DEF serverVars, tableVars
<1>1. fetches[s] \in Seq(Fetches) /\ fetches[s][i] \in Fetches
  BY DEF IInv, FlightInv
<1>2. version[s] \in Versions /\ version[s] \in Nat
  BY AnswerFacts DEF IInv, TypeOK, Versions
<1>3. a \in {Pending, Failed, Unknown, Garbled} \cup Versions /\ a <= version[s]
      /\ (a \in Versions => a = version[s])
  BY <1>2, AnswerFacts
<1>4. [fetches[s][i] EXCEPT !.answer = a] \in Fetches
  BY <1>1, <1>3 DEF Fetches
<1>5. /\ fetches' \in [Sections -> Seq(Fetches)]
      /\ \A t \in Sections : t # s => fetches'[t] = fetches[t]
      /\ DOMAIN fetches'[s] = DOMAIN fetches[s] /\ Len(fetches'[s]) = Len(fetches[s])
      /\ fetches'[s][i] = [fetches[s][i] EXCEPT !.answer = a]
      /\ \A j \in DOMAIN fetches[s] : j # i => fetches'[s][j] = fetches[s][j]
  <2>1. [fetches[s] EXCEPT ![i] = [fetches[s][i] EXCEPT !.answer = a]] \in Seq(Fetches)
    BY <1>1, <1>4
  <2>2. fetches' = [fetches EXCEPT ![s] =
                      [fetches[s] EXCEPT ![i] = [fetches[s][i] EXCEPT !.answer = a]]]
    OBVIOUS
  <2> QED
    BY <1>1, <2>1, <2>2 DEF IInv, FlightInv
<1>6. /\ fetches'[s][i].answer = a /\ fetches'[s][i].set = fetches[s][i].set
      /\ fetches'[s][i].overlapped = fetches[s][i].overlapped
  BY <1>1, <1>5 DEF Fetches
<1>7. TypeOK' /\ FlightInv' /\ TableInv'
  BY <1>5 DEF IInv, TypeOK, FlightInv, TableInv
<1>8. OrderInv'
  <2>1. ASSUME NEW t \in Sections, NEW j \in DOMAIN fetches'[t]
        PROVE  /\ fetches'[t][j].answer <= version[t]
               /\ ~fetches'[t][j].overlapped =>
                    /\ Len(fetches'[t]) = 1
                    /\ fetches'[t][j].answer \in Versions => shown[t] <= fetches'[t][j].answer
    <3>1. CASE t = s /\ j = i
      BY <1>3, <1>5, <1>6, <3>1 DEF IInv, OrderInv
    <3>2. CASE t # s \/ j # i
      BY <1>5, <2>1, <3>2 DEF IInv, OrderInv
    <3> QED
      BY <3>1, <3>2
  <2> QED
    BY <2>1 DEF IInv, OrderInv
<1>9. MissingOnlyByFailure'
  <2>1. \A t \in Sections : /\ DOMAIN fetches'[t] = DOMAIN fetches[t]
                            /\ \A j \in DOMAIN fetches[t] : fetches'[t][j].set = fetches[t][j].set
    BY <1>5, <1>6
  <2> QED
    BY <2>1 DEF IInv, MissingOnlyByFailure
<1> QED
  BY <1>7, <1>8, <1>9 DEF IInv

LEMMA ServeIInv ==
  ASSUME IInv, NEW s \in Sections, NEW i \in DOMAIN fetches[s], Serve(s, i) PROVE IInv'
<1>1. PICK a \in {Failed, Unknown, Garbled, version[s]} :
        fetches' = [fetches EXCEPT ![s][i].answer = a]
  BY DEF Serve
<1> QED
  BY <1>1, AnsweredIInv DEF Serve, IInv, FlightInv

LEMMA FailIInv ==
  ASSUME IInv, NEW s \in Sections, NEW i \in DOMAIN fetches[s], NEW how \in {Failed, Garbled},
         Fail(s, i, how)
  PROVE  IInv'
<1>1. /\ count' \in [{"changes", "fails", "reloads"} -> Nat]
      /\ count'["changes"] = count["changes"]
  BY CountFacts, BoundAssumption DEF Fail
<1> QED
  BY <1>1, AnsweredIInv DEF Fail

-----------------------------------------------------------------------------
(* The page. *)

LEMMA PollIInv == IInv /\ Poll => IInv'
<1> SUFFICES ASSUME IInv, Poll PROVE IInv'
  OBVIOUS
<1> DEFINE seen(s) == [i \in DOMAIN fetches[s] |-> [fetches[s][i] EXCEPT !.overlapped = TRUE]]
           poll(s) == Fetch(FALSE, fetches[s] # <<>>)
<1> USE DEF IInv, serverVars, tableVars
<1>1. /\ fetches' = [s \in Sections |-> Append(seen(s), poll(s))]
      /\ UNCHANGED <<kind, version, devices, data_fields, shown, lost, count>>
  BY DEF Poll
<1>2. ASSUME NEW s \in Sections
      PROVE  /\ fetches'[s] \in Seq(Fetches)
             /\ DOMAIN fetches'[s] = 1 .. Len(fetches[s]) + 1
             /\ fetches[s] = <<>> => Len(fetches'[s]) = 1
             /\ fetches'[s][Len(fetches[s]) + 1] = poll(s)
             /\ \A i \in DOMAIN fetches[s] :
                  /\ i \in DOMAIN fetches'[s]
                  /\ fetches'[s][i] = [fetches[s][i] EXCEPT !.overlapped = TRUE]
  <2>1. fetches[s] \in Seq(Fetches) /\ poll(s) \in Fetches
    BY FetchFacts DEF FlightInv
  <2>2. \A f \in Fetches : [f EXCEPT !.overlapped = TRUE] \in Fetches
    BY DEF Fetches
  <2>3. seen(s) \in Seq(Fetches) /\ Len(seen(s)) = Len(fetches[s])
    BY <2>1, <2>2
  <2>4. fetches'[s] = Append(seen(s), poll(s))
    BY <1>1
  <2>5. \A i \in DOMAIN fetches[s] : seen(s)[i] = [fetches[s][i] EXCEPT !.overlapped = TRUE]
    OBVIOUS
  <2> HIDE DEF seen, poll
  <2>6. \A q \in Seq(Fetches) : \A f \in Fetches :
          /\ Append(q, f) \in Seq(Fetches) /\ DOMAIN Append(q, f) = 1 .. Len(q) + 1
          /\ Len(q) = 0 => Len(Append(q, f)) = 1
          /\ Append(q, f)[Len(q) + 1] = f
          /\ \A i \in DOMAIN q : i \in DOMAIN Append(q, f) /\ Append(q, f)[i] = q[i]
    OBVIOUS
  <2>7. DOMAIN seen(s) = DOMAIN fetches[s] /\ (fetches[s] = <<>> => Len(fetches[s]) = 0)
    BY DEF seen
  <2> QED
    BY <2>1, <2>3, <2>4, <2>5, <2>6, <2>7
<1>3. ASSUME NEW s \in Sections, NEW i \in DOMAIN fetches[s]
      PROVE  /\ fetches'[s][i].set = fetches[s][i].set
             /\ fetches'[s][i].answer = fetches[s][i].answer
             /\ fetches'[s][i].overlapped
  <2>1. fetches[s][i] \in Fetches
    BY DEF FlightInv
  <2> QED
    BY <1>2, <2>1 DEF Fetches
<1>4. TypeOK' /\ FlightInv' /\ TableInv'
  <2>1. fetches' \in [Sections -> Seq(Fetches)]
    BY <1>1, <1>2
  <2> QED
    BY <1>1, <2>1 DEF TypeOK, FlightInv, TableInv
<1>5. MissingOnlyByFailure'
  <2>1. ASSUME NEW s \in Sections, \E i \in DOMAIN fetches[s] : fetches[s][i].set
        PROVE  \E i \in DOMAIN fetches'[s] : fetches'[s][i].set
    <3>1. PICK i \in DOMAIN fetches[s] : fetches[s][i].set
      BY <2>1
    <3>2. i \in DOMAIN fetches'[s] /\ fetches'[s][i].set
      BY <1>2, <1>3, <3>1
    <3> QED
      BY <3>2
  <2> QED
    BY <1>1, <2>1 DEF MissingOnlyByFailure
<1>6. OrderInv'
  <2>1. ASSUME NEW s \in Sections, NEW i \in DOMAIN fetches'[s]
        PROVE  /\ fetches'[s][i].answer <= version[s]
               /\ ~fetches'[s][i].overlapped =>
                    Len(fetches'[s]) = 1 /\ fetches'[s][i].answer \notin Versions
    <3>1. CASE i \in DOMAIN fetches[s]
      BY <1>3, <3>1 DEF OrderInv
    <3>2. CASE i \notin DOMAIN fetches[s]
      <4>1. fetches[s] \in Seq(Fetches) /\ fetches'[s] \in Seq(Fetches)
        BY <1>2 DEF FlightInv
      <4>2. DOMAIN fetches[s] = 1 .. Len(fetches[s]) /\ Len(fetches[s]) \in Nat
        BY <4>1
      <4>3. i = Len(fetches[s]) + 1
        <5>1. i \in 1 .. Len(fetches[s]) + 1 /\ i \notin 1 .. Len(fetches[s])
          BY <1>2, <2>1, <3>2, <4>2
        <5> QED
          BY ONLY <4>2, <5>1
      <4>4. fetches'[s][i] = poll(s)
        BY <1>2, <4>3
      <4>5. poll(s).answer = Pending /\ (~poll(s).overlapped => fetches[s] = <<>>)
        BY FetchFacts
      <4>6. Pending <= version[s]
        BY FetchFacts DEF TypeOK
      <4> HIDE DEF poll
      <4> QED
        BY <1>2, <4>4, <4>5, <4>6, FetchFacts
    <3> QED
      BY <3>1, <3>2
  <2> QED
    BY <1>1, <2>1 DEF OrderInv
<1> QED
  BY <1>4, <1>5, <1>6

LEMMA ReloadIInv == IInv /\ Reload => IInv'
<1> SUFFICES ASSUME IInv, Reload PROVE IInv'
  OBVIOUS
<1> USE DEF IInv, Reload, Loading, serverVars
<1>1. version \in [Sections -> Versions]
  BY DEF TypeOK, Versions
<1>2. /\ count' \in [{"changes", "fails", "reloads"} -> Nat]
      /\ count'["changes"] = count["changes"]
  BY CountFacts, BoundAssumption
<1>3. devices' = [s \in Sections |-> Nothing] /\ shown' = [s \in Sections |-> Nothing]
  OBVIOUS
<1>4. TypeOK' /\ FlightInv'
  BY <1>2, <1>3, TableLoaded, FlightLoaded DEF TypeOK, FlightInv
<1>5. /\ \A s \in Sections : \A i \in DOMAIN fetches'[s] :
           fetches'[s][i].answer <= version[s] /\ fetches'[s][i].answer \notin Versions
      /\ \A s \in Sections : shown'[s] <= version[s] /\ Len(fetches'[s]) = 1
      /\ \A s \in Sections : \E i \in DOMAIN fetches'[s] : fetches'[s][i].set
  BY <1>1, <1>3, LoadedInv
<1>6. OrderInv' /\ MissingOnlyByFailure'
  BY <1>5 DEF OrderInv, MissingOnlyByFailure
<1>7. TableInv'
  BY <1>3 DEF TableInv
<1> QED
  BY <1>4, <1>6, <1>7

\* A handled answer leaves the queue of its section; what else was in flight was overlapped.
LEMMA QueueFacts ==
  ASSUME IInv, NEW s \in Sections, NEW i \in DOMAIN fetches[s],
         fetches' = [fetches EXCEPT ![s] = Without(@, i)]
  PROVE  /\ fetches' \in [Sections -> Seq(Fetches)]
         /\ \A t \in Sections : t # s => fetches'[t] = fetches[t]
         /\ fetches'[s] = Without(fetches[s], i)
         /\ \A j \in DOMAIN fetches'[s] :
              fetches'[s][j].answer <= version[s] /\ fetches'[s][j].overlapped
         /\ \A k \in DOMAIN fetches[s] : k # i /\ fetches[s][k].set =>
              \E j \in DOMAIN fetches'[s] : fetches'[s][j].set
<1> USE DEF IInv
<1>1. fetches[s] \in Seq(Fetches)
  BY DEF FlightInv
<1>2. /\ Without(fetches[s], i) \in Seq(Fetches)
      /\ \A j \in DOMAIN Without(fetches[s], i) :
           \E k \in DOMAIN fetches[s] : Without(fetches[s], i)[j] = fetches[s][k]
      /\ \A k \in DOMAIN fetches[s] : k # i =>
           \E j \in DOMAIN Without(fetches[s], i) : Without(fetches[s], i)[j] = fetches[s][k]
      /\ Len(fetches[s]) = 1 => Without(fetches[s], i) = <<>>
  BY <1>1, WithoutFacts
<1>3. /\ fetches' \in [Sections -> Seq(Fetches)] /\ fetches'[s] = Without(fetches[s], i)
      /\ \A t \in Sections : t # s => fetches'[t] = fetches[t]
  BY <1>2 DEF FlightInv
<1>4. ASSUME NEW j \in DOMAIN Without(fetches[s], i)
      PROVE  /\ Without(fetches[s], i)[j].answer <= version[s]
             /\ Without(fetches[s], i)[j].overlapped
  <2>1. PICK k \in DOMAIN fetches[s] : Without(fetches[s], i)[j] = fetches[s][k]
    BY <1>2
  <2>2. Without(fetches[s], i) # <<>>
    OBVIOUS
  <2>3. fetches[s][k].answer <= version[s] /\ fetches[s][k].overlapped
    BY <1>2, <2>2 DEF OrderInv
  <2> QED
    BY <2>1, <2>3
<1>5. ASSUME NEW k \in DOMAIN fetches[s], k # i, fetches[s][k].set
      PROVE  \E j \in DOMAIN Without(fetches[s], i) : Without(fetches[s], i)[j].set
  BY <1>2, <1>5
<1> QED
  BY <1>3, <1>4, <1>5

\* What the handling of an answer may do to the table and the drawings.
LEMMA TableIInv ==
  ASSUME IInv, NEW s \in Sections, NEW i \in DOMAIN fetches[s],
         fetches' = [fetches EXCEPT ![s] = Without(@, i)],
         UNCHANGED <<serverVars, count>>,
         NEW v \in Nothing .. MaxChanges, NEW w \in Nothing .. MaxChanges,
         devices' = [devices EXCEPT ![s] = v], shown' = [shown EXCEPT ![s] = w],
         data_fields' \in BOOLEAN, data_fields => data_fields',
         lost \subseteq lost', lost' \subseteq Sections,
         v # Nothing \/ w # Nothing => data_fields' /\ kind[s] # "misfit",
         w <= version[s],
         v = Nothing /\ kind[s] \in {"lamp", "meter"} =>
           s \in lost' \/ (devices[s] = Nothing /\ ~fetches[s][i].set)
  PROVE  IInv'
<1> USE DEF IInv, serverVars
<1>1. /\ fetches' \in [Sections -> Seq(Fetches)]
      /\ \A t \in Sections : t # s => fetches'[t] = fetches[t]
      /\ \A j \in DOMAIN fetches'[s] :
           fetches'[s][j].answer <= version[s] /\ fetches'[s][j].overlapped
      /\ \A k \in DOMAIN fetches[s] : k # i /\ fetches[s][k].set =>
           \E j \in DOMAIN fetches'[s] : fetches'[s][j].set
  BY QueueFacts
<1>2. /\ devices' \in [Sections -> Nothing .. MaxChanges] /\ devices'[s] = v
      /\ shown' \in [Sections -> Nothing .. MaxChanges] /\ shown'[s] = w
      /\ \A t \in Sections : t # s => devices'[t] = devices[t] /\ shown'[t] = shown[t]
  BY DEF TypeOK
<1>3. TypeOK' /\ FlightInv' /\ TableInv'
  BY <1>1, <1>2 DEF TypeOK, FlightInv, TableInv
<1>4. OrderInv'
  BY <1>1, <1>2 DEF OrderInv
<1>5. MissingOnlyByFailure'
  <2>1. ASSUME NEW t \in Sections, devices'[t] = Nothing, kind[t] \in {"lamp", "meter"}
        PROVE  t \in lost' \/ \E j \in DOMAIN fetches'[t] : fetches'[t][j].set
    <3>1. CASE t # s
      BY <1>1, <1>2, <2>1, <3>1 DEF MissingOnlyByFailure
    <3>2. CASE t = s /\ s \notin lost'
      <4>1. devices[s] = Nothing /\ ~fetches[s][i].set /\ s \notin lost
        BY <1>2, <2>1, <3>2
      <4>2. PICK k \in DOMAIN fetches[s] : fetches[s][k].set
        BY <2>1, <3>2, <4>1 DEF MissingOnlyByFailure
      <4> QED
        BY <1>1, <3>2, <4>1, <4>2
    <3> QED
      BY <3>1, <3>2
  <2> QED
    BY <2>1 DEF MissingOnlyByFailure
<1> QED
  BY <1>3, <1>4, <1>5

LEMMA HandleIInv ==
  ASSUME IInv, NEW s \in Sections, NEW i \in DOMAIN fetches[s], Handle(s, i) PROVE IInv'
<1> DEFINE f == fetches[s][i]
<1> USE DEF IInv
<1>1. f \in Fetches
  BY DEF FlightInv
<1>2. /\ f.answer # Pending /\ fetches' = [fetches EXCEPT ![s] = Without(@, i)]
      /\ UNCHANGED <<serverVars, count>>
  BY DEF Handle
<1>3. Value(f) # Nothing =>
        /\ Value(f) \in Nothing .. MaxChanges /\ Value(f) <= version[s]
  <2>1. Value(f) # Nothing => Value(f) = f.answer /\ f.answer \in Versions
    BY <1>1, <1>2, ValueFacts
  <2>2. f.answer <= version[s]
    BY DEF OrderInv
  <2> QED
    BY <2>1, <2>2, AnswerFacts
<1>4. /\ devices \in [Sections -> Nothing .. MaxChanges] /\ devices = [devices EXCEPT ![s] = devices[s]]
      /\ shown \in [Sections -> Nothing .. MaxChanges] /\ shown = [shown EXCEPT ![s] = shown[s]]
      /\ devices[s] \in Nothing .. MaxChanges /\ shown[s] \in Nothing .. MaxChanges
      /\ shown[s] <= version[s]
      /\ data_fields \in BOOLEAN /\ lost \subseteq Sections
  BY DEF TypeOK, OrderInv
<1>5. devices[s] # Nothing \/ shown[s] # Nothing => data_fields /\ kind[s] # "misfit"
  BY DEF TypeOK, TableInv
<1>6. CASE Value(f) # Nothing /\ f.set
  <2> DEFINE w == IF kind[s] = "misfit" THEN devices[s] ELSE Value(f)
  <2>1. Register(s, Value(f))
    BY <1>6 DEF Handle
  <2>2. devices' = [devices EXCEPT ![s] = w] /\ w \in Nothing .. MaxChanges
        /\ (w # Nothing => kind[s] # "misfit") /\ (kind[s] # "misfit" => w # Nothing)
    BY <1>3, <1>4, <1>5, <1>6, <2>1 DEF Register
  <2>3. data_fields' = TRUE /\ lost' = lost /\ shown' = [shown EXCEPT ![s] = shown[s]]
    BY <1>4, <2>1 DEF Register
  <2> HIDE DEF w, f
  <2> QED
    BY <1>2, <1>4, <1>5, <2>2, <2>3, TableIInv DEF f
<1>7. CASE Value(f) # Nothing /\ ~f.set
  <2> DEFINE done == IF HasPins(s) THEN devices[s] # Nothing ELSE data_fields
             d == IF done /\ HasPins(s) THEN Value(f) ELSE devices[s]
             w == IF done THEN Value(f) ELSE shown[s]
  <2>1. Update(s, Value(f))
    BY <1>7 DEF Handle
  <2>2. done => data_fields /\ kind[s] # "misfit"
    BY <1>5 DEF HasPins
  <2>3. /\ devices' = [devices EXCEPT ![s] = d] /\ shown' = [shown EXCEPT ![s] = w]
        /\ data_fields' = data_fields /\ lost' = lost
    BY <1>4, <2>1 DEF Update
  <2>4. /\ d \in Nothing .. MaxChanges /\ w \in Nothing .. MaxChanges /\ w <= version[s]
        /\ d # Nothing \/ w # Nothing => data_fields /\ kind[s] # "misfit"
        /\ d = Nothing => devices[s] = Nothing
    BY <1>3, <1>4, <1>5, <1>7, <2>2
  <2> HIDE DEF d, w, f
  <2> QED
    BY <1>2, <1>4, <1>7, <2>3, <2>4, TableIInv DEF f
<1>8. CASE Value(f) = Nothing
  <2>1. /\ lost' = (IF f.set THEN lost \cup {s} ELSE lost)
        /\ data_fields' = (data_fields \/ (f.set /\ f.answer = Garbled))
        /\ UNCHANGED <<devices, shown>>
    BY <1>8 DEF Handle
  <2>2. lost \subseteq lost' /\ lost' \subseteq Sections /\ (f.set => s \in lost')
        /\ data_fields' \in BOOLEAN /\ (data_fields => data_fields')
    BY <1>4, <2>1
  <2>3. devices' = [devices EXCEPT ![s] = devices[s]] /\ shown' = [shown EXCEPT ![s] = shown[s]]
    BY <1>4, <2>1
  <2>4. devices[s] = Nothing /\ kind[s] \in {"lamp", "meter"} => s \in lost' \/ ~f.set
    BY <2>2
  <2> HIDE DEF f
  <2> QED
    BY <1>2, <1>4, <1>5, <2>2, <2>3, <2>4, TableIInv DEF f
<1> QED
  BY <1>6, <1>7, <1>8

\* A drawing goes back only by an answer that was overlapped.
LEMMA HandleForward ==
  ASSUME IInv, NEW s \in Sections, NEW i \in DOMAIN fetches[s], Handle(s, i),
         NEW t \in Sections, Nothing < shown'[t], shown'[t] < shown[t]
  PROVE  \E k \in DOMAIN fetches[t] :
           fetches[t][k].overlapped /\ fetches'[t] = Without(fetches[t], k)
<1> DEFINE f == fetches[s][i]
<1> USE DEF IInv
<1>1. f \in Fetches /\ f.answer # Pending /\ shown \in [Sections -> Nothing .. MaxChanges]
      /\ fetches'[s] = Without(fetches[s], i)
  BY DEF FlightInv, TypeOK, Handle
<1>2. shown'[t] # shown[t]
  BY <1>1 DEF Nothing
<1>3. Value(f) # Nothing /\ shown' = [shown EXCEPT ![s] = Value(f)]
  BY <1>1, <1>2 DEF Handle, Register, Update
<1>4. t = s /\ shown'[s] = f.answer /\ f.answer \in Versions
  BY <1>1, <1>2, <1>3, ValueFacts
<1>5. f.overlapped
  <2>1. f.overlapped \in BOOLEAN /\ shown[s] \in Int /\ f.answer \in Int
    BY <1>1, AnswerInt DEF Fetches, Nothing
  <2>2. ~f.overlapped => shown[s] <= f.answer
    BY <1>4 DEF OrderInv
  <2> QED
    BY <1>4, <2>1, <2>2
<1> QED
  BY <1>1, <1>4, <1>5

-----------------------------------------------------------------------------
LEMMA NextIInv == IInv /\ [Next]_webVars => IInv'
<1> SUFFICES ASSUME IInv, [Next]_webVars PROVE IInv'
  OBVIOUS
<1>1. CASE UNCHANGED webVars
  BY <1>1 DEF webVars, serverVars, tableVars, IInv, TypeOK, FlightInv, TableInv,
              OrderInv, MissingOnlyByFailure
<1>2. CASE Poll \/ Reload
  BY <1>2, PollIInv, ReloadIInv
<1>3. ASSUME NEW s \in Sections,
             Change(s) \/ Answered(s) \/ Handled(s)
      PROVE  IInv'
  BY <1>3, ChangeIInv, ServeIInv, FailIInv, HandleIInv DEF Answered, Handled
<1> QED
  BY <1>1, <1>2, <1>3 DEF Next

LEMMA NextForward ==
  ASSUME IInv, [Next]_webVars, NEW t \in Sections, Nothing < shown'[t], shown'[t] < shown[t]
  PROVE  \E k \in DOMAIN fetches[t] :
           fetches[t][k].overlapped /\ fetches'[t] = Without(fetches[t], k)
<1>1. shown'[t] # shown[t] /\ ~(Nothing < Nothing)
  BY DEF IInv, TypeOK, Nothing
<1>2. ~Poll /\ ~UNCHANGED webVars
  BY <1>1 DEF Poll, webVars, tableVars
<1>3. ~Reload
  BY <1>1 DEF Reload, Loading
<1>4. PICK s \in Sections : Handled(s)
  BY <1>1, <1>2, <1>3
     DEF Next, Change, Answered, Serve, Fail, tableVars
<1> QED
  BY <1>4, HandleForward DEF Handled

LEMMA Invariance == Spec => []IInv
  BY InitIInv, NextIInv, PTL DEF Spec

\* home.js: the page's table and drawings have their types in every order of polls,
\* answers and reloads, and nothing is drawn that set_device has not prepared.
THEOREM TypeCorrect == Spec => []TypeOK
  BY Invariance, PTL DEF IInv

\* set_all_devices: a device that fits its section is missing from the table only while
\* its one request is in flight or after that request has failed.
THEOREM MissingByFailure == Spec => []MissingOnlyByFailure
  BY Invariance, PTL DEF IInv

\* get_device_pin_status: only an answer that was overlapped by another request takes a
\* drawing back to older values.
THEOREM Forward == Spec => ForwardUnlessOverlapped
<1>1. IInv /\ [Next]_webVars =>
        \A s \in Sections :
          Nothing < shown[s]' /\ shown[s]' < shown[s] =>
            \E i \in DOMAIN fetches[s] :
              fetches[s][i].overlapped /\ fetches[s]' = Without(fetches[s], i)
  BY NextForward
<1> QED
  BY <1>1, Invariance, PTL DEF Spec, ForwardUnlessOverlapped
=============================================================================
