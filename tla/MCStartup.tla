----------------------------- MODULE MCStartup ------------------------------
(***************************************************************************)
(* Every short home.conf over an alphabet of five, and some longer ones;   *)
(* devices.xml with up to one device too many, and one with a long id.     *)
(***************************************************************************)
EXTENDS Startup

Chars == {"a", "b", EQ, NL, CR}
Short == UNION {[1 .. n -> Chars] : n \in 0 .. 5}
Name(atom) == <<atom>>
A == <<"a">>
B == <<"b">>

Line(name, value) == name \o <<EQ>> \o value \o <<NL>>
Whole == Line(A, B) \o Line(B, A)
Curated ==
  {Absent, Whole, <<CR>> \o Line(A, <<CR>>) \o Line(B, A), Line(B, A) \o Line(B, B),
   <<NL, NL>> \o Whole, <<NL>> \o Whole, A \o Line(A, B) \o Whole, Whole \o Whole}
AllConfs == Short \cup Curated

Dev(id, analyzer, pin) ==
  [id |-> id, analyzer |-> analyzer, historify |-> TRUE, fire |-> ~analyzer, pin |-> pin]
Lamp  == Dev("lamp", FALSE, TRUE)
Meter == Dev("meter", TRUE, FALSE)
Far   == Dev("thermostat-upstairs", FALSE, TRUE)
Bare  == [Lamp EXCEPT !.fire = FALSE]
Xmls == {Absent, <<>>, <<Lamp, Meter>>, <<Meter>>, <<Bare>>, <<Lamp, Lamp, Meter>>, <<Far, Meter>>}
Long == {Far.id}
=============================================================================
