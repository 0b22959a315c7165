----------------------------- MODULE MCWebPage ------------------------------
(***************************************************************************)
(* A page with two sections: a meter beside each kind of device.           *)
(***************************************************************************)
EXTENDS WebPage

CONSTANTS s1, s2
TwoSections == {p \in [{s1, s2} -> Kinds] : p[s2] = "meter"}
=============================================================================
