----------------------------- MODULE MCMetadata -----------------------------
(***************************************************************************)
(* Instances of Metadata for TLC.                                          *)
(***************************************************************************)
EXTENDS Metadata, TLC

\* Two spellings of one name, and two other names.
MCKey == [n \in Names |-> IF n = "OPEN" THEN "Open" ELSE n]

MCDefaults ==
    <<[name |-> "Open", isDefault |-> TRUE, closed |-> FALSE],
      [name |-> "Done", isDefault |-> FALSE, closed |-> HasClosed]>>

NoField == [name |-> Absent, order |-> Absent, isDefault |-> FALSE, closed |-> Absent]

\* Bodies with one field, and bodies whose last field may be refused after the
\* first ones were written.
MCPatches ==
    {[NoField EXCEPT !.name = "OPEN"],
     [NoField EXCEPT !.name = "Done", !.order = 0],
     [NoField EXCEPT !.isDefault = TRUE],
     [NoField EXCEPT !.name = "Open", !.closed = TRUE]}

\* The projects are interchangeable.
Symmetry == Permutations(Projects)
=============================================================================
