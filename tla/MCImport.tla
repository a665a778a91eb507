------------------------------ MODULE MCImport ------------------------------
(***************************************************************************)
(* Instances of Import for TLC.                                            *)
(***************************************************************************)
EXTENDS Import, TLC

CONSTANTS ann, zed, zoe, open, old, new

\* Two people share a slug; a third is mapped to an address of her own.
MCSlug == (ann :> "ann") @@ (zed :> "ze") @@ (zoe :> "ze")

\* Two addresses for one name: the second counts.
MCSpecs ==
    <<[name |-> ann, email |-> <<"lost", 0>>, display |-> Blank],
      [name |-> ann, email |-> <<"map", 0>>, display |-> Blank]>>

\* A member, and a status that is archived.
MCDb ==
    [users |-> <<[name |-> ann, email |-> <<"ann", 1>>, disabled |-> FALSE, by |-> "server"]>>,
     members |-> {1},
     statuses |-> <<[name |-> open, archived |-> FALSE, by |-> "server"],
                    [name |-> old, archived |-> TRUE, by |-> "server"]>>,
     issues |-> <<>>, gone |-> FALSE]

MCLine(s, o, a) == [subject |-> TRUE, created |-> TRUE, status |-> s, opener |-> o, assignee |-> a]

\* Two new people with one slug, a new status met twice, an archived one, a
\* blank one, a mapped name and a line that cannot be imported.
MCCsvs ==
    {<<MCLine(new, zed, zoe), MCLine(old, ann, zed)>>,
     <<[MCLine(Blank, zed, Blank) EXCEPT !.created = FALSE],
       MCLine(Blank, zoe, Blank), MCLine(new, zed, zed)>>}
=============================================================================
