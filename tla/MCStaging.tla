------------------------------ MODULE MCStaging ------------------------------
(***************************************************************************)
(* Model-checking instances of Staging: two handlers, files of one or two  *)
(* batches of one record, one fault on each side.                          *)
(***************************************************************************)
EXTENDS Staging

Row(ref, content, fault) ==
    [system |-> <<"ifmis">>, ref |-> ref, content |-> content, fault |-> fault]

good       == Row(<<"1">>, 1, "none")
unknown    == Row(<<"3">>, 1, "unknownInstitution")
dateless   == Row(<<"4">>, 1, "badDate")
garbled    == Row(<<"5">>, 1, "unmappable")
nameless   == [system |-> <<>>, ref |-> <<>>, content |-> 1, fault |-> "noIdentity"]
\* "ifmis-1" / "x" and "ifmis" / "1-x" have the same entry id.
dashed     == Row(<<"1", "-", "x">>, 1, "none")
ambiguous  == [system |-> <<"ifmis", "-", "1">>, ref |-> <<"x">>, content |-> 1, fault |-> "none"]

TwoFiles == {"f1", "f2"}
OneFile  == {"f1"}
NoOthers == {}
Two      == {"h1", "h2"}

\* An export with all the ways a row can be, and a file that is no CSV.
Mixed     == ("f1" :> <<dashed, garbled, good>>) @@ ("f2" :> <<>>)
MixedRows == {dashed, garbled, good, unknown, nameless, ambiguous, dateless}
\* Another client: a row without identity, one of an unregistered institution,
\* one with the entry id of a row of the export, and one that cannot be stored.
Foreign   == {<<nameless, unknown, ambiguous, dateless>>}
\* A row that cannot be stored.
Poison     == "f1" :> <<dateless, good>>
PoisonRows == {dateless, good}
=============================================================================
