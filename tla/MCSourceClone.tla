--------------------------- MODULE MCSourceClone ---------------------------
(* Small instances of SourceClone for TLC. *)
EXTENDS SourceClone

None == <<>>
Siblings == << <<"app">>, <<"lib">> >>
\* Two checkouts of which one lies inside the other, and one beside them.
ParentFirst == << <<"app">>, <<"lib">>, <<"app", "plugin">> >>
ChildFirst == << <<"app", "plugin">>, <<"lib">>, <<"app">> >>

MCAll == { None, Siblings, ParentFirst, ChildFirst }
MCSiblings == { Siblings }
=============================================================================
