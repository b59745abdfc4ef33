---------------------------- MODULE MCExpansion ----------------------------
(***************************************************************************)
(* Every table over three helpers and an external name, every start.       *)
(***************************************************************************)
EXTENDS Expansion

Helpers == {Bare("f"), Bare("g"), <<"Other", "f">>}
Names   == Helpers \cup {Bare("x")}

MCTables == UNION {[known -> SUBSET Names] :
                     known \in {Helpers, {Bare("f"), <<"Other", "f">>}}}
MCStarts == {{Bare("f")}, {Bare("g"), Bare("x")}, {}}
=============================================================================
