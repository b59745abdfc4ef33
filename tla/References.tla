----------------------------- MODULE References -----------------------------
(***************************************************************************)
(* References and reference tables of the TypeScript adapter               *)
(* (typescript/src/main.ts).                                               *)
(*                                                                         *)
(* A reference is a string in the code: the bare name of what is called,   *)
(* or "Module.name" when the callee is in another local file.  Here it is  *)
(* the pair <<module, name>>, with no module for a bare name.              *)
(***************************************************************************)
EXTENDS Naturals, FiniteSets

NoModule == ""

Bare(name) == <<NoModule, name>>

\* Map.set for the entries of g whose keys f does not have.
Overlay(f, g) ==
  [x \in DOMAIN f \cup DOMAIN g |-> IF x \in DOMAIN f THEN f[x] ELSE g[x]]

\* The references that start or the helpers it leads to mention, by a table from
\* function references to the references in their bodies.  Each layer but the
\* last enters a new function of the table.
Expanded(table, start) ==
  LET Entered(references) ==
        references \cup UNION {table[r] : r \in references \cap DOMAIN table}
      layer[n \in 0 .. Cardinality(DOMAIN table)] ==
        IF n = 0 THEN start ELSE Entered(layer[n - 1])
  IN  layer[Cardinality(DOMAIN table)]
=============================================================================
