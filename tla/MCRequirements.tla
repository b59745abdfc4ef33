--------------------------- MODULE MCRequirements ---------------------------
(***************************************************************************)
(* Types for TLC: a service, a second leaf, and three levels of unions,    *)
(* Effects and Layers over them.                                           *)
(***************************************************************************)
EXTENDS Requirements

Symbol(package, name) == [package |-> package, name |-> name]
NoSymbol == Symbol(NoPackage, "")

Leaf(symbol) ==
  [parts |-> {}, empty |-> FALSE, symbols |-> {symbol},
   candidates |-> <<[symbol |-> symbol, arguments |-> << >>]>>]

Sql == Symbol("sql", "SqlClient")
Clock == Symbol("effect", "Clock")

Empty == [Leaf(NoSymbol) EXCEPT !.empty = TRUE]
Union(parts) == [Leaf(NoSymbol) EXCEPT !.parts = parts]

Applied(name, requirement) ==
  [Leaf(Symbol("effect", name)) EXCEPT
     !.candidates = <<[symbol |-> Symbol("effect", name),
                       arguments |-> <<1, 1, requirement>>]>>]

\* An Effect behind an alias of a package, of code outside packages, and a type whose
\* apparent type is an Effect.
Aliased(package, requirement) ==
  [Applied("Effect", requirement) EXCEPT
     !.candidates = <<[@[1] EXCEPT !.symbol = Symbol(package, "Alias")], @[1]>>]

Made(below) ==
  {Union({1, t}) : t \in below \ {1}} \cup {Applied("Effect", t) : t \in below}
    \cup {Aliased(p, t) : p \in {"app", NoPackage}, t \in below}

MCGraphs ==
  {<<Leaf(Sql), second, third, fourth, fifth>> :
     second \in {Leaf(Clock), Leaf(Symbol("app", "Clock")), Empty, Union({1})},
     third \in Made({1, 2}), fourth \in Made({1, 3}),
     fifth \in {Union({3, 4}), Applied("Layer", 4), Applied("Stream", 4),
                Union({1, 4}), Applied("Effect", 3)}}

MCServices == {Sql, Clock}
=============================================================================
