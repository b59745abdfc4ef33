------------------------ MODULE MCTypeScriptAdapter ------------------------
(***************************************************************************)
(* Small programs for TLC: a core file 1, a file 2 of two functions, and a *)
(* file 3, which may stand outside the root.                               *)
(***************************************************************************)
EXTENDS TypeScriptAdapter

LOCAL INSTANCE SequencesExt
LOCAL INSTANCE TLC

Fetch  == <<0, "fetch">>   \* an effectful global
Select == <<0, "select">>  \* a call that an effect summary knows

Function(name)    == <<[kind |-> "function", name |-> name]>>
Constructor(name) == <<[kind |-> "constructor", name |-> ""], [kind |-> "class", name |-> name]>>
Method(name)      == <<[kind |-> "method", name |-> name]>>
Computed(outer)   == <<[kind |-> "method", name |-> ""]>> \o Function(outer)

Effect(source, reference, within) ==
  [kind |-> "effect", source |-> source, reference |-> reference, within |-> within]

\* The effect events of the functions.
Effects(functions) ==
  SetToSeq({Effect("global", "fetch", Function(n)) :
              n \in {m \in DOMAIN functions : Fetch \in functions[m]}}
    \cup {Effect("summary", "select", Function(n)) :
              n \in {m \in DOMAIN functions : Select \in functions[m]}})

File(module, bindings, functions, walk) ==
  [module |-> module, targets |-> {1, 2, 3}, workspace |-> FALSE, bindings |-> bindings,
   functions |-> functions, quoted |-> {}, defaults |-> {}, aliases |-> << >>,
   renamed |-> {}, walk |-> Effects(functions) \o walk]

RunnerIn(within, calls) == <<[kind |-> "runner", within |-> within, calls |-> calls]>>
Runner(n, calls) == RunnerIn(Function(n), calls)
Check(calls) == <<[kind |-> "check", calls |-> calls, body |-> calls,
                   generators |-> <<FALSE>>, inputs |-> << >>]>>

---------------------------------------------------------------------------
(* Effects: who calls whom across the files, with names that clash and     *)
(* modules that clash.                                                     *)

CoreFiles ==
  {File("Core", {}, [h |-> {c}], << >>) :
     c \in {<<2, "g">>, <<2, "f">>, <<2, "k">>, <<3, "k">>, <<0, "k">>, Fetch}}
    \cup {File("Core", {}, [h |-> {<<1, "k">>}, k |-> {c}], << >>) :
            c \in {<<3, "k">>, <<0, "new">>}}
    \cup {File("Core", {"Command"}, [h |-> {c}, k |-> {<<0, "new">>}], Runner(n, {d})) :
            c \in {<<0, "Command">>, <<0, "new">>}, n \in {"h", "k"},
            d \in {<<2, "g">>, <<3, "k">>}}
    \cup {[File("Core", {}, [h |-> {<<3, "k">>}], << >>) EXCEPT !.targets = t] :
            t \in {{}, {2}}}
    \cup {File("Core", {}, [h |-> {<<2, "g">>}], walk) :
            walk \in {<<Effect("requirement", "db", within)>> :
                        within \in {Function("h"), Constructor("H"), Computed("h")}}
                      \cup {<<Effect("summary", "select", Computed("h"))>>,
                             RunnerIn(Constructor("H"), {Fetch})}}
    \cup {File("Core", {}, [h |-> {<<3, "k">>}],
               <<Effect("summary", "select", Method("k"))>>)}

FlowFiles ==
  {File("Flow", IF d[2] = "Command" THEN {"Command"} ELSE {}, [g |-> {c}, f |-> {d}],
        << >>) :
     c \in {<<2, "f">>, <<3, "k">>, Fetch},
     d \in {<<2, "g">>, <<0, "Command">>, <<0, "new">>, Fetch}}

EdgeFiles ==
  {File("Edge", {}, [k |-> {c}], << >>) : c \in {<<2, "g">>, <<0, "new">>, Select}}
    \cup {File("Flow", {}, [k |-> {Fetch}], << >>),
          File("Edge", {}, [k |-> {<<0, "new">>}], <<Effect("global", "fetch", Function("k"))>>),
          [File("Edge", {}, [k |-> {Select}], << >>) EXCEPT !.workspace = TRUE]}

EffectPrograms ==
  {[sources |-> <<a, b, c>>, owned |-> n] :
     a \in CoreFiles, b \in FlowFiles, c \in EdgeFiles, n \in {2, 3}}

---------------------------------------------------------------------------
(* Names: imports that rename, default exports and methods with quotes.    *)

Calling(caller, c, text) == [caller EXCEPT !.aliases = [d \in {c} |-> text]]

NamedCores ==
  LET Caller(c) == File("Core", {}, [h |-> {c}], << >>)
  IN  {[Calling(Caller(c), c, text) EXCEPT !.renamed = r] :
         c \in {<<2, "g">>, <<3, "k">>}, text \in {"x", "f"}, r \in {{}, {"k"}}}
        \cup {Caller(<<3, "k">>),
              [File("Core", {}, [h |-> {<<1, "k">>}, k |-> {<<2, "g">>}, m |-> {<<3, "k">>}],
                    << >>) EXCEPT !.quoted = {"m"}]}

NamedFlows ==
  {Calling(File("Flow", {}, [g |-> {<<3, "k">>}, f |-> {d}], << >>), <<3, "k">>, "x") :
     d \in {<<0, "new">>, Select}}
    \cup {[File("Flow", {}, [g |-> {Fetch}, f |-> {<<0, "new">>}], << >>) EXCEPT !.quoted = q] :
            q \in {{}, {"g"}}}

NamedEdges ==
  {[File("Edge", {}, [k |-> {c}] @@ other, << >>) EXCEPT !.defaults = d] :
     c \in {<<0, "new">>, Fetch, Select}, d \in {{}, {"k"}},
     other \in {[default |-> {Select}], << >>}}

NamedPrograms ==
  {[sources |-> <<a, b, c>>, owned |-> n] :
     a \in NamedCores, b \in NamedFlows, c \in NamedEdges, n \in {2, 3}}

---------------------------------------------------------------------------
(* Property checks: what they call through helpers and effect runners.     *)

CheckFiles ==
  {File("Probe", {}, [p |-> {c}], w) :
     c \in {<<2, "g">>, <<0, "k">>, <<0, "new">>},
     w \in {Check({d}) : d \in {<<1, "p">>, <<2, "g">>, <<0, "k">>}}
             \cup {Check({<<1, "p">>}) \o Runner("p", {<<2, "f">>}),
                   Runner("p", {<<2, "f">>}) \o Check({<<1, "p">>}),
                   Check({<<2, "g">>}) \o Check({<<0, "map">>})}}
    \cup {Calling(File("Probe", {}, [p |-> {<<2, "g">>}], Check({c})), <<2, "g">>, "x") :
            c \in {<<1, "p">>, <<2, "g">>}}

HelperFiles ==
  {File("Flow", {}, [g |-> {c}, f |-> {<<0, "new">>}], w) :
     c \in {<<2, "f">>, <<3, "k">>, <<0, "map">>},
     w \in {<< >>, Runner("g", {<<2, "f">>}), Runner("k", {<<2, "f">>})}}
    \cup {Calling(File("Flow", {}, [g |-> {<<3, "k">>}, f |-> {<<3, "k">>}], << >>), <<3, "k">>, "x")}

LeafFiles ==
  {File("Edge", {}, [k |-> {c}], w) :
     c \in {<<0, "new">>, <<2, "f">>}, w \in {<< >>, Runner("k", {<<2, "g">>})}}

\* The checks of file 1 come before the walks of their helpers' files, and before
\* or after the effect runners of file 1 itself.
CheckPrograms ==
  {[sources |-> <<a, b, c>>, owned |-> n] :
     a \in CheckFiles, b \in HelperFiles, c \in LeafFiles, n \in {2, 3}}

AllPrograms == EffectPrograms \cup NamedPrograms \cup CheckPrograms
=============================================================================
