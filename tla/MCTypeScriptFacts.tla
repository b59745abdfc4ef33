-------------------------- MODULE MCTypeScriptFacts --------------------------
(***************************************************************************)
(* Small programs for TLC: a core, a shell or value file, a state module   *)
(* and a test, of one domain unless said otherwise.  Each family varies    *)
(* some of the files around a program that is accepted.                    *)
(***************************************************************************)
EXTENDS TypeScriptFacts

MCDomains == {"mail", "http"}
MCEffectfulImports == {"fs"}
MCTestImports == {"fast-check"}

Function(name) == [kind |-> "function", name |-> name]

File(module, type, functions) ==
  [module |-> module, targets |-> 1 .. 4, workspace |-> FALSE, bindings |-> {},
   functions |-> functions, quoted |-> {}, defaults |-> {}, aliases |-> << >>,
   renamed |-> {}, walk |-> << >>,
   comments |-> <<<<"module", type>>, <<"domain", "mail">>>>,
   imports |-> {}, reexports |-> {}, declarations |-> {}, types |-> {}, calls |-> {},
   mentions |-> {}, controlFlow |-> {}, imperative |-> {}]

Declaration(kind, name, exported) ==
  [kind |-> kind, name |-> name, exported |-> exported, body |-> TRUE, statements |-> 2,
   returns |-> "call", products |-> {}, value |-> "none", mutable |-> FALSE]

Effect(source, within) ==
  <<[kind |-> "effect", source |-> source, reference |-> "db", within |-> within]>>

Mention(i, symbol, position) == [file |-> i, symbol |-> symbol, position |-> position]

---------------------------------------------------------------------------
(* Files.                                                                  *)

Decide == [Declaration("function", "decide", TRUE) EXCEPT !.products = {"Plan"}]

Core(functions) ==
  [File("Core", "core", functions) EXCEPT
     !.declarations = {Declaration("function", n, TRUE) : n \in DOMAIN functions \ {"decide"}}
                        \cup {Decide},
     !.types = {"Plan"}]

PlainCore == Core([decide |-> {}])

Cores ==
  {PlainCore, Core([decide |-> {<<1, "plan">>}, plan |-> {<<1, "decide">>}]),
   Core([decide |-> {<<0, "map">>}, plan |-> {<<0, "map">>}])}
    \cup {[PlainCore EXCEPT !.declarations = {d}] :
            d \in {[Decide EXCEPT !.exported = FALSE],
                   [Decide EXCEPT !.statements = 1, !.returns = "object"],
                   [Decide EXCEPT !.statements = 1],
                   [Decide EXCEPT !.kind = "variable", !.value = "function"],
                   [Decide EXCEPT !.kind = "variable", !.value = "function",
                                  !.mutable = TRUE]}}
    \cup {[PlainCore EXCEPT !.comments = c] :
            c \in {<<<<"module", "core">>, <<"domain", "http">>>>,
                   <<<<"module", "core">>, <<"domain", "mail">>, <<"module", "core">>>>,
                   <<<<"module", "core">>, <<"domain", "mail", "stuff">>>>,
                   <<<<"module", "service">>, <<"domain", "mail">>>>}}

EffectCores ==
  {[PlainCore EXCEPT !.walk = Effect(source, within)] :
     source \in {"summary", "requirement"},
     within \in {<<Function("decide")>>, <<[kind |-> "constructor", name |-> ""]>>}}
    \cup {[Core([decide |-> {c}]) EXCEPT !.targets = t] :
            c \in {<<3, "save">>, <<2, "run">>}, t \in {{}, {2}, {2, 3}}}
    \cup {[PlainCore EXCEPT !.imports = {"fs"}], [PlainCore EXCEPT !.reexports = {"fs"}]}

Calling(caller, c, text) == [caller EXCEPT !.aliases = [d \in {c} |-> text]]

\* A core that calls the state module, by another name too.
NamedCores ==
  LET Caller == Core([decide |-> {<<3, "save">>}])
  IN  {Caller, Calling(Caller, <<3, "save">>, "keep")}

Quoted(core) ==
  [core EXCEPT !.declarations = @ \cup {Declaration("method", "m", FALSE)},
               !.quoted = {"m"}]

Shell ==
  [File("Shell", "shell", [run |-> {<<1, "decide">>, <<0, "fetch">>}]) EXCEPT
     !.declarations = {Declaration("function", "run", TRUE)},
     !.walk = <<[kind |-> "effect", source |-> "global", reference |-> "fetch",
                 within |-> <<Function("run")>>]>>,
     !.mentions = {Mention(1, "decide", "use")}]

Shells ==
  {[Shell EXCEPT !.module = m, !.mentions = {n}] :
     m \in {"Shell", "Core"},
     n \in {Mention(1, "decide", "import"), Mention(1, "decide", "propertyKey"),
            Mention(1, "Plan", "use"), Mention(3, "Plan", "use"), Mention(3, "save", "use"),
            Mention(2, "decide", "use")}}
    \cup {[Shell EXCEPT !.functions = [run |-> {}], !.walk = << >>],
          [Shell EXCEPT !.comments = <<<<"module", "value">>, <<"domain", "mail">>>>,
                        !.functions = [x \in {} |-> {}], !.walk = << >>,
                        !.declarations = {Declaration("type", "Plan", TRUE)},
                        !.mentions = {}]}

State(calls) ==
  [File("Store", "state", [save |-> calls]) EXCEPT
     !.declarations = {Declaration("function", "save", TRUE),
                       [Declaration("variable", "cache", FALSE) EXCEPT !.mutable = TRUE]},
     !.walk = Effect("summary", <<Function("save")>>)]

PlainState == State({<<1, "decide">>})

NamedStates == {[PlainState EXCEPT !.defaults = d] : d \in {{}, {"save"}}}

\* State modules that use the name of a decision without calling it.
OtherStates ==
  {[State({}) EXCEPT !.types = {"decide"}],
   [State({}) EXCEPT !.calls = {<<0, "decide">>}],
   [State({}) EXCEPT !.walk = @ \o <<[kind |-> "check", calls |-> {<<4, "helper">>}, body |-> {},
                                     generators |-> << >>, inputs |-> << >>]>>]}

Check(calls, generators, inputs) ==
  <<[kind |-> "check", calls |-> calls, body |-> calls, generators |-> generators,
     inputs |-> inputs]>>

Input(name, parameter, used, calls) ==
  [name |-> name, parameter |-> parameter, used |-> used, calls |-> calls]

Test(type, helper, walk) ==
  [File("Probe", type, [helper |-> helper]) EXCEPT
     !.declarations = {Declaration("function", "helper", FALSE)},
     !.walk = walk, !.imports = {"fast-check"}]

Trace(calls) == Check(calls, <<TRUE>>, <<Input("ops", 1, TRUE, calls)>>)

PlainTest == Test("stateTest", {<<1, "decide">>}, Trace({<<4, "helper">>}))

Tests ==
  {Test(type, c, Trace(d)) :
     type \in {"test", "stateTest"}, c \in {{<<1, "decide">>}, {<<1, "plan">>}, {}},
     d \in {{<<4, "helper">>}, {<<1, "decide">>}}}
    \cup {Test("stateTest", {},
               Check({<<1, "decide">>}, g, <<Input("ops", 1, u, {<<1, "decide">>})>>)) :
            g \in {<<FALSE>>, <<TRUE>>}, u \in BOOLEAN}
    \cup {[PlainTest EXCEPT !.imports = {}],
          Test("stateTest", {}, Trace({<<1, "decide">>}) \o Trace({<<0, "map">>}))}

\* Tests that call a function of the core by another name, maybe that of a function.
NamedTests ==
  {Calling(Test("stateTest", {c}, Trace({<<4, "helper">>})), c, text) :
     c \in {<<1, "decide">>, <<1, "plan">>}, text \in {"choose", "decide"}}

\* The properties have two generators, of which one generates sequences, and their
\* first parameter may be destructured into two names.
SequenceTests(second) ==
  {Test("stateTest", {},
        Check({<<1, "decide">>}, g,
              <<Input("ops", 1, TRUE, {<<1, "decide">>}),
                Input("other", second, TRUE, {<<1, "decide">>})>>)) :
     g \in {<<TRUE, FALSE>>, <<FALSE, TRUE>>}}

---------------------------------------------------------------------------
\* The first two files stand under the root in any case.
Program(a, b, c, d) == [sources |-> <<a, b, c, d>>, owned |-> 4]

ConformancePrograms ==
  {Program(a, Shell, PlainState, t) : a \in Cores, t \in Tests \cup SequenceTests(2)}
    \cup {Program(a, Shell, PlainState, PlainTest) : a \in EffectCores \cup {Quoted(PlainCore)}}
    \cup {Program(a, s, PlainState, PlainTest) : a \in {PlainCore, Core([decide |-> {}, plan |-> {}])},
                                                s \in Shells}
    \cup {Program(a, Shell, State(c), t) :
            a \in {Core([decide |-> {}, plan |-> {<<1, "decide">>}])},
            c \in {{}, {<<1, "plan">>}, {<<4, "helper">>}},
            t \in Tests}
    \cup {Program(PlainCore, Shell, s, PlainTest) : s \in OtherStates}
    \cup {Program(a, Shell, s, PlainTest) : a \in NamedCores, s \in NamedStates}
    \cup {Program(Core([decide |-> {}, plan |-> {}]), Shell, PlainState, t) : t \in NamedTests}

\* Programs whose parameters are destructured.
DestructuredPrograms == {Program(PlainCore, Shell, PlainState, t) : t \in SequenceTests(1)}
=============================================================================
