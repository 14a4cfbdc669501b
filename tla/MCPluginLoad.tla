----------------------------- MODULE MCPluginLoad -----------------------------
(* A right plugin of each kind with one or two of its settings replaced,     *)
(* dropped or added, and lists of two.                                       *)
EXTENDS PluginLoad

MCNames == {"", "good", "bad", "other", "glyph", "#1", "#2", "v2c", "default", "A", "AAAA", "CNAME"}
           \cup DOMAIN Sources \cup DOMAIN Reports \cup DOMAIN Publishers
MCNumbered == <<"#1", "#2">>
MCRight ==
  [c \in Checks |-> CASE c = "any" -> MCNames [] c = "named" -> MCNames \ {""} [] c = "dns type" -> {"A", "AAAA", "CNAME"}
                      [] c = "version" -> {"v2c", "good"} [] c = "regex" -> MCNames \ {"bad"} [] OTHER -> {"good"}]

MCValues == {Scalar(a) : a \in {"", "good", "bad", Null, Number, Odd}}
            \cup {List(s) : s \in {<<>>, <<"good", "good">>, <<"good", "bad">>, <<Number>>, <<"good", Null>>, <<Odd, Null>>}}

With(p, f, v)  == [g \in DOMAIN p \cup {f} |-> IF g = f THEN v ELSE p[g]]
Without(p, f)  == Restrict(p, DOMAIN p \ {f})
Named(name, kind) == [f \in {Plain("name"), Plain("kind")} |-> IF f = Plain("name") THEN Scalar(name) ELSE Scalar(kind)]

\* A right plugin of each kind.
Typical(class, kind) ==
  LET maker == Makers(class)[kind]
      needs == {maker.asks[i].field : i \in {j \in DOMAIN maker.asks : maker.asks[j].needed \/ maker.asks[j].check \in {"named", "cidr"}}}
      more  == IF kind \in {"template", "default"} THEN {Plain("template_inline")} ELSE needs
  IN  [f \in {Plain("name"), Plain("kind")} \cup more |->
         IF f \in more THEN Scalar("good") ELSE Named("good", kind)[f]]

\* The settings that may be said otherwise: the plugin's own, the kind's, strange ones.
Fields(class, kind) ==
  LET maker == Makers(class)[kind]
  IN  UNION {Range(Spellings(f)) : f \in {maker.asks[i].field : i \in DOMAIN maker.asks} \cup maker.also
                                         \cup {Plain("name"), Plain("kind"), Plain("source"), Plain("report")}}
      \cup {Plain("strange")}

Changed(p, fields) == {Without(p, f) : f \in fields} \cup {With(p, f, v) : f \in fields, v \in MCValues}

Small == {"static", "prom_exporter_filter"}

PluginsOf(class) ==
  UNION {LET p == Typical(class, kind)  once == Changed(p, Fields(class, kind))
         IN  once \cup (IF kind \in Small
                        THEN UNION {Changed(q, {Makers(class)[kind].asks[i].field : i \in DOMAIN Makers(class)[kind].asks}) : q \in once}
                        ELSE {}) : kind \in DOMAIN Makers(class)}

\* All or some of a dns root's key.
Keyed ==
  {[f \in DOMAIN Typical("source", "dns") \cup {Plain(g) : g \in some} |->
      IF f \in DOMAIN Typical("source", "dns") THEN Typical("source", "dns")[f] ELSE Scalar("good")] :
    some \in SUBSET {"tsig_name", "tsig_secret", "tsig_algorithm"}}

Two ==
  {<<Typical("source", k), With(Typical("source", l), Plain("name"), Scalar(n))>> : k, l \in DOMAIN Sources, n \in {"good", "other"}}

Numbers ==
  {<<Without(Typical("publisher", "log"), Plain("name")), With(Typical("publisher", "file"), Plain("name"), Scalar(n))>> :
     n \in {"", "#1", "#2"}}

AsFile(class, plugins) == [class |-> class, plugins |-> plugins, config |-> OfConfig(class, plugins)]

MCFiles ==
  UNION {{AsFile(class, <<p>>) : p \in PluginsOf(class)} : class \in {"source", "report", "publisher"}}
  \cup {AsFile("source", <<p>>) : p \in Keyed}
  \cup {AsFile("source", two) : two \in Two}
  \cup {AsFile("publisher", two) : two \in Numbers}
===============================================================================
