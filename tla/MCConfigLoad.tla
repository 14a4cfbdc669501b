----------------------------- MODULE MCConfigLoad -----------------------------
(* Every list of two sources with targets that are right and wrong, and lists *)
(* of three sources that use each other.                                     *)
EXTENDS ConfigLoad

MCNames == {"a", "b", "c", "#1", "#2"}
MCNumbered  == <<"#1", "#2">>

Plugin(name, uses) == [name |-> name, kind |-> "root", good |-> TRUE, uses |-> uses]
Target1(name, from, reps, pubs) == [name |-> name, sources |-> from, reports |-> reps, publishers |-> pubs]

SourcePlugins ==
  {[name |-> name, kind |-> kind, good |-> TRUE, uses |-> uses] :
     name \in {"a", "b"}, kind \in {"root", "filter"}, uses \in SUBSET {"a", "b"}}
  \cup {[Plugin("a", {}) EXCEPT !.good = FALSE], Plugin("-", {})}

OneReport == <<Plugin("a", {"c"})>>

MCTargets ==
  {<<>>,
   <<Target1("a", {"a"}, OneReport, <<Plugin("-", {"a"}), Plugin("-", {"a"})>>),
     Target1("b", {"a", "b"}, OneReport, <<Plugin("b", {"a"})>>)>>,
   <<Target1("a", {"b"}, OneReport, <<>>), Target1("a", {"a"}, OneReport, <<>>)>>,
   <<Target1("a", {"c"}, OneReport, <<Plugin("-", {"a"})>>)>>,
   <<Target1("a", {}, OneReport, <<>>)>>,
   <<Target1("a", {"a"}, <<>>, <<>>)>>,
   <<Target1("a", {"a"}, <<Plugin("-", {})>>, <<>>)>>,
   <<Target1("a", {"a"}, OneReport, <<Plugin("#2", {"a"}), Plugin("-", {"a"})>>)>>,
   <<Target1("a", {"b"}, OneReport, <<Plugin("b", {"a", "b"}), Plugin("c", {})>>)>>,
   <<Target1("a", {"b"}, OneReport \o OneReport, <<>>)>>}

File(list, targs) == [good |-> TRUE, sources |-> list, targets |-> targs]

\* Three sources, each on any of them: chains, diamonds and circles.
Three ==
  {<<first, second, third>> :
     first  \in {[Plugin("a", uses) EXCEPT !.kind = kind] : uses \in SUBSET {"a", "b", "c"}, kind \in {"root", "filter"}},
     second \in {[Plugin("b", uses) EXCEPT !.kind = "filter"] : uses \in SUBSET {"a", "b", "c"}},
     third  \in {[Plugin("c", uses) EXCEPT !.kind = "filter"] : uses \in SUBSET {"a", "b"}}}

OneTarget == <<Target1("a", {"c", "b"}, OneReport, <<Plugin("-", {"a"})>>)>>

Two == {<<p>> : p \in SourcePlugins} \cup {<<p, q>> : p, q \in SourcePlugins}

MCConfigurations ==
  {File(lists[1], lists[2]) : lists \in (Two \X MCTargets) \cup (Three \X {OneTarget, <<>>})}
  \cup {[File(<<>>, <<>>) EXCEPT !.good = FALSE]}
===============================================================================
