---------------------------- MODULE MCMetricPrinter ----------------------------
(* Two tables, one indexed by a column of the other, two scalars, a column that the *)
(* database does not know, and bindings that the printer cannot use.                *)
EXTENDS MetricPrinter

Binding(object, index) == [object |-> object, index |-> index, value |-> "decodes"]

MCObjects == {"uptime", "users", "ifEntry", "ifIndex", "ifName", "ifIn", "addrNo", "addrName", "odd"}
MCTables  == {"ifEntry", "addrEntry"}
MCStrings == {"ifName", "addrName"}
MCTableOf ==
  [object \in MCObjects |->
     CASE object \in {"uptime", "users", "ifEntry"} -> "none"
       [] object = "odd" -> "orphan"
       [] object \in {"ifIndex", "ifName", "ifIn"} -> "ifEntry"
       [] OTHER -> "addrEntry"]
MCIndexOf == [ifEntry |-> <<"ifIndex">>, addrEntry |-> <<"ifIndex", "addrNo">>]

MCVarBinds ==
  {Binding("uptime", <<0>>), Binding("users", <<0>>),
   Binding("ifIn", <<1>>), Binding("ifIn", <<2>>), Binding("ifName", <<2>>),
   Binding("addrName", <<1, 7>>), Binding("addrName", <<2, 7>>),
   Binding("addrName", <<1>>),
   Binding("ifEntry", <<99, 1>>), Binding("ifEntry", <<99>>),
   Binding("odd", <<0>>), Binding("nothing", <<5>>),
   [Binding("users", <<0>>) EXCEPT !.value = "fails"],
   [Binding("ifName", <<1>>) EXCEPT !.value = "panics"]}
================================================================================
