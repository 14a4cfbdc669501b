---------------------------- MODULE MCMibDatabase ----------------------------
(* Directories of two or three small modules on a base module, as the MIBs of *)
(* the RFCs are, in the ways they can be right and wrong.                     *)
EXTENDS MibDatabase

Arc(n) == [name |-> "-", arc |-> n]
Ref(x) == [name |-> x, arc |-> 0]

Object(meta, elements) == [kind |-> "object", meta |-> meta, elements |-> elements, sound |-> TRUE]
Other(kind)  == [kind |-> kind, meta |-> "-", elements |-> <<>>, sound |-> TRUE]
Unsound      == [Object("macro", <<Ref("net"), Arc(7)>>) EXCEPT !.sound = FALSE]

MCModules == {"builtin", "SMI", "LINK", "IP", "UDP"}
MCNames   == {"iso", "type", "macro", "net", "link", "x", "ip"}

\* The files of a directory, what they import, and what they define; a module
\* needs the macro when it imports it.
Dir(files, imports, definitions, empty) ==
  [files       |-> files,
   empty       |-> empty,
   needs       |-> [m \in MCModules |->
                      IF m \in DOMAIN imports THEN DOMAIN imports[m] \cap {"macro"} ELSE {}],
   imports     |-> [m \in MCModules |-> IF m \in DOMAIN imports THEN imports[m] ELSE <<>>],
   definitions |-> [m \in MCModules |->
                      CASE m = "builtin" -> [iso |-> Object("-", <<Arc(1)>>), type |-> Other("type")]
                        [] m \in DOMAIN definitions -> definitions[m]
                        [] OTHER -> <<>>]]

SMI == [net |-> Object("type", <<Ref("iso"), Arc(3)>>), macro |-> Other("macro")]

\* IP uses LINK and the base module, LINK the base module.
Chain == Dir(<<"IP", "LINK", "SMI">>,
  [LINK |-> [net |-> "SMI", macro |-> "SMI"], IP |-> [net |-> "SMI", link |-> "LINK"]],
  [SMI |-> SMI,
   LINK |-> [x |-> Object("macro", <<Ref("net"), Arc(2)>>), link |-> Object("macro", <<Ref("x"), Arc(1)>>)],
   IP  |-> [ip |-> Object("type", <<Ref("link"), Arc(4), Arc(1)>>)]], {})

\* Both modules define x, each for itself.
Siblings == Dir(<<"LINK", "SMI", "IP">>,
  [LINK |-> [net |-> "SMI", macro |-> "SMI"], IP |-> [net |-> "SMI"]],
  [SMI |-> SMI,
   LINK |-> [x |-> Object("macro", <<Ref("net"), Arc(2)>>), link |-> Object("type", <<Ref("x"), Arc(1)>>)],
   IP  |-> [x |-> Object("type", <<Ref("net"), Arc(2)>>), ip |-> Object("type", <<Ref("net"), Arc(4)>>)]], {})

\* IP has an x of its own and imports an object that LINK defines by another x: what that
\* object is depends on who asks first.
Shadowed == Dir(<<"LINK", "SMI", "IP">>,
  [LINK |-> [net |-> "SMI"], IP |-> [net |-> "SMI", link |-> "LINK"]],
  [SMI |-> SMI,
   LINK |-> [x |-> Object("type", <<Ref("net"), Arc(2)>>), link |-> Object("type", <<Ref("x"), Arc(1)>>)],
   IP  |-> [x |-> Object("type", <<Ref("net"), Arc(5)>>), ip |-> Object("type", <<Ref("link"), Arc(4)>>)]], {})

\* Two modules that import from each other.
Mutual == Dir(<<"LINK", "SMI", "IP">>,
  [LINK |-> [net |-> "SMI", ip |-> "IP"], IP |-> [net |-> "SMI", link |-> "LINK"]],
  [SMI |-> SMI,
   LINK |-> [link |-> Object("type", <<Ref("net"), Arc(1)>>), x |-> Object("type", <<Ref("ip"), Arc(5)>>)],
   IP  |-> [ip |-> Object("type", <<Ref("link"), Arc(2)>>)]], {})

\* An object that does not match its macro, and a module that imports from its module.
Broken == Dir(<<"SMI", "LINK", "IP">>,
  [LINK |-> [net |-> "SMI", macro |-> "SMI"], IP |-> [link |-> "LINK", net |-> "SMI"]],
  [SMI |-> SMI,
   LINK |-> [link |-> Object("type", <<Ref("net"), Arc(1)>>), x |-> Unsound],
   IP  |-> [ip |-> Object("type", <<Ref("link"), Arc(2)>>)]], {})

\* IP imports an object whose own parent it does not import.
Hidden == Dir(<<"SMI", "LINK", "IP">>,
  [LINK |-> [net |-> "SMI"], IP |-> [link |-> "LINK"]],
  [SMI |-> SMI,
   LINK |-> [link |-> Object("type", <<Ref("iso"), Ref("x"), Arc(1)>>), x |-> Object("type", <<Ref("net"), Arc(2)>>)],
   IP  |-> [ip |-> Object("type", <<Ref("link"), Arc(2)>>)]], {})

\* An object that is defined by itself, through another.
Circle == Dir(<<"SMI", "LINK">>,
  [LINK |-> [net |-> "SMI"]],
  [SMI |-> SMI,
   LINK |-> [link |-> Object("type", <<Ref("x"), Arc(1)>>), x |-> Object("type", <<Ref("link"), Arc(1)>>)]], {})

\* An import from a module that is not there; a file without a token.
Missing == Dir(<<"LINK", "SMI">>, [LINK |-> [macro |-> "UDP"]],
  [SMI |-> SMI, LINK |-> [link |-> Object("macro", <<Ref("net"), Arc(1)>>)]], {})
Empty == Dir(<<"SMI", "LINK">>, [SMI |-> <<>>], [SMI |-> SMI], {"LINK"})

MCDirectories == {Chain, Siblings, Shadowed, Mutual, Broken, Hidden, Circle, Missing, Empty}
=============================================================================
