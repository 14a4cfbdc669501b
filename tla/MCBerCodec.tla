------------------------------ MODULE MCBerCodec ------------------------------
(* Every kind of value by itself in a frame, and pairs of small ones in a stream. *)
EXTENDS BerCodec

Go(type, value)          == [type |-> type, value |-> value, params |-> Free]
With(item, tags, classes) == [item EXCEPT !.params = [tag |-> tags, class |-> classes]]

Bytes(n) == [i \in 1 .. n |-> 1]
Struct(class, tag, fields) == [class |-> class, tag |-> tag, fields |-> fields]
Raw(tag, n)     == [class |-> 1, tag |-> tag, bytes |-> Bytes(n)]
Bind(oid, raw)  == Struct(0, 0, <<oid, raw>>)
Binds           == <<Bind(<<1, 3, 6>>, Raw(1, 2)), Bind(<<1, 3, 128>>, Raw(2, 0))>>
Pdu(binds)      == Struct(2, 34, <<-1, 0, 128, binds>>)

Ints    == {Go("int", n) : n \in {0, 1, -1, 127, 128, -128, -129, 255, 256, 32767, -32768}}
Strings == {With(Go("string", s), tags, {}) : s \in {<<>>, <<65>>, <<42>>, <<233, 65>>}, tags \in {{}, {4}, {12}, {19}, {22}, {30}}}
Oids    == {Go("OID", oid) : oid \in {<<1>>, <<1, -3, -1>>, <<0, 0>>, <<1, 3, 127, 128>>, <<2, 39, 16384>>, <<2, 48>>, <<1, 100>>, <<6, 20>>}}
Octets(sizes) == {Go("OctetString", Bytes(n)) : n \in sizes}
Small   == {Go("bool", TRUE), Go("bool", FALSE), Go("Null", <<>>), Go("BitString", [unused |-> 3, bytes |-> <<8>>]),
            Go("ints", <<1, 300>>), Go("VarBind", Binds[1])}
Large   == {Go("VarBinds", Binds), Go("PDU", Pdu(<<>>)), Go("PDU", Pdu(Binds)), Go("Message", Struct(0, 0, <<1, <<112>>, Pdu(Binds)>>)),
            Go("VarBind", Bind(<<1, 3, 6>>, Raw(1, 127))), Go("VarBind", Bind(<<1, 3, 6>>, Raw(1, 200)))}
Tagged  == {With(item, tags, classes) : item \in {Go("int", 5), Go("bool", TRUE), Go("Value", Raw(2, 1)), Go("VarBind", Binds[1])},
                                        tags \in {{}, {1}, {2}, {10}}, classes \in {{}, {1}, {2}}}

Framed   == Ints \cup Strings \cup Oids \cup Small \cup Large \cup Octets({0, 127, 128, 255, 256, 257, 511, 512, 513, 768, 1280, 1281})
Streamed == Small \cup Tagged \cup {Go("int", 300), Go("OID", <<1, 3, 128>>), Go("string", <<233>>), Go("OctetString", <<>>), Go("OID", <<1>>)}

Followers == {Go("int", 300), Go("Null", <<>>), Go("VarBind", Binds[1])}

MCPlans ==
  {[way |-> "frame", items |-> <<item>>] : item \in Framed \cup Tagged}
  \cup {[way |-> "stream", items |-> items] : items \in (Streamed \X Followers) \cup (Followers \X Streamed)}
  \cup {[way |-> "stream", items |-> <<long, Go("int", 300)>>] : long \in Octets({128, 256, 257, 512, 513, 1280, 1281})
                                                             \cup {Go("OctetString", [Bytes(128) EXCEPT ![2] = n]) : n \in {131, 134, 135}}
                                                             \cup {Go("OctetString", <<2, 3, 255, 255, 255>> \o Bytes(128))}}
===============================================================================
