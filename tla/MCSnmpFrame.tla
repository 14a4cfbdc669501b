------------------------------ MODULE MCSnmpFrame ------------------------------
(* Five messages with every form of length, and every damage of two of them. *)
EXTENDS SnmpFrame

Bytes(n) == [i \in 1 .. n |-> 7]

Bind1(oid, class, tag, bytes) == [oid |-> oid, class |-> class, tag |-> tag, bytes |-> bytes]

Message(id, status, index, binds) ==
  [version |-> 1, community |-> <<112, 117>>, tag |-> 34, id |-> id, status |-> status, index |-> index, binds |-> binds]

NoBinds  == Message(0, 127, 128, <<>>)
OneBind  == Message(-1, -128, -129, <<Bind1(<<1, 3, 6, 1>>, 0, 4, <<112>>)>>)
TwoBinds == Message(255, 256, 32767, <<Bind1(<<1, 3>>, 0, 5, <<>>), Bind1(<<1, 3, 127, 128, 16384>>, 1, 1, <<255, 0>>)>>)
Long     == Message(-32768, 2, 1, <<Bind1(<<0, 0, 0>>, 0, 4, Bytes(127)), Bind1(<<2, 39, 1>>, 2, 0, Bytes(128))>>)
Longer   == [Message(32766, -256, 5, <<Bind1(<<1, 3, 6>>, 0, 4, Bytes(256))>>) EXCEPT !.community = Bytes(255)]

Sending(m, lengths, kind, at) == [message |-> m, lengths |-> lengths, damage |-> [kind |-> kind, at |-> at]]

MCSendings ==
  {Sending(m, k, kind, "") : m \in {NoBinds, OneBind, TwoBinds, Long, Longer}, k \in 0 .. 2,
                             kind \in {"none", "tail", "inner", "long", "negative"}}
  \cup {Sending(m, k, d[1], d[2]) : m \in {OneBind, TwoBinds}, k \in 0 .. 2,
                                    d \in ({"few"} \X {"message", "pdu", "bind"})
                                          \cup ({"many"} \X {"message", "pdu", "binds", "bind"})
                                          \cup ({"tag"} \X {"community", "id", "binds", "oid"})}
  \cup {Sending(m, k, "cut", n) : m \in {OneBind, TwoBinds}, k \in 0 .. 2, n \in 1 .. 33}
===============================================================================
