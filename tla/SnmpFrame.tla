------------------------------- MODULE SnmpFrame -------------------------------
(***************************************************************************)
(* DecodeFrame (src/pkg/snmp/protocol.go): the message in a frame, taken   *)
(* apart by reflection over the Go types Message, PDU and VarBind          *)
(* (src/pkg/asn1/asn1reflect), element by element.                         *)
(*                                                                         *)
(* The calls of UnpackAsn1 that are not finished are a stack.  The sender  *)
(* is external: it encodes a message with lengths as short as they can be  *)
(* or not, and something may happen to the frame.                          *)
(***************************************************************************)
EXTENDS Ber

CONSTANT
  Sendings  \* [message, lengths : 0..2, damage : [kind, at]]

\* Whole are a frame as it was sent and one with something after it.  Cut is one that is
\* longer than the reader's buffer.  Elements are missing, too many, or of another tag;
\* an element says that it is longer than what it is in; an integer is longer than an int.
Whole == {"none", "tail"}

VARIABLES
  sent,    \* \in Sendings
  frame,   \* what has arrived
  phase,
  stack,   \* the innermost call first
  message  \* the answer

vars == <<sent, frame, phase, stack, message>>

Phases == {"sending", "arrived", "decoding", "decoded", "refused", "panicked"}

-----------------------------------------------------------------------------
(* The sender                                                               *)

Hit(s, kind, at)     == s.damage.kind = kind /\ s.damage.at = at
Element(s, c, t, bs) == Tlv(c, t, bs, s.lengths)
Integer(s, n)        == Element(s, 0, 2, IntBytesOf(n))
TagOf(s, at, tag)    == IF Hit(s, "tag", at) THEN IF at = "binds" THEN 16 ELSE 12 ELSE tag

Elements(s, at, list) ==
  IF Hit(s, "few", at) THEN Front(list) ELSE IF Hit(s, "many", at) THEN Append(list, Integer(s, 0)) ELSE list

RequestId(s) ==
  Element(s, 0, TagOf(s, "id", 2),
          CASE s.damage.kind = "long" -> [i \in 1 .. IntBytes + 1 |-> IF i \in 2 .. IntBytes THEN 0 ELSE 1]
            [] s.damage.kind = "negative" -> [i \in 1 .. IntBytes + 1 |-> 255]
            [] OTHER -> IntBytesOf(s.message.id))

\* The elements of each of the sequences of a message.
OfBind(s, b) ==
  Elements(s, "bind", <<Element(s, 0, TagOf(s, "oid", 6), OidBytes(b.oid)), Element(s, b.class, b.tag, b.bytes)>>)

OfBinds(s) ==
  Elements(s, "binds", [i \in DOMAIN s.message.binds |-> Element(s, 0, 48, FlattenSeq(OfBind(s, s.message.binds[i])))])

OfPdu(s) ==
  Elements(s, "pdu", <<RequestId(s), Integer(s, s.message.status), Integer(s, s.message.index),
                       Element(s, 0, TagOf(s, "binds", 48), FlattenSeq(OfBinds(s)))>>)

\* The last byte of it may be missing.
Shortened(s, bytes) == IF s.damage.kind = "inner" THEN Front(bytes) ELSE bytes

OfMessage(s) ==
  Elements(s, "message", <<Integer(s, s.message.version), Element(s, 0, TagOf(s, "community", 4), s.message.community),
                           Element(s, 2, s.message.tag, Shortened(s, FlattenSeq(OfPdu(s))))>>)

Encoded(s) == Element(s, 0, 48, FlattenSeq(OfMessage(s)))

OnTheWire(s) ==
  CASE s.damage.kind = "cut"  -> SubSeq(Encoded(s), 1, Len(Encoded(s)) - s.damage.at)
    [] s.damage.kind = "tail" -> Encoded(s) \o <<5, 0>>
    [] OTHER -> Encoded(s)

\* What is sent: integers that an int holds, object identifiers whose first two arcs fit a byte,
\* and no more than fits a datagram.
IntOK(n) == n \in Int /\ FitsBytes(n, IntBytes)

OidOK(oid) ==
  /\ oid \in Seq(Nat) /\ Len(oid) > 1 /\ oid[2] < 40 /\ oid[1] * 40 + oid[2] \in Byte
  /\ \A i \in 3 .. Len(oid) : \E k \in 1 .. 8 : oid[i] < Power(128, k)

BindOK(b) == OidOK(b.oid) /\ b.class \in 0 .. 3 /\ b.tag \in 0 .. 63 /\ b.bytes \in Seq(Byte)

MessageOK(m) ==
  /\ IntOK(m.version) /\ IntOK(m.id) /\ IntOK(m.status) /\ IntOK(m.index)
  /\ m.community \in Seq(Byte) /\ m.tag \in 0 .. 63
  /\ m.binds \in Seq(ToSet(m.binds)) /\ \A i \in DOMAIN m.binds : BindOK(m.binds[i])

\* A bind less is another message.
DamageOK(s) ==
  \/ s.damage.kind \in Whole \cup {"inner", "long", "negative"}
  \/ s.damage.kind = "cut" /\ s.damage.at \in 1 .. Len(Encoded(s))
  \/ /\ <<s.damage.kind, s.damage.at>> \in ({"few", "many"} \X {"message", "pdu", "bind"}) \cup {<<"many", "binds">>}
                                          \cup ({"tag"} \X {"community", "id", "binds", "oid"})
     /\ s.damage.at \in {"bind", "oid"} => s.message.binds # <<>>

ASSUME FrameAssumption ==
  /\ IntBytes \in Nat \ {0}
  /\ \A s \in Sendings :
       MessageOK(s.message) /\ s.lengths \in 0 .. 2 /\ DamageOK(s) /\ Len(Encoded(s)) < 65536

\* External: an agent sends its message.
Send ==
  /\ phase = "sending"
  /\ phase' = "arrived"
  /\ frame' = OnTheWire(sent)
  /\ UNCHANGED <<sent, stack, message>>

-----------------------------------------------------------------------------
(* DecodeFrame                                                              *)

\* The fields of a struct, less its Envelope.
Fields == [Message |-> <<"int", "string", "PDU">>,
           PDU     |-> <<"int", "int", "int", "VarBinds">>,
           VarBind |-> <<"OID", "Value">>]

Structs == DOMAIN Fields
Calls   == Structs \cup {"VarBinds"}

Top  == Head(stack)
Full == Top.type \in Structs /\ Len(Top.values) = Len(Fields[Top.type])

\* The next element, the type it is unpacked into, and the tag it must have if its field
\* has one.
NextElement == Unmarshal(Top.bytes)
Type        == IF Top.type \in Structs THEN Fields[Top.type][Len(Top.values) + 1] ELSE "VarBind"
TagOK       == (Type = "string" => NextElement.value.tag = 4) /\ (Type = "VarBinds" => NextElement.value.tag = 48)

\* An element that is no struct or slice: the value, or an error.
Leaf(element) ==
  CASE Type = "int"    -> IF element.class = 0 /\ element.tag # 2 THEN Refused ELSE GetInt(element.bytes)
    [] Type = "string" -> Value(element.bytes)
    [] Type = "OID"    -> IF element.tag # 6 THEN Refused ELSE GetOid(element.bytes)
    [] Type = "Value"  -> Value([class |-> element.class, tag |-> element.tag, bytes |-> element.bytes])

Call(type, element) ==
  [type |-> type, class |-> element.class, tag |-> element.tag, bytes |-> element.bytes, values |-> <<>>]

Answer(call) == IF call.type = "PDU" THEN [class |-> call.class, tag |-> call.tag, values |-> call.values] ELSE call.values

Fail(how) ==
  /\ phase' = how
  /\ UNCHANGED <<sent, frame, stack, message>>

\* What comes after the message is left alone, and so is its own tag.
Begin ==
  /\ phase = "arrived"
  /\ Unmarshal(frame).is = "ok"
  /\ phase' = "decoding"
  /\ stack' = <<Call("Message", Unmarshal(frame).value)>>
  /\ UNCHANGED <<sent, frame, message>>

RefuseFrame ==
  /\ phase = "arrived"
  /\ Unmarshal(frame).is # "ok"
  /\ Fail("refused")

\* There is another element, and a field for it.
More == phase = "decoding" /\ Top.bytes # <<>> /\ ~ Full
Fits == More /\ NextElement.is = "ok" /\ TagOK

RefuseTooMany ==
  /\ phase = "decoding"
  /\ Top.bytes # <<>>
  /\ Full
  /\ Fail("refused")

RefuseElement ==
  /\ More
  /\ ~ Fits
  /\ Fail("refused")

Enter ==
  /\ Fits
  /\ Type \in Calls
  /\ stack' = <<Call(Type, NextElement.value), [Top EXCEPT !.bytes = NextElement.value.tail]>> \o Tail(stack)
  /\ UNCHANGED <<sent, frame, phase, message>>

UnpackLeaf ==
  /\ Fits
  /\ Type \notin Calls
  /\ LET leaf == Leaf(NextElement.value)
     IN  \/ /\ leaf.is = "ok"
            /\ stack' = <<[Top EXCEPT !.bytes = NextElement.value.tail, !.values = Append(@, leaf.value)]>> \o Tail(stack)
            /\ UNCHANGED <<sent, frame, phase, message>>
         \/ leaf.is = "refused" /\ Fail("refused")
         \/ leaf.is = "panics" /\ Fail("panicked")

\* (Mutant: fields may be left as they are.)
CompleteOrNot == Top.bytes = <<>>

Complete == Top.bytes = <<>> /\ (Top.type \in Structs => Full)

RefuseTooFew ==
  /\ phase = "decoding"
  /\ Top.bytes = <<>>
  /\ ~ Complete
  /\ Fail("refused")

Leave ==
  /\ phase = "decoding"
  /\ Complete
  /\ Len(stack) > 1
  /\ LET caller == stack[2]
     IN  stack' = <<[caller EXCEPT !.values = Append(@, Answer(Top))]>> \o SubSeq(stack, 3, Len(stack))
  /\ UNCHANGED <<sent, frame, phase, message>>

End ==
  /\ phase = "decoding"
  /\ Complete
  /\ Len(stack) = 1
  /\ phase' = "decoded"
  /\ message' = Answer(Top)
  /\ stack' = <<>>
  /\ UNCHANGED <<sent, frame>>

-----------------------------------------------------------------------------
Init ==
  /\ sent \in Sendings
  /\ frame = <<>>
  /\ phase = "sending"
  /\ stack = <<>>
  /\ message = <<>>

Next ==
  \/ Send
  \/ Begin \/ RefuseFrame
  \/ RefuseTooMany \/ RefuseElement \/ Enter \/ UnpackLeaf
  \/ RefuseTooFew \/ Leave \/ End

Spec == Init /\ [][Next]_vars

-----------------------------------------------------------------------------
(* Properties                                                               *)

\* What has been read of a struct fits its fields, and an int is one.
ValuesOK(call) ==
  call.type \in Structs =>
    /\ Len(call.values) <= Len(Fields[call.type])
    /\ \A i \in DOMAIN call.values :
         Fields[call.type][i] = "int" => FitsBytes(call.values[i], IntBytes)

TypeOK ==
  /\ sent \in Sendings
  /\ phase \in Phases
  /\ \A i \in DOMAIN frame : frame[i] \in Byte
  /\ phase = "decoding" => stack # <<>>
  /\ \A i \in DOMAIN stack : stack[i].type \in Calls /\ ValuesOK(stack[i])

Meant(m) ==
  <<m.version, m.community,
    [class |-> 2, tag |-> m.tag,
     values |-> <<m.id, m.status, m.index,
                  [i \in DOMAIN m.binds |->
                     <<m.binds[i].oid, [class |-> m.binds[i].class, tag |-> m.binds[i].tag, bytes |-> m.binds[i].bytes]>>]>>]>>

\* A message that DecodeFrame answers is the one that was sent: no frame that was cut, lost
\* an element or got one too many passes for another message, at whatever level it did.
OnlyWhatWasSent ==
  phase = "decoded" => sent.damage.kind \in Whole /\ message = Meant(sent.message)

\* Every message that was sent whole is decoded, whatever the form of its lengths.
WholeIsDecoded ==
  phase \in {"refused", "panicked"} => sent.damage.kind \notin Whole

\* Between two elements the calls that are not finished share what is left of the frame:
\* no byte belongs to two of them, and none is skipped before it was read.
ReadOnce ==
  phase = "decoding" =>
    LET left == FlattenSeq([i \in DOMAIN stack |-> stack[i].bytes])
        end  == Len(frame) - IF sent.damage.kind = "tail" THEN 2 ELSE 0
    IN  left = SubSeq(frame, end - Len(left) + 1, end)

\* The first invariant of the run: types, and nothing passes for another message.
FrameInv == TypeOK /\ OnlyWhatWasSent
=============================================================================
