------------------------------- MODULE BerCodec -------------------------------
(***************************************************************************)
(* The program's own encoder against its own decoder: Go values are packed *)
(* by reflection (src/pkg/asn1/asn1reflect, asn1go) and written, one after *)
(* the other, to a stream from which a decoder reads them                  *)
(* (asn1binary/codec.go, Value.ReadFrom), or one by one into frames        *)
(* (asn1binary/helpers.go).                                                *)
(*                                                                         *)
(* A stream gives a Read at least one byte and at most what was asked for, *)
(* until it ends.  A Go value is [type, value, params]; a string is its    *)
(* characters.  Types that nothing comes back as (Any, Sequence, []byte,   *)
(* times) are left out, and so are pointers.                               *)
(***************************************************************************)
EXTENDS Ber, FiniteSets

CONSTANT Plans  \* [way : {"stream", "frame"}, items : sequence of Go values]

VARIABLES
  plan,     \* never changed
  phase,    \* of the encoder: "writing" or "closed"; of either: "panicked"
  next,     \* the item to be encoded
  written,  \* items that were encoded
  stream,   \* bytes that were written and not read; or the frame
  reading,  \* ReadFrom: what it has read of a value, and what it will do next
  decoded   \* the answers of the decoder

vars == <<plan, phase, next, written, stream, reading, decoded>>

-----------------------------------------------------------------------------
(* Parameters: a tag or class that a field or a caller asks for.            *)

Free == [tag |-> {}, class |-> {}]

Validate(params, e) == (params.tag = {} \/ e.tag \in params.tag) /\ (params.class = {} \/ e.class \in params.class)

\* What a parameter says, or else what there is.
Either(set, x) == IF set = {} THEN x ELSE CHOOSE y \in set : TRUE

Update(params, class, tag) == [class |-> Either(params.class, class), tag |-> Either(params.tag, tag)]

Packed(e, bytes) == Value([class |-> e.class, tag |-> e.tag, bytes |-> bytes])
Universal(tag)   == [class |-> 0, tag |-> tag]

-----------------------------------------------------------------------------
(* Strings                                                                  *)

Printable == (65 .. 90) \cup (97 .. 122) \cup (48 .. 57) \cup {32, 39, 40, 41} \cup (43 .. 47) \cup {58, 61, 63}
Ia5       == 0 .. 127

\* External: a character as Go keeps it, for those of at most eleven bits.
Utf8(s) == FlattenSeq([i \in DOMAIN s |-> IF s[i] < 128 THEN <<s[i]>> ELSE <<192 + (s[i] \div 64), 128 + (s[i] % 64)>>])

FromUtf8(bytes) ==
  LET Take(acc, b) ==
        IF b >= 192 THEN [acc EXCEPT !.lead = (b - 192) * 64]
        ELSE [s |-> Append(acc.s, IF b >= 128 THEN acc.lead + b - 128 ELSE b), lead |-> 0]
  IN  FoldLeft(Take, [s |-> <<>>, lead |-> 0], bytes).s

All(bytes, set) == \A i \in DOMAIN bytes : bytes[i] \in set

\* asn1go.String by its tag: UTF8, Printable, IA5, BMP; an octet string is only taken.
PackString(s, params) ==
  LET e     == Update(params, 0, 12)
      bytes == Utf8(s)
  IN  CASE e.tag = 12                         -> Packed(e, bytes)
        [] e.tag = 19 /\ All(bytes, Printable) -> Packed(e, bytes)
        [] e.tag = 22 /\ All(bytes, Ia5)       -> Packed(e, bytes)
        [] e.tag = 30 -> Packed(e, FlattenSeq([i \in DOMAIN s |-> <<s[i] \div 256, s[i] % 256>>]))
        [] OTHER      -> Refused

UnpackString(e) ==
  CASE e.tag \in {12, 4}                        -> Value(FromUtf8(e.bytes))
    [] e.tag = 19 /\ All(e.bytes, Printable)    -> Value(FromUtf8(e.bytes))
    [] e.tag = 22 /\ All(e.bytes, Ia5)          -> Value(FromUtf8(e.bytes))
    [] e.tag = 30 /\ Len(e.bytes) % 2 = 0       ->
         Value([i \in 1 .. Len(e.bytes) \div 2 |-> e.bytes[2 * i - 1] * 256 + e.bytes[2 * i]])
    [] OTHER                                    -> Refused

-----------------------------------------------------------------------------
(* Packing and unpacking by type.                                           *)

\* The fields of a struct with what their tags ask for; an Envelope is no element.
Field(type, tag) == [type |-> type, params |-> [Free EXCEPT !.tag = tag]]

Structs == [Message |-> <<Field("int", {}), Field("string", {4}), Field("PDU", {})>>,
            PDU     |-> <<Field("int", {}), Field("int", {}), Field("int", {}), Field("VarBinds", {48})>>,
            VarBind |-> <<Field("OID", {}), Field("Value", {})>>]

Slices == [VarBinds |-> "VarBind", ints |-> "int"]

\* One after the other, unless one fails: then as the first of those does.
Join(results) ==
  LET bad == {i \in DOMAIN results : results[i].is # "ok"}
  IN  IF bad = {} THEN Value(FlattenSeq([i \in DOMAIN results |-> results[i].value])) ELSE results[Min(bad)]

MarshalResult(packed) == IF packed.is = "ok" THEN Marshal(packed.value) ELSE packed

RECURSIVE Pack(_, _, _)

PackBool(v) == Packed(Universal(1), <<IF v THEN 1 ELSE 0>>)
PackInt(v)  == Packed(Universal(2), SetInt(v))
PackOid(v)  == IF PutOid(v).is = "ok" THEN Packed(Universal(6), PutOid(v).value) ELSE Refused

PackBitString(v)     == Packed(Universal(3), <<v.unused>> \o v.bytes)
PackOctetString(v)   == Packed(Universal(4), v)
PackNull             == Packed(Universal(5), <<>>)
PackValue(v, params) == IF Validate(params, v) THEN Packed(v, v.bytes) ELSE Refused

\* A slice hands its own parameters to each of its elements and then has the tag of a sequence,
\* whatever they say.
PackSlice(type, v, params) ==
  LET elements == Join([i \in DOMAIN v |-> MarshalResult(Pack(Slices[type], v[i], params))])
  IN  IF elements.is = "ok" THEN Packed(Universal(16), elements.value) ELSE elements

\* A struct hands each field what its tag asks for.
PackStruct(type, v, params) ==
  LET fields   == Structs[type]
      elements == Join([i \in DOMAIN fields |-> MarshalResult(Pack(fields[i].type, v.fields[i], fields[i].params))])
  IN  IF elements.is = "ok" THEN Packed(Update(params, v.class, v.tag), elements.value) ELSE elements

Pack(type, v, params) ==
  CASE type = "bool"            -> PackBool(v)
    [] type = "int"             -> PackInt(v)
    [] type = "string"          -> PackString(v, params)
    [] type = "BitString"       -> PackBitString(v)
    [] type = "OctetString"     -> PackOctetString(v)
    [] type = "Null"            -> PackNull
    [] type = "OID"             -> PackOid(v)
    [] type = "Value"           -> PackValue(v, params)
    [] type \in DOMAIN Slices   -> PackSlice(type, v, params)
    [] type \in DOMAIN Structs  -> PackStruct(type, v, params)

\* The elements that bytes are made of, and a last one for bytes that are none.
RECURSIVE Elements(_)
Elements(bytes) ==
  LET first == Unmarshal(bytes)
  IN  IF bytes = <<>> THEN <<>>
      ELSE <<first>> \o IF first.is = "ok" THEN Elements(first.value.tail) ELSE <<>>

RECURSIVE Unpack(_, _)

UnpackBool(e)        == IF Len(e.bytes) = 1 /\ e.tag = 1 THEN Value(e.bytes[1] # 0) ELSE Refused
UnpackInt(e)         == IF e.class = 0 /\ e.tag # 2 THEN Refused ELSE GetInt(e.bytes)
UnpackBitString(e)   == IF e.tag # 3 \/ e.bytes = <<>> THEN Refused
                        ELSE Value([unused |-> e.bytes[1], bytes |-> Tail(e.bytes)])
UnpackOctetString(e) == IF e.tag # 4 THEN Refused ELSE Value(e.bytes)
UnpackNull(e)        == IF e.tag # 5 \/ e.bytes # <<>> THEN Refused ELSE Value(<<>>)
UnpackOid(e)         == IF e.tag # 6 THEN Refused ELSE GetOid(e.bytes)
UnpackValue(e)       == Value([class |-> e.class, tag |-> e.tag, bytes |-> e.bytes])

\* An element is unpacked when those before it were, if there is a field for it.
UnpackElements(elements, fields) ==
  Join([i \in DOMAIN elements |->
          IF elements[i].is # "ok" \/ i > Len(fields) THEN Refused
          ELSE IF ~ Validate(fields[i].params, elements[i].value) THEN Refused
          ELSE LET result == Unpack(fields[i].type, elements[i].value)
               IN  IF result.is = "ok" THEN Value(<<result.value>>) ELSE result])

UnpackSlice(type, e) ==
  LET elements == Elements(e.bytes)
  IN  UnpackElements(elements, [i \in DOMAIN elements |-> Field(Slices[type], {})])

\* Only a PDU has a place for its class and tag.
UnpackStruct(type, e) ==
  LET elements == Elements(e.bytes)
      values   == UnpackElements(elements, Structs[type])
  IN  IF values.is # "ok" THEN values
      ELSE IF Len(elements) < Len(Structs[type]) THEN Refused
      ELSE Value([class |-> IF type = "PDU" THEN e.class ELSE 0,
                  tag |-> IF type = "PDU" THEN e.tag ELSE 0, fields |-> values.value])

Unpack(type, e) ==
  CASE type = "bool"            -> UnpackBool(e)
    [] type = "int"             -> UnpackInt(e)
    [] type = "string"          -> UnpackString(e)
    [] type = "BitString"       -> UnpackBitString(e)
    [] type = "OctetString"     -> UnpackOctetString(e)
    [] type = "Null"            -> UnpackNull(e)
    [] type = "OID"             -> UnpackOid(e)
    [] type = "Value"           -> UnpackValue(e)
    [] type \in DOMAIN Slices   -> UnpackSlice(type, e)
    [] type \in DOMAIN Structs  -> UnpackStruct(type, e)

-----------------------------------------------------------------------------
(* The encoder                                                              *)

Item == plan.items[next]

\* Into a stream parameters are asked for (PackFromGoWithParameters), into a frame they are not
\* (MarshalWithParams): then only what packs itself by them knows them.
ToBytes(item) ==
  LET packed == Pack(item.type, item.value, item.params)
  IN  IF packed.is = "ok" /\ plan.way = "stream"
      THEN Marshal([packed.value EXCEPT !.class = Either(item.params.class, @), !.tag = Either(item.params.tag, @)])
      ELSE MarshalResult(packed)

\* Encode, or Marshal and a way for the frame.  What cannot be packed is an error, and nothing is
\* written; a frame is taken before the next one is sent.
Encode ==
  /\ phase = "writing"
  /\ next <= Len(plan.items)
  /\ plan.way = "frame" => stream = <<>>
  /\ LET bytes == ToBytes(Item)
     IN  IF bytes.is = "ok"
         THEN /\ stream' = stream \o bytes.value
              /\ written' = Append(written, Item)
              /\ UNCHANGED phase
         ELSE /\ phase' = IF bytes.is = "panics" THEN "panicked" ELSE phase
              /\ UNCHANGED <<stream, written>>
  /\ next' = next + 1
  /\ UNCHANGED <<plan, reading, decoded>>

\* External: the stream ends.
Close ==
  /\ phase = "writing"
  /\ next > Len(plan.items)
  /\ phase' = "closed"
  /\ UNCHANGED <<plan, next, written, stream, reading, decoded>>

-----------------------------------------------------------------------------
(* The decoder                                                              *)

\* Where ReadFrom is: what it reads next, how much of it, and what it has counted.
\* (Mutant: the head of a value is not counted.)
AtUncounted(step, asked, e, total) == [step |-> step, asked |-> asked, class |-> e.class, tag |-> e.tag, total |-> 0]

At(step, asked, e, total) == [step |-> step, asked |-> asked, class |-> e.class, tag |-> e.tag, total |-> total]
Start == At("envelope", 2, Universal(0), 0)

Awaited == written[Len(decoded) + 1]

\* What the bytes of a value become, for a caller who expects what was encoded.
Finish(e, total) ==
  LET params == IF plan.way = "stream" THEN Awaited.params ELSE Free
      result == IF Validate(params, e) THEN Unpack(Awaited.type, e) ELSE Refused
  IN  /\ IF result.is = "panics" THEN phase' = "panicked" ELSE UNCHANGED phase
      /\ decoded' = IF result.is = "ok" THEN Append(decoded, [value |-> result.value, total |-> total]) ELSE decoded
      /\ reading' = IF result.is = "ok" THEN Start ELSE At("failed", 0, e, total)

\* One Read of n bytes.  Zero are read only of zero; the end of the stream is an error.
Reads(step, n) ==
  /\ plan.way = "stream"
  /\ phase # "panicked"
  /\ reading.step = step
  /\ Len(decoded) < Len(written)
  /\ n <= reading.asked /\ n <= Len(stream)
  /\ n = 0 => reading.asked = 0
  /\ stream' = Rest(stream, n)
  /\ UNCHANGED <<plan, next, written>>

Stays == UNCHANGED <<phase, decoded>>
FailsAt(total) == reading' = At("failed", 0, reading, total) /\ Stays

\* The head of a value: its class and tag, and its length or how many bytes that has.
ReadEnvelope ==
  \E n \in 1 .. 2 :
    /\ Reads("envelope", n)
    /\ LET e == [class |-> stream[1] \div 64, tag |-> stream[1] % 64]
       IN  IF n < 2 THEN FailsAt(n)
           ELSE IF stream[2] < 128 THEN reading' = At("bytes", stream[2], e, 2) /\ Stays
           ELSE IF stream[2] > 128 + 6 THEN FailsAt(2)
           ELSE reading' = At("length", stream[2] - 128, e, 2) /\ Stays

\* The bytes of a long length are looked for one place behind where they are, where there is
\* nothing for the last and no room for the last of six.  What was counted is counted twice.
ReadLength ==
  \E n \in 0 .. 6 :
    /\ Reads("length", n)
    /\ LET count  == reading.asked
           behind == [i \in 1 .. count |-> IF i < count THEN stream[i + 1] ELSE 0]
       IN  IF n < count THEN FailsAt(2 * reading.total)
           ELSE IF count = 6 THEN phase' = "panicked" /\ UNCHANGED <<reading, decoded>>
           ELSE reading' = At("bytes", Number(behind), reading, 2 * reading.total) /\ Stays

ReadBytes ==
  \E n \in 0 .. Len(stream) :
    /\ Reads("bytes", n)
    /\ IF n < reading.asked THEN FailsAt(reading.total + n)
       ELSE Finish([class |-> reading.class, tag |-> reading.tag, bytes |-> SubSeq(stream, 1, n)], reading.total + n)

\* There is no more of the stream.
ReadEnd ==
  /\ plan.way = "stream"
  /\ phase = "closed"
  /\ stream = <<>>
  /\ reading.step # "failed" /\ reading.asked > 0
  /\ FailsAt(IF reading.step = "length" THEN 2 * reading.total ELSE reading.total)
  /\ UNCHANGED <<plan, next, written, stream>>

\* Unmarshal of a frame; what comes after the value is handed back.
Receive ==
  /\ plan.way = "frame"
  /\ phase # "panicked"
  /\ reading.step # "failed"
  /\ stream # <<>>
  /\ stream' = <<>>
  /\ IF Unmarshal(stream).is = "ok" THEN Finish(Unmarshal(stream).value, Len(stream)) ELSE FailsAt(0)
  /\ UNCHANGED <<plan, next, written>>

-----------------------------------------------------------------------------
Init ==
  /\ plan \in Plans
  /\ phase = "writing"
  /\ next = 1
  /\ written = <<>>
  /\ stream = <<>>
  /\ reading = Start
  /\ decoded = <<>>

Read == ReadEnvelope \/ ReadLength \/ ReadBytes \/ ReadEnd \/ Receive

Next == Encode \/ Close \/ Read

Spec == Init /\ [][Next]_vars

-----------------------------------------------------------------------------
(* Properties                                                               *)

Steps == {"envelope", "length", "bytes", "failed"}

TypeOK ==
  /\ phase \in {"writing", "closed", "panicked"}
  /\ \A i \in DOMAIN stream : stream[i] \in Byte
  /\ next \in 1 .. Len(plan.items) + 1
  /\ Len(decoded) <= Len(written) /\ Len(written) < next
  /\ reading.step \in Steps
  /\ \A k \in DOMAIN decoded :
       written[k].type = "int" => 2 * decoded[k].value \in - (256 ^ IntBytes) .. 256 ^ IntBytes - 1

\* What the encoder can write down: a length below 256 of every part (a stream: below 128), or one
\* up to 1280 that is not 256; arcs that the first byte of an object identifier can tell apart.
Size(item) == Len(Pack(item.type, item.value, item.params).value.bytes)
ArcsFit(oid) == oid[2] < 40 /\ oid[1] * 40 + oid[2] < 256

Plain(item) ==
  /\ \/ Size(item) < IF plan.way = "stream" THEN 128 ELSE 256
     \/ plan.way = "frame" /\ item.type = "OctetString" /\ Size(item) # 256
  /\ item.type = "OID" => ArcsFit(item.value)
  /\ item.type = "VarBind" => ArcsFit(item.value.fields[1])

PlainUpTo(k) == \A i \in 1 .. k : Plain(written[i])

\* What the decoder answers is what was encoded, value by value, whatever pieces the stream
\* came in and whatever the parameters: the two halves of asn1, which were written apart, may
\* refuse each other's bytes but do not take them for another value.
NeverAnother ==
  \A k \in DOMAIN decoded : PlainUpTo(k) => decoded[k].value = written[k].value

\* Between two values the stream is where the next one begins, and ReadFrom has said how many
\* bytes it took.
Aligned ==
  plan.way = "stream" /\ PlainUpTo(Len(decoded)) =>
    /\ \A k \in DOMAIN decoded : decoded[k].total = Size(written[k]) + 2
    /\ phase # "panicked" /\ reading.step = "envelope" =>
         stream = FlattenSeq([i \in 1 .. Len(written) - Len(decoded) |-> ToBytes(written[Len(decoded) + i]).value])

\* A parameter asks for what the type has anyway, or for a kind of string; or for another class.
\* The list of a PDU is packed with the tag of a sequence and asked for as a constructed one.
OwnTag == [bool |-> 1, int |-> 2, BitString |-> 3, OctetString |-> 4, Null |-> 5, OID |-> 6, ints |-> 16]

Understood(item) ==
  /\ item.type # "PDU"
  /\ item.type \in DOMAIN OwnTag => item.params.tag \subseteq {OwnTag[item.type]}

\* What was encoded and is understood comes back, unless the stream broke off in it.
ComesBack ==
  reading.step = "failed" /\ Len(decoded) < Len(written) /\ PlainUpTo(Len(decoded) + 1) /\ Understood(Awaited) =>
    plan.way = "stream" /\ reading.total < Size(Awaited) + 2

\* The first invariant of the run: types, and what is encoded is decoded, as itself.
RoundTrip == TypeOK /\ NeverAnother /\ ComesBack
=============================================================================
