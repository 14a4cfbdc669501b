---------------------------------- MODULE Ber ----------------------------------
(***************************************************************************)
(* Encoded values as src/pkg/asn1 takes them apart and puts them together: *)
(* the envelope (asn1binary/value.go), integers and object identifiers     *)
(* (asn1go/integer.go, oid.go), and beside them, as a reference, how the   *)
(* agents of a network send them.                                          *)
(*                                                                         *)
(* Bytes are the numbers 0..255.  A length that does not fit an int is     *)
(* left out, and so are object identifiers with an arc that does not.      *)
(***************************************************************************)
EXTENDS Integers, Sequences, SequencesExt

CONSTANT IntBytes  \* bytes of a Go int; eight in the program

Byte == 0 .. 255

Rest(s, n) == SubSeq(s, n + 1, Len(s))

\* A base, n times.
Power(base, n) == LET p[i \in 0 .. n] == IF i = 0 THEN 1 ELSE base * p[i - 1] IN p[n]

\* The number that bytes are, the highest first.
Number(s) == LET n[i \in 0 .. Len(s)] == IF i = 0 THEN 0 ELSE n[i - 1] * 256 + s[i] IN n[Len(s)]

Refused  == [is |-> "refused"]
Panics   == [is |-> "panics"]
Value(v) == [is |-> "ok", value |-> v]

-----------------------------------------------------------------------------
(* As the program reads them.                                               *)

\* Value.Unmarshal: class and tag, the length in one byte or in as many as the first
\* one says, the bytes, and what comes after them.
\* (Mutant: the bytes of a long length are not counted for the tail.)
UnmarshalFromTwo(data) ==
  LET count  == IF data[2] < 128 THEN 0 ELSE data[2] - 128
      length == IF data[2] < 128 THEN data[2] ELSE Number(SubSeq(data, 3, 2 + count))
  IN  IF Len(data) < 2 \/ Len(data) < 2 + count \/ Len(data) < 2 + count + length
      THEN Refused
      ELSE Value([class |-> data[1] \div 64, tag |-> data[1] % 64,
                  bytes |-> SubSeq(data, 3 + count, 2 + count + length), tail |-> Rest(data, 2 + length)])

Unmarshal(data) ==
  LET count  == IF data[2] < 128 THEN 0 ELSE data[2] - 128
      length == IF data[2] < 128 THEN data[2] ELSE Number(SubSeq(data, 3, 2 + count))
      start  == 2 + count
  IN  IF Len(data) < 2 \/ Len(data) < start \/ Len(data) < start + length
      THEN Refused
      ELSE Value([class |-> data[1] \div 64, tag |-> data[1] % 64,
                  bytes |-> SubSeq(data, start + 1, start + length), tail |-> Rest(data, start + length)])

\* Integer.GetInt for all the bits of an int.  The sign is extended by two shifts, the
\* first of which has no count if there are more bytes than an int has; what is lost of
\* such a number is told from the bytes after it, not from those before.
\* (Mutant: the last byte of an int is one too many.)
GetIntTight(s) ==
  LET pad == IF s[1] >= 128 THEN 255 ELSE 0
  IN  IF s = <<>> THEN Value(0)
      ELSE IF \E i \in IntBytes .. Len(s) : s[i] # pad THEN Refused
      ELSE Value(Number(s) - IF pad = 255 THEN Power(256, Len(s)) ELSE 0)

GetInt(s) ==
  LET negate == s[1] >= 128
      pad    == IF negate THEN 255 ELSE 0
      n      == Number(s) % Power(256, IntBytes)
  IN  IF s = <<>> THEN Value(0)
      ELSE IF \E i \in IntBytes + 1 .. Len(s) : s[i] # pad THEN Refused
      ELSE IF negate /\ Len(s) > IntBytes THEN Panics
      ELSE IF negate THEN Value(Number(s) - Power(256, Len(s)))
      ELSE Value(IF 2 * n < Power(256, IntBytes) THEN n ELSE n - Power(256, IntBytes))

\* OID.UnpackAsn1: two arcs in the first byte, seven bits of an arc in each other one.
GetOid(s) ==
  LET read[i \in 1 .. Len(s)] ==
        IF i = 1 THEN [arcs |-> <<s[1] \div 40, s[1] % 40>>, n |-> 0, open |-> FALSE]
        ELSE LET acc == read[i - 1]
                 n   == acc.n * 128 + (s[i] % 128)
             IN  IF s[i] >= 128 THEN [arcs |-> acc.arcs, n |-> n, open |-> TRUE]
                 ELSE [arcs |-> Append(acc.arcs, n), n |-> 0, open |-> FALSE]
  IN  IF s = <<>> \/ read[Len(s)].open THEN Refused ELSE Value(read[Len(s)].arcs)

-----------------------------------------------------------------------------
(* As the program writes them.                                              *)

\* The length of Value.Marshal: in a byte if it fits, else after the number of its bytes, which
\* is taken from its high byte and is one too few for 256.  There is room for five.
MarshalLength(n) ==
  LET count == (n \div 256) + (IF n % 256 # 0 THEN 1 ELSE 0)
  IN  IF n < 128 THEN Value(<<n>>)
      ELSE IF count > 5 THEN Panics
      ELSE Value(<<128 + count>>
                 \o [i \in 1 .. count |-> IF i < count - 1 THEN 0 ELSE (n \div 256 ^ (count - i)) % 256])

Marshal(v) ==
  LET length == MarshalLength(Len(v.bytes))
  IN  IF length.is # "ok" THEN length
      ELSE Value(<<(v.class % 4) * 64 + (v.tag % 64)>> \o length.value \o v.bytes)

\* Integer.SetInt: bytes that only repeat the sign are left out, as long as the next one shows it.
\* (Mutant: all of them are.)
SetIntTooShort(n) ==
  LET all  == [i \in 1 .. IntBytes |-> (n \div 256 ^ (IntBytes - i)) % 256]
      trim == IF n < 0 THEN 255 ELSE 0
  IN  Rest(all, Max({k \in 0 .. IntBytes - 1 : \A i \in 1 .. k : all[i] = trim}))

SetInt(n) ==
  LET all  == [i \in 1 .. IntBytes |-> (n \div 256 ^ (IntBytes - i)) % 256]
      trim == IF n < 0 THEN 255 ELSE 0
  IN  Rest(all, Max({k \in 0 .. IntBytes - 1 :
                       \A i \in 1 .. k : all[i] = trim /\ (all[i + 1] >= 128) = (n < 0)}))

\* The least number of digits to a base that holds n.
Digits(n, base) == CHOOSE k \in 1 .. 8 : n < Power(base, k) /\ (k = 1 \/ n >= Power(base, k - 1))

\* The other arcs: the last byte of one is below 128.
ArcBytes(n) ==
  LET k == Digits(n, 128)
  IN  [i \in 1 .. k |-> ((n \div Power(128, k - i)) % 128) + (IF i < k THEN 128 ELSE 0)]

\* OID.PackAsn1: what the first two arcs make is cut to a byte.
PutOid(oid) ==
  IF Len(oid) < 2 \/ \E i \in 3 .. Len(oid) : oid[i] < 0 THEN Refused
  ELSE Value(<<(oid[1] * 40 + oid[2]) % 256>> \o FlattenSeq([i \in 1 .. Len(oid) - 2 |-> ArcBytes(oid[i + 2])]))

-----------------------------------------------------------------------------
(* As they are sent by others.                                              *)

\* A number fits so many bytes in two's complement; an integer has as few as it can.
FitsBytes(n, k) == 2 * n \in - Power(256, k) .. Power(256, k) - 1

IntBytesOf(n) ==
  LET k == CHOOSE j \in 1 .. IntBytes : FitsBytes(n, j) /\ (j = 1 \/ ~ FitsBytes(n, j - 1))
  IN  [i \in 1 .. k |-> (n \div Power(256, k - i)) % 256]

OidBytes(oid) == <<oid[1] * 40 + oid[2]>> \o FlattenSeq([i \in 1 .. Len(oid) - 2 |-> ArcBytes(oid[i + 2])])

\* A length in one byte, or after their number in at least so many.
LengthBytes(n, atLeast) ==
  IF n < 128 /\ atLeast = 0 THEN <<n>>
  ELSE IF n < 256 /\ atLeast # 2 THEN <<129, n>>
  ELSE <<130, (n \div 256) % 256, n % 256>>

Tlv(class, tag, bytes, atLeast) == <<class * 64 + tag>> \o LengthBytes(Len(bytes), atLeast) \o bytes
=============================================================================
