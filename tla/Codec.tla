------------------------------- MODULE Codec -------------------------------
(***************************************************************************)
(* The byte level of py_replica.py: the Decoder class (a buffer and a read *)
(* cursor), the byte images built by struct.pack for the frames the client *)
(* writes (InvokePacket, AddObject, Ping), and the framing of Pipe.run with *)
(* its first-frame dialect probe.  Byte strings are sequences of 0..255,   *)
(* text is a sequence of Unicode code points, and the cursor is the        *)
(* 0-based index of the Python code.                                       *)
(*                                                                         *)
(* Doubles are the integer-valued ones in -2^20..2^20, encoded as IEEE 754 *)
(* binary64 by what the encoding does; this covers Simple's values.        *)
(***************************************************************************)
EXTENDS Integers, Sequences, SequencesExt

(***************************************************************************)
(* Big-endian integers: struct formats H, I and i.                         *)
(***************************************************************************)
BE(n, w) == [k \in 1..w |-> (n \div 2^(8 * (w - k))) % 256]
U16(n) == BE(n, 2)
U32(n) == BE(n, 4)
\* two's complement for negative values, computed without leaving 32 bits
S32(n) == IF n >= 0 THEN BE(n, 4) ELSE [k \in 1..4 |-> 255 - BE(-n - 1, 4)[k]]

RECURSIVE FromBE(_)
FromBE(bs) == IF bs = <<>> THEN 0 ELSE FromBE(Front(bs)) * 256 + Last(bs)
FromS32(bs) ==
    IF bs[1] < 128 THEN FromBE(bs)
    ELSE -FromBE([k \in 1..4 |-> 255 - bs[k]]) - 1

\* data[a:b] and data[n:] of a Python bytes object, clamped to its length
Slice(d, a, b) == [k \in 1..((IF b < Len(d) THEN b ELSE Len(d)) - a) |-> d[a + k]]
\* the bytes after the first n
Drop(d, n) == Slice(d, n, Len(d))

(***************************************************************************)
(* struct format d: sign bit, 11-bit biased exponent and the top 20 bits   *)
(* of the fraction; the low 32 bits of the fraction are 0 for these values.*)
(***************************************************************************)
Log2(a) == CHOOSE e \in 0..20 : 2^e <= a /\ a < 2^(e + 1)
Dbl(v) ==
    IF v = 0 THEN [k \in 1..8 |-> 0]
    ELSE LET a == IF v < 0 THEN -v ELSE v
             e == Log2(a)
             m == (a - 2^e) * 2^(20 - e)
             x == 1023 + e
         IN <<(IF v < 0 THEN 128 ELSE 0) + x \div 16,
              (x % 16) * 16 + m \div 65536, (m \div 256) % 256, m % 256,
              0, 0, 0, 0>>
FromDbl(bs) ==
    IF \A k \in 1..8 : bs[k] = 0 THEN 0
    ELSE LET x == (bs[1] % 128) * 16 + bs[2] \div 16
             m == ((bs[2] % 16) * 256 + bs[3]) * 256 + bs[4]
             a == ((2^20 + m) * 2^(x - 1023)) \div 2^20
         IN IF bs[1] >= 128 THEN -a ELSE a

(***************************************************************************)
(* str.encode('utf-16be'), and bytes.decode('utf-16be') with Python's      *)
(* strict error handling: an odd length or an unpaired surrogate is a      *)
(* UnicodeDecodeError.  A decode result is Ok(value, cursor) or Fail(e).   *)
(***************************************************************************)
Ok(v, at) == [ok |-> TRUE, val |-> v, at |-> at]
Fail(e) == [ok |-> FALSE, err |-> e]

Units(c) ==
    IF c < 65536 THEN <<c>>
    ELSE <<55296 + (c - 65536) \div 1024, 56320 + ((c - 65536) % 1024)>>
Utf16BE(s) == FlattenSeq([k \in 1..Len(s) |-> FlattenSeq([j \in DOMAIN Units(s[k]) |-> U16(Units(s[k])[j])])])

IsHigh(u) == 55296 <= u /\ u < 56320
IsLow(u) == 56320 <= u /\ u < 57344
RECURSIVE FromUnits(_)
FromUnits(us) ==
    IF us = <<>> THEN Ok(<<>>, 0)
    ELSE IF IsLow(us[1]) \/ (IsHigh(us[1]) /\ (Len(us) = 1 \/ ~IsLow(us[2])))
    THEN Fail("UnicodeDecodeError")
    ELSE LET n == IF IsHigh(us[1]) THEN 2 ELSE 1
             c == IF n = 2 THEN 65536 + (us[1] - 55296) * 1024 + (us[2] - 56320)
                  ELSE us[1]
             rest == FromUnits(Drop(us, n))
         IN IF rest.ok THEN Ok(<<c>> \o rest.val, 0) ELSE rest
DecodeUtf16BE(bs) ==
    IF Len(bs) % 2 = 1 THEN Fail("UnicodeDecodeError")
    ELSE FromUnits([k \in 1..Len(bs) \div 2 |-> bs[2 * k - 1] * 256 + bs[2 * k]])

(***************************************************************************)
(* bytes.decode('utf-8') for one- and two-byte sequences (the inputs here  *)
(* never hold a byte from 0xE0 up); anything else is a UnicodeDecodeError. *)
(***************************************************************************)
RECURSIVE DecodeUtf8(_)
DecodeUtf8(bs) ==
    IF bs = <<>> THEN Ok(<<>>, 0)
    ELSE LET n == IF bs[1] < 128 THEN 1 ELSE 2
             c == IF n = 1 THEN bs[1] ELSE (bs[1] - 192) * 64 + (bs[2] - 128)
             rest == DecodeUtf8(Drop(bs, n))
         IN IF n = 2 /\ ~(194 <= bs[1] /\ bs[1] < 224 /\ Len(bs) >= 2
                          /\ 128 <= bs[2] /\ bs[2] < 192)
            THEN Fail("UnicodeDecodeError")
            ELSE IF rest.ok THEN Ok(<<c>> \o rest.val, 0) ELSE rest

(***************************************************************************)
(* Decoder: data[index:index+n] is Slice(data, index, index + n), clamped  *)
(* to the buffer as a Python slice is.  unpack of a short slice is a       *)
(* struct.error and data[index] past the end an IndexError, but a text or  *)
(* byte array longer than the rest of the buffer is cut short silently and *)
(* the cursor still moves on by the announced length.                      *)
(***************************************************************************)

Fixed(d, i, n, From(_)) ==
    IF i + n <= Len(d) THEN Ok(From(Slice(d, i, i + n)), i + n)
    ELSE Fail("struct.error")
decodeU16(d, i) == Fixed(d, i, 2, FromBE)
decodeU32(d, i) == Fixed(d, i, 4, FromBE)
decodeS32(d, i) == Fixed(d, i, 4, FromS32)
decodeDouble(d, i) == Fixed(d, i, 8, FromDbl)

decodeQString(d, i) ==
    LET l == decodeU32(d, i)
        s == DecodeUtf16BE(Slice(d, l.at, l.at + l.val))
    IN IF ~l.ok THEN l ELSE IF ~s.ok THEN s ELSE Ok(s.val, l.at + l.val)

decodeByteArray(d, i) ==
    LET l == decodeU32(d, i)
    IN IF ~l.ok THEN l ELSE Ok(Slice(d, l.at, l.at + l.val), l.at + l.val)

decodeBool(d, i) ==
    IF i < Len(d) THEN Ok(d[i + 1] # 0, i + 1) ELSE Fail("IndexError")

\* _QVariantDecoders: the Qt type ids with a decoder
VariantDecoders ==
    (1 :> "Bool") @@ (2 :> "S32") @@ (3 :> "U32") @@ (6 :> "Double")
    @@ (10 :> "QString") @@ (12 :> "ByteArray") @@ (36 :> "U16") @@ (38 :> "Double")

DecodePrim(d, i, f) ==
    CASE f = "Bool" -> decodeBool(d, i)
      [] f = "S32" -> decodeS32(d, i)
      [] f = "U32" -> decodeU32(d, i)
      [] f = "U16" -> decodeU16(d, i)
      [] f = "Double" -> decodeDouble(d, i)
      [] f = "QString" -> decodeQString(d, i)
      [] f = "ByteArray" -> decodeByteArray(d, i)

decodeQVariant(d, i) ==
    LET t == decodeU32(d, i)
        isNull == decodeBool(d, t.at)
    IN CASE ~t.ok -> t
         [] ~isNull.ok -> isNull
         [] t.val \notin DOMAIN VariantDecoders -> Fail("RuntimeError")
         [] OTHER -> DecodePrim(d, isNull.at, VariantDecoders[t.val])

(***************************************************************************)
(* A handler reads its fields one after the other from one cursor.  A      *)
(* field kind is a primitive, "QVariant", "Args" (decodeArgs: a count and  *)
(* that many variants) or "Entries" (onObjectList: a count and that many   *)
(* name, typename and checksum triples).  Group(d, i, fs) is the tuple of  *)
(* the scalar fields fs read from cursor i, Repeat(d, i, n, fs) that group *)
(* read n times, and DecodeFields(d, i, fs) the tuple of any fields fs.    *)
(***************************************************************************)
Scalar(d, i, f) == IF f = "QVariant" THEN decodeQVariant(d, i) ELSE DecodePrim(d, i, f)

\* v followed by what Then reads from v's cursor
Seq2(v, Then(_)) ==
    LET rest == IF v.ok THEN Then(v.at) ELSE v
    IN IF rest.ok THEN Ok(<<v.val>> \o rest.val, rest.at) ELSE rest

RECURSIVE Group(_, _, _)
Group(d, i, fs) ==
    IF fs = <<>> THEN Ok(<<>>, i)
    ELSE Seq2(Scalar(d, i, Head(fs)), LAMBDA j : Group(d, j, Tail(fs)))

RECURSIVE Repeat(_, _, _, _)
Repeat(d, i, n, fs) ==
    IF n = 0 THEN Ok(<<>>, i)
    ELSE Seq2(Group(d, i, fs), LAMBDA j : Repeat(d, j, n - 1, fs))

Counted(d, i, fs) ==
    LET n == decodeU32(d, i)
    IN IF n.ok THEN Repeat(d, n.at, n.val, fs) ELSE n

DecodeItem(d, i, f) ==
    CASE f = "Args" -> LET r == Counted(d, i, <<"QVariant">>)
                       IN IF r.ok THEN Ok([k \in DOMAIN r.val |-> r.val[k][1]], r.at) ELSE r
      [] f = "Entries" -> Counted(d, i, <<"QString", "QString", "ByteArray">>)
      [] OTHER -> Scalar(d, i, f)

RECURSIVE DecodeFields(_, _, _)
DecodeFields(d, i, fs) ==
    IF fs = <<>> THEN Ok(<<>>, i)
    ELSE Seq2(DecodeItem(d, i, Head(fs)), LAMBDA j : DecodeFields(d, j, Tail(fs)))

(***************************************************************************)
(* The frames the client packs.  struct format "Ns" cuts a longer byte     *)
(* string to N bytes and pads a shorter one with zeros; the frame length   *)
(* is calcsize(f) - 4, the bytes after the length field.                   *)
(***************************************************************************)
PackS(b, n) == IF Len(b) >= n THEN SubSeq(b, 1, n) ELSE b \o [k \in 1..n - Len(b) |-> 0]
Framed(body) == U32(Len(body)) \o body

\* one argument under its declared type: Qt type id, isNull byte, value
ArgBytes(f, arg) ==
    CASE f = "i" -> S32(2) \o <<0>> \o S32(arg)
      [] f = "f" -> S32(38) \o <<0>> \o Dbl(arg)
      [] OTHER -> <<0>>

\* (mutant) the packet length taken as calcsize(f), length field included
InvokeBytesFullLength(name, callIndex, index, types, args) ==
    LET encodedLen == Len(name) * 2
        body == U16(6) \o U32(encodedLen) \o PackS(Utf16BE(name), encodedLen)
                \o S32(callIndex) \o S32(index) \o U32(Len(args))
                \o FlattenSeq([k \in DOMAIN args |-> ArgBytes(types[k], args[k])])
                \o S32(-1) \o S32(-1)
    IN U32(Len(body) + 4) \o body

InvokeBytes(name, callIndex, index, types, args) ==
    LET encodedLen == Len(name) * 2
    IN Framed(U16(6) \o U32(encodedLen) \o PackS(Utf16BE(name), encodedLen)
              \o S32(callIndex) \o S32(index) \o U32(Len(args))
              \o FlattenSeq([k \in DOMAIN args |-> ArgBytes(types[k], args[k])])
              \o S32(-1) \o S32(-1))

AddObjectBytes(name) ==
    LET len2 == Len(name) * 2
    IN U32(7 + len2) \o U16(4) \o U32(len2) \o PackS(Utf16BE(name), len2) \o <<0>>

PingBytes == U32(2) \o U16(10)

(***************************************************************************)
(* Pipe.run's view of the first 4 bytes before the handshake: the compact  *)
(* probe (size, packetId, rev, firstChar), or else the plain 32-bit length *)
(* with firstChar 0.                                                       *)
(***************************************************************************)
\* (mutant) the compact size taken as the payload length, header bytes included
ProbeKeepsHeader(h) ==
    IF h[1] < 3 \/ h[1] > 252 \/ h[2] # 1
    THEN [size |-> FromBE(h), firstChar |-> 0]
    ELSE [size |-> h[1], firstChar |-> h[4]]

Probe(h) ==
    IF h[1] < 3 \/ h[1] > 252 \/ h[2] # 1
    THEN [size |-> FromBE(h), firstChar |-> 0]
    ELSE [size |-> h[1] - 3, firstChar |-> h[4]]

\* the legacy handshake made to look like an old-style Handshake packet
Rewrap(firstChar, data) ==
    LET text == DecodeUtf8(<<firstChar>> \o data)
        codec == Utf16BE(text.val)
    IN IF text.ok THEN Ok(U16(1) \o U32(Len(codec)) \o codec, 0) ELSE text

(***************************************************************************)
(* What the source writes, after the layouts of spec sections 4.1, 4.2 and *)
(* 4.5 (its encoder is Qt's, not in this repository).  A variant is a      *)
(* record [t |-> Qt type id, v |-> value] for ids 2 (int) and 6 (double).  *)
(***************************************************************************)
QStr(s) == U32(Len(Utf16BE(s))) \o Utf16BE(s)
VariantBytes(x) == U32(x.t) \o <<0>> \o (IF x.t = 6 THEN Dbl(x.v) ELSE S32(x.v))
ArgsBytes(xs) == U32(Len(xs)) \o FlattenSeq([k \in DOMAIN xs |-> VariantBytes(xs[k])])
EntryBytes(e) == QStr(e.name) \o QStr(e.type) \o U32(Len(e.sum)) \o e.sum

\* str.encode('utf-8') of code points below 0x800
Utf8(s) ==
    FlattenSeq([k \in DOMAIN s |->
        IF s[k] < 128 THEN <<s[k]>> ELSE <<192 + s[k] \div 64, 128 + (s[k] % 64)>>])

\* a compact handshake: size counts packetId, rev and the UTF-8 text
CompactHandshake(text) == <<Len(Utf8(text)) + 2, 1, 0>> \o Utf8(text)

SourceBytes(m) ==
    CASE m.kind = "Raw" -> m.bytes
      [] m.kind = "Handshake" /\ m.dialect = "u8" -> CompactHandshake(m.text)
      [] m.kind = "Handshake" -> Framed(U16(1) \o QStr(m.text))
      [] m.kind = "InitPacket" -> Framed(U16(2) \o QStr(m.name) \o ArgsBytes(m.args))
      [] m.kind = "InvokePacket" ->
            Framed(U16(6) \o QStr(m.name) \o S32(0) \o S32(m.index) \o ArgsBytes(m.args)
                   \o S32(-1) \o S32(-1))
      [] m.kind = "PropertyChangePacket" ->
            Framed(U16(8) \o QStr(m.name) \o S32(m.index) \o VariantBytes(m.args[1]))
      [] m.kind = "ObjectList" ->
            Framed(U16(9) \o U32(Len(m.entries))
                   \o FlattenSeq([k \in DOMAIN m.entries |-> EntryBytes(m.entries[k])]))
=============================================================================
