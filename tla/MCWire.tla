------------------------------- MODULE MCWire -------------------------------
(***************************************************************************)
(* Wire with the objects of main(): Simple acquired as "DifferentName".    *)
(* Text is written as code points.                                         *)
(***************************************************************************)
EXTENDS Wire

QtRO13 == <<81, 116, 82, 79, 32, 49, 46, 51>>                 \* "QtRO 1.3"
QtRO99 == <<81, 116, 82, 79, 32, 57, 46, 57>>                 \* "QtRO 9.9"
DifferentName == <<68, 105, 102, 102, 101, 114, 101, 110, 116, 78, 97, 109, 101>>
\* "DifferentName" with its last letter outside the Basic Multilingual Plane
NonBmpName == <<68, 105, 102, 102, 101, 114, 101, 110, 116, 78, 97, 109, 128512>>

IntV(v) == [t |-> 2, v |-> v]
DoubleV(v) == [t |-> 6, v |-> v]

\* the handshakes of both dialects, and a version onHandshake refuses
MCHandshakes ==
    {[kind |-> "Handshake", dialect |-> d, text |-> QtRO13] : d \in {"u32", "u8"}}
    \cup {[kind |-> "Handshake", dialect |-> "u32", text |-> QtRO99]}

\* first frames that are not a handshake: a plain InitPacket, a frame too
\* short for a packet id, and a compact frame whose text is not UTF-8
MCBadFirst ==
    {[kind |-> "Raw", bytes |-> Framed(U16(2))],
     [kind |-> "Raw", bytes |-> Framed(<<2>>)],
     [kind |-> "Raw", bytes |-> <<4, 1, 0, 200, 200>>]}

\* what a source of Simple writes after the handshake (for object name n),
\* and a signal of a source class with a fourth signal
MCPackets(n) ==
    {[kind |-> "InitPacket", name |-> n, args |-> <<IntV(3), DoubleV(-1)>>],
     [kind |-> "InvokePacket", name |-> n, index |-> 0, args |-> <<IntV(7)>>],
     [kind |-> "InvokePacket", name |-> n, index |-> SimpleSignals, args |-> <<>>],
     [kind |-> "PropertyChangePacket", name |-> n, index |-> 1, args |-> <<DoubleV(2)>>],
     [kind |-> "ObjectList", entries |->
        <<[name |-> n, type |-> <<83>>, sum |-> <<198, 243>>]>>]}

MCAcquired == {DifferentName}
MCFirst == MCHandshakes \cup MCBadFirst
MCLater == MCPackets(DifferentName)

\* main() with an object name that is not all in the BMP
MCAcquiredNonBmp == {NonBmpName}
MCLaterNonBmp == MCPackets(NonBmpName)
=============================================================================
