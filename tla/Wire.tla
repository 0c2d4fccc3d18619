-------------------------------- MODULE Wire --------------------------------
(***************************************************************************)
(* One connection of py_replica.py at the byte level.  The source writes   *)
(* the frames of Messages onto the socket; Pipe.run reads them with        *)
(* readexactly, probes the dialect of the first one and puts each frame on *)
(* the Node's queue; Node.run decodes the packet id and the handler's      *)
(* fields with a Decoder.  The client writes back on the same socket: the  *)
(* AddObject reply of onObjectList, the InvokePackets of Simple's slot and *)
(* setter calls, and heartbeat Pings; the source reads them frame by frame.*)
(* The heartbeat's timing is in Heartbeat, and the replica cache and its   *)
(* observers in ReplicaClient.                                             *)
(***************************************************************************)
EXTENDS Codec

CONSTANTS
    FirstMessages, \* the packets the source may write first (see Codec)
    Messages,   \* the packets the source may write after the first
    Acquired,   \* names of the objects main() acquired, as code points
    IntArgs,    \* values the application passes to pushI
    FloatArgs,  \* values the application assigns to the f property
    MaxWrites,  \* bound on the frames the source writes
    MaxCalls    \* bound on the frames the client writes

VARIABLES
    inbox,      \* bytes written by the source and not yet read by Pipe.run
    written,    \* the packets the source wrote, in order
    pc,         \* Pipe.run: "head", "body", "exited" or "failed"
    hdr,        \* size and firstChar of the frame being read
    handshake,  \* Pipe.handshake
    queue,      \* Node.queue: [eof, data] entries put by Pipe.run
    running,    \* the event loop runs (no exception has reached it)
    listed,     \* the pipe is still in Node.pipes
    got,        \* the packets Node.run decoded and handled: [kind, fields]
    bound,      \* names whose ReplicaPrivate.pipe is set
    outbox,     \* bytes written by the client and not yet read by the source
    intents,    \* the packets the client meant to write, in order
    recv        \* the packets the source decoded from the client's bytes

vars == <<inbox, written, pc, hdr, handshake, queue, running, listed, got,
          bound, outbox, intents, recv>>

\* Node.__init__: the handler table
Handlers == {1, 2, 3, 5, 6, 7, 8, 9, 11}
HandlerFields ==
    (1 :> <<"QString">>) @@ (2 :> <<"QString", "Args">>)
    @@ (6 :> <<"QString", "S32", "S32", "Args", "S32", "S32">>)
    @@ (8 :> <<"QString", "S32", "QVariant">>) @@ (9 :> <<"Entries">>)
    @@ [k \in {3, 5, 7, 11} |-> <<>>]

\* Simple.Signals = ['iChanged', 'fChanged', 'random']
SimpleSignals == 3

\* Fault model: the signal index taken as 1-based.
SignalIndexOKOneBased(i) == 0 < i /\ i <= SimpleSignals

\* Simple.Signals[index]: a Python index from -3 to 2 selects one
SignalIndexOK(i) == -SimpleSignals <= i /\ i < SimpleSignals

Versions == {<<81, 116, 82, 79, 32, 49, 46, 51>>,              \* "QtRO 1.3"
             <<81, 68, 97, 116, 97, 83, 116, 114, 101, 97, 109>>} \* "QDataStream"

Init ==
    /\ inbox = <<>> /\ written = <<>>
    /\ pc = "head" /\ hdr = [size |-> 0, firstChar |-> 0]
    /\ handshake = FALSE /\ queue = <<>>
    /\ running = TRUE /\ listed = TRUE
    /\ got = <<>> /\ bound = {}
    /\ outbox = <<>> /\ intents = <<>> /\ recv = <<>>

UnchangedClient == UNCHANGED <<outbox, intents, recv>>

(***************************************************************************)
(* The source writes one more packet.                                      *)
(***************************************************************************)
SourceWrite(m) ==
    /\ Len(written) < MaxWrites
    /\ m \in IF written = <<>> THEN FirstMessages ELSE Messages
    /\ inbox' = inbox \o SourceBytes(m)
    /\ written' = Append(written, m)
    /\ UNCHANGED <<pc, hdr, handshake, queue, running, listed, got, bound>>
    /\ UnchangedClient

(***************************************************************************)
(* Pipe.run, lines 204-216: readexactly(4) and the length of the frame.    *)
(***************************************************************************)
ReadHead ==
    /\ running /\ pc = "head" /\ Len(inbox) >= 4
    /\ LET h == SubSeq(inbox, 1, 4)
       IN hdr' = IF handshake THEN [size |-> FromBE(h), firstChar |-> 0] ELSE Probe(h)
    /\ inbox' = Drop(inbox, 4)
    /\ pc' = "body"
    /\ UNCHANGED <<written, handshake, queue, running, listed, got, bound>>
    /\ UnchangedClient

(***************************************************************************)
(* Pipe.run, lines 217-238: readexactly(size).  A frame after the          *)
(* handshake, or a first frame that is a Handshake packet, is queued.  Any *)
(* other first frame sets error: the loop ends and queues a tombstone.  A  *)
(* compact first frame is rewrapped as a Handshake packet.  A first frame  *)
(* too short for a packet id, or not UTF-8, raises out of Pipe.run.        *)
(***************************************************************************)
BodyReady == running /\ pc = "body" /\ Len(inbox) >= hdr.size
Body == Slice(inbox, 0, hdr.size)
FirstId == decodeU16(Body, 0)
Legacy == Rewrap(hdr.firstChar, Body)

ReadStep(q, p, h) ==
    /\ inbox' = Drop(inbox, hdr.size)
    /\ queue' = q /\ pc' = p /\ handshake' = h
    /\ running' = (p # "failed")
    /\ UNCHANGED <<written, hdr, listed, got, bound>>
    /\ UnchangedClient

ReadFrame ==
    /\ BodyReady
    /\ handshake \/ (hdr.firstChar = 0 /\ FirstId.ok /\ FirstId.val = 1)
    /\ ReadStep(Append(queue, [eof |-> FALSE, data |-> Body]), "head", TRUE)

RejectFirst ==
    /\ BodyReady
    /\ ~handshake /\ hdr.firstChar = 0 /\ FirstId.ok /\ FirstId.val # 1
    /\ ReadStep(Append(queue, [eof |-> TRUE, data |-> <<>>]), "exited", FALSE)

ReadLegacy ==
    /\ BodyReady
    /\ ~handshake /\ hdr.firstChar # 0 /\ Legacy.ok
    /\ ReadStep(Append(queue, [eof |-> FALSE, data |-> Legacy.val]), "head", TRUE)

FirstRaises ==
    /\ BodyReady
    /\ ~handshake
    /\ IF hdr.firstChar = 0 THEN ~FirstId.ok ELSE ~Legacy.ok
    /\ ReadStep(queue, "failed", FALSE)

(***************************************************************************)
(* Node.run, lines 326-343, with the handlers of lines 345-390.  The       *)
(* tombstone falls through to Decoder(None) and raises; an id without a    *)
(* handler reaches onPipeError with currentPipe None and raises; a frame   *)
(* of a deleted pipe is skipped; a handler that cannot decode its fields,  *)
(* finds no ReplicaPrivate for the name, an index outside Simple.Signals,  *)
(* or an empty ObjectList, raises.  Any exception stops the loop.          *)
(***************************************************************************)
Popped == Head(queue)
PacketId == decodeU16(Popped.data, 0)
Fields == DecodeFields(Popped.data, 2, HandlerFields[PacketId.val])

Raises(k, f) ==
    \/ k \in {2, 6} /\ f[1] \notin Acquired
    \/ k = 6 /\ ~SignalIndexOK(f[3])
    \/ k = 9 /\ f[1] = <<>>

DispatchFails ==
    /\ running /\ queue # <<>>
    /\ IF Popped.eof \/ ~PacketId.ok THEN TRUE
       ELSE IF PacketId.val \notin Handlers THEN TRUE
       ELSE IF ~listed THEN FALSE
       ELSE IF ~Fields.ok THEN TRUE
       ELSE Raises(PacketId.val, Fields.val)
    /\ queue' = Tail(queue)
    /\ running' = FALSE
    /\ listed' = (listed /\ ~Popped.eof)
    /\ UNCHANGED <<inbox, written, pc, hdr, handshake, got, bound>>
    /\ UnchangedClient

SkipDeleted ==
    /\ running /\ queue # <<>> /\ ~listed
    /\ ~Popped.eof /\ PacketId.ok /\ PacketId.val \in Handlers
    /\ queue' = Tail(queue)
    /\ UNCHANGED <<inbox, written, pc, hdr, handshake, running, listed, got, bound>>
    /\ UnchangedClient

\* the handler for packet id k runs to its end
Deliver(k) ==
    /\ running /\ queue # <<>> /\ listed
    /\ ~Popped.eof /\ PacketId.ok /\ PacketId.val = k
    /\ Fields.ok /\ ~Raises(k, Fields.val)
    /\ queue' = Tail(queue)
    /\ got' = Append(got, [kind |-> k, fields |-> Fields.val])
    /\ UNCHANGED <<inbox, written, pc, hdr, handshake, running>>

OnHandshake ==
    /\ Deliver(1)
    /\ listed' = (Fields.val[1] \in Versions)
    /\ UNCHANGED bound /\ UnchangedClient

OnInitPacket ==
    /\ Deliver(2)
    /\ bound' = bound \cup {Fields.val[1]}
    /\ UNCHANGED listed /\ UnchangedClient

\* emission of the signal on the proxies is modelled in ReplicaClient
OnInvokePacket ==
    /\ Deliver(6)
    /\ UNCHANGED <<listed, bound>> /\ UnchangedClient

OnObjectList ==
    /\ Deliver(9)
    /\ LET name == Last(Fields.val[1])[1]
       IN /\ outbox' = outbox \o AddObjectBytes(name)
          /\ intents' = Append(intents, [kind |-> 4, fields |-> <<name, FALSE>>])
    /\ UNCHANGED <<listed, bound, recv>>

OnIgnoredPacket ==
    /\ \E k \in {3, 5, 7, 8, 11} : Deliver(k)
    /\ UNCHANGED <<listed, bound>> /\ UnchangedClient

(***************************************************************************)
(* Replica.sendInvokePacket, reached from Simple.pushI (callSlot 0),       *)
(* Simple.reset (callSlot 1) and the f setter (callSetter 1): nothing is   *)
(* written before an InitPacket set the ReplicaPrivate's pipe.             *)
(***************************************************************************)
UnchangedByClient == UNCHANGED <<inbox, written, pc, hdr, handshake, queue,
                                 running, listed, got, bound, recv>>

sendInvokePacket(n, callIndex, index, types, args) ==
    /\ running /\ n \in bound /\ Len(intents) < MaxCalls
    /\ outbox' = outbox \o InvokeBytes(n, callIndex, index, types, args)
    /\ intents' = Append(intents, [kind |-> 6, fields |-> <<n, callIndex, index, args, -1, -1>>])
    /\ UnchangedByClient

PushI(n, v) == sendInvokePacket(n, 0, 0, <<"i">>, <<v>>)
Reset(n) == sendInvokePacket(n, 0, 1, <<>>, <<>>)
SetF(n, v) == sendInvokePacket(n, 2, 1, <<"f">>, <<v>>)

\* Pipe.sendHeartbeat: the timer exists once the handshake is resolved
SendHeartbeat ==
    /\ running /\ handshake /\ Len(intents) < MaxCalls
    /\ outbox' = outbox \o PingBytes
    /\ intents' = Append(intents, [kind |-> 10, fields |-> <<>>])
    /\ UnchangedByClient

(***************************************************************************)
(* The source reads one frame of the client's bytes and decodes it after   *)
(* the layout of spec section 4.6 (AddObject: name and an isDynamic byte); *)
(* a frame it cannot decode exactly is recorded as kind 0.                 *)
(***************************************************************************)
SourceFields == (4 :> <<"QString", "Bool">>) @@ (6 :> HandlerFields[6]) @@ (10 :> <<>>)

SourceRead ==
    /\ Len(outbox) >= 4
    /\ LET l == FromBE(SubSeq(outbox, 1, 4))
           body == Slice(outbox, 4, 4 + l)
           id == decodeU16(body, 0)
           r == DecodeFields(body, 2, SourceFields[id.val])
       IN /\ Len(outbox) >= 4 + l
          /\ outbox' = Drop(outbox, 4 + l)
          /\ recv' = Append(recv,
                IF id.ok /\ id.val \in DOMAIN SourceFields /\ r.ok /\ r.at = Len(body)
                THEN [kind |-> id.val, fields |-> r.val] ELSE [kind |-> 0, fields |-> <<>>])
    /\ UNCHANGED <<inbox, written, pc, hdr, handshake, queue, running, listed, got,
                   bound, intents>>

Next ==
    \/ \E m \in FirstMessages \cup Messages : SourceWrite(m)
    \/ ReadHead \/ ReadFrame \/ RejectFirst \/ ReadLegacy \/ FirstRaises
    \/ DispatchFails \/ SkipDeleted
    \/ OnHandshake \/ OnInitPacket \/ OnInvokePacket \/ OnObjectList \/ OnIgnoredPacket
    \/ \E n \in Acquired :
          \/ \E v \in IntArgs : PushI(n, v)
          \/ Reset(n)
          \/ \E v \in FloatArgs : SetF(n, v)
    \/ SendHeartbeat
    \/ SourceRead

Spec == Init /\ [][Next]_vars

-----------------------------------------------------------------------------
(***************************************************************************)
(* The fields a handler must see for a packet the source wrote: the same   *)
(* for a Handshake in either dialect (spec section 4.2).                   *)
(***************************************************************************)
Vals(xs) == [k \in DOMAIN xs |-> xs[k].v]
Expected(m) ==
    CASE m.kind = "Handshake" -> [kind |-> 1, fields |-> <<m.text>>]
      [] m.kind = "InitPacket" -> [kind |-> 2, fields |-> <<m.name, Vals(m.args)>>]
      [] m.kind = "InvokePacket" ->
            [kind |-> 6, fields |-> <<m.name, 0, m.index, Vals(m.args), -1, -1>>]
      [] m.kind = "PropertyChangePacket" ->
            [kind |-> 8, fields |-> <<m.name, m.index, m.args[1].v>>]
      [] m.kind = "ObjectList" ->
            [kind |-> 9, fields |-> <<[k \in DOMAIN m.entries |->
                <<m.entries[k].name, m.entries[k].type, m.entries[k].sum>>]>>]

(* Framing, the first-frame probe, the rewrap of a compact handshake and   *)
(* the Decoder together hand every handler exactly the fields of the       *)
(* packet the source wrote, in the order written: no frame boundary is     *)
(* lost across readexactly calls and no field is read from the wrong      *)
(* offset (spec section 8: decoding round-trips).                          *)
InboundFaithful ==
    /\ Len(got) <= Len(written)
    /\ \A k \in DOMAIN got : got[k] = Expected(written[k])

(* Every frame the client writes (sendInvokePacket, the AddObject reply of *)
(* onObjectList, sendHeartbeat) decodes at the source to exactly the name, *)
(* call, index and arguments the client meant, and fills its frame.        *)
OutboundFaithful ==
    /\ Len(recv) <= Len(intents)
    /\ \A k \in DOMAIN recv : recv[k] = intents[k]

(* What no source of this client's Simple class writes: bytes that are not *)
(* a packet, a packet for a name main() never acquired, a signal index     *)
(* outside the class's signals (a source built from another .rep) and an   *)
(* empty object list.                                                      *)
Foreign(m) ==
    \/ m.kind = "Raw"
    \/ m.kind \in {"InitPacket", "InvokePacket"} /\ m.name \notin Acquired
    \/ m.kind = "InvokePacket" /\ m.index \notin 0..(SimpleSignals - 1)
    \/ m.kind = "ObjectList" /\ m.entries = <<>>

(* Node.run stops (an exception in Pipe.run or in a handler, then         *)
(* handle_exception and shutdown) only after the source wrote something   *)
(* no source of this class writes: every well-formed frame, of either     *)
(* handshake dialect and in any interleaving with the reads, is read,    *)
(* decoded and handled without raising.                                   *)
StopsOnlyOnForeignFrames ==
    ~running => \E k \in DOMAIN written : Foreign(written[k])
=============================================================================
