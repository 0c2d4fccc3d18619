--------------------------- MODULE ReplicaClient ---------------------------
(***************************************************************************)
(* The replica (client) side of the QtRemoteObjects protocol as written in *)
(* examples/remoteobjects/cbor_python/py_replica/py_replica.py:            *)
(*                                                                         *)
(*   - one Pipe.run task per connection: it frames the byte stream,        *)
(*     resolves the handshake dialect on the first frame and puts          *)
(*     (id(pipe), data) on the Node's shared asyncio.Queue;                *)
(*   - the Node.run task: it takes one entry at a time from the queue and  *)
(*     runs the packet handler, which mutates the ReplicaPrivate caches,   *)
(*     emits Signals on the Replica proxies or writes a reply;             *)
(*   - the application: it acquires proxies, drops them, and calls slots   *)
(*     and property setters, which write InvokePackets to the bound pipe.  *)
(*                                                                         *)
(* The peer that writes `wire` and reads `out` is not part of this module: *)
(* QtSource and ArbitraryPeer extend it with the two environments.         *)
(*                                                                         *)
(* Frames are records; the byte layout is the business of the Codec        *)
(* module.  An uncaught exception in any task ends that task; the loop's   *)
(* exception handler (handle_exception) then schedules shutdown(), which   *)
(* stops the event loop: `running` becomes FALSE and nothing moves again.  *)
(***************************************************************************)
EXTENDS Naturals, Sequences, SequencesExt, FiniteSets

CONSTANTS
    Pipes,             \* the connections main() opens with Node.connect()
    Names,             \* object names that can appear on the wire
    Proxies,           \* the Replica instances the application may hold
    Values,            \* property vectors a source may send
    Default,           \* cls.defaults(): the vector of a cache not yet initialised
    Unsupported,       \* a variant whose type id has no entry in _QVariantDecoders
    Startup,           \* [P -> Names]: proxies acquired in main() before the loop runs
    LateNames,         \* names the application acquires from a task once running
    AcquireInObserver, \* TRUE iff some Signal observer acquires a proxy of the same name
    MaxCalls,          \* bound on outbound calls made by the application
    NoPipe, NoName     \* "None"

ASSUME /\ Default \in Values
       /\ Unsupported \notin Values
       /\ DOMAIN Startup \subseteq Proxies
       /\ LateNames \subseteq Names
       /\ AcquireInObserver \in BOOLEAN
       /\ MaxCalls \in Nat

VARIABLES
    pc,          \* pc[p]: where the Pipe.run task of p is
    handshake,   \* Pipe.handshake
    queue,       \* Node.queue: the shared inbox of (pipeId, data)
    pipes,       \* DOMAIN Node.pipes: the connections the Node still knows
    dispatcher,  \* the Node.run task
    running,     \* the asyncio event loop has not been stopped
    rp,          \* Node.replicaPrivateInstances: name -> [pipe, properties]
    owner,       \* owner[x]: the name of proxy x (its _priv), NoName if not created
    live,        \* proxies some owner still references (members of the WeakSets)
    calls,       \* number of outbound calls made so far (bounded by MaxCalls)
    wire,        \* wire[p]: frames the peer has written and p has not read yet
    eof,         \* eof[p]: the peer has closed its end of p
    out,         \* out[p]: frames the client has written and the peer has not read
    accepted     \* history: pipes whose Handshake text Node.onHandshake accepted

clientVars == <<pc, handshake, queue, pipes, dispatcher, running, rp, owner,
                live, calls, wire, eof, out, accepted>>

-----------------------------------------------------------------------------
(* Packets.  PacketType names are kept; fields the handlers do not use are *)
(* left out.  Handshake.dialect is how the first four bytes read:          *)
(* "u32" (plain 32-bit length), "u8zero" (compact probe, firstChar = 0)    *)
(* and "u8" (compact probe, firstChar # 0: re-wrapped as UTF-16 text).     *)
(* text "NotUtf8" stands for bytes that do not decode as UTF-8.            *)

Versions == {"QtRO 1.3", "QDataStream"}

Handshake(t, d)       == [kind |-> "Handshake", text |-> t, dialect |-> d]
ObjectList(l)         == [kind |-> "ObjectList", names |-> l]
InitPacket(n, v)      == [kind |-> "InitPacket", name |-> n, val |-> v]
InvokePacket(n, c, v) == [kind |-> "InvokePacket", name |-> n, call |-> c, val |-> v]
PropertyChange(n, v)  == [kind |-> "PropertyChangePacket", name |-> n, val |-> v]
AddObject(n)          == [kind |-> "AddObject", name |-> n]
Bare(k)               == [kind |-> k]
Tombstone             == Bare("None")

\* Fault model: a Handlers table without its PropertyChangePacket entry.
HandledKindsNoPropertyChange ==
    {"Handshake", "InitPacket", "InitDynamicPacket", "RemoveObject",
     "InvokePacket", "InvokeReplyPacket", "ObjectList", "Pong"}

\* The keys of Node.Handlers.
HandledKinds == {"Handshake", "InitPacket", "InitDynamicPacket", "RemoveObject",
                 "InvokePacket", "InvokeReplyPacket", "PropertyChangePacket",
                 "ObjectList", "Pong"}

NewCache == [pipe |-> NoPipe, properties |-> Default]

\* ReplicaPrivate.instances: the WeakSet of live proxies of name n.
Instances(n) == {x \in live : owner[x] = n}

-----------------------------------------------------------------------------
ClientInit ==
    /\ pc = [p \in Pipes |-> "idle"]
    /\ handshake = [p \in Pipes |-> FALSE]
    /\ queue = <<>>
    /\ pipes = {}
    /\ dispatcher = "running"
    /\ running = TRUE
    /\ rp = [n \in Range(Startup) |-> NewCache]
    /\ owner = [x \in Proxies |-> IF x \in DOMAIN Startup THEN Startup[x] ELSE NoName]
    /\ live = DOMAIN Startup
    /\ calls = 0
    /\ wire = [p \in Pipes |-> <<>>]
    /\ eof = [p \in Pipes |-> FALSE]
    /\ out = [p \in Pipes |-> <<>>]
    /\ accepted = {}

-----------------------------------------------------------------------------
\* ReplicaPrivate.create: a new Replica joins the WeakSet of its cache.
Create(x, n) ==
    /\ owner[x] = NoName
    /\ owner' = [owner EXCEPT ![x] = n]
    /\ live' = live \cup {x}

\* Fault model: acquire forgets to store a new ReplicaPrivate.
AcquireUnregistered(x, n) ==
    /\ Create(x, n)
    /\ rp' = rp

\* Node.acquire: find or make the ReplicaPrivate of n, then create.
Acquire(x, n) ==
    /\ Create(x, n)
    /\ rp' = IF n \in DOMAIN rp THEN rp ELSE rp @@ (n :> NewCache)

\* The application acquires from a task, outside any Signal emission.
AppAcquire(x, n) ==
    /\ running
    /\ n \in LateNames
    /\ Acquire(x, n)
    /\ UNCHANGED <<pc, handshake, queue, pipes, dispatcher, running, calls,
                   wire, eof, out, accepted>>

\* The last reference to x goes away; the WeakSet forgets it.
DropProxy(x) ==
    /\ running
    /\ x \in live
    /\ live' = live \ {x}
    /\ UNCHANGED <<pc, handshake, queue, pipes, dispatcher, running, rp, owner,
                   calls, wire, eof, out, accepted>>

(* Signal.emit on every instance of n, iterating the WeakSet.  An observer *)
(* that acquires a proxy of n adds to the set being iterated: the next     *)
(* step of the iterator raises "Set changed size during iteration", which  *)
(* ends Node.run.                                                          *)
EmitOnInstances(n) ==
    \/ UNCHANGED <<owner, live, dispatcher>>
    \/ /\ AcquireInObserver
       /\ Instances(n) # {}
       /\ \E x \in Proxies : Create(x, n)
       /\ dispatcher' = "failed"

(* Replica.sendInvokePacket via callSlot / callSetter, ReplicaPrivate.write: *)
(* without a bound pipe the call is dropped with a warning.                *)
SendInvoke(x, c, v) ==
    LET n == owner[x] IN
    /\ running
    /\ x \in live
    /\ calls < MaxCalls
    /\ calls' = calls + 1
    /\ out' = IF rp[n].pipe = NoPipe THEN out
              ELSE [out EXCEPT ![rp[n].pipe] = Append(@, InvokePacket(n, c, v))]
    /\ UNCHANGED <<pc, handshake, queue, pipes, dispatcher, running, rp, owner,
                   live, wire, eof, accepted>>

\* Replica.callSetter(index, value): Call.WriteProperty.
CallSetter(x, v) == SendInvoke(x, "setter", v)

\* Replica.callSlot(1): Simple.reset(), a slot without arguments.
CallSlot(x) == SendInvoke(x, "reset", Default)

-----------------------------------------------------------------------------
(* Node.connect and Pipe.run.                                              *)

\* Node.connect(url): register the pipe and start its run() task.
Connect(p) ==
    /\ running
    /\ pc[p] = "idle"
    /\ pc' = [pc EXCEPT ![p] = "connecting"]
    /\ pipes' = pipes \cup {p}
    /\ UNCHANGED <<handshake, queue, dispatcher, running, rp, owner, live,
                   calls, wire, eof, out, accepted>>

\* TcpPipe.connect: asyncio.open_connection returns, unless the peer is
\* gone without having written anything (a refused connection).
Connected(p) ==
    /\ running
    /\ pc[p] = "connecting"
    /\ ~eof[p] \/ wire[p] # <<>>
    /\ pc' = [pc EXCEPT ![p] = "reading"]
    /\ UNCHANGED <<handshake, queue, pipes, dispatcher, running, rp, owner,
                   live, calls, wire, eof, out, accepted>>

ReadStep(p) ==
    /\ running
    /\ pc[p] = "reading"
    /\ wire[p] # <<>>
    /\ wire' = [wire EXCEPT ![p] = Tail(@)]

UnchangedByRead ==
    UNCHANGED <<pipes, dispatcher, running, rp, owner, live, calls, eof, out, accepted>>

\* Fault model: the first frame is queued whatever its packet id.
ReadFirstUnchecked(p) ==
    LET f == Head(wire[p]) IN
    /\ ReadStep(p)
    /\ ~handshake[p]
    /\ f.kind = "Handshake" => f.dialect \in {"u32", "u8zero"}
    /\ handshake' = [handshake EXCEPT ![p] = TRUE]
    /\ queue' = Append(queue, <<p, f>>)
    /\ UNCHANGED pc
    /\ UnchangedByRead

(* First frame, firstChar = 0 (plain length, or compact probe with a zero  *)
(* marker): the packet id must be Handshake.                               *)
ReadFirst(p) ==
    LET f == Head(wire[p]) IN
    /\ ReadStep(p)
    /\ ~handshake[p]
    /\ f.kind = "Handshake" /\ f.dialect \in {"u32", "u8zero"}
    /\ handshake' = [handshake EXCEPT ![p] = TRUE]
    /\ queue' = Append(queue, <<p, f>>)
    /\ UNCHANGED pc
    /\ UnchangedByRead

(* First frame not a Handshake: self.error = True, the loop ends, the      *)
(* writer is closed and the tombstone (id(self), None) is queued.          *)
RejectFirst(p) ==
    LET f == Head(wire[p]) IN
    /\ ReadStep(p)
    /\ ~handshake[p]
    /\ f.kind # "Handshake"
    /\ pc' = [pc EXCEPT ![p] = "exited"]
    /\ queue' = Append(queue, <<p, Tombstone>>)
    /\ UNCHANGED handshake
    /\ UnchangedByRead

(* First frame in the compact form with a non-zero firstChar: firstChar +  *)
(* data is decoded as UTF-8 and re-wrapped as a Handshake packet whose     *)
(* text is that string; bytes that are not UTF-8 raise UnicodeDecodeError  *)
(* out of run().                                                           *)
ReadLegacy(p) ==
    LET f == Head(wire[p]) IN
    /\ ReadStep(p)
    /\ ~handshake[p]
    /\ f.kind = "Handshake" /\ f.dialect = "u8"
    /\ \/ /\ f.text # "NotUtf8"
          /\ handshake' = [handshake EXCEPT ![p] = TRUE]
          /\ queue' = Append(queue, <<p, Handshake(f.text, "u32")>>)
          /\ UNCHANGED pc
       \/ /\ f.text = "NotUtf8"
          /\ pc' = [pc EXCEPT ![p] = "failed"]
          /\ UNCHANGED <<handshake, queue>>
    /\ UnchangedByRead

\* Every later frame is put on the queue whatever its packet id.
Read(p) ==
    /\ ReadStep(p)
    /\ handshake[p]
    /\ queue' = Append(queue, <<p, Head(wire[p])>>)
    /\ UNCHANGED <<pc, handshake>>
    /\ UnchangedByRead

\* Fault model: a refused connection is not noticed.
ReadEOFOnlyReading(p) ==
    /\ running
    /\ pc[p] = "reading"
    /\ wire[p] = <<>>
    /\ eof[p]
    /\ pc' = [pc EXCEPT ![p] = "failed"]
    /\ UNCHANGED <<handshake, queue, pipes, dispatcher, running, rp, owner,
                   live, calls, wire, eof, out, accepted>>

(* readexactly() at end of stream raises IncompleteReadError (and          *)
(* open_connection a refused connection): the exception leaves run(), so   *)
(* neither the close nor the tombstone after the loop happens.             *)
ReadEOF(p) ==
    /\ running
    /\ pc[p] \in {"connecting", "reading"}
    /\ wire[p] = <<>>
    /\ eof[p]
    /\ pc' = [pc EXCEPT ![p] = "failed"]
    /\ UNCHANGED <<handshake, queue, pipes, dispatcher, running, rp, owner,
                   live, calls, wire, eof, out, accepted>>

-----------------------------------------------------------------------------
(* Node.run: one iteration takes the head of the queue and runs to the     *)
(* next queue.get(); handlers and the Signals they emit are synchronous.   *)

PipeId == Head(queue)[1]
Data   == Head(queue)[2]

Take ==
    /\ running
    /\ dispatcher = "running"
    /\ queue # <<>>
    /\ queue' = Tail(queue)

\* The handler raised: the exception leaves Node.run.
Raise ==
    /\ dispatcher' = "failed"
    /\ UNCHANGED <<pipes, rp, owner, live, out, accepted>>

UnchangedByDispatch ==
    UNCHANGED <<pc, handshake, running, calls, wire, eof>>

(* data is None: del self.pipes[pipeId] (a KeyError if onPipeError        *)
(* already removed it), then Decoder(None).decodeU16() raises TypeError:   *)
(* there is no `continue` after the del.                                   *)
OnTombstone ==
    /\ Take
    /\ Data = Tombstone
    /\ pipes' = pipes \ {PipeId}
    /\ dispatcher' = "failed"
    /\ UNCHANGED <<rp, owner, live, out, accepted>>
    /\ UnchangedByDispatch

(* No handler for the packet id (Invalid, AddObject, Ping or unknown):     *)
(* onPipeError runs with currentPipe = None, which the previous iteration  *)
(* left there, and `del self.pipes[id(None)]` raises KeyError.             *)
OnUnknownKind ==
    /\ Take
    /\ Data.kind \notin HandledKinds \cup {"None"}
    /\ Raise
    /\ UnchangedByDispatch

\* A handled packet of a pipe the Node has deleted is skipped.
OnDeletedPipe ==
    /\ Take
    /\ Data.kind \in HandledKinds
    /\ PipeId \notin pipes
    /\ UNCHANGED <<dispatcher, pipes, rp, owner, live, out, accepted>>
    /\ UnchangedByDispatch

Handle(k) ==
    /\ Take
    /\ Data.kind = k
    /\ PipeId \in pipes

\* Node.onHandshake: an unknown version deletes the pipe from the Node.
OnHandshake ==
    /\ Handle("Handshake")
    /\ IF Data.text \in Versions
       THEN /\ accepted' = accepted \cup {PipeId}
            /\ UNCHANGED pipes
       ELSE /\ pipes' = pipes \ {PipeId}
            /\ UNCHANGED accepted
    /\ UNCHANGED <<dispatcher, rp, owner, live, out>>
    /\ UnchangedByDispatch

(* Node.onObjectList: decode the triples, then write AddObject for `name`, *)
(* the last one decoded; with a count of 0 `name` is unbound and the       *)
(* handler raises UnboundLocalError.                                       *)
OnObjectList ==
    /\ Handle("ObjectList")
    /\ IF Data.names = <<>>
       THEN Raise
       ELSE /\ out' = [out EXCEPT ![PipeId] = Append(@, AddObject(Last(Data.names)))]
            /\ UNCHANGED <<dispatcher, pipes, rp, owner, live, accepted>>
    /\ UnchangedByDispatch

\* Fault model: initialize() stores the properties but not the pipe.
OnInitPacketNoBind ==
    LET n == Data.name IN
    /\ Handle("InitPacket")
    /\ IF Data.val = Unsupported \/ n \notin DOMAIN rp
       THEN Raise
       ELSE /\ rp' = [rp EXCEPT ![n].properties = Data.val]
            /\ EmitOnInstances(n)
            /\ UNCHANGED <<pipes, out, accepted>>
    /\ UnchangedByDispatch

(* Node.onInitPacket: decodeArgs, then replicaPrivateInstances[name]       *)
(* (KeyError for a name never acquired), then ReplicaPrivate.initialize:   *)
(* bind the pipe, replace the properties, emit `initialized` on each       *)
(* instance.                                                               *)
OnInitPacket ==
    LET n == Data.name IN
    /\ Handle("InitPacket")
    /\ IF Data.val = Unsupported \/ n \notin DOMAIN rp
       THEN Raise
       ELSE /\ rp' = [rp EXCEPT ![n] = [pipe |-> PipeId, properties |-> Data.val]]
            /\ EmitOnInstances(n)
            /\ UNCHANGED <<pipes, out, accepted>>
    /\ UnchangedByDispatch

(* Node.onInvokePacket: decodeArgs, then ReplicaPrivate.invoke emits the   *)
(* signal on each instance.  The cache is not touched, and the trailing    *)
(* propertyIndex is decoded and ignored.                                   *)
OnInvokePacket ==
    LET n == Data.name IN
    /\ Handle("InvokePacket")
    /\ IF Data.val = Unsupported \/ n \notin DOMAIN rp
       THEN Raise
       ELSE /\ EmitOnInstances(n)
            /\ UNCHANGED <<pipes, rp, out, accepted>>
    /\ UnchangedByDispatch

(* Node.onPropertyChangePacket: decodes name, index and value and only     *)
(* logs them; the cache keeps its old value.                               *)
OnPropertyChangePacket ==
    /\ Handle("PropertyChangePacket")
    /\ IF Data.val = Unsupported
       THEN Raise
       ELSE UNCHANGED <<dispatcher, pipes, rp, owner, live, out, accepted>>
    /\ UnchangedByDispatch

\* onInitDynamicPacket, onRemoveObject, onInvokeReplyPacket, onPong: pass.
OnIgnoredPacket ==
    /\ Take
    /\ Data.kind \in {"InitDynamicPacket", "RemoveObject", "InvokeReplyPacket", "Pong"}
    /\ PipeId \in pipes
    /\ UNCHANGED <<dispatcher, pipes, rp, owner, live, out, accepted>>
    /\ UnchangedByDispatch

(* handle_exception / shutdown: a task that died with an exception is      *)
(* reported by the loop's exception handler, which cancels every task and  *)
(* stops the loop.                                                         *)
Shutdown ==
    /\ running
    /\ dispatcher = "failed" \/ \E p \in Pipes : pc[p] = "failed"
    /\ running' = FALSE
    /\ UNCHANGED <<pc, handshake, queue, pipes, dispatcher, rp, owner, live,
                   calls, wire, eof, out, accepted>>

-----------------------------------------------------------------------------
PipeNext(p) ==
    \/ Connect(p) \/ Connected(p)
    \/ ReadFirst(p) \/ RejectFirst(p) \/ ReadLegacy(p) \/ Read(p) \/ ReadEOF(p)

Dispatch ==
    \/ OnTombstone \/ OnUnknownKind \/ OnDeletedPipe
    \/ OnHandshake \/ OnObjectList \/ OnInitPacket \/ OnInvokePacket
    \/ OnPropertyChangePacket \/ OnIgnoredPacket

Application ==
    \/ \E x \in Proxies, n \in Names : AppAcquire(x, n)
    \/ \E x \in Proxies : DropProxy(x) \/ CallSlot(x)
    \/ \E x \in Proxies, v \in Values : CallSetter(x, v)

ClientNext ==
    \/ \E p \in Pipes : PipeNext(p)
    \/ Dispatch
    \/ Application
    \/ Shutdown

(* The event loop runs every ready callback in turn: a pipe with bytes     *)
(* available, and the Node with a non-empty queue, are not starved.  main  *)
(* calls Node.connect for each URL.  The application is not assumed to     *)
(* call or drop anything.  Client actions leave the environment's          *)
(* variables alone, so the subscript is the client's own.                  *)
ClientFairness ==
    /\ \A p \in Pipes : WF_clientVars(PipeNext(p))
    /\ WF_clientVars(Dispatch)
    /\ WF_clientVars(Shutdown)

-----------------------------------------------------------------------------
(* Properties                                                              *)

ClientFrames ==
    {AddObject(n) : n \in Names}
      \cup {InvokePacket(n, c, v) : n \in Names, c \in {"setter", "reset"}, v \in Values}

TypeOK ==
    /\ pc \in [Pipes -> {"idle", "connecting", "reading", "exited", "failed"}]
    /\ handshake \in [Pipes -> BOOLEAN]
    /\ \A i \in 1..Len(queue) : queue[i][1] \in Pipes
    /\ pipes \subseteq Pipes
    /\ dispatcher \in {"running", "failed"}
    /\ running \in BOOLEAN
    /\ DOMAIN rp \subseteq Names
    /\ \A n \in DOMAIN rp : rp[n].pipe \in Pipes \cup {NoPipe} /\ rp[n].properties \in Values
    /\ owner \in [Proxies -> Names \cup {NoName}]
    /\ live \subseteq {x \in Proxies : owner[x] # NoName}
    /\ \A x \in Proxies : owner[x] # NoName => owner[x] \in DOMAIN rp
    /\ calls \in 0..MaxCalls
    /\ eof \in [Pipes -> BOOLEAN]
    /\ \A p \in Pipes : out[p] \in Seq(ClientFrames)
    /\ accepted \subseteq Pipes

(* The handshake gate.  A pipe whose handshake the Node has not accepted   *)
(* (onHandshake with a known version) never has a cache bound to it and    *)
(* never receives an AddObject.  This rests on Pipe.run queueing only a    *)
(* Handshake as a pipe's first frame, on the FIFO queue, and on            *)
(* onHandshake deleting a pipe with an unknown version so that its later   *)
(* packets are skipped.                                                    *)
HandshakeGate ==
    /\ \A n \in DOMAIN rp : rp[n].pipe # NoPipe => rp[n].pipe \in accepted
    /\ \A p \in Pipes \ accepted : \A i \in 1..Len(out[p]) : out[p][i].kind # "AddObject"

(* No task of the client has died with an exception and the loop has not   *)
(* been stopped: spec section 7 says connection-level errors close only    *)
(* that connection and never terminate the Node.                           *)
NodeRunning ==
    /\ running
    /\ dispatcher = "running"
    /\ \A p \in Pipes : pc[p] # "failed"

(* Spec sections 4.5 and 7: a connection the Node drops (a tombstone, an   *)
(* unknown handshake version, a protocol error) is torn down: its read     *)
(* loop has ended and no cache is bound to it any more.                    *)
DroppedPipesTornDown ==
    \A p \in Pipes :
        pc[p] # "idle" /\ p \notin pipes =>
            /\ pc[p] \in {"exited", "failed"}
            /\ \A n \in DOMAIN rp : rp[n].pipe # p

(* A connection whose peer has closed does not hang: its read loop ends    *)
(* (or the whole loop stops), whether the close came before the            *)
(* connection was open, before the handshake or after it.                  *)
ClosedPipesEndTheirLoop ==
    \A p \in Pipes : eof[p] ~> (pc[p] \in {"exited", "failed"} \/ ~running)
=============================================================================
