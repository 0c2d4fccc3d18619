------------------------------ MODULE QtSource ------------------------------
(***************************************************************************)
(* The replica client of ReplicaClient connected to well-behaved Qt hosts: *)
(* each pipe p reaches a QRemoteObjectHost that remotes the objects        *)
(* Hosted[p], as examples/remoteobjects/pyside/source.py does with         *)
(* node.enableRemoting(working, "DifferentName").                          *)
(*                                                                         *)
(* The host side of the protocol is not in this repository; its behaviour  *)
(* is taken from the spec: it greets with a Handshake and an ObjectList,   *)
(* answers AddObject with an InitPacket, applies property writes and       *)
(* announces a change with a PropertyChangePacket and the notify signal    *)
(* as an InvokePacket.  The slot reset() of source.py only prints.         *)
(***************************************************************************)
EXTENDS ReplicaClient

CONSTANTS
    Hosted,        \* Hosted[p]: the names remoted by the host behind p
    HostInit,      \* the property vector the hosted objects start with
    Dialects,      \* the handshake framings the hosts use
    HostMayClose   \* TRUE iff a host may close its connection

ASSUME /\ Hosted \in [Pipes -> SUBSET Names]
       /\ HostInit \in Values
       /\ Dialects \subseteq {"u32", "u8", "u8zero"}
       /\ HostMayClose \in BOOLEAN

VARIABLES
    hostConn,    \* hostConn[p]: "listening", "connected" or "closed"
    hostVal,     \* hostVal[p][n]: the source object's property vector
    hostAdded    \* hostAdded[p]: the names the client on p has added

hostVars == <<hostConn, hostVal, hostAdded>>
vars == <<clientVars, hostVars>>

HostStart ==
    /\ hostConn = [p \in Pipes |-> "listening"]
    /\ hostVal = [p \in Pipes |-> [n \in Hosted[p] |-> HostInit]]
    /\ hostAdded = [p \in Pipes |-> {}]

UnchangedOnHost ==
    UNCHANGED <<pc, handshake, queue, pipes, dispatcher, running, rp, owner,
                live, calls, accepted>>

\* On a new connection the host sends its Handshake and its object list.
HostGreet(p) ==
    /\ pc[p] = "reading"
    /\ hostConn[p] = "listening"
    /\ \E d \in Dialects, l \in SetToSeqs(Hosted[p]) :
          wire' = [wire EXCEPT ![p] = <<Handshake("QtRO 1.3", d), ObjectList(l)>>]
    /\ hostConn' = [hostConn EXCEPT ![p] = "connected"]
    /\ UNCHANGED <<eof, out, hostVal, hostAdded>>
    /\ UnchangedOnHost

Request(p) ==
    /\ hostConn[p] = "connected"
    /\ out[p] # <<>>
    /\ out' = [out EXCEPT ![p] = Tail(@)]

Req(p) == Head(out[p])

\* AddObject of a remoted object is answered with its InitPacket.
HostAddObject(p) ==
    LET n == Req(p).name IN
    /\ Request(p)
    /\ Req(p).kind = "AddObject"
    /\ IF n \in Hosted[p]
       THEN /\ hostAdded' = [hostAdded EXCEPT ![p] = @ \cup {n}]
            /\ wire' = [wire EXCEPT ![p] = Append(@, InitPacket(n, hostVal[p][n]))]
       ELSE UNCHANGED <<hostAdded, wire>>
    /\ UNCHANGED <<eof, hostConn, hostVal>>
    /\ UnchangedOnHost

(* A property write: the generated setter changes the value only if it     *)
(* differs, and a change is sent to the client as a PropertyChangePacket   *)
(* and the notify signal fChanged(value).                                  *)
HostWriteProperty(p) ==
    LET n == Req(p).name
        v == Req(p).val
    IN
    /\ Request(p)
    /\ Req(p).kind = "InvokePacket" /\ Req(p).call = "setter"
    /\ IF n \in hostAdded[p] /\ v # hostVal[p][n]
       THEN /\ hostVal' = [hostVal EXCEPT ![p][n] = v]
            /\ wire' = [wire EXCEPT ![p] =
                          @ \o <<PropertyChange(n, v), InvokePacket(n, "fChanged", v)>>]
       ELSE UNCHANGED <<hostVal, wire>>
    /\ UNCHANGED <<eof, hostConn, hostAdded>>
    /\ UnchangedOnHost

\* Simple.reset() in source.py only prints.
HostInvokeSlot(p) ==
    /\ Request(p)
    /\ Req(p).kind = "InvokePacket" /\ Req(p).call = "reset"
    /\ UNCHANGED <<wire, eof, hostConn, hostVal, hostAdded>>
    /\ UnchangedOnHost

\* The host process exits or drops the connection.
HostClose(p) ==
    /\ HostMayClose
    /\ hostConn[p] # "closed"
    /\ hostConn' = [hostConn EXCEPT ![p] = "closed"]
    /\ eof' = [eof EXCEPT ![p] = TRUE]
    /\ UNCHANGED <<wire, out, hostVal, hostAdded>>
    /\ UnchangedOnHost

HostServe(p) ==
    HostGreet(p) \/ HostAddObject(p) \/ HostWriteProperty(p) \/ HostInvokeSlot(p)

Init == ClientInit /\ HostStart

Next ==
    \/ ClientNext /\ UNCHANGED hostVars
    \/ \E p \in Pipes : HostServe(p) \/ HostClose(p)

Spec == Init /\ [][Next]_vars

\* The host serves every request; closing is never forced.
FairSpec ==
    /\ Spec
    /\ ClientFairness
    /\ \A p \in Pipes : WF_vars(HostServe(p))

-----------------------------------------------------------------------------
TypeOKHost ==
    /\ TypeOK
    /\ hostConn \in [Pipes -> {"listening", "connected", "closed"}]
    /\ \A p \in Pipes : hostVal[p] \in [Hosted[p] -> Values]
    /\ \A p \in Pipes : hostAdded[p] \subseteq Hosted[p]

(* Every object main() acquires before the loop starts, and that a host    *)
(* remotes, is eventually initialised: the ObjectList -> AddObject ->      *)
(* InitPacket exchange completes and binds its cache to a pipe.            *)
AcquiredObjectsInitialized ==
    \A n \in Range(Startup) :
        (\E p \in Pipes : n \in Hosted[p]) => <>(rp[n].pipe # NoPipe)

\* Nothing is in flight between the client and the hosts.
Quiescent ==
    /\ queue = <<>>
    /\ \A p \in Pipes : wire[p] = <<>> /\ out[p] = <<>>

(* The cache mirrors the source (spec section 3: the cached property       *)
(* sequence mirrors remote state; section 4.5: a PropertyChangePacket      *)
(* updates it): once every packet has been delivered and handled, a bound  *)
(* cache holds the value its host has.                                     *)
CacheMirrorsSource ==
    running /\ Quiescent =>
        \A n \in DOMAIN rp :
            rp[n].pipe # NoPipe => rp[n].properties = hostVal[rp[n].pipe][n]

(* The client refines the abstract cache of ReplicaCache, with the hosts'  *)
(* objects as its sources: the Node's ReplicaPrivate map is the cache and  *)
(* hostVal the sources.  Every onInitPacket step binds the cache to the    *)
(* pipe it came from with the value that host holds at the moment the      *)
(* Node handles it, although the host sent it earlier and property writes  *)
(* may be in flight on other pipes; no other client step changes a bound   *)
(* cache, and acquire only ever adds unbound entries.                      *)
Cache == INSTANCE ReplicaCache WITH cache <- rp, source <- hostVal,
                                    Initial <- Range(Startup)

CacheRefinement == Cache!Spec
=============================================================================
