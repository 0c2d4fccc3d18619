---------------------------- MODULE ReplicaCache ----------------------------
(***************************************************************************)
(* What the client's replica cache promises, stated without pipes, queues, *)
(* frames or tasks.  Each acquired object name has one cache entry:        *)
(* unbound with the class defaults until a source initialises it, then    *)
(* bound to that source and holding the source's value at that moment.    *)
(* Sources change their values on their own; a cache entry follows only   *)
(* when it is initialised again, and it is never removed or unbound.      *)
(*                                                                         *)
(* This is the promise the code keeps (ReplicaPrivate.initialize is the   *)
(* only writer of the cache), not the stronger one of spec sections 3 and *)
(* 4.5, under which a PropertyChangePacket also updates it.               *)
(***************************************************************************)
EXTENDS TLC

CONSTANTS
    Pipes,      \* the sources (one behind each connection)
    Names,      \* object names
    Values,     \* property vectors
    Default,    \* the vector of a cache not yet initialised
    NoPipe,     \* "not bound"
    Hosted,     \* Hosted[p]: the names source p remotes
    Initial     \* the names acquired before anything else happens

VARIABLES
    cache,      \* name -> [pipe, properties]
    source      \* source[p][n]: the value of object n at source p

Unbound == [pipe |-> NoPipe, properties |-> Default]

Init ==
    /\ cache = [n \in Initial |-> Unbound]
    /\ DOMAIN source = Pipes
    /\ \A p \in Pipes : source[p] \in [Hosted[p] -> Values]

\* The application acquires a name it had no cache for.
Acquire(n) ==
    /\ n \notin DOMAIN cache
    /\ cache' = cache @@ (n :> Unbound)
    /\ UNCHANGED source

\* Source p initialises the cache of n with the value it has now.
Initialize(n, p) ==
    /\ n \in DOMAIN cache
    /\ n \in Hosted[p]
    /\ cache' = [cache EXCEPT ![n] = [pipe |-> p, properties |-> source[p][n]]]
    /\ UNCHANGED source

\* Source p changes the value of n; no cache changes with it.
Write(p, n, v) ==
    /\ n \in Hosted[p]
    /\ source' = [source EXCEPT ![p][n] = v]
    /\ UNCHANGED cache

Next ==
    \/ \E n \in Names : Acquire(n)
    \/ \E n \in Names, p \in Pipes : Initialize(n, p)
    \/ \E p \in Pipes, n \in Names, v \in Values : Write(p, n, v)

Spec == Init /\ [][Next]_<<cache, source>>
=============================================================================
