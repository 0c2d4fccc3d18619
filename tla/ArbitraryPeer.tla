---------------------------- MODULE ArbitraryPeer ----------------------------
(***************************************************************************)
(* The replica client of ReplicaClient connected to peers that may write   *)
(* any frame of PeerFrames in any order, and may close the connection at   *)
(* any time: the protocol errors of spec section 7 (bad first frame,       *)
(* unknown handshake version, unknown packet kind, unsupported variant,    *)
(* packets for names never acquired) all come from such a peer.  The peer  *)
(* ignores what the client writes.                                         *)
(***************************************************************************)
EXTENDS ReplicaClient

CONSTANTS
    FirstFrames,  \* the frames a peer may write first
    PeerFrames,   \* the frames a peer may write after its first
    MaxSends,     \* bound on the frames a peer writes on one connection
    PeerMayClose  \* TRUE iff a peer may close its connection

ASSUME MaxSends \in Nat /\ PeerMayClose \in BOOLEAN

VARIABLE sent     \* sent[p]: frames the peer of p has written so far

peerVars == <<sent>>
vars == <<clientVars, peerVars>>

UnchangedOnPeer ==
    UNCHANGED <<pc, handshake, queue, pipes, dispatcher, running, rp, owner,
                live, calls, out, accepted>>

PeerSend(p, f) ==
    /\ ~eof[p]
    /\ sent[p] < MaxSends
    /\ f \in IF sent[p] = 0 THEN FirstFrames ELSE PeerFrames
    /\ sent' = [sent EXCEPT ![p] = @ + 1]
    /\ wire' = [wire EXCEPT ![p] = Append(@, f)]
    /\ UNCHANGED eof
    /\ UnchangedOnPeer

PeerClose(p) ==
    /\ PeerMayClose
    /\ ~eof[p]
    /\ eof' = [eof EXCEPT ![p] = TRUE]
    /\ UNCHANGED <<wire, sent>>
    /\ UnchangedOnPeer

Init == ClientInit /\ sent = [p \in Pipes |-> 0]

Next ==
    \/ ClientNext /\ UNCHANGED peerVars
    \/ \E p \in Pipes : PeerClose(p) \/ \E f \in FirstFrames \cup PeerFrames : PeerSend(p, f)

Spec == Init /\ [][Next]_vars

\* the peer's own steps need no fairness: a peer may go quiet for ever
FairSpec == Spec /\ ClientFairness
=============================================================================
