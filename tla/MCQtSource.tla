----------------------------- MODULE MCQtSource -----------------------------
(***************************************************************************)
(* QtSource instantiated as main() uses it: proxies s and s2 of Simple     *)
(* acquired under "DifferentName" before node.connect(DEFAULT_URL).        *)
(***************************************************************************)
EXTENDS QtSource, TLC

CONSTANTS p1, p2, n1, n2, x1, x2, x3

\* Property vectors: 0 is Simple.defaults(), 1 the source's Simple(3, 3.14).
MCValues == 0..2
MCDefault == 0
MCHostInit == 1

\* s = node.acquire(Simple, "DifferentName"); s2 = node.acquire(...)
MCStartup == (x1 :> n1) @@ (x2 :> n1)

\* One host remoting n1 behind every pipe.
MCHostedOne == [p \in {p1, p2} |-> {n1}]
MCHostedOne1 == [p \in {p1} |-> {n1}]

\* A host that remotes two objects, and one that remotes none.
MCHostedTwo1 == [p \in {p1} |-> {n1, n2}]
MCHostedNone1 == [p \in {p1} |-> {}]
=============================================================================
