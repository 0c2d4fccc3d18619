--------------------------- MODULE MCArbitraryPeer ---------------------------
(***************************************************************************)
(* ArbitraryPeer with the frames that exercise every branch of Pipe.run    *)
(* and of the Node's handlers.                                             *)
(***************************************************************************)
EXTENDS ArbitraryPeer, TLC

CONSTANTS p1, p2, n1, n2, x1, x2, x3

MCValues == 0..1
MCDefault == 0
MCStartup == (x1 :> n1) @@ (x2 :> n1)

MCPeerFrames ==
    { Handshake("QtRO 1.3", "u32"), Handshake("Bogus", "u32"),
      Handshake("QDataStream", "u8"), Handshake("NotUtf8", "u8"),
      ObjectList(<<>>), ObjectList(<<n1>>),
      InitPacket(n1, 1), InitPacket(n2, 1), InitPacket(n1, Unsupported),
      InvokePacket(n1, "fChanged", 1), PropertyChange(n1, Unsupported),
      PropertyChange(n1, 1), Bare("Pong"), Bare("Ping") }

\* A valid Handshake, as a Qt host sends first.
MCGoodFirst == {Handshake("QtRO 1.3", "u32")}

\* A first frame that is not a Handshake.
MCBadFirst == {InitPacket(n1, 1)}

\* An InitPacket, then a Handshake with an unknown version.
MCLateBadHandshake == {InitPacket(n1, 1), Handshake("Bogus", "u32")}
=============================================================================
