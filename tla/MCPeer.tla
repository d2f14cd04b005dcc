-------------------------------- MODULE MCPeer --------------------------------
EXTENDS Peer

CONSTANTS local, a, b, res, inA, inB, outA, outB, iceA, iceB

\* Positions on a ring of 8, clockwise from the local peer.
Position == local :> 0 @@ a :> 2 @@ b :> 4 @@ res :> 3

MCValue  == [n \in Ids \cup Resources |-> Position[n]]
Wire == inA :> <<"in", a>> @@ inB :> <<"in", b>>
          @@ outA :> <<"out", a>> @@ outB :> <<"out", b>>
          @@ iceA :> <<"ice", a>> @@ iceB :> <<"ice", b>>

MCKind   == [s \in Sockets |-> Wire[s][1]]
MCRemote == [s \in Sockets |-> Wire[s][2]]
=============================================================================
