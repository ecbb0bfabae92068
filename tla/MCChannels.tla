----------------------------- MODULE MCChannels -----------------------------
(***************************************************************************)
(* Instances of Channels: the system of the repository with two PDs loaded *)
(* one after the other, and the channel ids of one of them left open.      *)
(***************************************************************************)
EXTENDS Channels, TLC

CONSTANTS root, pong, child, second, OwnId, PongId

(* The root's UART interrupt, the child's channel to pong and its right to  *)
(* the interrupt as in child_access_rights.xml, and a second PD, loaded by  *)
(* the child, that pings both pong and its loader.                          *)
MCPDs == {root, pong, child, second}
MCIds == {1, 4, 7, 29, OwnId, PongId}
MCStatic == {root, pong}
MCLoader == (child :> root) @@ (second :> child)
MCPriority == (root :> 253) @@ (pong :> 254) @@ (child :> 42) @@ (second :> 42)
MCWires ==
    {[a |-> child, ida |-> 1, b |-> pong, idb |-> 1],
     [a |-> second, ida |-> OwnId, b |-> pong, idb |-> PongId],
     [a |-> second, ida |-> 29, b |-> child, idb |-> 7]}
MCLines == {[pd |-> root, id |-> 0]}
MCInterrupts == {[pd |-> child, id |-> 4, parent |-> 0]}
MCPing ==
    LET pinged == (child :> {1}) @@ (second :> {OwnId, 29})
    IN  [p \in MCPDs |-> [id \in MCIds |->
            IF p \in {child, second} /\ id \in pinged[p]
            THEN IF id = 29 THEN 2 ELSE 1 ELSE 0]]
MCPonging == {pong}
=============================================================================
