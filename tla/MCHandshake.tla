---------------------------- MODULE MCHandshake ----------------------------
(* Three unit types on two corelets; the signals of a load-compute-store     *)
(* pipeline: load with compute, load with store (a back edge), compute with  *)
(* store, and one in which all peers of a unit are in one hand-off.          *)
EXTENDS Handshake

CONSTANTS load, sfu, store, other

MCUnit == {load, sfu, store, other}

Together(S) == [u \in MCUnit |-> IF u \in S THEN S \ {u} ELSE {}]

MCPeer == << Together({load, sfu}), Together({sfu, store}),
             Together({load, store}), Together({load, sfu, other}),
             Together({other, store}) >>

(* The programs stop when every unit is done. *)
MCNext == Next \/ (Finished /\ UNCHANGED vars)
MCSpec == Init /\ [][MCNext]_vars /\ \A u \in Unit : WF_vars(UnitStep(u))
=============================================================================
