----------------------------- MODULE MCPollApi -----------------------------
(* PollApi for TLC.                                                        *)
EXTENDS PollApi, TLC

(* Nothing, data both ways, a connection reset by the peer.                *)
AnyCase == {{}, {"IN", "OUT"}, {"ERR", "HUP"}}
AnyData == Permutations(Data)
=============================================================================
