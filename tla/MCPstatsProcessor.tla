-------------------------- MODULE MCPstatsProcessor -------------------------
(* Instances of PstatsProcessor for TLC. *)
EXTENDS PstatsProcessor

\* The action shares one family with the queue; ctime has no comment.
MCFamily == <<"ctime", "failed", "processed", "size">>
MCKnown  == {"failed", "processed", "size"}
MCSource == <<"action", "queue">>
MCStats  == [action |-> <<"processed", "failed", "ctime">>, queue |-> <<"size", "processed">>]
=============================================================================
