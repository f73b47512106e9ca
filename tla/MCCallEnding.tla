---------------------------- MODULE MCCallEnding ----------------------------
(* A workflow of three nodes: two extract, one of them a disposition, and   *)
(* the end may be reached from both.                                        *)
EXTENDS CallEnding

CONSTANTS greet, ask, bye

MCNodes == {greet, ask, bye}
MCEndNodes == {bye}
MCEdges == {<<greet, ask>>, <<greet, bye>>, <<ask, bye>>}
MCExtracting == {greet, ask}
MCDisposing == {ask}
MCReasons == {"qualified", "tool", "duration", "error"}
=============================================================================
