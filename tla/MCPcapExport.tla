----------------------------- MODULE MCPcapExport -----------------------------
(* A small instance of PcapExport for TLC.                                   *)
EXTENDS PcapExport

MCStages == {{"post"}, {"pre", "post"}}
==============================================================================
