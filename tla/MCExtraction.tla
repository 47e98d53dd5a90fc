----------------------------- MODULE MCExtraction -----------------------------
(* Two REST clients and the MCP identity compete for two slots, and for a  *)
(* store that two large batches overfill.                                  *)
EXTENDS Extraction, TLC

MCSymmetry == Permutations(Leases)
=============================================================================
