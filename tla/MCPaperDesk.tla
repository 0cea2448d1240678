---------------------------- MODULE MCPaperDesk -----------------------------
(* PaperDesk for TLC.                                                      *)
EXTENDS PaperDesk, TLC

SymbolSymmetry == Permutations(Symbols)

=============================================================================
