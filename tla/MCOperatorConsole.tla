------------------------- MODULE MCOperatorConsole --------------------------
(* Two runs, one of them ended; requests are interchangeable.              *)
EXTENDS OperatorConsole, TLC

AnyRequest == Permutations(Slots)
=============================================================================
