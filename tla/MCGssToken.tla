----------------------------- MODULE MCGssToken -----------------------------
(* Instance of GssToken for TLC.                                             *)
EXTENDS GssToken, TLC

CONSTANTS k1, k2, kx

\* One payload ends like the filler of another.
MCPayloads == {<<>>, <<[data |-> 1], [data |-> 0]>>}

MCSymmetry == Permutations({k1, k2})
=============================================================================
