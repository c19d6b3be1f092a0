------------------------ MODULE MCTransferPipeline ------------------------
(* One transfer and two processes of the API, which are interchangeable.    *)
EXTENDS TransferPipeline, TLC

CONSTANTS t1, p1, p2

MCSymmetry == Permutations(Procs)
=============================================================================
