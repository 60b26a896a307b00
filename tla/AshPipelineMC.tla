--------------------------- MODULE AshPipelineMC ---------------------------
(* Values for the constants of AshPipeline.                                 *)
EXTENDS AshPipeline

MCCodes == {0, 3}
=============================================================================
