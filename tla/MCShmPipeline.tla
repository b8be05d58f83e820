---------------------------- MODULE MCShmPipeline ----------------------------
(* Small instances of the shared memory pipeline for TLC.                  *)
EXTENDS ShmPipeline

PlainResults == {1}
AllButErrors == {"calc", "trap", "quit"}
QuitOnly == {"quit"}
==============================================================================
