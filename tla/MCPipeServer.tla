---------------------------- MODULE MCPipeServer ----------------------------
(* PipeServer on small instances.                                          *)
EXTENDS PipeServer
=============================================================================
