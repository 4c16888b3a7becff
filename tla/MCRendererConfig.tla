-------------------------- MODULE MCRendererConfig --------------------------
(***************************************************************************)
(* Instances of RendererConfig for TLC.                                     *)
(***************************************************************************)
EXTENDS RendererConfig

\* ./MediaServerPP, build/bin/MediaServerPP, and MediaServerPP through PATH.
Invocations == { <<".", "/", "server">>, <<"build", "/", "bin", "/", "server">>, <<"server">> }

\* The resources are next to the program.
BesideProgram == { <<".", "/">>, <<"build", "/", "bin", "/">> }
=============================================================================
