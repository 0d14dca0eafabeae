---------------------------- MODULE MCSandboxEnv ----------------------------
(* SandboxEnv for TLC: the tries of the code, three calls, two hard resets *)
EXTENDS SandboxEnv
=============================================================================
