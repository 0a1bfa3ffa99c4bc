----------------------------- MODULE AgentCalls -----------------------------
(***************************************************************************)
(* The launch calls of an AgentAdapter (src/src/agent-adapter.ts) and the  *)
(* idempotency keys they carry, as the adapter and the coordinator above   *)
(* it see them.                                                            *)
(***************************************************************************)
CONSTANTS Calls,  \* launch calls
          Keys,   \* idempotency keys
          Key,    \* the key of each call
          NoRun
=============================================================================
