---------------------------- MODULE MCHTTPProvider -----------------------------
(* Small instances of a provider call: all protocols, or one of them.        *)
EXTENDS HTTPProvider, TLC

CONSTANTS i1, i2, a, b

AllProtocols == {"openai_chat", "openai_responses", "anthropic_messages"}
Chat == {"openai_chat"}
Responses == {"openai_responses"}

Interchangeable == Permutations(Indices) \cup Permutations(CallIds)
================================================================================
