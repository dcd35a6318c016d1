----------------------------- MODULE MCAgentTurn -----------------------------
(***************************************************************************)
(* AgentTurn on a small instance.                                          *)
(***************************************************************************)
EXTENDS AgentTurn

CONSTANTS search_docs, get_trace, bogus, fast, quality, other

\* Two searches; a tool that does not exist.
SomeLists == {<<search_docs, search_docs>>, <<bogus>>}
=============================================================================
