--------------------------- MODULE MCPollHandlers ---------------------------
(* Two descriptors and four structs: a closing entry beside a live one each.  *)
EXTENDS PollHandlers, TLC

Perms == Permutations(Polls) \union Permutations(Fds)
=============================================================================
