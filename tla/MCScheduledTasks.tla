--------------------------- MODULE MCScheduledTasks ---------------------------
(* Two suggested tasks and no pull requests, as in a store nothing wrote to.*)
EXTENDS ScheduledTasks, Integers
MCSuggestions == {0, -1}
MCPullRequests == <<>>
=============================================================================
