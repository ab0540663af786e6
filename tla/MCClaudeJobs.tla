---------------------------- MODULE MCClaudeJobs ----------------------------
\* Small instances of ClaudeJobs for TLC.
EXTENDS ClaudeJobs

NoPrompts       == [j \in Job |-> AllKinds \ {"prompt"}]
PromptAndAction == [j \in Job |-> IF j = 1 THEN {"prompt"} ELSE {"action"}]

StartLost   == {"push", "start"}
AllLost     == {"push", "start", "events", "end"}
=============================================================================
