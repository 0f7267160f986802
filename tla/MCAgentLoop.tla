---------------------------- MODULE MCAgentLoop ----------------------------
\* One thread, two turns of up to two rounds, so that the second turn reuses
\* the resume keys and the checkpoint files of the first.
EXTENDS AgentLoop

MCTools == {"read", "write"}
MCSensitive == {"write"}
MCBatches == {<<>>, <<"read", "write">>}
MCWaits == 1..4
MCDecisions == 1..2
=============================================================================
