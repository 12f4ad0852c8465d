---------------------------- MODULE MCAgentStream ----------------------------
EXTENDS AgentStream
CONSTANTS s1, s2, g1, g2, p1, h1
MCToolOf == [k \in Calls |-> CASE k \in {s1, s2} -> "search" [] k \in {g1, g2} -> "execute"
                               [] k = p1 -> "publish_artifact" [] OTHER -> "get_skill_memory"]
=============================================================================
