--------------------------- MODULE MCAgenticMission ---------------------------
EXTENDS AgenticMission, TLC
B(c, o, t) == [calls |-> c, overlap |-> o, troubles |-> t]
Small == [k \in Kinds |-> CASE k = "artifact" -> B(5, 3, 1) [] k = "live" -> B(4, 1, 1)
                            [] k = "compensated" -> B(4, 4, 2) [] k = "shadow" -> B(4, 4, 2)]
Alike == Permutations(Requests)
===============================================================================
