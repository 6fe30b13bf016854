---------------------------- MODULE MCRobotBridge ----------------------------
EXTENDS RobotBridge, TLC
Symmetric == Permutations(Arms) \cup Permutations(Plans) \cup Permutations(Tasks)
=============================================================================
