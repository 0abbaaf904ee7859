---------------------------- MODULE MCChatWindow ----------------------------
EXTENDS ChatWindow, TLC

Symmetry == Permutations(Agents) \cup Permutations(Sessions) \cup Permutations(Sends)
=============================================================================
