----------------------------- MODULE MCWorkspace -----------------------------
\* Model values for Workspace: two devices and two accounts that are alike.
EXTENDS Workspace, TLC
CONSTANTS d1, d2, a1, a2
MCDev == {d1, d2}
MCAccounts == {a1, a2}
MCTours == {{"files"}, {"apps"}, {"terminal"}}
Alike == Permutations(MCDev) \cup Permutations(MCAccounts)
==============================================================================
