------------------------------- MODULE MCSetup -------------------------------
(***************************************************************************)
(* Setup for two runs at once of one executable and TDLib: two steps, so   *)
(* that one can fail and the other not.  Two runs are enough for every     *)
(* race on one target.                                                     *)
(***************************************************************************)
EXTENDS Setup, TLC

CONSTANTS r1, r2

MCRuns == {r1, r2}
MCTools == <<"xray_knife">>
MCBefore == {"absent", "broken", "unversioned", "old", "pinned"}
RunsAreAlike == Permutations(MCRuns)
=============================================================================
