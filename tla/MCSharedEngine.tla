--------------------------- MODULE MCSharedEngine ---------------------------
EXTENDS SharedEngine, TLC

(* The last of three commands runs alone.                                  *)
MCNext == Next /\ (begun' = 3 /\ begun = 2 => Active = {})
MCSpec == Init /\ [][MCNext]_vars

Alike == Permutations(Commands) \cup Permutations(Services) \cup Permutations(Configs)
=============================================================================
