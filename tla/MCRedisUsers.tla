---------------------------- MODULE MCRedisUsers ----------------------------
(* Instance of RedisUsers: one user to fight over, and the administrator   *)
(* in two spellings.                                                       *)
EXTENDS RedisUsers, TLC

MCFold == [u \in User |-> IF u = "OPS" THEN "ops" ELSE u]
MCPresetCommands == [p \in {"cache"} |-> {"get"}]
MCSymmetry == Permutations(Req)
=============================================================================
