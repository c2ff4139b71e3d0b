----------------------------- MODULE MCPoolIndex -----------------------------
(* A pool and a Sanctum pool that share SOL; each has a mint and a pair of   *)
(* its own.                                                                 *)
EXTENDS PoolIndex

MCKeys   == {"SOL", "mint1", "mint2", "pair1", "pair2"}
MCKeysOf == [p \in {"pool1", "pool2"} |->
               IF p = "pool1" THEN <<"SOL", "mint1", "pair1">> ELSE <<"SOL", "mint2", "pair2">>]
=============================================================================
