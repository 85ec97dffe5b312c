----------------------------- MODULE MCIsolationNet -----------------------------
(***************************************************************************)
(* Instances of module IsolationNet for TLC: two cages whose names begin   *)
(* alike, and a third, with the ssh port of one of them.                   *)
(***************************************************************************)
EXTENDS IsolationNet, TLC

CONSTANTS build1, build2, web, cv_build, cv_web, p2222

MCVethOf == build1 :> cv_build @@ build2 :> cv_build @@ web :> cv_web
MCPortOf == build1 :> p2222 @@ build2 :> NoPort @@ web :> p2222
=============================================================================
