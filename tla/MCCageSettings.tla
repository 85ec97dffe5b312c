----------------------------- MODULE MCCageSettings -----------------------------
(***************************************************************************)
(* Instances of module CageSettings for TLC: an image without env and one  *)
(* with, and .cage.yml files that differ in one thing or another.          *)
(***************************************************************************)
EXTENDS CageSettings

MCImageEnv == [alpine |-> <<>>, built |-> [TOOL |-> "image", HOME |-> "image"]]

MCNames == <<"HOME", "KEY", "TOOL">>

Plain == [image |-> "alpine", env |-> <<>>, memory |-> 0, isolation |-> TRUE,
          shares |-> FALSE, valid |-> TRUE]
MCProjects ==
    {Plain,
     [Plain EXCEPT !.memory = 2, !.isolation = FALSE],
     [Plain EXCEPT !.valid = FALSE],
     [Plain EXCEPT !.shares = TRUE, !.env = [KEY |-> "a"]],
     [Plain EXCEPT !.env = [KEY |-> "b"], !.memory = 2],
     [Plain EXCEPT !.image = "built"],
     [Plain EXCEPT !.image = "built", !.env = [TOOL |-> "project"]]}
NoEnvProjects == {Plain, [Plain EXCEPT !.memory = 2]}
EnvProjects == {Plain, [Plain EXCEPT !.env = [KEY |-> "a"]]}
BuiltProjects == {[Plain EXCEPT !.image = "built", !.env = [TOOL |-> "project"]]}
=============================================================================
