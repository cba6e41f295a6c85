-------------------------- MODULE MCWebLifecycle --------------------------
(* Instances of WebLifecycle for TLC: the constants come from the cfg.     *)
EXTENDS WebLifecycle, TLC
============================================================================
