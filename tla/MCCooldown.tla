----------------------------- MODULE MCCooldown -----------------------------
(* Two keys and a clock that runs past two windows.                        *)
EXTENDS Cooldown

=============================================================================
