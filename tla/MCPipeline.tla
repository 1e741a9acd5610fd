----------------------------- MODULE MCPipeline -----------------------------
(***************************************************************************)
(* Pipeline on two kinds of line and three rules: "slow" has a cooldown  *)
(* and a level filter, "bad" a pattern that does not compile, "quick"      *)
(* neither. Every channel holds one element, so that every stage waits.    *)
(***************************************************************************)
EXTENDS Pipeline, TLC

CONSTANTS both, low

MCLevelOf == both :> "error" @@ low :> "info"
MCHits == {<<1, both>>, <<1, low>>, <<2, both>>, <<2, low>>, <<3, both>>}
MCMinLevel == <<"warn", "", "">>
MCCooldown == <<2, 0, 0>>
MCActions == <<<<"webhook", "file">>, <<"stdout">>, <<"tty">>>>
=============================================================================
