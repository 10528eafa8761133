------------------------------ MODULE MCPanels -------------------------------
(* Small lists for Panels: one machine and an address to add for the browser, *)
(* two machines for the terminal.                                           *)
EXTENDS Panels

CONSTANTS m1, m2

MCMacs == {m1, m2}
MCRoutes == {m1}
MCRegistries == [p \in {"browser", "terminal"} |->
                   IF p = "browser" THEN {<<m1>>} ELSE {<<m1, m2>>}]
=============================================================================
