-------------------------------- MODULE Panels --------------------------------
(***************************************************************************)
(* The two panels of the proxy, the dashboard in a browser and the terminal *)
(* user interface, on one list of machines that other clients edit too.    *)
(***************************************************************************)
EXTENDS Dashboard, TerminalUI

VARIABLE panel   \* bound: the panel somebody uses; others edit through any client

vars == <<registry, inputs, page, terminal, panel>>

Init ==
  /\ panel \in {"browser", "terminal"}
  /\ registry \in Registries[panel] /\ inputs = 0
  /\ PageInit /\ TerminalInit

\* Another client edits, the other panel for one.
Others ==
  /\ OtherClientEdits
  /\ excused' = TRUE
  /\ UNCHANGED <<commands, list, power, editing, served, terminal>>

Next ==
  /\ \/ panel = "browser" /\ PageStep /\ UNCHANGED terminal
     \/ panel = "terminal" /\ (Start \/ TerminalStep) /\ UNCHANGED page
     \/ Others
  /\ UNCHANGED panel

\* The page's timers fire and its requests end, answered or failed: the proxy
\* bounds its own requests to a machine by a time-out.
PageFairness ==
  /\ WF_page(panel = "browser" /\ (PollReads \/ PollEnds))
  /\ \A m \in Macs : WF_page(panel = "browser" /\ TaskOf(m))

Spec == Init /\ [][Next]_vars /\ PageFairness /\ TerminalFairness

TypeOK == PageTypeOK /\ TerminalTypeOK

\* Whatever is sent and edited, the page goes on to show new statuses: not every
\* poll is dropped, and the loop never ends.
StatusesRefresh ==
  panel = "browser" => []<><<poll.on /\ ~poll'.on /\ poll.sameEpoch>>_page

\* Neither panel gets stuck: on the page every command ends and the statuses go on
\* to be refreshed, the terminal catches up with the proxy's list.
PanelsGoOn == CommandsEnd /\ StatusesRefresh /\ TerminalCatchesUp
=============================================================================
