----------------------------- MODULE TerminalUI ------------------------------
(***************************************************************************)
(* The terminal user interface (tui.rs): one loop that draws, waits up to  *)
(* 100 ms for a key, handles it with every request it makes, and refreshes *)
(* the list when 30 seconds have passed since the last success.  It keeps  *)
(* the list and the INDEX of the selected machine: wake-up, turn-off and   *)
(* deletion name whatever machine is at that index when they are sent.     *)
(*                                                                         *)
(* Left out: statuses, the access history and the messages, which are only *)
(* shown, and the wake-up and turn-off requests, which change no list.     *)
(***************************************************************************)
EXTENDS PanelServer

VARIABLES
  stage,              \* where the loop is
  listed, selected,   \* App.machines and App.selected (from 0)
  confirm,            \* App.confirm_delete
  due, failed,        \* 30 seconds have passed; the last refresh failed
  armed, moved        \* history: the machine selected when the deletion was
                      \* asked for; a refresh has put another in its place

app == <<listed, selected, confirm, armed, moved>>
clock == <<due, failed>>
terminal == <<stage, app, clock>>

Stages == {"closed", "refresh", "asked", "poll", "handled", "delete", "quit"}

Selected == IF selected < Len(listed) THEN listed[selected + 1] ELSE NoMac

Following == IF listed = <<>> THEN 0 ELSE (selected + 1) % Len(listed)

Previous == IF listed = <<>> THEN 0
            ELSE IF selected = 0 THEN Len(listed) - 1 ELSE selected - 1

TerminalInit ==
  /\ stage = "closed"
  /\ listed = <<>> /\ selected = 0
  /\ confirm = FALSE
  /\ due = TRUE /\ failed = FALSE
  /\ armed = NoMac /\ moved = FALSE

Start == /\ stage = "closed" /\ stage' = "refresh"
         /\ UNCHANGED <<registry, inputs, app, clock>>

Clamp_Not(list) == selected

\* The selected index, brought back into a list that has become shorter.
Clamp(list) == IF selected < Len(list) THEN selected
               ELSE IF list = <<>> THEN 0 ELSE Len(list) - 1

\* A refresh that a key asked for is followed by the check whether one is due.
Refreshed == /\ stage \in {"refresh", "asked"}
             /\ stage' = IF stage = "asked" THEN "handled" ELSE "poll"

At(list, i) == IF i < Len(list) THEN list[i + 1] ELSE NoMac

RefreshSucceeds ==
  /\ Refreshed
  /\ listed' = registry
  /\ selected' = Clamp(registry)
  /\ moved' = (moved \/ (confirm /\ At(registry, selected') # Selected))
  /\ due' = FALSE /\ failed' = FALSE
  /\ UNCHANGED <<registry, inputs, confirm, armed>>

\* last_refresh stays: the loop tries again at once.
RefreshFails ==
  /\ Refreshed
  /\ failed' = TRUE
  /\ UNCHANGED <<registry, inputs, app, due>>

Elapse == /\ ~due /\ stage \notin {"closed", "quit"} /\ due' = TRUE
          /\ UNCHANGED <<registry, inputs, stage, app, failed>>

\* event::poll times out, or reads what is no key of the program's.
NoKey == /\ stage = "poll" /\ stage' = "handled"
         /\ UNCHANGED <<registry, inputs, app, clock>>

RefreshIfDue_NotInQuestion ==
  /\ stage = "handled"
  /\ stage' = IF due /\ ~confirm THEN "refresh" ELSE "poll"
  /\ UNCHANGED <<registry, inputs, app, clock>>

RefreshIfDue ==
  /\ stage = "handled"
  /\ stage' = IF due THEN "refresh" ELSE "poll"
  /\ UNCHANGED <<registry, inputs, app, clock>>

Quit == /\ stage = "poll" /\ stage' = "quit"
        /\ UNCHANGED <<registry, inputs, app, clock>>

Disarm == confirm' = FALSE /\ armed' = NoMac /\ moved' = FALSE

Navigate_ThroughOverlay ==
  /\ stage = "poll" /\ stage' = "handled"
  /\ selected' \in {Following, Previous}
  /\ UNCHANGED <<registry, inputs, listed, confirm, armed, moved, clock>>

\* j and k; the overlay takes every key for itself.
Navigate ==
  /\ stage = "poll" /\ ~confirm /\ stage' = "handled"
  /\ selected' \in {Following, Previous}
  /\ UNCHANGED <<registry, inputs, listed, confirm, armed, moved, clock>>

RefreshKey == /\ stage = "poll" /\ ~confirm /\ stage' = "asked"
              /\ UNCHANGED <<registry, inputs, app, clock>>

AskDelete ==
  /\ stage = "poll" /\ ~confirm /\ stage' = "handled"
  /\ Selected # NoMac
  /\ confirm' = TRUE /\ armed' = Selected /\ moved' = FALSE
  /\ UNCHANGED <<registry, inputs, listed, selected, clock>>

CancelDelete ==
  /\ stage = "poll" /\ confirm /\ stage' = "handled"
  /\ Disarm
  /\ UNCHANGED <<registry, inputs, listed, selected, clock>>

\* y: the machine that is selected now is named in the request.
ConfirmDelete ==
  /\ stage = "poll" /\ confirm
  /\ IF Selected = NoMac
     THEN stage' = "handled" /\ Disarm
     ELSE stage' = "delete" /\ confirm' = FALSE /\ UNCHANGED <<armed, moved>>
  /\ UNCHANGED <<registry, inputs, listed, selected, clock>>

\* The proxy may delete the machine and the answer be late all the same.
DeleteSucceeds ==
  /\ stage = "delete" /\ stage' = "asked"
  /\ registry' = Edited(registry, [kind |-> "delete", from |-> Selected, to |-> NoMac])
  /\ Disarm
  /\ UNCHANGED <<inputs, listed, selected, clock>>

DeleteFails ==
  /\ stage = "delete" /\ stage' = "handled"
  /\ registry' \in {registry, Edited(registry, [kind |-> "delete", from |-> Selected, to |-> NoMac])}
  /\ Disarm
  /\ UNCHANGED <<inputs, listed, selected, clock>>

TerminalStep ==
  \/ RefreshSucceeds \/ RefreshFails \/ NoKey \/ RefreshIfDue \/ Elapse
  \/ Quit \/ Navigate \/ RefreshKey \/ AskDelete \/ CancelDelete
  \/ ConfirmDelete \/ DeleteSucceeds \/ DeleteFails

\* The loop goes on, time passes, and every request ends: the client gives up
\* after three seconds.
TerminalFairness ==
  /\ WF_terminal(\/ RefreshSucceeds \/ RefreshFails \/ NoKey \/ RefreshIfDue
                 \/ DeleteSucceeds \/ DeleteFails)
  /\ WF_terminal(Elapse)

\* The selection is a line of the list, whatever other clients have deleted
\* since it was made (App::next, previous and refresh).
SelectionExists == selected < Len(listed) \/ (listed = <<>> /\ selected = 0)

TerminalTypeOK ==
  /\ stage \in Stages
  /\ listed \in Seq(Macs) /\ selected \in Nat /\ SelectionExists
  /\ confirm \in BOOLEAN /\ due \in BOOLEAN /\ failed \in BOOLEAN
  /\ armed \in Macs \cup {NoMac} /\ moved \in BOOLEAN

\* The machine that is deleted is the one that was selected when the deletion
\* was asked for, unless a refresh has moved another machine to its line while
\* the question was shown (handle_key, delete_selected).
DeletesTheChosen ==
  [][stage = "poll" /\ stage' = "delete" => Selected = armed \/ moved]_terminal

\* Once nobody edits the list any more, the terminal shows it for good, has been
\* left, or says that its last refresh failed (refresh_if_due).
TerminalCatchesUp ==
  <>[](stage \in {"closed", "quit"} \/ failed \/ listed = registry)
=============================================================================
