------------------------------ MODULE Dashboard -------------------------------
(***************************************************************************)
(* The web dashboard (frontend/src/components/dashboard): one page, whose  *)
(* state is a set of signals shared by the tasks that wait for answers of  *)
(* the proxy.  There is one thread, but an answer is applied whenever it   *)
(* comes, in any order:                                                    *)
(*   - the list of machines, loaded once and on "Try again";               *)
(*   - the poll of the statuses, dropped when the epoch has changed;       *)
(*   - a command (wake, shut down) and its checks until it is confirmed;   *)
(*   - edits sent from the dialog, which may be closed before the answer;  *)
(*   - the client's setup shown in the dialog, kept only if it is the last *)
(*     that was asked for.                                                 *)
(*                                                                         *)
(* A status is reduced to online or not, the only distinction the buttons  *)
(* make.  Left out: filters, toasts, the activity log, the history panel,  *)
(* the scan, and the steps of the setup panel.                             *)
(***************************************************************************)
EXTENDS PanelServer

CONSTANTS
  Routes,      \* the machine the page's address may name, or NoMac
  MaxChecks    \* bound: checks of a command before it is given up (20)

ASSUME DashboardAssumption == Routes \subseteq Macs \cup {NoMac} /\ MaxChecks \in Nat \ {0}

VARIABLES
  machines, online,     \* DashboardState.machines; those whose status is Online
  pending, tasks,       \* DashboardState.pending; power's tasks
  poll,                 \* the poll of statuses
  loader, error,        \* the load of the list; its failure is shown
  route,                \* the machine in the page's address, not opened yet
  dialog, loads,        \* MachineDialog, and its requests of the client's setup
  edits,                \* edits that wait for their answer
  served, excused       \* history: requests the proxy has served, in its order;
                        \* an answer was lost or overtaken, or others edit

list == <<machines, loader, error, route>>
power == <<online, pending, tasks, poll>>
editing == <<dialog, loads, edits>>
history == <<served, excused>>
page == <<commands, list, power, editing, history>>

Panes == {"edit", "setup", "delete", "shutdown"}
NoSetup == [of |-> NoMac, ready |-> FALSE]
Closed == [open |-> FALSE]
Dialogs == [open : {TRUE}, mac : Macs \cup {NoMac}, creating : BOOLEAN,
            saving : BOOLEAN, pane : Panes,
            setup : [of : Macs \cup {NoMac}, ready : BOOLEAN]]
Loads == [mac : Macs, latest : BOOLEAN]
Tasks == [mac : Macs, wake : BOOLEAN, left : 0 .. MaxChecks, sent : BOOLEAN]

Sleeping == [on |-> FALSE]
Polls == [on : {TRUE}, read : SUBSET Macs, sameEpoch : BOOLEAN, older : SUBSET Macs]

PageInit ==
  /\ commands = 0
  /\ machines = <<>> /\ online = {}
  /\ pending = [m \in Macs |-> "no"] /\ tasks = {}
  /\ poll = Sleeping
  /\ loader = [step |-> "asked", list |-> <<>>] /\ error = FALSE
  /\ route \in Routes
  /\ dialog = Closed /\ loads = {} /\ edits = {}
  /\ served = <<>> /\ excused = FALSE

-----------------------------------------------------------------------------
(* What several handlers do.                                               *)

\* status_epoch: the poll that is under way will see that it has changed.
NextEpoch(p) == IF p.on THEN [p EXCEPT !.sameEpoch = FALSE] ELSE p

\* The answer with this id is applied; excused when the proxy served another first.
Answered(id) ==
  /\ served' = Without(served, id)
  /\ excused' = (excused \/ Head(served) # id)

\* load_setup: an earlier request is no longer the latest.
AskSetup(m, ls) == {[l EXCEPT !.latest = FALSE] : l \in ls} \cup {[mac |-> m, latest |-> TRUE]}

\* A dialog takes the place of another: its requests of the setup are cancelled
\* and its signals are gone when its edit is answered.
Orphans == {[e EXCEPT !.ours = FALSE] : e \in edits}

OpenDialog(m, creating) ==
  /\ dialog' = [open |-> TRUE, mac |-> m, creating |-> creating, saving |-> FALSE,
                pane |-> "edit", setup |-> NoSetup]
  /\ loads' = IF creating THEN {} ELSE AskSetup(m, {})
  /\ edits' = Orphans

-----------------------------------------------------------------------------
(* The list of machines.                                                   *)

ListServed ==
  /\ loader.step = "asked"
  /\ loader' = [step |-> "served", list |-> registry]
  /\ served' = Append(served, 0)
  /\ UNCHANGED <<registry, inputs, commands, machines, error, route, power, editing, excused>>

ListAnswered ==
  /\ loader.step = "served"
  /\ machines' = loader.list
  /\ loader' = [step |-> IF route = NoMac THEN "idle" ELSE "details", list |-> <<>>]
  /\ Answered(0)
  /\ UNCHANGED <<registry, inputs, commands, error, route, power, editing>>

ListFails ==
  /\ loader.step \in {"asked", "served"}
  /\ loader' = [step |-> "idle", list |-> <<>>]
  /\ error' = TRUE
  /\ served' = Without(served, 0)
  /\ UNCHANGED <<registry, inputs, commands, machines, route, power, editing, excused>>

\* The machine of the page's address is opened over whatever dialog is open.
RouteAnswered ==
  /\ loader.step = "details"
  /\ loader' = [loader EXCEPT !.step = "idle"] /\ route' = NoMac
  /\ \/ route \in Listed(registry) /\ OpenDialog(route, FALSE)
     \/ UNCHANGED editing
  /\ UNCHANGED <<registry, inputs, commands, machines, error, power, history>>

TryAgain ==
  /\ error /\ Input
  /\ loader' = [step |-> "asked", list |-> <<>>] /\ error' = FALSE
  /\ UNCHANGED <<registry, commands, machines, route, power, editing, history>>

-----------------------------------------------------------------------------
(* The poll of statuses, every five seconds.                               *)

\* The epoch is noted and every listed machine is asked; an error, or a machine
\* the proxy has not, is not online.  The answers are read at one moment: what
\* counts is which commands are confirmed after it.
PollReads ==
  /\ ~poll.on
  /\ \E on \in SUBSET (Listed(machines) \cap Listed(registry)) :
       poll' = [on |-> TRUE, read |-> on, sameEpoch |-> TRUE, older |-> {}]
  /\ UNCHANGED <<registry, inputs, commands, list, online, pending, tasks, editing, history>>

PollEnds_AnyEpoch ==
  /\ poll.on
  /\ online' = poll.read
  /\ poll' = Sleeping
  /\ UNCHANGED <<registry, inputs, commands, list, pending, tasks, editing, history>>

PollEnds_Returns ==
  /\ poll.on /\ poll.sameEpoch
  /\ online' = poll.read
  /\ poll' = Sleeping
  /\ UNCHANGED <<registry, inputs, commands, list, pending, tasks, editing, history>>

PollEnds ==
  /\ poll.on
  /\ online' = IF poll.sameEpoch THEN poll.read ELSE online
  /\ poll' = Sleeping
  /\ UNCHANGED <<registry, inputs, commands, list, pending, tasks, editing, history>>

-----------------------------------------------------------------------------
(* Commands.                                                               *)

\* fault: the command is sent whatever is pending
Power_Again(m, wake) ==
  /\ Command
  /\ pending' = [pending EXCEPT ![m] = IF wake THEN "wake" ELSE "off"]
  /\ tasks' = tasks \cup {[mac |-> m, wake |-> wake, left |-> MaxChecks, sent |-> FALSE]}
  /\ poll' = NextEpoch(poll)

\* power()
Power(m, wake) ==
  /\ pending[m] = "no" /\ Command
  /\ pending' = [pending EXCEPT ![m] = IF wake THEN "wake" ELSE "off"]
  /\ tasks' = tasks \cup {[mac |-> m, wake |-> wake, left |-> MaxChecks, sent |-> FALSE]}
  /\ poll' = NextEpoch(poll)

\* The button of a card, or of the dialog.
Wake(m) ==
  /\ m \in Listed(machines) \/ (dialog.open /\ dialog.pane = "edit" /\ dialog.mac = m)
  /\ m \notin online
  /\ Power(m, TRUE)
  /\ UNCHANGED <<registry, inputs, list, online, editing, history>>

ShutDown ==
  /\ dialog.open /\ dialog.pane = "shutdown"
  /\ Power(dialog.mac, FALSE)
  /\ dialog' = [dialog EXCEPT !.pane = "edit"]
  /\ UNCHANGED <<registry, inputs, list, online, loads, edits, history>>

Finish(t) == tasks' = tasks \ {t} /\ pending' = [pending EXCEPT ![t.mac] = "no"]

CommandSent(t) ==
  /\ ~t.sent /\ (t.wake \/ t.mac \in Listed(registry))
  /\ tasks' = (tasks \ {t}) \cup {[t EXCEPT !.sent = TRUE]}
  /\ UNCHANGED <<registry, inputs, commands, list, online, pending, poll, editing, history>>

CommandFails_KeepsPending(t) ==
  /\ ~t.sent /\ tasks' = tasks \ {t}
  /\ UNCHANGED <<registry, inputs, commands, list, online, pending, poll, editing, history>>

CommandFails(t) ==
  /\ ~t.sent /\ Finish(t)
  /\ UNCHANGED <<registry, inputs, commands, list, online, poll, editing, history>>

\* After three seconds the machine is as the command wants it.
CheckConfirms(t) ==
  /\ t.sent /\ t.mac \in Listed(registry)
  /\ online' = IF t.wake THEN online \cup {t.mac} ELSE online \ {t.mac}
  /\ poll' = IF ~poll.on THEN poll
             ELSE [NextEpoch(poll) EXCEPT !.older = @ \cup {t.mac}]
  /\ Finish(t)
  /\ UNCHANGED <<registry, inputs, commands, list, editing, history>>

CheckDoesNot_Forever(t) ==
  /\ t.sent
  /\ UNCHANGED <<registry, inputs, commands, list, online, pending, tasks, poll, editing, history>>

CheckDoesNot(t) ==
  /\ t.sent
  /\ IF t.left = 1 THEN Finish(t)
     ELSE tasks' = (tasks \ {t}) \cup {[t EXCEPT !.left = @ - 1]} /\ UNCHANGED pending
  /\ UNCHANGED <<registry, inputs, commands, list, online, poll, editing, history>>

-----------------------------------------------------------------------------
(* The dialog.                                                             *)

\* The page is behind the dialog while one is open.
Open(m) ==
  /\ ~dialog.open
  /\ \/ m \in Listed(machines) /\ OpenDialog(m, FALSE)
     \/ m = NoMac /\ OpenDialog(m, TRUE)
  /\ UNCHANGED <<registry, inputs, commands, list, power, history>>

\* Also while an edit waits for its answer.
Close ==
  /\ dialog.open /\ dialog' = Closed
  /\ loads' = {} /\ edits' = Orphans
  /\ UNCHANGED <<registry, inputs, commands, list, power, history>>

ShowPane(p) ==
  /\ dialog.open /\ dialog.pane = "edit" /\ ~dialog.creating /\ p # "edit"
  /\ p = "shutdown" => dialog.mac \in online /\ dialog.setup.ready
  /\ p \in {"shutdown", "delete"} => pending[dialog.mac] = "no"
  /\ dialog' = [dialog EXCEPT !.pane = p]
  /\ UNCHANGED <<registry, inputs, commands, list, power, loads, edits, history>>

\* Back from the setup or the history asks for the setup again.
Back ==
  /\ dialog.open /\ dialog.pane # "edit"
  /\ dialog.pane = "delete" => ~dialog.saving
  /\ dialog' = [dialog EXCEPT !.pane = "edit"]
  /\ loads' = IF dialog.pane = "setup" THEN AskSetup(dialog.mac, loads) ELSE loads
  /\ UNCHANGED <<registry, inputs, commands, list, power, edits, history>>

SetupAnswered_AnyRevision(l) ==
  /\ loads' = loads \ {l}
  /\ \/ \E ready \in BOOLEAN : dialog' = [dialog EXCEPT !.setup = [of |-> l.mac, ready |-> ready]]
     \/ UNCHANGED dialog
  /\ UNCHANGED <<registry, inputs, commands, list, power, edits, history>>

\* The answer for a request, or its failure.
SetupAnswered(l) ==
  /\ loads' = loads \ {l}
  /\ \/ \E ready \in BOOLEAN : /\ l.latest
                               /\ dialog' = [dialog EXCEPT !.setup = [of |-> l.mac, ready |-> ready]]
     \/ UNCHANGED dialog
  /\ UNCHANGED <<registry, inputs, commands, list, power, edits, history>>

Send(e) ==
  /\ ~dialog.saving /\ Input
  /\ edits' = edits \cup {[id |-> inputs', edit |-> e, saved |-> FALSE, ours |-> TRUE]}
  /\ dialog' = [dialog EXCEPT !.saving = TRUE]
  /\ UNCHANGED <<registry, commands, list, power, loads, history>>

Submit(to) ==
  /\ dialog.open /\ dialog.pane = "edit"
  /\ Send([kind |-> IF dialog.creating THEN "create" ELSE "update",
           from |-> dialog.mac, to |-> to])

Delete ==
  /\ dialog.open /\ dialog.pane = "delete"
  /\ Send([kind |-> "delete", from |-> dialog.mac, to |-> NoMac])

-----------------------------------------------------------------------------
(* Edits: the proxy serves them in some order, the answers come in any.    *)

EditServed(e) ==
  /\ ~e.saved /\ Accepts(e.edit)
  /\ registry' = Edited(registry, e.edit)
  /\ served' = Append(served, e.id)
  /\ edits' = (edits \ {e}) \cup {[e EXCEPT !.saved = TRUE]}
  /\ UNCHANGED <<inputs, commands, list, power, dialog, loads, excused>>

Saved_NoInsert(e) ==
  IF e.kind = "delete" THEN Without(machines, e.from)
  ELSE [i \in DOMAIN machines |-> IF machines[i] = e.from THEN e.to ELSE machines[i]]

\* saved(), and what a deletion does to the list.
Saved(e) ==
  IF e.kind = "create" THEN <<e.to>> \o machines
  ELSE IF e.kind = "delete" THEN Without(machines, e.from)
  ELSE [i \in DOMAIN machines |-> IF machines[i] = e.from THEN e.to ELSE machines[i]]

\* What the open dialog becomes: a deletion closes it, a new machine leads to
\* its setup, and the setup of what was shown before is forgotten.
AfterSave(e) ==
  IF e.kind = "delete"
  THEN dialog' = Closed /\ loads' = {}
  ELSE /\ \E pane \in IF e.kind = "create" THEN {"setup", dialog.pane} ELSE {dialog.pane} :
            dialog' = [dialog EXCEPT !.mac = e.to, !.creating = FALSE, !.saving = FALSE,
                                     !.setup = NoSetup, !.pane = pane]
       /\ loads' = AskSetup(e.to, loads)

EditAnswered(e) ==
  /\ e.saved
  /\ edits' = edits \ {e}
  /\ machines' = Saved(e.edit)
  /\ poll' = NextEpoch(poll)
  /\ IF e.ours THEN AfterSave(e.edit) ELSE UNCHANGED <<dialog, loads>>
  /\ Answered(e.id)
  /\ UNCHANGED <<registry, inputs, commands, loader, error, route, online, pending, tasks>>

\* Refused, or the answer never comes.
EditFails(e) ==
  /\ edits' = edits \ {e}
  /\ dialog' = IF e.ours THEN [dialog EXCEPT !.saving = FALSE] ELSE dialog
  /\ served' = Without(served, e.id)
  /\ excused' = (excused \/ e.saved)
  /\ UNCHANGED <<registry, inputs, commands, list, power, loads>>

-----------------------------------------------------------------------------
PageStep ==
  \/ ListServed \/ ListAnswered \/ ListFails \/ RouteAnswered \/ TryAgain
  \/ PollReads \/ PollEnds
  \/ \E m \in Macs : Wake(m) \/ Submit(m)
  \/ \E m \in Macs \cup {NoMac} : Open(m)
  \/ \E p \in Panes : ShowPane(p)
  \/ ShutDown \/ Close \/ Back \/ Delete
  \/ \E t \in tasks : CommandSent(t) \/ CommandFails(t) \/ CheckConfirms(t) \/ CheckDoesNot(t)
  \/ \E l \in loads : SetupAnswered(l)
  \/ \E e \in edits : EditServed(e) \/ EditAnswered(e) \/ EditFails(e)

TaskOf(m) == \E t \in tasks :
  /\ t.mac = m
  /\ CommandSent(t) \/ CommandFails(t) \/ CheckConfirms(t) \/ CheckDoesNot(t)

PageTypeOK ==
  /\ machines \in Seq(Macs) /\ online \subseteq Macs
  /\ pending \in [Macs -> {"no", "wake", "off"}] /\ tasks \subseteq Tasks
  /\ poll \in Polls \cup {Sleeping}
  /\ loader.step \in {"idle", "asked", "served", "details"} /\ error \in BOOLEAN
  /\ route \in Macs \cup {NoMac}
  /\ dialog \in Dialogs \cup {Closed} /\ loads \subseteq Loads
  /\ \A e \in edits : e.edit \in Edits /\ e.saved \in BOOLEAN

\* "Waking..." and "Shutting down..." are shown exactly while one command for
\* the machine is under way: it is never sent twice (state.rs, power).
OneCommandPerMachine ==
  \A m \in Macs :
    LET own == {t \in tasks : t.mac = m}
    IN IF pending[m] = "no" THEN own = {}
       ELSE Cardinality(own) = 1 /\ \A t \in own : t.wake = (pending[m] = "wake")

\* Every command ends: confirmed, refused, or given up after the last check.
CommandsEnd == \A m \in Macs : pending[m] # "no" ~> pending[m] = "no"

\* A poll that read a machine's status before a command was confirmed does not
\* take the confirmation back (status_epoch; mod.rs, state.rs).
ConfirmationStays ==
  [][poll.on /\ ~poll'.on => \A m \in poll.older : (m \in online') = (m \in online)]_page

\* The client's setup shown in the dialog, which offers "Shut down", is that of
\* the machine the dialog shows, also after an edit of its address.
SetupIsOfThisMachine ==
  dialog.open /\ dialog.setup # NoSetup => dialog.setup.of = dialog.mac

\* As long as answers come in the order in which the proxy served the requests,
\* none is lost and nobody else edits, the page shows the proxy's list, each
\* machine once, though no edit loads it again (state.rs, saved).
ListIsRegistry ==
  ~excused /\ ~error /\ edits = {} /\ loader.step \in {"idle", "details"}
    => Len(machines) = Len(registry) /\ Listed(machines) = Listed(registry)

\* No answer that comes late or in another dialog leaves the page with a machine
\* the proxy has not, without one it has, or with the setup of another machine.
NoStaleAnswers == ListIsRegistry /\ SetupIsOfThisMachine
=============================================================================
