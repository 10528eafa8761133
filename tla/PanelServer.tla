----------------------------- MODULE PanelServer -----------------------------
(***************************************************************************)
(* The proxy as its two panels see it, the web dashboard and the terminal  *)
(* user interface: the list of machines and what the requests do to it     *)
(* (proxy_server.rs).  A machine is its address, the key of every request; *)
(* MachineRegistry models the rest of it.                                  *)
(***************************************************************************)
EXTENDS Naturals, FiniteSets, Sequences, Functions

CONSTANTS
  Macs,         \* addresses of machines
  NoMac,        \* stands for no machine
  Registries,   \* the lists the proxy may start with, for each panel
  MaxInputs,    \* bound: edits and retries of all clients together
  MaxCommands,  \* bound: wake-ups and shutdowns
  MaxActions    \* bound: inputs and commands together

\* add_machine and update_machine refuse an address that is on the list.
ASSUME PanelServerAssumption ==
  /\ NoMac \notin Macs
  /\ \A p \in {"browser", "terminal"} :
       \A list \in Registries[p] : list \in Seq(Macs) /\ IsInjective(list)

VARIABLES registry, inputs, commands   \* the list; counters for the bounds

Listed(list) == {list[i] : i \in DOMAIN list}

\* Vec::retain: all but x, in their order.
Without(list, x) ==
  LET kept[n \in 0 .. Len(list)] ==
        IF n = 0 THEN <<>>
        ELSE IF list[n] = x THEN kept[n - 1] ELSE Append(kept[n - 1], list[n])
  IN kept[Len(list)]

\* One more of the bounded inputs, one more of the bounded commands.
Input == /\ inputs < MaxInputs /\ inputs + commands < MaxActions
         /\ inputs' = inputs + 1
Command == /\ commands < MaxCommands /\ inputs + commands < MaxActions
           /\ commands' = commands + 1

\* The requests that edit the list, and when the proxy refuses them.
Accepts(e) ==
  CASE e.kind = "create" -> e.to \notin Listed(registry)
    [] e.kind = "update" -> /\ e.from \in Listed(registry)
                            /\ e.to \notin Listed(registry) \ {e.from}
    [] e.kind = "delete" -> TRUE

Edited(list, e) ==
  CASE e.kind = "create" -> Append(list, e.to)
    [] e.kind = "update" -> [i \in DOMAIN list |-> IF list[i] = e.from THEN e.to ELSE list[i]]
    [] e.kind = "delete" -> Without(list, e.from)

Edits == [kind : {"create"}, from : {NoMac}, to : Macs]
           \cup [kind : {"update"}, from : Macs, to : Macs]
           \cup [kind : {"delete"}, from : Macs, to : {NoMac}]

\* Another client of the proxy edits the list.
OtherClientEdits ==
  \E e \in Edits :
    /\ Accepts(e) /\ Edited(registry, e) # registry
    /\ registry' = Edited(registry, e)
    /\ Input
=============================================================================
