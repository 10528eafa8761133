-------------------------- MODULE MCMachineRegistry --------------------------
(* MachineRegistry on a few machines and a few dashboard configurations. *)
EXTENDS MachineRegistry, TLC

CONSTANTS a, A, b, i1, i2, c, p, q

\* A is another spelling of the address a.
TwoSpellings == [m \in Macs |-> IF m = A THEN a ELSE m]
OneSpelling == [m \in Macs |-> m]

Config(ip, port, off, forwards, monitored) ==
  [ip |-> ip, port |-> port, can_be_turned_off |-> off,
   forwards |-> forwards, monitored |-> monitored]

\* Two clients' addresses with automatic shutdown, on two local ports; remote
\* shutdown disabled, on both.
DashboardInputs ==
  {Config(i1, c, TRUE, {p}, TRUE), Config(i2, c, TRUE, {q}, TRUE),
   Config(i1, NoPort, FALSE, {p, q}, TRUE)}

\* The same with one local port.
PairingInputs ==
  {Config(i1, c, TRUE, {p}, TRUE), Config(i2, c, TRUE, {p}, TRUE),
   Config(i1, c, FALSE, {p}, TRUE)}

\* The spellings of one address are only compared with it.
Spellings == Permutations({a, A})

=============================================================================
