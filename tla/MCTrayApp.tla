------------------------------ MODULE MCTrayApp ------------------------------
(* TrayApp for TLC: one service, and three old login entries: the tray's own,   *)
(* one whose last Exec is another program's, one whose keys are spread over two *)
(* sections.                                                                    *)
EXTENDS TrayApp, SequencesExt

Line(kind, ours) == [kind |-> kind, ours |-> ours]

TrayEntry ==
  <<Line("section", TRUE), Line("Type", TRUE), Line("Name", TRUE), Line("Exec", TRUE)>>

MCFiles ==
  {TrayEntry,
   Append(TrayEntry, Line("Exec", FALSE)),
   Append(InsertAt(TrayEntry, 4, Line("section", TRUE)), Line("other", FALSE))}
=============================================================================
