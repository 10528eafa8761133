------------------------------ MODULE SelfUpdate ------------------------------
(***************************************************************************)
(* `wakezilla update` (update.rs): the release is looked up, its archive   *)
(* downloaded and verified, and the program and the tray helper beside it  *)
(* are replaced, one after the other, by a rename of a staged copy.  Every *)
(* step may fail, and the update may be killed.                            *)
(*                                                                         *)
(* A file is its version and whether its bytes are those of the release.   *)
(* Left out: the names of tags, targets and assets, and a second update at *)
(* the same time (its staging file has another name).                      *)
(***************************************************************************)
EXTENDS Naturals

CONSTANTS
  Releases,   \* [version : Nat, pre : BOOLEAN, helper : BOOLEAN]
  NoFile

VARIABLES
  exe, helper,   \* the program and the tray helper beside it
  update,        \* the update under way
  mixed          \* an update ended between the two files (history)

updateVars == <<exe, helper, update, mixed>>

Program(release, whole) == [version |-> release.version, whole |-> whole]
Programs == [version : {r.version : r \in Releases}, whole : BOOLEAN]

UpdatePhases == {"idle", "download", "verify", "extract", "stage exe", "rename exe",
                 "tray helper", "rename helper"}

\* Bookkeeping of an update; asked: the release was named with --version; bytes: the archive arrived whole
Update(r) == [phase |-> "idle", release |-> r, asked |-> FALSE, bytes |-> TRUE, staged |-> NoFile]

NoUpdate == Update(CHOOSE r \in Releases : TRUE)

UpdateTypeOK ==
  /\ exe \in Programs /\ helper \in Programs \cup {NoFile}
  /\ update \in [phase : UpdatePhases, release : Releases, asked : BOOLEAN, bytes : BOOLEAN,
                 staged : Programs \cup {NoFile}]
  /\ mixed \in BOOLEAN

\* An installation of one release, with its tray helper if it has one.
UpdateInit ==
  \E r \in Releases :
    /\ exe = Program(r, TRUE)
    /\ helper = IF r.helper THEN Program(r, TRUE) ELSE NoFile
    /\ update = NoUpdate
    /\ mixed = FALSE

-----------------------------------------------------------------------------

\* fault: any other version is an update, also an older one
Available_AnyOther(release) == ~release.pre /\ exe.version # release.version

\* status_from_release for the program that runs, which is the one on the disk.
Available(release) == ~release.pre /\ exe.version < release.version

\* fetch_release and the check of the status; an error, an asset that is missing
\* for the target and "already up to date" change nothing.  Without --version r is
\* what is published as the latest at the time.
StartUpdate(asked) ==
  /\ update.phase = "idle"
  /\ \E r \in Releases :
       /\ asked \/ Available(r)
       /\ update' = [Update(r) EXCEPT !.phase = "download", !.asked = asked]
  /\ UNCHANGED <<exe, helper, mixed>>

\* The end of an update, for good or not.
EndUpdate(split) ==
  /\ update' = NoUpdate
  /\ mixed' = split

\* The archive and SHA256SUMS
Download ==
  /\ update.phase = "download"
  /\ \E ok \in BOOLEAN : update' = [update EXCEPT !.phase = "verify", !.bytes = ok]
  /\ UNCHANGED <<exe, helper, mixed>>

\* fault: the checksum is not compared
Verify_Skipped ==
  /\ update.phase = "verify"
  /\ update' = [update EXCEPT !.phase = "extract"]
  /\ UNCHANGED <<exe, helper, mixed>>

Verify ==
  /\ update.phase = "verify"
  /\ IF update.bytes
     THEN update' = [update EXCEPT !.phase = "extract"] /\ UNCHANGED mixed
     ELSE EndUpdate(mixed)
  /\ UNCHANGED <<exe, helper>>

Extract ==
  /\ update.phase = "extract"
  /\ update' = [update EXCEPT !.phase = "stage exe"]
  /\ UNCHANGED <<exe, helper, mixed>>

\* install_binary, its copy: what is staged is not whole before the copy is done.
StageExe ==
  /\ update.phase = "stage exe"
  /\ \/ /\ update.staged = NoFile
        /\ update' = [update EXCEPT !.staged = Program(update.release, FALSE)]
     \/ /\ update.staged # NoFile
        /\ update' = [update EXCEPT !.staged = Program(update.release, update.bytes),
                                    !.phase = "rename exe"]
  /\ UNCHANGED <<exe, helper, mixed>>

RenameExe ==
  /\ update.phase = "rename exe"
  /\ exe' = update.staged
  /\ update' = [update EXCEPT !.staged = NoFile, !.asked = FALSE, !.phase = "tray helper"]
  /\ UNCHANGED <<helper, mixed>>

\* fault: a helper that the release does not bring stays
TrayHelper_Kept ==
  /\ update.phase = "tray helper"
  /\ IF update.release.helper
     THEN /\ update' = [update EXCEPT !.staged = Program(update.release, update.bytes),
                                      !.phase = "rename helper"]
          /\ UNCHANGED mixed
     ELSE EndUpdate(FALSE)
  /\ UNCHANGED <<exe, helper>>

\* install_optional_tray_helper: staged like the program, or removed.
TrayHelper ==
  /\ update.phase = "tray helper"
  /\ IF update.release.helper
     THEN /\ update' = [update EXCEPT !.staged = Program(update.release, update.bytes),
                                      !.phase = "rename helper"]
          /\ UNCHANGED <<helper, mixed>>
     ELSE helper' = NoFile /\ EndUpdate(FALSE)
  /\ UNCHANGED exe

RenameHelper ==
  /\ update.phase = "rename helper"
  /\ helper' = update.staged
  /\ EndUpdate(FALSE)
  /\ UNCHANGED exe

\* An error, or the process is killed; a staged file that stays behind is replaced
\* by the next update that has its name.
UpdateFails ==
  /\ update.phase # "idle"
  /\ EndUpdate(mixed \/ update.phase \in {"tray helper", "rename helper"})
  /\ UNCHANGED <<exe, helper>>

UpdateNext ==
  \/ \E asked \in BOOLEAN : StartUpdate(asked)
  \/ Download \/ Verify \/ Extract \/ StageExe \/ RenameExe
  \/ TrayHelper \/ RenameHelper \/ UpdateFails

-----------------------------------------------------------------------------
(* Properties                                                              *)

\* Without --version an update never goes back to an older release and never
\* installs a prerelease, whatever is published while it runs.
UpdateIsUpgrade ==
  [][exe' # exe /\ ~update.asked =>
       exe'.version > exe.version /\ \E r \in Releases : ~r.pre /\ r.version = exe'.version]_updateVars

\* The program and its helper are of one release, and a release without a helper
\* leaves none, unless the last update ended between the two files.
HelperFitsProgram ==
  helper # NoFile /\ update.phase \notin {"tray helper", "rename helper"} /\ ~mixed =>
    helper.version = exe.version
=============================================================================
