---------------------------- MODULE MCPathServer ----------------------------
(* Instances of PathServer for TLC *)
EXTENDS PathServer

CONSTANTS u1, u2, tty, fileA, fileB, missing

\* The boot tasks' requests, and those of two programs
Boot == [t \in {romdev, romfs, mount_task} |->
  CASE t = romdev -> <<Register(rom0)>>
    [] t = romfs -> <<RegisterFs>>
    [] t = mount_task -> <<Mount(rom0)>>]

\* One task opens files of the rom; the other makes and opens FIFOs, one
\* more than there may be memory for.
BootCalls == Boot @@ [t \in Users |->
  CASE t = u1 -> <<Open(fileA), Open(missing), Open(fileA)>>
    [] t = u2 -> <<Mkfile(tty), Open(tty), Mkfile(tty)>>]

\* Two tasks open files of the rom.
OpenCalls == Boot @@ [t \in Users |->
  CASE t = u1 -> <<Open(fileA)>>
    [] t = u2 -> <<Open(fileB)>>]
=============================================================================
