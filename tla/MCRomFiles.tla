----------------------------- MODULE MCRomFiles -----------------------------
(* Instances of RomFiles for TLC *)
EXTENDS RomFiles

CONSTANTS u1, u2, u3, f1, f2

\* The device has 4 bytes; f1 is bytes 1 and 2 of it, f2 is byte 3.
MCStart == [f \in Files |-> IF f = f1 THEN 1 ELSE IF f = f2 THEN 3 ELSE 0]
MCLength == [f \in Files |-> IF f = f1 THEN 2 ELSE IF f = f2 THEN 1 ELSE 4]
MCRoom == [d \in Drivers |-> IF d = romfs THEN 1 ELSE 3]

\* Two urgent users share f1; a less urgent one uses f1 and the device.
FileCalls ==
  [t \in Users |->
     CASE t = u1 -> {Call("seek", f1, -1, SEEK_CUR), Call("seek", f1, 1, SEEK_END)}
       [] t = u2 -> {Call("read", f1, 3, 0)}
       [] t = u3 -> {Call("read", rom0, 1, 0), Call("write", rom0, 1, 0),
                     Call("seek", f1, 0, 0)}]

\* Programs that read one file and write another
WriteCalls ==
  [t \in Users |->
     IF t = u1 THEN {Call("read", f1, 1, 0)} ELSE {Call("write", f2, 1, 0)}]

\* Programs that read and seek both files, and one that uses the device
ManyCalls ==
  [t \in Users |->
     CASE t = u1 -> {Call("seek", f1, -1, SEEK_CUR), Call("read", f2, 3, 0)}
       [] t = u2 -> {Call("read", f1, 3, 0), Call("seek", f2, 1, SEEK_END)}
       [] t = u3 -> {Call("read", rom0, 1, 0), Call("read", f2, 1, 0)}]
=============================================================================
