----------------------------- MODULE FileRemote -----------------------------
(***************************************************************************)
(* The Harmony 300 and 350's side of the file protocol, as the 1.4         *)
(* firmware reading (tests/test_harmony_350_file_write.py) and the pretend *)
(* remote of the write path's tests (packages/usb/test/fake-file-remote.ts)*)
(* have it.  This module holds no state of its own: `After' and `Answers'  *)
(* say what one report does to a remote and what the remote sends back.    *)
(*                                                                         *)
(* A configuration is NPackets data packets.  What a read of /cfg/usercfg  *)
(* serves is the first NRead of them: the end marker PTYY, which is the    *)
(* last packet's, is never served.                                         *)
(***************************************************************************)
EXTENDS Naturals, Sequences

CONSTANTS
  Configs,    \* whole containers that may be on a remote
  NoConfig,   \* stands for "of no container" in a damaged packet
  NPackets,   \* data packets in a container
  NRead       \* packets a read serves, the end marker's left off

ASSUME ConfigsAssumption == NoConfig \notin Configs
ASSUME SizeAssumption ==
  /\ NPackets \in Nat /\ NRead \in Nat
  /\ 2 <= NRead /\ NRead <= NPackets

-----------------------------------------------------------------------------
(* The bytes at `FILE_SEQUENCE' of a reply and the first byte of a packet. *)

SEQUENCE_MODULUS == 64
DONE_PACKET      == 126
FILE_SERVICE     == 255
REPLY_ERROR      == 255   \* FILE_SERVICE with the reply flag set is the error marker

(* A packet of flash: packet `at' of container `of', or damage.            *)
Packet(c, i) == [of |-> c, at |-> i]
Junk         == [of |-> NoConfig, at |-> 1]   \* a report programmed as if it were data
Erased       == [of |-> NoConfig, at |-> 0]

Cells == [of : Configs \cup {NoConfig}, at : Nat]

WholeFlash(c) == [i \in 1..NPackets |-> Packet(c, i)]

CellAt(flash, i) == IF i \in DOMAIN flash THEN flash[i] ELSE Erased

(* The whole container c, end marker and all, is where the firmware looks  *)
(* for a configuration.  Anything programmed after it is not looked at.    *)
Holds(flash, c) == \A i \in 1..NPackets : CellAt(flash, i) = Packet(c, i)

HoldsSome(flash) == \E c \in Configs : Holds(flash, c)

(* What a read of /cfg/usercfg serves: end_addr comes out of the header,   *)
(* and without a header there is nothing to serve.                         *)
Served(flash) ==
  IF \E c \in Configs : CellAt(flash, 1) = Packet(c, 1)
    THEN [i \in 1..NRead |-> CellAt(flash, i)]
    ELSE <<>>

ReadableOf(c) == [i \in 1..NRead |-> Packet(c, i)]

Paths == {"/sys/sysinfo", "/sys/guid", "/cfg/usercfg"}

(* The identity files never change; one opaque packet stands for each.     *)
Identity == <<Erased>>

Content(flash, path) == IF path = "/cfg/usercfg" THEN Served(flash) ELSE Identity

-----------------------------------------------------------------------------
(* The remote: its external flash, the open file's row ("none" when there  *)
(* is none), whether that file is open for writing, how many packets the   *)
(* open chunk still waits for (0 when no chunk is open) and the verdict    *)
(* bit without which the configuration is not looked at.                   *)

RemoteOf(c) ==
  [flash |-> WholeFlash(c), open |-> "none", writing |-> FALSE, due |-> 0, verdict |-> TRUE]

Remotes == [flash : Seq(Cells), open : Paths \cup {"none"}, writing : BOOLEAN,
            due : Nat, verdict : BOOLEAN]

(* Reports are records: cmd, the one argument the firmware reads, and the  *)
(* first byte a data packet parser would see as its sequence number.       *)
Report(cmd, arg, seq) == [cmd |-> cmd, arg |-> arg, seq |-> seq]

(* Replies are records too: the command answered, the sequence byte, and   *)
(* what a read or a check returns.                                         *)
Reply(cmd, seq)  == [cmd |-> cmd, seq |-> seq, val |-> <<>>, mark |-> "none"]
DataOf(val)      == [cmd |-> "data", seq |-> 0, val |-> val, mark |-> "none"]
Checked(seq, ok) == [cmd |-> "check", seq |-> seq, val |-> <<>>, mark |-> IF ok THEN "m" ELSE "u"]

Replies == [cmd : {"ping", "open", "data", "close", "control", "write", "check", "flush"},
            seq : Nat, val : Seq(Cells), mark : {"none", "m", "u"}]

(* While a chunk is open every report is a data packet, whatever it was    *)
(* meant as: its second byte, a command's number, is taken as a length, so *)
(* only a ping (0) and the done packet (0) program nothing.                *)
AsData(report) ==
  CASE report.cmd = "data"             -> <<report.arg>>
    [] report.cmd \in {"ping", "done"} -> <<>>
    [] OTHER                           -> <<Junk>>

FirstByte(report) ==
  CASE report.cmd = "data" -> report.seq
    [] report.cmd = "done" -> DONE_PACKET
    [] OTHER               -> FILE_SERVICE

TakePacket(rem, report) ==
  [rem EXCEPT !.flash = @ \o AsData(report), !.due = @ - 1]

(* Closing the open file, which is all that a close and a file system      *)
(* reset do.                                                               *)
CloseFile(rem) == [rem EXCEPT !.open = "none", !.writing = FALSE]

(* A restart: nothing in RAM survives, and the boot validator looks at     *)
(* every packet of the configuration, the end marker included.             *)
Restarted(rem) ==
  [flash |-> rem.flash, open |-> "none", writing |-> FALSE, due |-> 0,
   verdict |-> HoldsSome(rem.flash)]

(* The check looks at the header and at the stored checksum word, which is *)
(* in the last packet a read serves, and recomputes nothing.               *)
CheckMatches(flash, expected) ==
  /\ \E c \in Configs : CellAt(flash, 1) = Packet(c, 1)
  /\ CellAt(flash, NRead) = Packet(expected, NRead)

OpenForReading(rem, path) ==
  IF rem.open = "none" THEN [rem EXCEPT !.open = path] ELSE rem

(* An open for writing erases the file before it is answered.              *)
OpenForWriting(rem) ==
  IF rem.open = "none"
    THEN [rem EXCEPT !.flash = <<>>, !.open = "/cfg/usercfg", !.writing = TRUE,
                     !.verdict = FALSE]
    ELSE rem

OpenChunk(rem, count) == [rem EXCEPT !.due = count - 1]

Check(rem, expected) ==
  IF CheckMatches(rem.flash, expected) THEN [rem EXCEPT !.verdict = TRUE] ELSE rem

After(rem, report) ==
  IF rem.due > 0
    THEN TakePacket(rem, report)
    ELSE CASE report.cmd = "open"               -> OpenForReading(rem, report.arg)
           [] report.cmd = "openW"              -> OpenForWriting(rem)
           [] report.cmd = "write"              -> OpenChunk(rem, report.arg)
           [] report.cmd = "check"              -> Check(rem, report.arg)
           [] report.cmd \in {"close", "reset"} -> CloseFile(rem)
           [] report.cmd = "reboot"             -> Restarted(rem)
           [] OTHER                             -> rem

(* The replies of one report.  A chunk answers once, when its count of     *)
(* packets is reached, with the first byte of the packet that reached it.  *)
(* An open is refused while a file is open.  The check's answer is m or u. *)
Answers(rem, report) ==
  IF rem.due > 0
    THEN IF rem.due = 1 THEN <<Reply("write", FirstByte(report))>> ELSE <<>>
    ELSE CASE report.cmd \in {"open", "openW"} ->
                <<Reply("open", IF rem.open = "none" THEN report.seq ELSE REPLY_ERROR)>>
           [] report.cmd = "read" ->
                IF rem.open = "none" THEN <<>> ELSE <<DataOf(Content(rem.flash, rem.open))>>
           [] report.cmd = "check" ->
                <<Checked(report.seq, CheckMatches(rem.flash, report.arg))>>
           [] report.cmd \in {"reset", "reboot"} -> <<Reply("control", report.seq)>>
           [] report.cmd \in {"ping", "close", "flush"} -> <<Reply(report.cmd, report.seq)>>
           [] OTHER -> <<>>
=============================================================================
