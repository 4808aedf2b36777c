------------------------------ MODULE TouchCable ------------------------------
(***************************************************************************)
(* A Harmony Touch's side of its request channel, as the pretend remote of *)
(* the session's tests has it (packages/usb/test/fake-touch-remote.ts): the*)
(* file protocol on /sys/hlapi, and the cable listener that is handed each *)
(* write command's text.  `After' and `Answers' say what one report does to*)
(* a remote and what the remote sends back; no state is kept here.         *)
(*                                                                         *)
(* Text is counted in data packets.  A request's first packet holds its    *)
(* name; packet 0 stands for the line that announces it.                   *)
(***************************************************************************)
EXTENDS Naturals, Sequences, SequencesExt

CONSTANTS
  Requests,         \* request lines
  NoRequest,        \* stands for "of no request"
  Answering,        \* the writes of answers, TOUCH_ANSWER_WRITE
  Packets,          \* how many data packets a request's line is
  PacketsPerChunk,  \* how many a write command carries
  AnswerSize,       \* how many the answer to a request is
  SequenceModulus   \* SEQUENCE_MODULUS, 64 in the code

ASSUME RequestsAssumption == NoRequest \notin Requests /\ Answering \subseteq Requests
ASSUME PacketsAssumption ==
  /\ Packets \in [Requests -> Nat \ {0}] /\ PacketsPerChunk \in Nat \ {0}
  /\ AnswerSize \in [Requests -> Nat]
  /\ SequenceModulus \in 7..64   \* the templates' first numbers are 2 and 6

-----------------------------------------------------------------------------
(* Text.                                                                   *)

Packet(r, i)    == [of |-> r, at |-> i]
Announcement(r) == Packet(r, 0)
Junk            == Packet(NoRequest, 0)   \* what a report that is no packet adds to a chunk

Text(r) == [i \in 1..Packets[r] |-> Packet(r, i)]

Texts == Seq([of : Requests \cup {NoRequest}, at : Nat])

(* The number an announcement states: the line's length, or the shorter one*)
(* of Logitech's client (TouchAnnouncement).                               *)
AnnouncesResponses(r) == Packets[r] - 1
AnnouncementFor(r)    == Packets[r]

-----------------------------------------------------------------------------
(* Reports and replies.                                                    *)

DONE_REPLY  == 254
REPLY_ERROR == 255

Report(cmd, seq, arg) == [cmd |-> cmd, seq |-> seq, arg |-> arg]

Reply(cmd, seq)       == [cmd |-> cmd, seq |-> seq, size |-> 0, of |-> <<>>]
Opened(seq, size)     == [cmd |-> "open", seq |-> seq, size |-> size, of |-> <<>>]
DataOf(text, i)       == [cmd |-> "data", seq |-> i, size |-> 0, of |-> text]
Replies == [cmd : {"ping", "open", "write", "close", "read", "data", "end"},
            seq : Nat, size : Nat, of : Texts]

-----------------------------------------------------------------------------
(* The remote.                                                             *)

(* announced: the number the listener gathers towards, 0 for none.         *)
Remotes == [open : {"none", "W", "R"}, line : Texts, written : Texts,
            due : Nat, done : BOOLEAN, last : Nat, text : Texts,
            announced : Nat, held : Texts, acted : Seq(Texts)]

NewRemote == [open |-> "none", line |-> <<>>, written |-> <<>>,
              due |-> 0, done |-> FALSE, last |-> 0, text |-> <<>>,
              announced |-> 0, held |-> <<>>, acted |-> <<>>]

(* What /sys/hlapi serves when it is opened for reading: an answer to the  *)
(* last line written.                                                      *)
SizeOfAnswer(text) ==
  IF \E r \in Requests : text = Text(r) THEN AnswerSize[text[1].of] ELSE 1

(* A request other than a write of answers clears a number left set.       *)
NamesAnotherRequest(text) == \E i \in DOMAIN text : text[i].at = 1 /\ text[i].of \notin Answering

(* The listener's reading of one write command's text: an announcement is  *)
(* noted; a text while a number is set is gathered, and what is held is    *)
(* acted on once the number is reached; any other is a line of its own.    *)
Listen(rem, text) ==
  LET announcing == {i \in DOMAIN text : text[i].at = 0 /\ text[i].of # NoRequest}
      number     == IF NamesAnotherRequest(text) THEN 0 ELSE rem.announced
      gathered   == rem.held \o text
  IN  CASE announcing # {} ->
             [rem EXCEPT !.announced = AnnouncementFor(text[CHOOSE i \in announcing : TRUE].of), !.held = <<>>]
        [] announcing = {} /\ number = 0 ->
             [rem EXCEPT !.announced = 0, !.acted = Append(@, text)]
        [] announcing = {} /\ number > 0 /\ Len(gathered) < number ->
             [rem EXCEPT !.held = gathered]
        [] announcing = {} /\ number > 0 /\ Len(gathered) >= number ->
             [rem EXCEPT !.announced = 0, !.held = <<>>, !.acted = Append(@, gathered)]

(* Part way through a chunk every report is counted as a packet, whatever  *)
(* it was sent as.  Its second byte is taken for a length: a ping and a    *)
(* done packet add nothing.                                                *)
AsText(report) ==
  CASE report.cmd = "packet"           -> <<report.arg>>
    [] report.cmd \in {"ping", "done"} -> <<>>
    [] OTHER                           -> <<Junk>>

FirstByte(report) == IF report.cmd = "packet" THEN report.seq ELSE REPLY_ERROR

TakePacket(rem, report) ==
  LET text  == rem.text \o AsText(report)
      taken == [rem EXCEPT !.due = @ - 1, !.text = text, !.line = @ \o AsText(report),
                           !.done = @ \/ report.cmd = "done",
                           !.last = IF report.cmd = "done" THEN @ ELSE FirstByte(report)]
  IN  IF rem.due = 1 THEN Listen(taken, text) ELSE taken

After(rem, report) ==
  CASE rem.due > 0 -> TakePacket(rem, report)
    [] rem.due = 0 /\ report.cmd = "open for writing" -> [rem EXCEPT !.open = "W", !.line = <<>>]
    [] rem.due = 0 /\ report.cmd = "open for reading" -> [rem EXCEPT !.open = "R"]
    [] rem.due = 0 /\ report.cmd = "chunk" ->
         [rem EXCEPT !.due = report.arg - 1, !.done = FALSE, !.last = 0, !.text = <<>>]
    [] rem.due = 0 /\ report.cmd = "close" ->
         [rem EXCEPT !.open = "none", !.written = IF rem.open = "W" THEN rem.line ELSE @]
    [] OTHER -> rem

Answers(rem, report) ==
  LET after == After(rem, report)
  IN  CASE rem.due > 1 -> <<>>
        [] rem.due = 1 -> <<Reply("write", IF after.done THEN DONE_REPLY ELSE after.last)>>
        [] rem.due = 0 /\ report.cmd = "ping"  -> <<Reply("ping", report.seq)>>
        [] rem.due = 0 /\ report.cmd = "open for writing" -> <<Opened(report.seq, 0)>>
        [] rem.due = 0 /\ report.cmd = "open for reading" ->
             <<Opened(report.seq, SizeOfAnswer(rem.written))>>
        [] rem.due = 0 /\ report.cmd = "read"  ->
             <<Reply("read", report.seq)>>
               \o [i \in 1..SizeOfAnswer(rem.written) |-> DataOf(rem.written, i)]
               \o <<Reply("end", 0)>>
        [] rem.due = 0 /\ report.cmd = "close" -> <<Reply("close", report.seq)>>
        [] OTHER -> <<>>
=============================================================================
