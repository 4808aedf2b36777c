------------------------------ MODULE FileWrite ------------------------------
(***************************************************************************)
(* Writing a configuration to a Harmony 300 or 350                         *)
(* (packages/usb/src/filewrite.ts, with readFile of filepipe.ts), run after*)
(* run against one remote.  A run may be killed, a report may be lost on   *)
(* its way out, a reply may be lost or come after the tool stopped waiting,*)
(* a packet may be programmed wrong, the remote may restart, and between   *)
(* runs its owner's own software may put another configuration on it.      *)
(*                                                                         *)
(* The tool and the remote are in lockstep except for the data packets of  *)
(* a chunk, so a report reaches the remote in the step that sends it; what *)
(* the remote says back waits in `replies'.                                *)
(***************************************************************************)
EXTENDS FileRemote, FiniteSets

CONSTANTS
  PacketsPerChunk,  \* WRITE_PACKETS_PER_CHUNK
  FlagsSet,         \* HARMONY_ENABLE_WRITES and HARMONY_FILE_WRITE
  ShortReads,       \* whether a data packet of a read may be lost
  MaxFaults         \* bound: faults in one behaviour

ASSUME ChunkAssumption == PacketsPerChunk \in Nat \ {0} /\ PacketsPerChunk < SEQUENCE_MODULUS - 2
ASSUME FlagAssumption  == FlagsSet \in BOOLEAN /\ ShortReads \in BOOLEAN
ASSUME FaultAssumption == MaxFaults \in Nat

VARIABLES
  remote,     \* the remote
  replies,    \* reports from the remote not yet read
  step,       \* what the run does next, or "idle" between runs
  awaiting,   \* the step's report is out and its reply is being waited for
  reading,    \* what a readFile in progress is for: "facts", "factsAgain" or "back"
  file,       \* which of Files a readFile is at
  got,        \* what the reads returned, by path
  spoiled,    \* a read failed, and the close in its finally is still to be sent
  sent,       \* data packets of the container sent so far
  answer,     \* the check's answer, "none" before it
  container,  \* the configuration this run writes
  backup,     \* the configuration this run was told the unit held
  outcome,    \* how the last run ended
  lab,        \* the configurations the lab holds a copy of
  faults      \* faults so far

request == <<container, backup>>
vars == <<remote, replies, step, awaiting, reading, file, got, spoiled, sent, answer,
          container, backup, outcome, lab, faults>>

Files == <<"/sys/sysinfo", "/sys/guid", "/cfg/usercfg">>

ReadSteps  == {"ping", "open", "read", "close"}
WriteSteps == {"reset", "openW", "chunk", "data", "check", "flush", "closeW"}
Steps == ReadSteps \cup WriteSteps \cup {"idle", "resetFirst", "judge", "verify", "reboot"}

Outcomes == {"none", "ok", "failed", "refused", "killed"}

Nothing == <<>>

TypeOK ==
  /\ remote \in Remotes
  /\ replies \in Seq(Replies)
  /\ step \in Steps
  /\ awaiting \in BOOLEAN /\ spoiled \in BOOLEAN
  /\ reading \in {"facts", "factsAgain", "back"}
  /\ file \in 1..Len(Files)
  /\ got \in [Paths -> Seq(Cells)]
  /\ sent \in 0..NPackets
  /\ answer \in {"none", "m", "u"}
  /\ container \in Configs /\ backup \in Configs
  /\ outcome \in Outcomes
  /\ lab \in SUBSET Configs
  /\ faults \in 0..MaxFaults

(* A remote with some configuration on it, of which the lab has a copy or  *)
(* not, and a lab that has at least one.                                   *)
Init ==
  /\ \E c \in Configs : remote = RemoteOf(c)
  /\ replies = <<>>
  /\ step = "idle" /\ awaiting = FALSE /\ spoiled = FALSE
  /\ reading = "facts" /\ file = 1
  /\ got = [p \in Paths |-> Nothing]
  /\ sent = 0 /\ answer = "none"
  /\ lab \in SUBSET Configs \ {{}}
  /\ container \in lab /\ backup = container
  /\ outcome = "none"
  /\ faults = 0

-----------------------------------------------------------------------------
(* Faults on the link.                                                     *)

Fault == faults < MaxFaults /\ faults' = faults + 1

Deliver(report) ==
  /\ remote'  = After(remote, report)
  /\ replies' = replies \o Answers(remote, report)

(* A report goes out: it arrives, or it is lost.                           *)
Transmit(report) ==
  \/ Deliver(report) /\ UNCHANGED faults
  \/ Fault /\ UNCHANGED <<remote, replies>>

(* A data packet may also be programmed wrong.                             *)
TransmitData(report) ==
  \/ Transmit(report)
  \/ Deliver([report EXCEPT !.arg = Junk]) /\ Fault

(* The steps of a run that send one report and then wait for its reply.    *)
Send(report) ==
  /\ ~awaiting /\ awaiting' = TRUE
  /\ Transmit(report)

(* One counter numbers the operation's commands and data packets: the file *)
(* system reset is 0, the open 1, then each chunk's command and packets.   *)
ChunkOf(i) == ((i - 1) \div PacketsPerChunk) + 1
ChunkSequence(i)  == (ChunkOf(i) + i) % SEQUENCE_MODULUS      \* the command before packet i
PacketSequence(i) == (ChunkOf(i) + i + 1) % SEQUENCE_MODULUS
AfterDataSequence(k) == (ChunkOf(NPackets) + NPackets + 1 + k) % SEQUENCE_MODULUS

OPEN_SEQUENCE == 1

ChunkEnd(i) == IF ChunkOf(i) * PacketsPerChunk < NPackets
                 THEN ChunkOf(i) * PacketsPerChunk ELSE NPackets

(* The count a chunk's command states: itself, its data packets and, on    *)
(* the last chunk, the done packet.                                        *)
ChunkCount(i) == 1 + (ChunkEnd(i) - i + 1) + (IF ChunkEnd(i) = NPackets THEN 1 ELSE 0)

-----------------------------------------------------------------------------
(* Runs.                                                                   *)

(* A person starts the tool.  A new process opens the device anew, so what *)
(* came back before is gone; only the reply to an open may still be on its *)
(* way, because the firmware erases before it answers one.                 *)
LateOpen == replies # <<>> /\ replies[Len(replies)].cmd = "open"

StartRun(c, b) ==
  /\ step = "idle"
  /\ {c, b} \subseteq lab
  /\ container' = c /\ backup' = b
  /\ \/ replies' = <<>>
     \/ LateOpen /\ replies' = <<replies[Len(replies)]>>
  /\ step' = "ping" /\ reading' = "facts" /\ file' = 1
  /\ got' = [p \in Paths |-> Nothing]
  /\ sent' = 0 /\ answer' = "none" /\ outcome' = "none"
  /\ UNCHANGED <<remote, awaiting, spoiled, lab, faults>>

End(how) ==
  /\ step' = "idle" /\ awaiting' = FALSE /\ spoiled' = FALSE
  /\ outcome' = how

(* Slips: a failed read ends the run, so nothing ever closes a file left   *)
(* open; a failed read is taken for a remote that holds nothing.           *)
ReadsFailedEndsRun == End("failed")
ReadsFailedIsEmpty ==
  IF reading = "facts" /\ FlagsSet
    THEN step' = "judge" /\ awaiting' = FALSE /\ spoiled' = FALSE /\ UNCHANGED outcome
    ELSE End("failed")

(* What a failed readFile comes to: the first time the reads fail, with    *)
(* both flags set, a file system reset goes out and they are tried again.  *)
ReadsFailed ==
  IF reading = "facts" /\ FlagsSet
    THEN /\ step' = "resetFirst" /\ awaiting' = FALSE /\ spoiled' = FALSE
         /\ UNCHANGED outcome
    ELSE End("failed")

(* After a readFile's close, answered or not: the failure it closed after, *)
(* the next file, or what the reads were for.                              *)
NextAfterClose ==
  IF spoiled
    THEN ReadsFailed /\ UNCHANGED file
    ELSE /\ awaiting' = FALSE
         /\ UNCHANGED <<spoiled, outcome>>
         /\ IF file < Len(Files)
              THEN file' = file + 1 /\ step' = "ping"
              ELSE file' = file /\ step' = IF reading = "back" THEN "verify" ELSE "judge"

(* An exception at the current step.  A failed read is closed first; a     *)
(* failed close is swallowed by whoever closes; an exception anywhere else *)
(* ends the run, with nothing more sent.                                   *)
Throw ==
  CASE step = "close"            -> NextAfterClose
    [] step = "read"             -> /\ step' = "close" /\ awaiting' = FALSE /\ spoiled' = TRUE
                                    /\ UNCHANGED <<file, outcome>>
    [] step \in {"ping", "open"} -> ReadsFailed /\ UNCHANGED file
    [] OTHER                     -> End("failed") /\ UNCHANGED file

Unread == UNCHANGED <<reading, got, sent, answer, request, lab>>

(* The reply expectFileReply accepts: the command's own, no error marker.  *)
CommandAwaited ==
  CASE step = "openW"                           -> "open"
    [] step \in {"reset", "resetFirst"}         -> "control"
    [] step = "closeW"                          -> "close"
    [] step = "data"                            -> "write"
    [] step = "read"                            -> "data"
    [] OTHER                                    -> step

AcceptsAnyCommand(r) == r.seq # REPLY_ERROR   \* slip: whose reply it is is not looked at

Accepts(r) == r.cmd = CommandAwaited /\ r.seq # REPLY_ERROR

(* An accepted reply is read, and the run goes on to the step named.       *)
Accept ==
  /\ awaiting /\ replies # <<>> /\ Accepts(Head(replies))
  /\ replies' = Tail(replies)

(* The reply of another command, or the error marker.  A read in progress  *)
(* would take another command's reply for a data packet; none is ever      *)
(* waiting there (LinkInOrder).                                            *)
WrongReply ==
  /\ awaiting /\ step \notin {"read", "reboot"} /\ replies # <<>> /\ ~Accepts(Head(replies))
  /\ replies' = Tail(replies)
  /\ Throw /\ Unread /\ UNCHANGED <<remote, faults>>

(* The wait runs out: nothing came, or what comes is late, or it was lost. *)
TimeOut ==
  /\ awaiting /\ step # "reboot"
  /\ IF replies = <<>>
       THEN UNCHANGED <<faults, replies>>
       ELSE Fault /\ replies' \in {replies, Tail(replies)}
  /\ Throw /\ Unread /\ UNCHANGED remote

(* The transport refuses a report: nothing went out and the write throws.  *)
WriteThrows ==
  /\ step \notin {"idle", "judge", "verify"} /\ ~awaiting
  /\ Fault
  /\ Throw /\ Unread /\ UNCHANGED <<remote, replies>>

-----------------------------------------------------------------------------
(* readFile: ping, open, read, close.                                      *)

SendRead ==
  /\ step \in ReadSteps
  /\ Send(Report(step, Files[file], 0))
  /\ UNCHANGED <<step, reading, file, got, spoiled, sent, answer, request, outcome, lab>>

PingOrOpenAnswered ==
  /\ step \in {"ping", "open"}
  /\ Accept
  /\ step' = (IF step = "ping" THEN "open" ELSE "read") /\ awaiting' = FALSE
  /\ UNCHANGED <<remote, reading, file, got, spoiled, sent, answer, request, outcome, lab, faults>>

(* A read that comes back short is taken as it is: readOpenFile says the   *)
(* caller can see that it did, and readFile drops the size it could see it *)
(* by.                                                                     *)
DataRead ==
  /\ step = "read"
  /\ Accept
  /\ LET whole == Head(replies).val IN
       \/ /\ got' = [got EXCEPT ![Files[file]] = whole]
          /\ UNCHANGED faults
       \/ /\ ShortReads /\ Len(whole) > 1 /\ Fault
          /\ got' = [got EXCEPT ![Files[file]] = Tail(whole)]
  /\ step' = "close" /\ awaiting' = FALSE
  /\ UNCHANGED <<remote, reading, file, spoiled, sent, answer, request, outcome, lab>>

ReadClosed ==
  /\ step = "close"
  /\ Accept
  /\ NextAfterClose /\ Unread /\ UNCHANGED <<remote, faults>>

-----------------------------------------------------------------------------
(* writeFileConfig.                                                        *)

(* Step 0: the reads failed, so an open file is closed and they go again.  *)
SendResetFirst ==
  /\ step = "resetFirst"
  /\ Send(Report("reset", "none", 0))
  /\ UNCHANGED <<step, reading, file, got, spoiled, sent, answer, request, outcome, lab>>

ResetFirstAnswered ==
  /\ step = "resetFirst"
  /\ Accept
  /\ step' = "ping" /\ awaiting' = FALSE
  /\ reading' = "factsAgain" /\ file' = 1
  /\ UNCHANGED <<remote, got, spoiled, sent, answer, request, outcome, lab, faults>>

(* judgeCurrentContent: the backup, this configuration, or no whole        *)
(* configuration; anything else is refused.  Slips: nothing is; what is    *)
(* neither of the two is, a remote that holds no configuration with it.    *)
JudgementNeverRefuses(current) ==
  CASE current = ReadableOf(backup)    -> "the backup"
    [] current = ReadableOf(container) -> "this configuration"
    [] OTHER                           -> "no configuration"

JudgementOfTheTwo(current) ==
  CASE current = ReadableOf(backup)    -> "the backup"
    [] current = ReadableOf(container) -> "this configuration"
    [] OTHER                           -> "refused"

Judgement(current) ==
  CASE current = ReadableOf(backup)                    -> "the backup"
    [] current = ReadableOf(container)                 -> "this configuration"
    [] \A c \in Configs : current # ReadableOf(c)      -> "no configuration"
    [] OTHER                                           -> "refused"

FactsAllow ==
  /\ FlagsSet
  /\ got["/sys/sysinfo"] = Identity
  /\ got["/sys/guid"] = Identity

Judge ==
  /\ step = "judge"
  /\ IF FactsAllow /\ Judgement(got["/cfg/usercfg"]) # "refused"
       THEN step' = "reset" /\ UNCHANGED <<awaiting, spoiled, outcome>>
       ELSE End("refused")
  /\ UNCHANGED file
  /\ Unread /\ UNCHANGED <<remote, replies, faults>>

SendWriteCommand ==
  /\ \/ step = "reset"  /\ Send(Report("reset", "none", 0))
     \/ step = "openW"  /\ Send(Report("openW", "none", OPEN_SEQUENCE))
     \/ step = "check"  /\ Send(Report("check", container, AfterDataSequence(1)))
     \/ step = "flush"  /\ Send(Report("flush", "none", AfterDataSequence(2)))
     \/ step = "closeW" /\ Send(Report("close", "none",
                                       AfterDataSequence(IF answer = "m" THEN 3 ELSE 2)))
  /\ UNCHANGED <<step, reading, file, got, spoiled, sent, answer, request, outcome, lab>>

ResetAnswered ==
  /\ step = "reset"
  /\ Accept
  /\ step' = "openW" /\ awaiting' = FALSE
  /\ UNCHANGED <<remote, reading, file, got, spoiled, sent, answer, request, outcome, lab, faults>>

(* The open's reply must echo the sequence number of the open.             *)
OpenAnswered ==
  /\ step = "openW"
  /\ Accept
  /\ IF Head(replies).seq = OPEN_SEQUENCE
       THEN step' = "chunk" /\ awaiting' = FALSE /\ UNCHANGED <<file, spoiled, outcome>>
       ELSE Throw
  /\ Unread /\ UNCHANGED <<remote, faults>>

(* A chunk's command is not answered by itself: its packets follow.        *)
SendChunkCommand ==
  /\ step = "chunk"
  /\ Transmit(Report("write", ChunkCount(sent + 1), ChunkSequence(sent + 1)))
  /\ step' = "data"
  /\ UNCHANGED <<awaiting, reading, file, got, spoiled, sent, answer, request, outcome, lab>>

SendDataPacket ==
  /\ step = "data" /\ ~awaiting /\ sent < NPackets
  /\ TransmitData(Report("data", Packet(container, sent + 1), PacketSequence(sent + 1)))
  /\ sent' = sent + 1
  /\ awaiting' = (sent + 1 = ChunkEnd(sent + 1) /\ sent + 1 < NPackets)
  /\ UNCHANGED <<step, reading, file, got, spoiled, answer, request, outcome, lab>>

SendDonePacket ==
  /\ step = "data" /\ sent = NPackets
  /\ Send(Report("done", "none", DONE_PACKET))
  /\ UNCHANGED <<step, reading, file, got, spoiled, sent, answer, request, outcome, lab>>

(* The reply must carry the last packet's sequence number, or the done     *)
(* packet's byte.                                                          *)
ExpectedOfChunk == IF sent = NPackets THEN DONE_PACKET ELSE PacketSequence(sent)

ChunkAnswered ==
  /\ step = "data"
  /\ Accept
  /\ IF Head(replies).seq = ExpectedOfChunk
       THEN /\ step' = (IF sent = NPackets THEN "check" ELSE "chunk") /\ awaiting' = FALSE
            /\ UNCHANGED <<file, spoiled, outcome>>
       ELSE Throw
  /\ Unread /\ UNCHANGED <<remote, faults>>

(* The flush goes out only when the check answered m.                      *)
CheckAnswered ==
  /\ step = "check"
  /\ Accept
  /\ answer' = Head(replies).mark
  /\ step' = (IF answer' = "m" THEN "flush" ELSE "closeW") /\ awaiting' = FALSE
  /\ UNCHANGED <<remote, reading, file, got, spoiled, sent, request, outcome, lab, faults>>

FlushAnswered ==
  /\ step = "flush"
  /\ Accept
  /\ step' = "closeW" /\ awaiting' = FALSE
  /\ UNCHANGED <<remote, reading, file, got, spoiled, sent, answer, request, outcome, lab, faults>>

(* Closed: the file is read back.                                          *)
CloseAnswered ==
  /\ step = "closeW"
  /\ Accept
  /\ step' = "ping" /\ awaiting' = FALSE
  /\ reading' = "back" /\ file' = Len(Files)
  /\ UNCHANGED <<remote, got, spoiled, sent, answer, request, outcome, lab, faults>>

(* Nothing is rebooted unless it reads back identical and the check        *)
(* answered m.  Without a reboot asked for, the run is done.  Slip: the    *)
(* check is taken for the comparison it cannot stand in for.               *)
VerifyByCheckAlone ==
  /\ step = "verify"
  /\ IF answer = "m"
       THEN \/ step' = "reboot" /\ UNCHANGED <<awaiting, spoiled, outcome>>
            \/ End("ok")
       ELSE End("failed")
  /\ UNCHANGED file
  /\ Unread /\ UNCHANGED <<remote, replies, faults>>

Verify ==
  /\ step = "verify"
  /\ IF got["/cfg/usercfg"] = ReadableOf(container) /\ answer = "m"
       THEN \/ step' = "reboot" /\ UNCHANGED <<awaiting, spoiled, outcome>>
            \/ End("ok")
       ELSE End("failed")
  /\ UNCHANGED file
  /\ Unread /\ UNCHANGED <<remote, replies, faults>>

(* The reboot's reply is not waited for with any care: whatever comes or   *)
(* does not, the run has succeeded.                                        *)
Reboot ==
  /\ step = "reboot"
  /\ Transmit(Report("reboot", "none", 0))
  /\ End("ok")
  /\ UNCHANGED file /\ Unread

-----------------------------------------------------------------------------
(* What happens from outside.                                              *)

(* The process is killed: no finally block of it runs.                     *)
KillRun ==
  /\ step # "idle"
  /\ Fault
  /\ End("killed")
  /\ UNCHANGED file /\ Unread /\ UNCHANGED <<remote, replies>>

(* The remote restarts.  Its device node goes with it, so a run under way  *)
(* can neither write nor read again.                                       *)
RemoteRestarts ==
  /\ Fault
  /\ remote' = Restarted(remote)
  /\ replies' = <<>>
  /\ IF step = "idle" THEN UNCHANGED <<step, awaiting, spoiled, outcome>> ELSE End("failed")
  /\ UNCHANGED file /\ Unread

(* The owner's own software puts a configuration on the remote.            *)
OwnerSyncs(c) ==
  /\ step = "idle"
  /\ Fault
  /\ remote' = RemoteOf(c)
  /\ replies' = <<>>
  /\ UNCHANGED <<step, awaiting, spoiled, outcome, file>> /\ Unread

(* Somebody reads the remote into the lab, which is how a refused run says *)
(* to go on.                                                               *)
ReadIntoLab(c) ==
  /\ step = "idle"
  /\ Holds(remote.flash, c) /\ c \notin lab
  /\ remote.open = "none" /\ remote.due = 0
  /\ lab' = lab \cup {c}
  /\ UNCHANGED <<remote, replies, step, awaiting, reading, file, got, spoiled, sent, answer,
                 request, outcome, faults>>

-----------------------------------------------------------------------------
Read == SendRead \/ PingOrOpenAnswered \/ DataRead \/ ReadClosed

Write ==
  \/ SendResetFirst \/ ResetFirstAnswered \/ Judge
  \/ SendWriteCommand \/ ResetAnswered \/ OpenAnswered
  \/ SendChunkCommand \/ SendDataPacket \/ SendDonePacket \/ ChunkAnswered
  \/ CheckAnswered \/ FlushAnswered \/ CloseAnswered
  \/ Verify \/ Reboot

Run == Read \/ Write \/ WrongReply \/ TimeOut

Start == \E c, b \in Configs : StartRun(c, b)

Outside ==
  \/ WriteThrows \/ KillRun \/ RemoteRestarts
  \/ \E c \in Configs : OwnerSyncs(c) \/ ReadIntoLab(c)

Next == Start \/ Run \/ Outside

(* A run that is started goes on, and somebody whose remote will not work  *)
(* goes on running the tool and goes through what the lab has.  Nobody has *)
(* to sync, or to read anything into the lab.                              *)
Fairness == WF_vars(Run) /\ \A c, b \in Configs : SF_vars(StartRun(c, b))

Spec == Init /\ [][Next]_vars /\ Fairness

-----------------------------------------------------------------------------
(* Properties.                                                             *)

(* While a run is under way, the remote never stops holding a whole        *)
(* configuration the lab has no copy of: what the open for writing erases  *)
(* can be put back (judgeCurrentContent).                                  *)
NothingLost ==
  [][step # "idle" =>
       \A c \in Configs \ lab : Holds(remote.flash, c) => Holds(remote'.flash, c)]_vars

(* What the open for writing erases is what the run read and judged: no    *)
(* late or left-over reply is ever taken for the configuration.            *)
ErasesWhatItJudged ==
  [][remote.flash # <<>> /\ remote'.flash = <<>> => got["/cfg/usercfg"] = Served(remote.flash)]_vars

(* From the judgement on, until the open for writing, the remote is not    *)
(* part way through a chunk and has no file open: nothing an interrupted   *)
(* run left behind can swallow the open or make it refuse.                 *)
JudgedAtRest ==
  step \in {"judge", "reset"} => remote.due = 0 /\ remote.writing = FALSE

(* The order of what is on the link, which is why the others hold: a reply *)
(* nobody waited for is of a kind that no later step accepts, up to the    *)
(* next command that only an empty link and a chunk at its end can answer. *)
Commands(q) == {q[i].cmd : i \in DOMAIN q}
Earlier(q)  == {q[i].cmd : i \in DOMAIN q \ {Len(q)}}

ReadLink ==
  /\ step = "ping" =>
       /\ Earlier(replies) \subseteq {"open", "close"}
       /\ ~awaiting => Commands(replies) \subseteq {"open", "close"}
       /\ "control" \notin Commands(replies)
       /\ "ping" \in Commands(replies) => remote.due = 0
  /\ step = "open" =>
       /\ Commands(replies) \subseteq {"open"} /\ Len(replies) <= 1
       /\ ~awaiting => replies = <<>>
       /\ replies # <<>> /\ replies[1].seq # REPLY_ERROR =>
            remote.open = Files[file] /\ remote.writing = FALSE
  /\ step = "read" =>
       /\ remote.open = Files[file]
       /\ replies = <<>> \/ replies = <<DataOf(Content(remote.flash, Files[file]))>>
       /\ ~awaiting => replies = <<>>
  /\ step = "close" =>
       /\ "control" \notin Commands(replies)
       /\ ~spoiled => Commands(replies) \subseteq {"close"} /\ Len(replies) <= 1
       /\ ~spoiled /\ ~awaiting => replies = <<>>
  /\ step # "close" => ~spoiled

WriteLink ==
  /\ step = "resetFirst" =>
       /\ "control" \notin Earlier(replies)
       /\ ~awaiting => "control" \notin Commands(replies)
  /\ step \in {"judge", "reset"} =>
       /\ Earlier(replies) \subseteq {"close"}
       /\ ~awaiting => Commands(replies) \subseteq {"close"}
  /\ step \in {"openW", "flush", "closeW"} =>
       Len(replies) <= 1 /\ (~awaiting => replies = <<>>)
  /\ step \in {"chunk", "data"} => Commands(replies) \subseteq {"write"}
  /\ step = "check" =>
       /\ Earlier(replies) \subseteq {"write"}
       /\ ~awaiting => Commands(replies) \subseteq {"write"}
  /\ step \in {"idle", "judge", "verify"} => ~awaiting

RemoteAtRest ==
  /\ step \in {"open", "read", "close"} => remote.due = 0
  /\ step \in {"read", "close"} => remote.writing = FALSE
  /\ remote.open = "none" => remote.writing = FALSE

NothingSentYet ==
  /\ step \in {"resetFirst", "judge", "reset", "openW"} => reading # "back"
  /\ step \in ReadSteps \cup {"resetFirst", "judge", "reset", "openW"} /\ reading # "back" =>
       sent = 0
  /\ step = "chunk" => sent < NPackets

LinkInOrder == ReadLink /\ WriteLink /\ RemoteAtRest /\ NothingSentYet

(* What was read is what the remote holds until the open for writing has   *)
(* gone out, and it was judged before anything that changes the remote.    *)
CurrentSteps == {"judge", "reset", "verify"}

ReadIsCurrent ==
  /\ step = "close" /\ ~spoiled /\ Files[file] = "/cfg/usercfg" =>
       got["/cfg/usercfg"] = Served(remote.flash)
  /\ step \in CurrentSteps \/ (step = "openW" /\ ~awaiting) =>
       got["/cfg/usercfg"] = Served(remote.flash)
  /\ step \in {"reset", "openW"} => Judgement(got["/cfg/usercfg"]) # "refused"
  /\ step # "idle" => {container, backup} \subseteq lab

(* A reboot goes out only when everything a read can serve is the          *)
(* container's, nothing is open for writing and the verdict is set; short of a packet  *)
(* programmed wrong the end marker is there too, so the boot validator     *)
(* will accept it.                                                         *)
RebootOnlyVerified ==
  step = "reboot" =>
    /\ Served(remote.flash) = ReadableOf(container)
    /\ remote.due = 0 /\ remote.writing = FALSE
    /\ remote.verdict
    /\ faults = 0 => Holds(remote.flash, container)

(* A remote without a whole configuration is never refused: whoever judges *)
(* it says so itself, because refusing would leave it with no way back.    *)
(* The code does not keep this: a read does not serve the end marker.      *)
EmptyNeverRefused ==
  [][step = "judge" /\ outcome' = "refused" /\ FactsAllow => HoldsSome(remote.flash)]_vars

(* What it does keep: a remote that is refused has a way back.  It reads   *)
(* back as a configuration that can be named as the next run's backup, as  *)
(* the lab has it, or as it is whole on the remote and can be read into    *)
(* the lab first, which is what the refusal says to do: nothing a stopped  *)
(* run left is refused for good (judgeCurrentContent).                     *)
NeverLockedOut ==
  [][step = "judge" /\ outcome' = "refused" /\ FactsAllow =>
       \E c \in Configs :
         /\ Served(remote.flash) = ReadableOf(c)
         /\ c \in lab \/ Holds(remote.flash, c)]_vars

(* Seen from outside the remote is a store: a run takes from it only what  *)
(* the lab has, and then puts on it only what it was started to write.     *)
held ==
  IF HoldsSome(remote.flash) THEN CHOOSE c \in Configs : Holds(remote.flash, c) ELSE NoConfig

Store == INSTANCE ConfigStore WITH
           holds <- held, writes <- IF step = "idle" THEN NoConfig ELSE container

IsAStore == Store!Safety

(* However a run was interrupted, a remote it has emptied does not stay    *)
(* empty.                                                                  *)
IsRefilled == Store!Refilled
=============================================================================
