----------------------------- MODULE TouchChannel -----------------------------
(***************************************************************************)
(* A session on a Touch's request channel (packages/usb/src/touchsession.ts*)
(* and the guard of filepipe.ts it writes through): one request at a time, *)
(* its line written into /sys/hlapi and its answer read out of it, a write *)
(* of answers announced first by a line of its own.                        *)
(*                                                                         *)
(* Host and remote are in lockstep but for the packets of a chunk and of an*)
(* answer, so a report reaches the remote in the step that sends it and    *)
(* what it answers waits in `replies'.  A write to the device may fail,    *)
(* having reached the remote or not; a reply may be late or lost; the      *)
(* program may be killed, and another transport opened on the same remote. *)
(***************************************************************************)
EXTENDS TouchCable, FiniteSets

CONSTANTS
  Ending,      \* the requests whose first packet is only a name (endsHere)
  Shifted,     \* those whose template opens another file first (SYNC)
  MaxAsks,     \* bound: requests in one behaviour
  MaxFaults    \* bound: faults in one behaviour

ASSUME EndingAssumption ==
  /\ Ending \subseteq Requests \ Answering /\ Shifted \subseteq Requests
  /\ \A r \in Ending : Packets[r] = 1

(* The lines that are not announced are of one or two packets, of chunks of*)
(* 50 at the least (chunksOf).                                             *)
ASSUME LineAssumption == \A r \in Requests \ Answering : Packets[r] <= PacketsPerChunk

ASSUME BoundAssumption == MaxAsks \in Nat /\ MaxFaults \in Nat

VARIABLES
  remote,
  replies,     \* what the remote has sent and the transport has not read
  phase,       \* the guard's TouchRoutePhase
  step,        \* what the session does next, "off" without a transport
  awaiting,    \* the step's report is sent and its reply is not read yet
  asked,       \* the request that runs or ran last
  announcing,  \* the operation is the announcement, not the request itself
  seq,         \* the next number of the operation's SequenceCounter
  sent,        \* packets of the line sent
  size,        \* the answer's size, as its open stated it
  got,         \* what of the answer arrived
  failed,      \* reading the answer threw, and the close is still to be sent
  result,      \* what came of the last request
  before,      \* how many texts the remote had acted on when it was asked
  asks, faults

operation == <<announcing, seq, sent, size, got, failed>>
session   == <<step, awaiting, asked, operation, result, before, asks>>
vars      == <<remote, replies, phase, session, faults>>

WriteSteps == {"open for writing", "chunk", "packet", "done", "written", "close"}
ReadSteps  == {"open for reading", "read", "data", "close after reading"}
Steps      == {"off", "ping", "ready"} \cup WriteSteps \cup ReadSteps
Running    == step \in WriteSteps \cup ReadSteps   \* `busy'

TypeOK ==
  /\ remote \in Remotes /\ replies \in Seq(Replies)
  /\ phase \in {"idle", "open", "line", "ended"}
  /\ step \in Steps /\ awaiting \in BOOLEAN
  /\ asked \in Requests \cup {NoRequest} /\ announcing \in BOOLEAN
  /\ seq \in 0..SequenceModulus - 1 /\ sent \in Nat /\ size \in Nat
  /\ got \in Seq(Texts \X Nat) /\ failed \in BOOLEAN
  /\ result \in {"none", "answered", "threw"}
  /\ before \in Nat /\ asks \in 0..MaxAsks /\ faults \in 0..MaxFaults

Init ==
  /\ remote = NewRemote /\ replies = <<>> /\ phase = "idle"
  /\ step = "off" /\ awaiting = FALSE /\ asked = NoRequest
  /\ announcing = FALSE /\ seq = 0 /\ sent = 0 /\ size = 0 /\ got = <<>> /\ failed = FALSE
  /\ result = "none" /\ before = 0 /\ asks = 0 /\ faults = 0

Fault == faults < MaxFaults /\ faults' = faults + 1

-----------------------------------------------------------------------------
(* The line in hand and its shape.                                         *)

Line     == IF announcing THEN <<Announcement(asked)>> ELSE Text(asked)
EndsHere == announcing \/ asked \in Ending

(* A line of the ANSWERS template ends its last chunk in the done packet.  *)
DonePacket == asked \in Answering

OpenWriteSequence  == IF asked \in Shifted THEN 1 ELSE 0
OpenReadSequence   == OpenWriteSequence + 1
FirstSequence(r)   == IF r \in Shifted THEN 6 ELSE 2
Take               == seq' = (seq + 1) % SequenceModulus
LastSequence       == (seq + SequenceModulus - 1) % SequenceModulus

(* The packets of the chunk that starts after `sent' packets.              *)
InChunk == LET left == Len(Line) - sent
           IN  IF left < PacketsPerChunk THEN left ELSE PacketsPerChunk
LastChunk   == sent + InChunk = Len(Line)
ChunkCount  == 1 + InChunk + (IF LastChunk /\ DonePacket THEN 1 ELSE 0)
EndsAChunk(i) == i = Len(Line) \/ i % PacketsPerChunk = 0

-----------------------------------------------------------------------------
(* The guard: what the transport lets out where the channel stands, and    *)
(* where it stands afterwards (guardFileProtocol).                         *)

(* Slip: only the packets of a line are judged by where the channel stands.*)
PassesOpens(cmd) == cmd = "packet" => phase \in {"open", "line"}

Passes(cmd) ==
  CASE cmd \in {"open for writing", "open for reading", "ping", "read"} -> phase = "idle"
    [] cmd = "chunk"  -> phase # "idle"
    [] cmd = "packet" -> phase \in {"open", "line"}
    [] cmd = "done"   -> phase \in {"line", "ended"}
    [] cmd = "close"  -> TRUE

PhaseAfter(cmd) ==
  CASE cmd = "open for writing" -> "open"
    [] cmd = "packet" /\ phase = "open" -> IF EndsHere THEN "ended" ELSE "line"
    [] cmd = "close"  -> "idle"
    [] OTHER -> phase

Arrives(report) ==
  /\ remote' = After(remote, report)
  /\ replies' = replies \o Answers(remote, report)

Write(report) ==
  /\ Passes(report.cmd)
  /\ Arrives(report)
  /\ phase' = PhaseAfter(report.cmd)
  /\ UNCHANGED faults

(* The guard refuses the report, or the write to the device fails; either  *)
(* way the phase stays where it was.                                       *)
WriteThrows(report) ==
  /\ \/ /\ ~Passes(report.cmd)
        /\ UNCHANGED <<remote, replies, faults>>
     \/ /\ Passes(report.cmd) /\ Fault
        /\ Arrives(report) \/ UNCHANGED <<remote, replies>>
  /\ UNCHANGED phase

-----------------------------------------------------------------------------
(* Opening a transport and a session, and asking.                          *)

Attach ==
  /\ step = "off"
  /\ step' = "ping" /\ awaiting' = FALSE
  /\ phase' = "idle" /\ replies' = <<>>
  /\ UNCHANGED <<remote, asked, operation, result, before, asks, faults>>

Detach ==
  /\ step = "ready"
  /\ step' = "off"
  /\ UNCHANGED <<remote, replies, phase, awaiting, asked, operation, result, before, asks, faults>>

(* request: a write of answers runs the announcement's operation first.    *)
Ask(r) ==
  /\ step = "ready" /\ asks < MaxAsks
  /\ asked' = r /\ announcing' = (r \in Answering)
  /\ step' = "open for writing" /\ awaiting' = FALSE
  /\ seq' = FirstSequence(r) /\ sent' = 0 /\ size' = 0 /\ got' = <<>> /\ failed' = FALSE
  /\ result' = "none" /\ before' = Len(remote.acted) /\ asks' = asks + 1
  /\ UNCHANGED <<remote, replies, phase, faults>>

Unasked == UNCHANGED <<asked, announcing, before, asks>>

(* Slip: an answer that cannot be read is asked for again.                 *)
ThrowAsksAgain ==
  /\ awaiting' = FALSE /\ Unasked /\ UNCHANGED <<seq, size, got, failed>>
  /\ CASE step = "ping" ->
            step' = "off" /\ UNCHANGED <<sent, result>>
       [] step = "open for reading" ->
            step' = "open for writing" /\ sent' = 0 /\ UNCHANGED result
       [] step \in (WriteSteps \cup ReadSteps) \ {"open for reading"} ->
            step' = "ready" /\ result' = "threw" /\ UNCHANGED sent

(* What a throw does: the read side closes whatever happens, the write side*)
(* does not, and a session that did not open leaves its caller to close.   *)
Throw ==
  /\ awaiting' = FALSE /\ Unasked /\ UNCHANGED <<seq, sent, size, got>>
  /\ CASE step = "ping" ->
            step' = "off" /\ UNCHANGED <<result, failed>>
       [] step \in {"read", "data"} ->
            step' = "close after reading" /\ failed' = TRUE /\ UNCHANGED result
       [] step \in (WriteSteps \cup ReadSteps) \ {"read", "data"} ->
            step' = "ready" /\ result' = "threw" /\ UNCHANGED failed

-----------------------------------------------------------------------------
(* Sending.                                                                *)

Sends == {"ping", "open for writing", "chunk", "packet", "done", "close",
          "open for reading", "read", "close after reading"}

ReportNow ==
  CASE step = "ping"                -> Report("ping", 0, 0)
    [] step = "open for writing"    -> Report(step, OpenWriteSequence, 0)
    [] step = "chunk"               -> Report(step, seq, ChunkCount)
    [] step = "packet"              -> Report(step, seq, Line[sent + 1])
    [] step = "done"                -> Report(step, 0, 0)
    [] step = "open for reading"    -> Report(step, OpenReadSequence, 0)
    [] step = "read"                -> Report(step, LastSequence, 0)
    [] step \in {"close", "close after reading"} -> Report("close", seq, 0)

(* The commands that are answered: the number stays for the reply's check. *)
SendCommand ==
  /\ step \in Sends \ {"chunk", "packet", "done"} /\ ~awaiting
  /\ Write(ReportNow)
  /\ awaiting' = TRUE
  /\ Unasked /\ UNCHANGED <<step, seq, sent, size, got, failed, result>>

SendChunkCommand ==
  /\ step = "chunk" /\ Write(ReportNow)
  /\ step' = "packet" /\ Take
  /\ Unasked /\ UNCHANGED <<awaiting, sent, size, got, failed, result>>

SendPacket ==
  /\ step = "packet" /\ Write(ReportNow)
  /\ sent' = sent + 1 /\ Take
  /\ CASE ~EndsAChunk(sent + 1) -> UNCHANGED <<step, awaiting>>
       [] sent + 1 = Len(Line) /\ DonePacket -> step' = "done" /\ UNCHANGED awaiting
       [] EndsAChunk(sent + 1) /\ ~(sent + 1 = Len(Line) /\ DonePacket) ->
            step' = "written" /\ awaiting' = TRUE
  /\ Unasked /\ UNCHANGED <<size, got, failed, result>>

SendDone ==
  /\ step = "done" /\ Write(ReportNow)
  /\ step' = "written" /\ awaiting' = TRUE
  /\ Unasked /\ UNCHANGED <<seq, sent, size, got, failed, result>>

SendThrows ==
  /\ step \in Sends /\ ~awaiting
  /\ WriteThrows(ReportNow)
  /\ Throw

-----------------------------------------------------------------------------
(* Reading the replies.                                                    *)

Expected == IF sent = Len(Line) /\ DonePacket THEN DONE_REPLY ELSE LastSequence

AcceptsAnyEcho(r) ==
  CASE step = "ping"                -> r.cmd = "ping"
    [] step = "open for writing"    -> r.cmd = "open"
    [] step = "written"             -> r.cmd = "write"
    [] step = "close"               -> r.cmd = "close"
    [] step = "open for reading"    -> r.cmd = "open"
    [] step = "read"                -> r.cmd = "read"
    [] step = "close after reading" -> r.cmd = "close"
    [] step = "data"                -> TRUE

(* Whose reply it is, and its echo where the step looks at it.  Anything   *)
(* after the read's own reply is taken for data up to the terminator.      *)
Accepts(r) ==
  /\ AcceptsAnyEcho(r)
  /\ step = "data" \/ r.seq # REPLY_ERROR
  /\ CASE step = "open for writing" -> r.seq = OpenWriteSequence
       [] step = "open for reading" -> r.seq = OpenReadSequence
       [] step = "written"          -> r.seq = Expected
       [] step = "close"            -> r.seq = seq
       [] OTHER -> TRUE

Accept ==
  /\ awaiting /\ replies # <<>> /\ Accepts(Head(replies))
  /\ replies' = Tail(replies)
  /\ UNCHANGED <<remote, phase, faults>>

SessionOpened ==
  /\ step = "ping" /\ Accept
  /\ step' = "ready" /\ awaiting' = FALSE
  /\ Unasked /\ UNCHANGED <<seq, sent, size, got, failed, result>>

OpenedForWriting ==
  /\ step = "open for writing" /\ Accept
  /\ step' = "chunk" /\ awaiting' = FALSE
  /\ Unasked /\ UNCHANGED <<seq, sent, size, got, failed, result>>

ChunkAnswered ==
  /\ step = "written" /\ Accept
  /\ step' = (IF sent = Len(Line) THEN "close" ELSE "chunk") /\ awaiting' = FALSE
  /\ Unasked /\ UNCHANGED <<seq, sent, size, got, failed, result>>

WriteClosed ==
  /\ step = "close" /\ Accept
  /\ step' = "open for reading" /\ awaiting' = FALSE /\ Take
  /\ Unasked /\ UNCHANGED <<sent, size, got, failed, result>>

(* An empty answer is not read; the read's number is taken all the same.   *)
OpenedForReading ==
  /\ step = "open for reading" /\ Accept
  /\ size' = Head(replies).size /\ awaiting' = FALSE /\ Take
  /\ step' = (IF size' > 0 THEN "read" ELSE "close after reading")
  /\ Unasked /\ UNCHANGED <<sent, got, failed, result>>

ReadAnswered ==
  /\ step = "read" /\ Accept
  /\ step' = "data"
  /\ Unasked /\ UNCHANGED <<awaiting, seq, sent, size, got, failed, result>>

(* readAnswer: an answer shorter than its open stated is refused.          *)
EndsAsItIs == FALSE   \* slip: whatever arrived is the answer
EndsShort  == Len(got) < size

DataRead ==
  /\ step = "data" /\ Accept
  /\ CASE Head(replies).cmd = "end" ->
            /\ step' = "close after reading" /\ awaiting' = FALSE
            /\ failed' = EndsShort /\ UNCHANGED got
       [] Head(replies).cmd = "read" ->
            UNCHANGED <<step, awaiting, failed, got>>
       [] Head(replies).cmd \notin {"end", "read"} ->
            /\ got' = Append(got, <<Head(replies).of, Head(replies).seq>>)
            /\ UNCHANGED <<step, awaiting, failed>>
  /\ Unasked /\ UNCHANGED <<seq, sent, size, result>>

(* The operation ends: the announcement's is followed by the request's.    *)
ReadClosed ==
  /\ step = "close after reading" /\ Accept /\ awaiting' = FALSE
  /\ CASE failed ->
            step' = "ready" /\ result' = "threw" /\ UNCHANGED <<announcing, operation>>
       [] ~failed /\ announcing ->
            /\ step' = "open for writing" /\ announcing' = FALSE
            /\ seq' = FirstSequence(asked) /\ sent' = 0 /\ size' = 0 /\ got' = <<>>
            /\ UNCHANGED <<failed, result>>
       [] ~failed /\ ~announcing ->
            step' = "ready" /\ result' = "answered" /\ UNCHANGED <<announcing, operation>>
  /\ UNCHANGED <<asked, before, asks>>

WrongReply ==
  /\ awaiting /\ replies # <<>> /\ ~Accepts(Head(replies))
  /\ replies' = Tail(replies) /\ UNCHANGED <<remote, phase, faults>>
  /\ Throw

(* A wait ends with nothing to read, or gives up on a reply that is late.  *)
TimeOut ==
  /\ awaiting
  /\ (replies = <<>> /\ UNCHANGED faults) \/ (replies # <<>> /\ Fault)
  /\ UNCHANGED <<remote, replies, phase>>
  /\ Throw

(* A report on its way to the host is lost.                                *)
LoseReply ==
  /\ replies # <<>> /\ Fault
  /\ replies' = Tail(replies)
  /\ UNCHANGED <<remote, phase, session>>

(* The program is killed and its transport with it.                        *)
Kill ==
  /\ step # "off" /\ Fault
  /\ step' = "off" /\ awaiting' = FALSE
  /\ result' = (IF Running THEN "threw" ELSE result)
  /\ Unasked /\ UNCHANGED <<remote, replies, phase, seq, sent, size, got, failed>>

-----------------------------------------------------------------------------

Send    == SendCommand \/ SendChunkCommand \/ SendPacket \/ SendDone \/ SendThrows
Receive == SessionOpened \/ OpenedForWriting \/ ChunkAnswered \/ WriteClosed \/ OpenedForReading
             \/ ReadAnswered \/ DataRead \/ ReadClosed \/ WrongReply \/ TimeOut

Next == Attach \/ Detach \/ (\E r \in Requests : Ask(r)) \/ Send \/ Receive \/ LoseReply \/ Kill

(* The program runs, and every wait has a timeout (TOUCH_TIMEOUT_MS).      *)
Spec == Init /\ [][Next]_vars /\ WF_vars(Send \/ Receive)

-----------------------------------------------------------------------------
(* Properties.                                                             *)

(* A write of answers is acted on whole or not at all, whatever fails or is*)
(* killed between its announcement and its last chunk (announcementFor).   *)
AnswersWhole ==
  \A i \in DOMAIN remote.acted :
    LET text == remote.acted[i]
    IN  (\E j \in DOMAIN text : text[j].of \in Answering) => \E r \in Answering : text = Text(r)

(* Within a request the remote acts on that request's whole line and on no *)
(* other.  Outside one it acts on as much of a line as a request that threw*)
(* part way through a chunk had written, when the next session's pings are *)
(* counted as the packets left (operation's "no close", the guard).        *)
ActsOnTheLine ==
  [][remote'.acted # remote.acted =>
       LET text == Last(remote'.acted)
       IN  \/ Running /\ text = Text(asked)
           \/ step = "ping" /\ result = "threw" /\ \E r \in Requests : IsPrefix(text, Text(r))]_vars

(* What a request returns is the whole of the remote's answer to its line, *)
(* whatever replies of an earlier one came late (readAnswer, awaitReply).  *)
AnswersOwn ==
  result = "answered" =>
    /\ Len(remote.acted) = before + 1 /\ Last(remote.acted) = Text(asked)
    /\ got = [i \in 1..AnswerSize[asked] |-> <<Text(asked), i>>]

(* One request is what TouchRequest promises, and the answerer relies on.  *)
Promise == INSTANCE TouchRequest WITH
  asked <- IF Running THEN asked ELSE NoRequest,
  ran   <- IF Running THEN Len(remote.acted) - before ELSE 0

IsARequest == Promise!Spec
=============================================================================
