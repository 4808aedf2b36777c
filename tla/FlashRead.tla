------------------------------ MODULE FlashRead ------------------------------
(***************************************************************************)
(* Reading a classic remote into the lab: HarmonyRemote's exchange of a    *)
(* version and of a flash read (packages/usb/src/remote.ts), readConfig    *)
(* over it (packages/corpus/src/read.ts), the region reader               *)
(* (packages/corpus/bin/read-region.ts) and the filing of both            *)
(* (packages/corpus/src/file.ts).                                          *)
(*                                                                         *)
(* One session at a time has the remote: opening it claims it.  The remote *)
(* may answer late, or not at all; the host may be slow, and lose the      *)
(* oldest reports; the cable may go and the program may be killed.  What a *)
(* session leaves unread the remote still owes to the next one.            *)
(***************************************************************************)
EXTENDS FlashPipe, FiniteSets

CONSTANTS
  Length,        \* chunks of the configuration, its header the first
  RegionFrom, RegionEnd,   \* the range a region read is asked for
  Window,        \* chunks per READ_FLASH
  IdlePolls,     \* silent polls that end a wait
  MaxWindowRetries,
  Words, Content,          \* what each place holds, as far as an XOR sees it
  Minutes,       \* the stamps a file can be given
  Nothing,
  MaxSessions, MaxLost     \* bounds: sessions; requests the remote misses

ASSUME ReadAssumption ==
  /\ Length \in 3..FlashSize /\ RegionFrom \in Places /\ RegionEnd \in RegionFrom + 1..FlashSize
  /\ Window \in Nat \ {0} /\ IdlePolls \in Nat \ {0} /\ MaxWindowRetries \in Nat
  /\ Content \in [Places -> SUBSET Words]
  /\ MaxSessions \in Nat /\ MaxLost \in Nat /\ Nothing \notin Seq(Places)

Readable == (0..Length - 1) \cup (RegionFrom..RegionEnd - 1)   \* what a session asks for

(* No chunks that a session may read can stand in for one of the           *)
(* configuration in the checksum: its words are independent under XOR.     *)
ASSUME IndependentWords ==
  \A p \in 0..Length - 1 : \E w \in Words :
    w \in Content[p] /\ \A q \in Readable \ {p} : w \notin Content[q]

VARIABLES
  owed,      \* what the remote has still to send
  queue,     \* what has arrived for the open handle and was not read
  attached,  \* the handle still reaches the remote
  step,
  program,
  opens,     \* GET_VERSIONs sent by this session
  idle,      \* silent polls in a row
  got,       \* the chunks of the running READ_FLASH
  attempt,   \* extra goes of this window
  image,     \* what the session has gathered
  minute,    \* the stamp it files under
  disk,      \* the lab's reads: the bytes, and whose read the two files are
  sessions, lost,
  gaveUp     \* some session stopped listening before its answer had ended

pipe   == <<owed, queue, attached>>
reader == <<step, program, opens, idle, got, attempt, image, minute>>
vars   == <<pipe, reader, disk, sessions, lost, gaveUp>>

Programs == {"config", "region"}
Steps == {"off", "asks", "version", "window", "stream", "drain",
          "judge", "file", "sidecar", "close"}
Files == [bytes : Seq(Places) \cup {Nothing}, by : 0..MaxSessions, sidecar : 0..MaxSessions]
NoFile == [bytes |-> Nothing, by |-> 0, sidecar |-> 0]

TypeOK ==
  /\ owed \in Seq(Reports) /\ queue \in Seq(Reports) /\ Len(queue) <= QueueDepth
  /\ attached \in BOOLEAN /\ step \in Steps /\ program \in Programs
  /\ opens \in 0..4 /\ idle \in 0..IdlePolls - 1 /\ attempt \in 0..MaxWindowRetries
  /\ got \in Seq(Places) /\ image \in Seq(Places) /\ minute \in Minutes
  /\ disk \in [Programs \X Minutes -> Files]
  /\ sessions \in 0..MaxSessions /\ lost \in 0..MaxLost /\ gaveUp \in BOOLEAN

Init ==
  /\ owed = <<>> /\ queue = <<>> /\ attached = TRUE
  /\ step = "off" /\ program = "config" /\ opens = 0 /\ idle = 0
  /\ got = <<>> /\ attempt = 0 /\ image = <<>> /\ minute \in Minutes
  /\ disk = [f \in Programs \X Minutes |-> NoFile]
  /\ sessions = 0 /\ lost = 0 /\ gaveUp = FALSE

-----------------------------------------------------------------------------
(* The request a session has come to.                                      *)

Start == IF program = "config" THEN 0 ELSE RegionFrom
End   == IF program = "config" THEN Length ELSE RegionEnd
At    == Start + Len(image)
Probing == program = "config" /\ image = <<>>       \* the HEADER_PROBE
Count == IF Probing THEN 1 ELSE IF End - At < Window THEN End - At ELSE Window

(* exchangeVersion sends twice to a remote that has never spoken, and      *)
(* readConfig's firstCommand goes through it once more.                    *)
VersionSends == IF program = "config" THEN 4 ELSE 2

(* A request reaches the remote, or it misses one, as it does after idling.*)
Send(answer) ==
  \/ owed' = owed \o answer /\ UNCHANGED lost
  \/ lost < MaxLost /\ owed = <<>> /\ lost' = lost + 1 /\ UNCHANGED owed

Heard(kind) == attached /\ queue # <<>> /\ Head(queue).kind = kind
Silent      == attached /\ queue = <<>>
StillWaitingAfresh(next) == Silent /\ idle' = 0 /\ step' = next   \* slip: polls not counted
StillWaiting(next) == Silent /\ idle + 1 < IdlePolls /\ idle' = idle + 1 /\ step' = next
GivesUp      == Silent /\ idle + 1 = IdlePolls /\ idle' = 0 /\ gaveUp' = TRUE
Take         == queue' = Tail(queue) /\ idle' = 0 /\ UNCHANGED <<owed, attached>>

-----------------------------------------------------------------------------
(* A session, from openHarmony to close.                                   *)

Open(p, m) ==
  /\ step = "off" /\ sessions < MaxSessions
  /\ step' = "asks" /\ program' = p /\ minute' = m /\ sessions' = sessions + 1
  /\ attached' = TRUE /\ opens' = 0 /\ idle' = 0 /\ got' = <<>> /\ attempt' = 0 /\ image' = <<>>
  /\ UNCHANGED <<owed, queue, disk, lost, gaveUp>>

AskVersion ==
  /\ step = "asks"
  /\ \/ attached /\ Send(<<VersionReply>>) /\ step' = "version" /\ opens' = opens + 1
     \/ ~attached /\ step' = "close" /\ UNCHANGED <<owed, lost, opens>>
  /\ UNCHANGED <<queue, attached, program, idle, got, attempt, image, minute, disk, sessions, gaveUp>>

(* exchange takes the first report for the reply; the kind is then judged. *)
HearVersion ==
  /\ step = "version"
  /\ \/ StillWaiting("version") /\ UNCHANGED <<pipe, gaveUp>>
     \/ /\ GivesUp /\ UNCHANGED pipe
        /\ step' = IF opens < VersionSends THEN "asks" ELSE "close"
     \/ Heard("version") /\ Take /\ step' = "window" /\ UNCHANGED gaveUp
     \/ /\ Heard("chunk") \/ Heard("finished")
        /\ Take /\ step' = "close" /\ UNCHANGED gaveUp
     \/ ~attached /\ step' = "close" /\ UNCHANGED <<pipe, idle, gaveUp>>
  /\ UNCHANGED <<program, opens, got, attempt, image, minute, disk, sessions, lost>>

AskWindow ==
  /\ step = "window"
  /\ got' = <<>> /\ idle' = 0
  /\ \/ attached /\ Send(Stream(At, Count)) /\ step' = "stream"
     \/ ~attached /\ step' = "drain" /\ UNCHANGED <<owed, lost>>
  /\ UNCHANGED <<queue, attached, program, opens, attempt, image, minute, disk, sessions, gaveUp>>

(* readFlashStream, a report at a time.                                    *)
Expected == IF got = <<>> THEN FirstSequence
            ELSE (Len(got) + FirstSequence) % SequenceModulus
InOrder(report) == report.sequence = Expected /\ Len(got) < Count

HearChunk ==
  /\ Heard("chunk") /\ Take /\ UNCHANGED gaveUp
  /\ IF InOrder(Head(queue)) THEN got' = Append(got, Head(queue).at) /\ step' = "stream"
                             ELSE UNCHANGED got /\ step' = "drain"

(* Only the acknowledgement ends a read, and the count must then be right. *)
(* The header's length is believed only behind a container's magic.        *)
WholeWhenFinished == Probing => got # <<>> /\ got[1] = 0   \* slip: the count goes unchecked
Whole == Len(got) = Count /\ (Probing => got[1] = 0)

HearFinished ==
  /\ Heard("finished") /\ Take /\ UNCHANGED gaveUp
  /\ IF Whole THEN /\ image' = image \o got /\ got' = <<>> /\ attempt' = 0
                   /\ step' = IF At + Count < End THEN "window" ELSE "judge"
              ELSE /\ UNCHANGED <<image, got, attempt>>
                   /\ step' = IF Len(got) = Count THEN "close" ELSE "drain"

HearStream ==
  /\ step = "stream"
  /\ \/ HearFinished
     \/ HearChunk /\ UNCHANGED <<image, attempt>>
     \/ Heard("version") /\ Take /\ step' = "drain" /\ UNCHANGED <<got, image, attempt, gaveUp>>
     \/ StillWaiting("stream") /\ UNCHANGED <<pipe, got, image, attempt, gaveUp>>
     \/ GivesUp /\ step' = "drain" /\ UNCHANGED <<pipe, got, image, attempt>>
     \/ ~attached /\ step' = "drain" /\ UNCHANGED <<pipe, idle, got, image, attempt, gaveUp>>
  /\ UNCHANGED <<program, opens, minute, disk, sessions, lost>>

(* What readFlash rethrows to, behind its drain: another go of a window,   *)
(* for readConfig and not for its header; the end of the session otherwise.*)
MayRetry == program = "config" /\ ~Probing /\ attempt < MaxWindowRetries
Rethrown ==
  IF MayRetry THEN step' = "window" /\ attempt' = attempt + 1
              ELSE step' = "close" /\ UNCHANGED attempt

OutOfThePipe   == attached /\ queue # <<>>      \* slip: one report off the pipe will do
EndsTheAnswer  == Heard("finished")

Drain ==
  /\ step = "drain"
  /\ \/ EndsTheAnswer /\ Take /\ Rethrown /\ UNCHANGED gaveUp
     \/ /\ Heard("chunk") \/ Heard("version")
        /\ Take /\ UNCHANGED <<step, attempt, gaveUp>>
     \/ StillWaiting("drain") /\ UNCHANGED <<pipe, attempt, gaveUp>>
     \/ GivesUp /\ Rethrown /\ UNCHANGED pipe
     \/ ~attached /\ Rethrown /\ UNCHANGED <<pipe, idle, gaveUp>>
  /\ UNCHANGED <<program, opens, got, image, minute, disk, sessions, lost>>

(* The two closures on a whole configuration: the end marker stands where  *)
(* the header said, and the trailer's checksum, an XOR, recomputes.        *)
Xor(places) ==
  {w \in Words : Cardinality({i \in DOMAIN places : w \in Content[places[i]]}) % 2 = 1}
TheConfig == [i \in 1..Length |-> i - 1]
ClosesByMarker == image[Len(image)] = Length - 1    \* slip: the checksum is left out
Closes    == image[Len(image)] = Length - 1 /\ Xor(image) = Xor(TheConfig)

Judge ==
  /\ step = "judge"
  /\ step' = IF program = "config" /\ ~Closes THEN "close" ELSE "file"
  /\ UNCHANGED <<pipe, program, opens, idle, got, attempt, image, minute, disk, sessions, lost, gaveUp>>

(* fileRead and fileRegion: both files `wx', the bytes first.              *)
FileOver ==                                      \* slip: the bytes not `wx'
  /\ step = "file" /\ step' = "sidecar"
  /\ disk' = [disk EXCEPT ![<<program, minute>>].bytes = image, ![<<program, minute>>].by = sessions]
  /\ UNCHANGED <<pipe, program, opens, idle, got, attempt, image, minute, sessions, lost, gaveUp>>

File ==
  /\ step = "file"
  /\ LET f == <<program, minute>> IN
     IF disk[f].bytes = Nothing
     THEN disk' = [disk EXCEPT ![f].bytes = image, ![f].by = sessions] /\ step' = "sidecar"
     ELSE UNCHANGED disk /\ step' = "close"
  /\ UNCHANGED <<pipe, program, opens, idle, got, attempt, image, minute, sessions, lost, gaveUp>>

(* The sidecar of a configuration describes it, which parses it and throws *)
(* over one the parser refuses.                                            *)
Sidecar ==
  /\ step = "sidecar" /\ step' = "close"
  /\ \/ disk[<<program, minute>>].sidecar = 0
        /\ disk' = [disk EXCEPT ![<<program, minute>>].sidecar = sessions]
     \/ program = "config" /\ UNCHANGED disk
  /\ UNCHANGED <<pipe, program, opens, idle, got, attempt, image, minute, sessions, lost, gaveUp>>

Ended ==
  /\ step' = "off" /\ queue' = <<>> /\ got' = <<>> /\ image' = <<>>
  /\ opens' = 0 /\ idle' = 0 /\ attempt' = 0
  /\ UNCHANGED <<owed, attached, program, minute, disk, sessions, lost>>

Close == step = "close" /\ Ended /\ UNCHANGED gaveUp

-----------------------------------------------------------------------------
(* The remote and the world.                                               *)

Emit ==
  /\ owed # <<>> /\ attached /\ step # "off"
  /\ owed' = Tail(owed) /\ queue' = Arriving(queue, Head(owed))
  /\ UNCHANGED <<attached, reader, disk, sessions, lost, gaveUp>>

(* The remote leaves the bus and comes back: the handle is dead, and the   *)
(* rest of its answer waits for the next one.                              *)
Reenumerate ==
  /\ step # "off" /\ attached /\ attached' = FALSE /\ queue' = <<>> /\ gaveUp' = TRUE
  /\ UNCHANGED <<owed, reader, disk, sessions, lost>>

Kill == step # "off" /\ Ended /\ gaveUp' = TRUE

Host == AskVersion \/ HearVersion \/ AskWindow \/ HearStream \/ Drain \/ Judge
        \/ File \/ Sidecar \/ Close

Next ==
  \/ \E p \in Programs, m \in Minutes : Open(p, m)
  \/ Host \/ Emit \/ Reenumerate \/ Kill

(* The host's loop runs on: its polls return within their timeout.         *)
Spec == Init /\ [][Next]_vars /\ WF_vars(Host)

-----------------------------------------------------------------------------
(* Whatever was answered late, missed or dropped on the way, and whatever  *)
(* earlier sessions left, a configuration in the lab is complete: every    *)
(* chunk of the remote's is in it and none twice, its header first and its *)
(* end marker last.  Unless some wait was given up it is the remote's.  The*)
(* chunks state no address and a stream is heard by whoever is reading, so *)
(* it rests on the sequence, the count, the drain behind a failed read and *)
(* the closures together (remote.ts, readFlash; read.ts, readConfig).      *)
EachChunkOnce(places) ==
  /\ Len(places) = Length /\ places[1] = 0 /\ places[Length] = Length - 1
  /\ \A p \in 0..Length - 1 : \E i \in 1..Length :
       places[i] = p /\ \A j \in 1..Length : places[j] = p => j = i

FiledIsTheRemotes ==
  \A m \in Minutes :
    LET read == disk[<<"config", m>>].bytes IN
    read # Nothing => EachChunkOnce(read) /\ (~gaveUp => read = TheConfig)

(* "A read that needed retries is still a good read, since every window is *)
(* verified by the sequence check and the whole file by the end marker and *)
(* the trailer checksum" (read.ts): what is filed is the remote's, in its  *)
(* order, whatever was given up.                                           *)
FiledInOrder ==
  \A m \in Minutes :
    disk[<<"config", m>>].bytes # Nothing => disk[<<"config", m>>].bytes = TheConfig

(* A region has no closures, and is what the flash held as long as no wait *)
(* was given up: a full queue may have cost any run of its chunks.         *)
RegionIsWhatWasThere ==
  \A m \in Minutes :
    disk[<<"region", m>>].bytes # Nothing /\ ~gaveUp =>
      disk[<<"region", m>>].bytes = [i \in 1..RegionEnd - RegionFrom |-> RegionFrom + i - 1]

(* A sidecar describes the bytes beside it: both are one read's, through   *)
(* kills between the two writes and reads filed in one minute.             *)
SidecarIsTheReads ==
  \A f \in DOMAIN disk : disk[f].sidecar # 0 => disk[f].sidecar = disk[f].by

(* Unless some wait was given up, a session that has ended, well or not,   *)
(* has read everything it asked for, so the next starts on a clean pipe:   *)
(* losing reports to a full queue is no exception, since the drain goes on *)
(* to the acknowledgement.                                                 *)
LeavesNothingBehind ==
  step = "off" /\ ~gaveUp => owed = <<>> /\ queue = <<>>

(* Every session ends, whatever the remote does: each wait is bounded by   *)
(* its silent polls, and what is left to drain is finite.                  *)
EverySessionEnds == step # "off" ~> step = "off"
=============================================================================
