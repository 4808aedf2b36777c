--------------------------- MODULE FileWriteProofs ---------------------------
(***************************************************************************)
(* Proofs about FileRemote and FileWrite, for every number of              *)
(* configurations, packets and faults: what a report does to the remote;   *)
(* that the link stays in order, so what is judged is what the remote holds*)
(* and nothing the lab cannot put back is ever erased; that what is refused*)
(* has a way back; that a reboot is only of what was verified; and that a  *)
(* run empties and fills the remote and does nothing else to it.           *)
(***************************************************************************)
EXTENDS FileWrite, TLAPS

USE ConfigsAssumption, SizeAssumption, ChunkAssumption, FlagAssumption, FaultAssumption

-----------------------------------------------------------------------------
(* The remote: what a report leaves and what it is answered with.          *)

(* The reports a run sends.                                                *)
IsReport(r) ==
  /\ r = [cmd |-> r.cmd, arg |-> r.arg, seq |-> r.seq]
  /\ r.seq \in Nat
  /\ r.cmd = "open" => r.arg \in Paths
  /\ r.cmd = "write" => r.arg \in Nat \ {0}
  /\ r.cmd = "data" => r.arg \in Cells

(* What a packet puts in the flash, or an open finds there, is a cell.     *)
LEMMA CellsFacts ==
  /\ Junk \in Cells /\ Erased \in Cells /\ Identity \in Seq(Cells)
  /\ \A c \in Configs, i \in Nat : Packet(c, i) \in Cells
  BY DEF Junk, Erased, Identity, Cells, Packet

(* A cell past the end of what was written is an erased one.               *)
LEMMA CellAtType ==
  ASSUME NEW flash \in Seq(Cells), NEW i \in Nat
  PROVE  CellAt(flash, i) \in Cells
  BY CellsFacts DEF CellAt

(* What a read of the configuration serves is cells.                       *)
LEMMA ServedType ==
  ASSUME NEW flash \in Seq(Cells)
  PROVE  Served(flash) \in Seq(Cells)
<1>1. \A i \in 1..NRead : CellAt(flash, i) \in Cells
  BY CellAtType
<1>2. [i \in 1..NRead |-> CellAt(flash, i)] \in Seq(Cells)
  BY <1>1
<1>3. QED
  BY <1>2 DEF Served

(* What a read of any file serves is cells.                                *)
LEMMA ContentType ==
  ASSUME NEW flash \in Seq(Cells), NEW path
  PROVE  Content(flash, path) \in Seq(Cells)
  BY ServedType, CellsFacts DEF Content

(* Each thing the remote does with a report leaves it a remote.            *)
LEMMA RemoteStepTypes ==
  ASSUME NEW rem \in Remotes
  PROVE  /\ \A p \in Paths : OpenForReading(rem, p) \in Remotes
         /\ OpenForWriting(rem) \in Remotes
         /\ \A n \in Nat \ {0} : OpenChunk(rem, n) \in Remotes
         /\ \A e : Check(rem, e) \in Remotes
         /\ CloseFile(rem) \in Remotes
         /\ Restarted(rem) \in Remotes
<1>1. \A p \in Paths : OpenForReading(rem, p) \in Remotes
  BY DEF OpenForReading, Remotes
<1>2. OpenForWriting(rem) \in Remotes
  <2>1. <<>> \in Seq(Cells) /\ "/cfg/usercfg" \in Paths
    BY DEF Paths
  <2>2. QED
    BY <2>1 DEF OpenForWriting, Remotes
<1>3. ASSUME NEW n \in Nat \ {0} PROVE OpenChunk(rem, n) \in Remotes
  <2>1. n - 1 \in Nat
    OBVIOUS
  <2>2. QED
    BY <2>1 DEF OpenChunk, Remotes
<1>4. \A e : Check(rem, e) \in Remotes
  BY DEF Check, Remotes
<1>5. CloseFile(rem) \in Remotes
  BY DEF CloseFile, Remotes
<1>6. Restarted(rem) \in Remotes
  <2>1. HoldsSome(rem.flash) \in BOOLEAN
    BY DEF HoldsSome
  <2>2. rem.flash \in Seq(Cells)
    BY DEF Remotes
  <2>3. QED
    BY <2>1, <2>2 DEF Restarted, Remotes
<1>7. QED
  BY <1>1, <1>2, <1>3, <1>4, <1>5, <1>6

(* So does a packet of an open chunk.                                      *)
LEMMA TakePacketType ==
  ASSUME NEW rem \in Remotes, rem.due > 0, NEW r, IsReport(r)
  PROVE  TakePacket(rem, r) \in Remotes
<1>1. AsData(r) \in Seq(Cells)
  BY CellsFacts DEF AsData, IsReport
<1>2. rem.flash \in Seq(Cells) /\ rem.due - 1 \in Nat
  BY DEF Remotes
<1>3. rem.flash \o AsData(r) \in Seq(Cells)
  BY <1>1, <1>2
<1>4. TakePacket(rem, r) = [rem EXCEPT !.flash = rem.flash \o AsData(r), !.due = rem.due - 1]
  BY DEF TakePacket
<1>5. QED
  BY <1>2, <1>3, <1>4 DEF Remotes

(* Any report at all leaves the remote a remote.                           *)
LEMMA AfterType ==
  ASSUME NEW rem \in Remotes, NEW r, IsReport(r)
  PROVE  After(rem, r) \in Remotes
  BY RemoteStepTypes, TakePacketType DEF After, IsReport

(* One report is answered by one reply or by none, and by `write' alone    *)
(* while a chunk is open.                                                  *)
LEMMA AnswersShape ==
  ASSUME NEW rem \in Remotes, NEW r, IsReport(r)
  PROVE  \/ Answers(rem, r) = <<>>
         \/ \E x \in Replies : Answers(rem, r) = <<x>> /\ (rem.due > 0 => x.cmd = "write")
<1>1. ASSUME NEW cmd \in {"ping", "open", "close", "control", "write", "flush"}, NEW s \in Nat
      PROVE  Reply(cmd, s) \in Replies
  BY <1>1 DEF Reply, Replies
<1>2. ASSUME NEW s \in Nat, NEW ok \in BOOLEAN PROVE Checked(s, ok) \in Replies
  BY <1>2 DEF Checked, Replies
<1>3. ASSUME NEW v \in Seq(Cells) PROVE DataOf(v) \in Replies
  BY <1>3 DEF DataOf, Replies
<1>4. FirstByte(r) \in Nat
  BY DEF FirstByte, IsReport, DONE_PACKET, FILE_SERVICE
<1>5. Content(rem.flash, rem.open) \in Seq(Cells)
  BY ContentType DEF Remotes
<1>6. CheckMatches(rem.flash, r.arg) \in BOOLEAN
  BY DEF CheckMatches
<1>7. CASE rem.due > 0
  BY <1>7, <1>1, <1>4 DEF Answers, Reply
<1>8. CASE ~(rem.due > 0)
  BY <1>8, <1>1, <1>2, <1>3, <1>5, <1>6 DEF Answers, REPLY_ERROR, IsReport
<1>9. QED
  BY <1>7, <1>8

-----------------------------------------------------------------------------
(* The flash: what a report may do to it.                                  *)

(* What is programmed past a whole configuration does not unmake it.       *)
LEMMA HoldsSurvivesPackets ==
  ASSUME NEW flash \in Seq(Cells), NEW more \in Seq(Cells), NEW c \in Configs,
         Holds(flash, c)
  PROVE  Holds(flash \o more, c)
<1>1. ASSUME NEW i \in 1..NPackets PROVE CellAt(flash \o more, i) = Packet(c, i)
  <2>1. CellAt(flash, i) = Packet(c, i)
    BY DEF Holds
  <2>2. Packet(c, i) # Erased
    BY DEF Packet, Erased
  <2>3. i \in DOMAIN flash /\ flash[i] = Packet(c, i)
    BY <2>1, <2>2 DEF CellAt
  <2>4. i \in 1..Len(flash) /\ Len(flash \o more) = Len(flash) + Len(more)
    BY <2>3
  <2>5. i \in DOMAIN (flash \o more) /\ (flash \o more)[i] = flash[i]
    BY <2>4
  <2>6. QED
    BY <2>3, <2>5 DEF CellAt
<1>2. QED
  BY <1>1 DEF Holds

(* A report that is no open for writing adds to the flash what an open     *)
(* chunk takes it for, and nothing outside one.                            *)
LEMMA WhatReportsAdd ==
  ASSUME NEW rem \in Remotes, NEW r, r.cmd # "openW"
  PROVE  After(rem, r).flash = rem.flash \o (IF rem.due > 0 THEN AsData(r) ELSE <<>>)
<1>1. CASE rem.due > 0
  BY <1>1 DEF After, TakePacket, Remotes
<1>2. CASE ~(rem.due > 0)
  <2>1. After(rem, r).flash = rem.flash
    BY <1>2 DEF After, Remotes, OpenForReading, OpenChunk, Check, CloseFile, Restarted
  <2>2. rem.flash = rem.flash \o <<>>
    BY DEF Remotes
  <2>3. QED
    BY <1>2, <2>1, <2>2
<1>3. QED
  BY <1>1, <1>2

(* Only an open for writing that finds no file open erases anything.       *)
LEMMA OnlyTheOpenErases ==
  ASSUME NEW rem \in Remotes, NEW r, IsReport(r),
         r.cmd # "openW"
  PROVE  \E more \in Seq(Cells) : After(rem, r).flash = rem.flash \o more
<1>1. AsData(r) \in Seq(Cells) /\ <<>> \in Seq(Cells)
  BY CellsFacts DEF AsData, IsReport
<1>2. QED
  BY <1>1, WhatReportsAdd

(* A read of a whole configuration serves it, end marker left out.         *)
LEMMA HeldIsServed ==
  ASSUME NEW flash, NEW c \in Configs, Holds(flash, c)
  PROVE  Served(flash) = ReadableOf(c)
<1>1. 1 \in 1..NPackets /\ CellAt(flash, 1) = Packet(c, 1)
  BY DEF Holds
<1>2. Served(flash) = [i \in 1..NRead |-> CellAt(flash, i)]
  BY <1>1 DEF Served
<1>3. \A i \in 1..NRead : i \in 1..NPackets
  OBVIOUS
<1>4. \A i \in 1..NRead : CellAt(flash, i) = Packet(c, i)
  BY <1>3 DEF Holds
<1>5. QED
  BY <1>2, <1>4 DEF ReadableOf

(* A read tells any two configurations apart, which is an assumption of the*)
(* model: a packet carries the configuration it is of.                     *)
LEMMA NoTwoReadAlike ==
  ASSUME NEW c \in Configs, NEW d \in Configs, ReadableOf(c) = ReadableOf(d)
  PROVE  c = d
<1>1. 1 \in 1..NRead
  OBVIOUS
<1>2. ReadableOf(c)[1] = Packet(c, 1) /\ ReadableOf(d)[1] = Packet(d, 1)
  BY <1>1 DEF ReadableOf
<1>3. QED
  BY <1>2 DEF Packet

(* A whole configuration, which an empty flash is not.                     *)
LEMMA WholeFlashFacts ==
  ASSUME NEW c \in Configs
  PROVE  WholeFlash(c) \in Seq(Cells) /\ WholeFlash(c) # <<>>
<1>1. \A i \in 1..NPackets : Packet(c, i) \in Cells
  BY CellsFacts
<1>2. WholeFlash(c) \in Seq(Cells) /\ Len(WholeFlash(c)) = NPackets
  BY <1>1 DEF WholeFlash
<1>3. QED
  BY <1>2

(* A whole configuration is the one the flash holds, and no other is.      *)
LEMMA HoldsItsOwn ==
  ASSUME NEW c \in Configs
  PROVE  Holds(WholeFlash(c), c)
  BY DEF Holds, CellAt, WholeFlash

LEMMA HoldsOne ==
  ASSUME NEW flash, NEW c \in Configs, NEW d \in Configs, Holds(flash, c), Holds(flash, d)
  PROVE  c = d
  BY HeldIsServed, NoTwoReadAlike

(* A remote that holds a configuration is a remote.                        *)
LEMMA RemoteOfType ==
  ASSUME NEW c \in Configs
  PROVE  RemoteOf(c) \in Remotes
  BY WholeFlashFacts DEF RemoteOf, Remotes

(* Only an open file is open for writing, whatever report comes.           *)
LEMMA NoFileNoWriting ==
  ASSUME NEW rem \in Remotes, NEW r, rem.open = "none" => rem.writing = FALSE
  PROVE  After(rem, r).open = "none" => After(rem, r).writing = FALSE
<1>1. CASE rem.due > 0
  BY <1>1 DEF After, TakePacket, Remotes
<1>2. CASE ~(rem.due > 0)
  <2>1. /\ OpenForReading(rem, r.arg).open = "none" => OpenForReading(rem, r.arg).writing = FALSE
        /\ OpenForWriting(rem).open # "none"
        /\ OpenChunk(rem, r.arg).open = rem.open /\ OpenChunk(rem, r.arg).writing = rem.writing
        /\ Check(rem, r.arg).open = rem.open /\ Check(rem, r.arg).writing = rem.writing
    BY DEF OpenForReading, OpenForWriting, OpenChunk, Check, Remotes
  <2>2. CloseFile(rem).writing = FALSE /\ Restarted(rem).writing = FALSE
    BY DEF CloseFile, Restarted, Remotes
  <2>3. QED
    BY <1>2, <2>1, <2>2 DEF After
<1>3. QED
  BY <1>1, <1>2

(* A reset of a remote outside a chunk leaves it at rest, its flash as it  *)
(* was.                                                                    *)
LEMMA ResetAtRest ==
  ASSUME NEW rem \in Remotes, NEW r, r.cmd = "reset", rem.due = 0, rem.writing = FALSE
  PROVE  After(rem, r).flash = rem.flash /\ After(rem, r).due = 0 /\ After(rem, r).writing = FALSE
<1>1. After(rem, r) = CloseFile(rem)
  BY DEF After
<1>2. QED
  BY <1>1 DEF CloseFile, Remotes

-----------------------------------------------------------------------------
(* What is on the link.                                                    *)

(* Nothing is on an empty link.                                            *)
LEMMA EmptyLink ==
  Commands(<<>>) = {} /\ Earlier(<<>>) = {} /\ Len(<<>>) = 0 /\ <<>> \in Seq(Replies)
  BY DEF Commands, Earlier

(* One reply alone on the link has none before it.                         *)
LEMMA OneOnLink ==
  ASSUME NEW x
  PROVE  Commands(<<x>>) = {x.cmd} /\ Earlier(<<x>>) = {} /\ Len(<<x>>) = 1
  BY DEF Commands, Earlier

(* A reply joins the link at its end: all that was there is before it.     *)
LEMMA AppendToLink ==
  ASSUME NEW q \in Seq(Replies), NEW x \in Replies
  PROVE  /\ q \o <<x>> \in Seq(Replies)
         /\ Commands(q \o <<x>>) = Commands(q) \cup {x.cmd}
         /\ Earlier(q \o <<x>>) = Commands(q)
         /\ Len(q \o <<x>>) = Len(q) + 1
<1> DEFINE r == q \o <<x>>
<1>1. r \in Seq(Replies) /\ Len(r) = Len(q) + 1
  OBVIOUS
<1>2. DOMAIN q = 1..Len(q) /\ DOMAIN r = 1..(Len(q) + 1)
  BY <1>1
<1>3. \A i \in DOMAIN q : r[i] = q[i]
  BY <1>2
<1>4. r[Len(q) + 1] = x
  OBVIOUS
<1>5. Commands(r) = Commands(q) \cup {x.cmd}
  <2>1. ASSUME NEW c \in Commands(r) PROVE c \in Commands(q) \cup {x.cmd}
    <3>1. PICK i \in DOMAIN r : c = r[i].cmd
      BY <2>1 DEF Commands
    <3>2. CASE i = Len(q) + 1
      BY <3>1, <3>2, <1>4
    <3>3. CASE i # Len(q) + 1
      <4>1. i \in DOMAIN q
        BY <3>1, <3>3, <1>2
      <4>2. QED
        BY <3>1, <4>1, <1>3 DEF Commands
    <3>4. QED
      BY <3>2, <3>3
  <2>2. ASSUME NEW c \in Commands(q) PROVE c \in Commands(r)
    <3>1. PICK i \in DOMAIN q : c = q[i].cmd
      BY <2>2 DEF Commands
    <3>2. i \in DOMAIN r /\ r[i] = q[i]
      BY <3>1, <1>2, <1>3
    <3>3. QED
      BY <3>1, <3>2 DEF Commands
  <2>3. x.cmd \in Commands(r)
    <3>1. Len(q) + 1 \in DOMAIN r
      BY <1>2
    <3>2. QED
      BY <3>1, <1>4 DEF Commands
  <2>4. QED
    BY <2>1, <2>2, <2>3
<1>6. Earlier(r) = Commands(q)
  <2>1. DOMAIN r \ {Len(r)} = DOMAIN q
    BY <1>1, <1>2
  <2>2. Earlier(r) = {r[i].cmd : i \in DOMAIN q}
    BY <2>1 DEF Earlier
  <2>3. QED
    BY <2>2, <1>3 DEF Commands
<1>7. QED
  BY <1>1, <1>5, <1>6

(* Taking the first reply leaves nothing new on the link.                  *)
LEMMA HeadOfLink ==
  ASSUME NEW q \in Seq(Replies), q # <<>>
  PROVE  /\ Head(q) \in Replies /\ Head(q) = q[1] /\ Head(q).cmd \in Commands(q)
         /\ Tail(q) \in Seq(Replies)
         /\ Len(q) \in Nat /\ Len(q) >= 1 /\ Len(Tail(q)) = Len(q) - 1
         /\ Len(q) <= 1 => Tail(q) = <<>>
         /\ Commands(Tail(q)) \subseteq Commands(q)
         /\ Earlier(Tail(q)) \subseteq Earlier(q)
         /\ Earlier(q) \subseteq Commands(q)
         /\ Head(q).cmd \notin Earlier(q) => Len(q) = 1
<1>1. /\ Len(q) \in Nat /\ Len(q) >= 1 /\ Tail(q) \in Seq(Replies) /\ Head(q) = q[1]
      /\ Len(Tail(q)) = Len(q) - 1
      /\ \A i \in 1..(Len(q) - 1) : Tail(q)[i] = q[i + 1]
  OBVIOUS
<1>2. DOMAIN q = 1..Len(q) /\ DOMAIN Tail(q) = 1..(Len(q) - 1)
  BY <1>1
<1>3. 1 \in DOMAIN q
  BY <1>1, <1>2
<1>4. Head(q) \in Replies /\ Head(q).cmd \in Commands(q)
  BY <1>1, <1>3 DEF Commands
<1>5. Commands(Tail(q)) \subseteq Commands(q)
  <2>1. ASSUME NEW c \in Commands(Tail(q)) PROVE c \in Commands(q)
    <3>1. PICK i \in DOMAIN Tail(q) : c = Tail(q)[i].cmd
      BY <2>1 DEF Commands
    <3>2. i + 1 \in DOMAIN q /\ Tail(q)[i] = q[i + 1]
      BY <3>1, <1>1, <1>2
    <3>3. QED
      BY <3>1, <3>2 DEF Commands
  <2>2. QED
    BY <2>1
<1>6. Earlier(Tail(q)) \subseteq Earlier(q)
  <2>1. ASSUME NEW c \in Earlier(Tail(q)) PROVE c \in Earlier(q)
    <3>1. PICK i \in DOMAIN Tail(q) \ {Len(Tail(q))} : c = Tail(q)[i].cmd
      BY <2>1 DEF Earlier
    <3>2. i + 1 \in DOMAIN q \ {Len(q)} /\ Tail(q)[i] = q[i + 1]
      BY <3>1, <1>1, <1>2
    <3>3. QED
      BY <3>1, <3>2 DEF Earlier
  <2>2. QED
    BY <2>1
<1>7. Earlier(q) \subseteq Commands(q)
  BY DEF Earlier, Commands
<1>8. ASSUME Head(q).cmd \notin Earlier(q) PROVE Len(q) = 1
  <2>1. 1 \notin DOMAIN q \ {Len(q)}
    BY <1>8, <1>1 DEF Earlier
  <2>2. QED
    BY <2>1, <1>3
<1>9. ASSUME Len(q) <= 1 PROVE Tail(q) = <<>>
  BY <1>9, <1>1
<1>10. QED
  BY <1>1, <1>4, <1>5, <1>6, <1>7, <1>8, <1>9
(* What is before the last reply is on the link.                           *)
LEMMA OrNothing ==
  ASSUME NEW q \in Seq(Replies)
  PROVE  /\ Earlier(q) \subseteq Commands(q)
         /\ Len(q) \in Nat
         /\ Len(q) = 0 <=> q = <<>>
  BY DEF Earlier, Commands

-----------------------------------------------------------------------------
(* What a run's numbers come to.                                           *)

(* The configuration is the last of the three files a run reads.           *)
LEMMA FilesFacts ==
  /\ Len(Files) = 3
  /\ \A i \in 1..3 : Files[i] \in Paths /\ (Files[i] = "/cfg/usercfg" <=> i = 3)
  BY DEF Files, Paths

(* A packet lies in its chunk.                                             *)
LEMMA ChunkFacts ==
  ASSUME NEW i \in 1..NPackets
  PROVE  ChunkOf(i) \in Nat /\ ChunkOf(i) * PacketsPerChunk >= i
<1> DEFINE n == i - 1
           q == n \div PacketsPerChunk
<1>1. n \in Nat /\ PacketsPerChunk \in Nat \ {0}
  OBVIOUS
<1>2. \A m \in Nat, k \in Nat \ {0} :
        m \div k \in Nat /\ m = k * (m \div k) + (m % k) /\ m % k \in 0..k-1
  OBVIOUS
<1>3. /\ q \in Nat /\ n = PacketsPerChunk * q + (n % PacketsPerChunk)
      /\ n % PacketsPerChunk \in 0..PacketsPerChunk-1
  BY <1>1, <1>2
<1>4. ChunkOf(i) = q + 1
  BY DEF ChunkOf
<1>5. (q + 1) * PacketsPerChunk = PacketsPerChunk * q + PacketsPerChunk
  BY <1>1, <1>3
<1>6. QED
  BY <1>1, <1>3, <1>4, <1>5

(* The sequence numbers and counts a run sends are numbers.                *)
LEMMA SequenceFacts ==
  /\ \A n \in Nat : n % SEQUENCE_MODULUS \in Nat
  /\ \A i \in 1..NPackets :
       ChunkCount(i) \in Nat \ {0} /\ ChunkSequence(i) \in Nat /\ PacketSequence(i) \in Nat
  /\ \A k \in Nat : AfterDataSequence(k) \in Nat
<1>1. \A n \in Nat : n % SEQUENCE_MODULUS \in Nat
  BY DEF SEQUENCE_MODULUS
<1>2. ASSUME NEW i \in 1..NPackets
      PROVE  ChunkCount(i) \in Nat \ {0} /\ ChunkSequence(i) \in Nat /\ PacketSequence(i) \in Nat
  <2>1. ChunkOf(i) \in Nat /\ ChunkOf(i) * PacketsPerChunk >= i
    BY ChunkFacts
  <2>2. ChunkOf(i) * PacketsPerChunk \in Nat
    BY <2>1
  <2>3. ChunkEnd(i) \in Nat /\ ChunkEnd(i) >= i
    BY <2>1, <2>2 DEF ChunkEnd
  <2>4. ChunkCount(i) \in Nat \ {0}
    BY <2>3 DEF ChunkCount
  <2>5. ChunkOf(i) + i \in Nat /\ ChunkOf(i) + i + 1 \in Nat
    BY <2>1
  <2>6. QED
    BY <2>4, <2>5, <1>1 DEF ChunkSequence, PacketSequence
<1>3. ASSUME NEW k \in Nat PROVE AfterDataSequence(k) \in Nat
  <2>1. NPackets \in 1..NPackets
    OBVIOUS
  <2>2. ChunkOf(NPackets) \in Nat
    BY <2>1, ChunkFacts
  <2>3. ChunkOf(NPackets) + NPackets + 1 + k \in Nat
    BY <2>2
  <2>4. QED
    BY <2>3, <1>1 DEF AfterDataSequence
<1>4. QED
  BY <1>1, <1>2, <1>3

-----------------------------------------------------------------------------
(* The inductive invariant.                                                *)

(* A read whose data packets may be lost is current of nothing.            *)
ReadKept == ~ShortReads => ReadIsCurrent

IInv == TypeOK /\ JudgedAtRest /\ LinkInOrder /\ ReadKept

(* Every report leaves at most one reply behind those that were waiting.   *)
LEMMA TransmitFacts ==
  ASSUME TypeOK, NEW r, IsReport(r), Transmit(r)
  PROVE  /\ remote' \in Remotes /\ replies' \in Seq(Replies) /\ faults' \in 0..MaxFaults
         /\ \/ remote' = remote /\ replies' = replies
            \/ remote' = After(remote, r) /\ replies' = replies \o Answers(remote, r)
         /\ Earlier(replies') \subseteq Commands(replies)
         /\ Len(replies') <= Len(replies) + 1
<1>1. remote \in Remotes /\ replies \in Seq(Replies) /\ faults \in 0..MaxFaults
  BY DEF TypeOK
<1>2. faults' \in 0..MaxFaults
  BY <1>1 DEF Transmit, Fault
<1>3. CASE remote' = remote /\ replies' = replies
  BY <1>1, <1>2, <1>3, OrNothing
<1>4. CASE Deliver(r)
  <2>1. remote' \in Remotes
    BY <1>1, <1>4, AfterType DEF Deliver
  <2>2. CASE Answers(remote, r) = <<>>
    <3>1. replies' = replies
      BY <1>1, <1>4, <2>2 DEF Deliver
    <3>2. QED
      BY <1>1, <1>2, <1>4, <2>1, <3>1, OrNothing DEF Deliver
  <2>3. ASSUME NEW x \in Replies, Answers(remote, r) = <<x>>
        PROVE  /\ replies' \in Seq(Replies)
               /\ Earlier(replies') \subseteq Commands(replies)
               /\ Len(replies') <= Len(replies) + 1
    <3>1. replies' = replies \o <<x>>
      BY <1>4, <2>3 DEF Deliver
    <3>2. Len(replies) \in Nat
      BY <1>1
    <3>3. QED
      BY <1>1, <3>1, <3>2, AppendToLink
  <2>4. QED
    BY <1>1, <1>2, <1>4, <2>1, <2>2, <2>3, AnswersShape DEF Deliver
<1>5. QED
  BY <1>3, <1>4 DEF Transmit

(* A step that accepts a reply the link holds last leaves an empty link.   *)
LEMMA AcceptFacts ==
  ASSUME TypeOK, Accept
  PROVE  /\ replies' \in Seq(Replies) /\ Head(replies) \in Replies
         /\ Head(replies).cmd = CommandAwaited /\ Head(replies).cmd \in Commands(replies)
         /\ Head(replies) = replies[1] /\ replies # <<>>
         /\ Head(replies).seq # REPLY_ERROR
         /\ Commands(replies') \subseteq Commands(replies)
         /\ Earlier(replies') \subseteq Earlier(replies)
         /\ Earlier(replies) \subseteq Commands(replies)
         /\ CommandAwaited \notin Earlier(replies) => replies' = <<>>
         /\ Len(replies) <= 1 => replies' = <<>>
<1>1. replies \in Seq(Replies) /\ replies # <<>> /\ replies' = Tail(replies)
  BY DEF TypeOK, Accept
<1>2. Head(replies).cmd = CommandAwaited /\ Head(replies).seq # REPLY_ERROR
  BY DEF Accept, Accepts
<1>3. QED
  BY <1>1, <1>2, HeadOfLink

(* Waiting in vain, or for what does not come, drops one reply or none.    *)
Drops == replies' = replies \/ (replies # <<>> /\ replies' = Tail(replies))

(* A reply that is dropped, late or lost leaves nothing new on the link.   *)
LEMMA DropFacts ==
  ASSUME TypeOK, Drops
  PROVE  /\ replies' \in Seq(Replies)
         /\ Commands(replies') \subseteq Commands(replies)
         /\ Earlier(replies') \subseteq Earlier(replies)
         /\ Earlier(replies) \subseteq Commands(replies)
         /\ Len(replies') <= Len(replies)
<1>1. replies \in Seq(Replies) /\ Len(replies) \in Nat
  BY DEF TypeOK
<1>2. CASE replies' = replies
  BY <1>1, <1>2, OrNothing
<1>3. CASE replies # <<>> /\ replies' = Tail(replies)
  BY <1>1, <1>3, HeadOfLink
<1>4. QED
  BY <1>2, <1>3 DEF Drops

(* A remote with a configuration on it, nothing on the link.               *)
LEMMA InitKeeps ==
  ASSUME Init
  PROVE  IInv
<1>1. TypeOK
  <2>1. remote \in Remotes
    BY RemoteOfType DEF Init
  <2>2. got \in [Paths -> Seq(Cells)] /\ replies \in Seq(Replies)
    BY DEF Init, Nothing
  <2>3. file \in 1..Len(Files)
    BY FilesFacts DEF Init
  <2>4. lab \in SUBSET Configs /\ container \in Configs /\ backup \in Configs
    BY DEF Init
  <2>5. sent \in 0..NPackets /\ faults \in 0..MaxFaults
    BY DEF Init
  <2>6. /\ step \in Steps /\ awaiting \in BOOLEAN /\ spoiled \in BOOLEAN
        /\ reading \in {"facts", "factsAgain", "back"}
        /\ answer \in {"none", "m", "u"} /\ outcome \in Outcomes
    BY DEF Init, Steps, Outcomes
  <2>7. QED
    BY <2>1, <2>2, <2>3, <2>4, <2>5, <2>6 DEF TypeOK
<1>2. JudgedAtRest
  BY DEF Init, JudgedAtRest
<1>3. LinkInOrder
  <2>1. remote.open = "none" /\ remote.writing = FALSE
    BY DEF Init, RemoteOf
  <2>2. QED
    BY <2>1 DEF Init, LinkInOrder, ReadLink, WriteLink, RemoteAtRest, NothingSentYet, ReadSteps
<1>4. ReadKept
  BY DEF Init, ReadKept, ReadIsCurrent, CurrentSteps
<1>5. QED
  BY <1>1, <1>2, <1>3, <1>4 DEF IInv
-----------------------------------------------------------------------------
(* A run starts.                                                           *)

(* A run that starts finds at most a late open reply on the link.          *)
LEMMA StartRunKeeps ==
  ASSUME IInv, NEW c \in Configs, NEW b \in Configs, StartRun(c, b)
  PROVE  IInv'
<1>0. TypeOK /\ LinkInOrder
  BY DEF IInv
<1>1. /\ replies' \in Seq(Replies)
      /\ Earlier(replies') = {} /\ Commands(replies') \subseteq {"open"}
  <2>1. CASE replies' = <<>>
    BY <2>1, EmptyLink
  <2>2. CASE LateOpen /\ replies' = <<replies[Len(replies)]>>
    <3>1. replies[Len(replies)] \in Replies /\ replies[Len(replies)].cmd = "open"
      BY <1>0, <2>2 DEF TypeOK, LateOpen
    <3>2. QED
      BY <2>2, <3>1, OneOnLink
  <2>3. QED
    BY <2>1, <2>2 DEF StartRun
<1>2. TypeOK'
  <2>1. got' \in [Paths -> Seq(Cells)] /\ file' \in 1..Len(Files)
    BY FilesFacts DEF StartRun, Nothing
  <2>2. QED
    BY <1>0, <1>1, <2>1 DEF StartRun, TypeOK, Steps, ReadSteps, Outcomes
<1>3. ~awaiting /\ ~spoiled
  BY <1>0 DEF StartRun, LinkInOrder, ReadLink, WriteLink
<1>4. JudgedAtRest'
  BY DEF StartRun, JudgedAtRest
<1>5. LinkInOrder'
  BY <1>0, <1>1, <1>3 DEF StartRun, LinkInOrder, ReadLink, WriteLink, RemoteAtRest, NothingSentYet,
                    ReadSteps
<1>6. ReadKept'
  BY DEF StartRun, ReadKept, ReadIsCurrent, CurrentSteps
<1>7. QED
  BY <1>2, <1>4, <1>5, <1>6 DEF IInv

-----------------------------------------------------------------------------
(* A run's exceptions.                                                     *)

(* A run that ends leaves the remote typed and nothing more asked of it.   *)
LEMMA EndKeeps ==
  ASSUME IInv, NEW how \in Outcomes, End(how), Unread, file' = file,
         remote' \in Remotes, remote'.open = "none" => remote'.writing = FALSE,
         replies' \in Seq(Replies), faults' \in 0..MaxFaults
  PROVE  IInv'
<1>1. TypeOK'
  BY DEF IInv, TypeOK, End, Unread, request, Steps
<1>2. QED
  BY <1>1 DEF IInv, End, Unread, request, JudgedAtRest, LinkInOrder, ReadLink, WriteLink,
              RemoteAtRest, NothingSentYet, ReadSteps, ReadKept, ReadIsCurrent, CurrentSteps

(* Reads that fail end the run or lead to the reset.                       *)
LEMMA ReadsFailedKeeps ==
  ASSUME IInv, step \in {"ping", "open", "close"}, ReadsFailed, Unread, file' = file,
         remote' = remote, Drops, faults' \in 0..MaxFaults,
         step = "close" => spoiled
  PROVE  IInv'
<1>0. TypeOK /\ LinkInOrder /\ ReadKept
  BY DEF IInv
<1>1. /\ replies' \in Seq(Replies)
      /\ Commands(replies') \subseteq Commands(replies)
      /\ Earlier(replies') \subseteq Commands(replies')
  <2>1. replies' \in Seq(Replies) /\ Commands(replies') \subseteq Commands(replies)
    BY <1>0, DropFacts
  <2>2. QED
    BY <2>1, OrNothing
<1>2. remote.open = "none" => remote.writing = FALSE
  BY <1>0 DEF LinkInOrder, RemoteAtRest
<1>3. CASE ~(reading = "facts" /\ FlagsSet)
  <2>1. End("failed")
    BY <1>3 DEF ReadsFailed
  <2>2. "failed" \in Outcomes /\ remote' \in Remotes
    BY <1>0 DEF Outcomes, TypeOK
  <2>3. QED
    BY <1>1, <1>2, <2>1, <2>2, EndKeeps
<1>4. CASE reading = "facts" /\ FlagsSet
  <2>1. /\ step' = "resetFirst" /\ awaiting' = FALSE /\ spoiled' = FALSE
        /\ UNCHANGED <<outcome, file, remote, reading, got, sent, answer, container, backup, lab>>
    BY <1>4 DEF ReadsFailed, Unread, request
  <2>2. TypeOK'
    BY <1>0, <1>1, <2>1 DEF TypeOK, Steps
  <2>3. "control" \notin Commands(replies)
    BY <1>0 DEF LinkInOrder, ReadLink
  <2>4. LinkInOrder'
    BY <1>0, <1>1, <1>2, <1>4, <2>1, <2>3
       DEF LinkInOrder, ReadLink, WriteLink, RemoteAtRest, NothingSentYet, ReadSteps
  <2>5. JudgedAtRest' /\ ReadKept'
    BY <1>0, <2>1 DEF JudgedAtRest, ReadKept, ReadIsCurrent, CurrentSteps
  <2>6. QED
    BY <2>2, <2>4, <2>5 DEF IInv
<1>5. QED
  BY <1>3, <1>4
(* What follows a readFile's close.                                        *)
LEMMA NextAfterCloseKeeps ==
  ASSUME IInv, step = "close", NextAfterClose, Unread, remote' = remote, Drops,
         faults' \in 0..MaxFaults,
         ~spoiled => replies' = <<>> \/ (awaiting /\ Drops)
  PROVE  IInv'
<1>0. TypeOK /\ LinkInOrder /\ ReadKept
  BY DEF IInv
<1>1. CASE spoiled
  BY <1>1, ReadsFailedKeeps DEF NextAfterClose
<1>2. CASE ~spoiled
  <2>1. /\ awaiting' = FALSE /\ spoiled' = FALSE
        /\ UNCHANGED <<outcome, remote, reading, got, sent, answer, container, backup, lab>>
    BY <1>0, <1>2 DEF NextAfterClose, Unread, request, TypeOK
  <2>2. /\ replies' \in Seq(Replies)
        /\ Commands(replies') \subseteq {"close"} /\ Earlier(replies') \subseteq {"close"}
    <3>1. Commands(replies) \subseteq {"close"}
      BY <1>0, <1>2 DEF LinkInOrder, ReadLink
    <3>2. QED
      BY <1>0, <3>1, DropFacts
  <2>3. remote.due = 0 /\ remote.writing = FALSE
    BY <1>0 DEF LinkInOrder, RemoteAtRest
  <2>4. CASE file < Len(Files)
    <3>1. file' = file + 1 /\ step' = "ping"
      BY <1>2, <2>4 DEF NextAfterClose
    <3>2. TypeOK'
      <4>1. file' \in 1..Len(Files)
        BY <1>0, <2>4, <3>1, FilesFacts DEF TypeOK
      <4>2. step' \in Steps
        BY <3>1 DEF Steps, ReadSteps
      <4>3. QED
        BY <1>0, <2>1, <2>2, <4>1, <4>2 DEF TypeOK
    <3>3. LinkInOrder'
      BY <1>0, <2>1, <2>2, <2>3, <3>1
         DEF LinkInOrder, ReadLink, WriteLink, RemoteAtRest, NothingSentYet, ReadSteps
    <3>4. JudgedAtRest' /\ ReadKept'
      BY <1>0, <2>1, <3>1 DEF JudgedAtRest, ReadKept, ReadIsCurrent, CurrentSteps
    <3>5. QED
      BY <3>2, <3>3, <3>4 DEF IInv
  <2>5. CASE ~(file < Len(Files))
    <3>1. file' = file /\ step' = IF reading = "back" THEN "verify" ELSE "judge"
      BY <1>2, <2>5 DEF NextAfterClose
    <3>2. TypeOK'
      BY <1>0, <2>1, <2>2, <3>1 DEF TypeOK, Steps
    <3>3. LinkInOrder'
      BY <1>0, <2>1, <2>2, <2>3, <3>1
         DEF LinkInOrder, ReadLink, WriteLink, RemoteAtRest, NothingSentYet, ReadSteps
    <3>4. Files[file] = "/cfg/usercfg"
      BY <1>0, <2>5, FilesFacts DEF TypeOK
    <3>5. JudgedAtRest' /\ ReadKept'
      BY <1>0, <1>2, <2>1, <2>3, <3>1, <3>4 DEF JudgedAtRest, ReadKept, ReadIsCurrent, CurrentSteps
    <3>6. QED
      BY <3>2, <3>3, <3>5 DEF IInv
  <2>6. QED
    BY <2>4, <2>5
<1>3. QED
  BY <1>1, <1>2

(* A failed read is closed, whatever was on the link.                      *)
LEMMA ThrowKeeps ==
  ASSUME IInv, step \in Steps \ {"idle", "judge", "verify", "reboot"},
         Throw, Unread, remote' = remote, Drops, faults' \in 0..MaxFaults
  PROVE  IInv'
<1>0. TypeOK /\ LinkInOrder /\ ReadKept
  BY DEF IInv
<1>1. CASE step = "close"
  <2>1. NextAfterClose
    BY <1>1 DEF Throw
  <2>2. ~spoiled => replies' = <<>> \/ (awaiting /\ Drops)
    BY <1>0, <1>1, DropFacts DEF LinkInOrder, ReadLink, Drops
  <2>3. QED
    BY <1>1, <2>1, <2>2, NextAfterCloseKeeps
<1>2. CASE step = "read"
  <2>1. /\ step' = "close" /\ awaiting' = FALSE /\ spoiled' = TRUE
        /\ UNCHANGED <<file, outcome, remote, reading, got, sent, answer, container, backup, lab>>
    BY <1>2 DEF Throw, Unread, request
  <2>2. replies' \in Seq(Replies) /\ "control" \notin Commands(replies')
    <3>1. Commands(replies) \subseteq {"data"}
      BY <1>0, <1>2, EmptyLink, OneOnLink DEF LinkInOrder, ReadLink, DataOf
    <3>2. QED
      BY <1>0, <3>1, DropFacts
  <2>3. TypeOK'
    BY <1>0, <2>1, <2>2 DEF TypeOK, Steps, ReadSteps
  <2>4. LinkInOrder'
    BY <1>0, <1>2, <2>1, <2>2
       DEF LinkInOrder, ReadLink, WriteLink, RemoteAtRest, NothingSentYet, ReadSteps
  <2>5. JudgedAtRest' /\ ReadKept'
    BY <1>0, <1>2, <2>1 DEF JudgedAtRest, ReadKept, ReadIsCurrent, CurrentSteps
  <2>6. QED
    BY <2>3, <2>4, <2>5 DEF IInv
<1>3. CASE step \in {"ping", "open"}
  <2>1. ReadsFailed /\ file' = file
    BY <1>3 DEF Throw
  <2>2. QED
    BY <1>3, <2>1, ReadsFailedKeeps
<1>4. CASE step \notin {"ping", "open", "read", "close"}
  <2>1. End("failed") /\ file' = file
    BY <1>4 DEF Throw
  <2>2. remote' \in Remotes /\ "failed" \in Outcomes /\ replies' \in Seq(Replies)
    BY <1>0, DropFacts DEF TypeOK, Outcomes
  <2>3. remote'.open = "none" => remote'.writing = FALSE
    BY <1>0 DEF LinkInOrder, RemoteAtRest
  <2>4. QED
    BY <2>1, <2>2, <2>3, EndKeeps
<1>5. QED
  BY <1>1, <1>2, <1>3, <1>4

(* A wrong reply, a wait that runs out, a report refused by the            *)
(* transport.                                                              *)
LEMMA FailuresKeep ==
  ASSUME IInv, WrongReply \/ TimeOut \/ WriteThrows
  PROVE  IInv'
<1>0. TypeOK /\ LinkInOrder
  BY DEF IInv
<1>1. step \in Steps \ {"idle", "judge", "verify", "reboot"} \/ (step = "reboot" /\ WriteThrows)
  BY <1>0 DEF WrongReply, TimeOut, WriteThrows, TypeOK, LinkInOrder, WriteLink
<1>2. Throw /\ Unread /\ remote' = remote /\ Drops /\ faults' \in 0..MaxFaults
  BY <1>0 DEF WrongReply, TimeOut, WriteThrows, Drops, Fault, TypeOK
<1>3. CASE step = "reboot"
  <2>1. End("failed") /\ file' = file
    BY <1>2, <1>3 DEF Throw
  <2>2. remote' \in Remotes /\ "failed" \in Outcomes /\ replies' \in Seq(Replies)
    BY <1>0, <1>2, DropFacts DEF TypeOK, Outcomes
  <2>3. remote'.open = "none" => remote'.writing = FALSE
    BY <1>0, <1>2 DEF LinkInOrder, RemoteAtRest
  <2>4. QED
    BY <1>2, <2>1, <2>2, <2>3, EndKeeps
<1>4. QED
  BY <1>1, <1>2, <1>3, ThrowKeeps
-----------------------------------------------------------------------------
(* readFile.                                                               *)

(* A ping, an open, a read or a close goes out.                            *)
LEMMA SendReadKeeps ==
  ASSUME IInv, SendRead
  PROVE  IInv'
<1>0. TypeOK /\ LinkInOrder /\ ReadKept /\ remote \in Remotes /\ replies \in Seq(Replies)
  BY DEF IInv, TypeOK
<1> DEFINE r == Report(step, Files[file], 0)
<1>1. IsReport(r) /\ r.cmd = step /\ r.arg = Files[file] /\ r.seq = 0 /\ step \in ReadSteps
  BY <1>0, FilesFacts DEF IsReport, Report, SendRead, TypeOK, ReadSteps
<1>2. /\ awaiting = FALSE /\ awaiting' = TRUE /\ Transmit(r)
      /\ UNCHANGED <<step, reading, file, got, spoiled, sent, answer, container, backup, outcome, lab>>
  BY <1>0 DEF SendRead, Send, request, TypeOK
<1> HIDE DEF r
<1>3. /\ remote' \in Remotes /\ replies' \in Seq(Replies) /\ faults' \in 0..MaxFaults
      /\ Earlier(replies') \subseteq Commands(replies)
      /\ Len(replies') <= Len(replies) + 1
      /\ \/ remote' = remote /\ replies' = replies
         \/ remote' = After(remote, r) /\ replies' = replies \o Answers(remote, r)
  BY <1>0, <1>1, <1>2, TransmitFacts
<1>4. TypeOK'
  BY <1>0, <1>2, <1>3 DEF TypeOK
<1>5. CASE remote' = remote /\ replies' = replies
  BY <1>0, <1>1, <1>2, <1>4, <1>5
     DEF IInv, LinkInOrder, ReadLink, WriteLink, RemoteAtRest, NothingSentYet, ReadSteps,
         JudgedAtRest, ReadKept, ReadIsCurrent, CurrentSteps
<1>6. CASE step = "ping" /\ remote' = After(remote, r) /\ replies' = replies \o Answers(remote, r)
  <2>1. remote.due > 0 \/ (remote' = remote /\ Answers(remote, r) = <<Reply("ping", 0)>>)
    BY <1>0, <1>1, <1>6 DEF After, Answers
  <2>2. \/ replies' = replies
        \/ /\ Commands(replies') = Commands(replies) \cup {"write"}
        \/ /\ Commands(replies') = Commands(replies) \cup {"ping"} /\ remote'.due = 0
    <3>1. CASE Answers(remote, r) = <<>>
      BY <1>0, <1>6, <3>1
    <3>2. ASSUME NEW x \in Replies, Answers(remote, r) = <<x>>, remote.due > 0 => x.cmd = "write"
          PROVE  \/ Commands(replies') = Commands(replies) \cup {"write"}
                 \/ Commands(replies') = Commands(replies) \cup {"ping"} /\ remote'.due = 0
      <4>1. Commands(replies') = Commands(replies) \cup {x.cmd}
        BY <1>0, <1>6, <3>2, AppendToLink
      <4>2. CASE remote.due > 0
        BY <4>1, <4>2, <3>2
      <4>3. CASE ~(remote.due > 0)
        <5>1. remote'.due = 0 /\ x = Reply("ping", 0)
          BY <1>0, <2>1, <3>2, <4>3 DEF Remotes
        <5>2. QED
          BY <4>1, <5>1 DEF Reply
      <4>4. QED
        BY <4>2, <4>3
    <3>3. QED
      BY <1>0, <1>1, <3>1, <3>2, AnswersShape
  <2>3. remote'.open = "none" => remote'.writing = FALSE
    BY <1>0, <1>1, <1>6 DEF After, TakePacket, LinkInOrder, RemoteAtRest, Remotes
  <2>4. LinkInOrder'
    BY <1>0, <1>2, <1>3, <1>6, <2>2, <2>3
       DEF LinkInOrder, ReadLink, WriteLink, RemoteAtRest, NothingSentYet, ReadSteps
  <2>5. JudgedAtRest' /\ ReadKept'
    BY <1>0, <1>2, <1>6 DEF JudgedAtRest, ReadKept, ReadIsCurrent, CurrentSteps
  <2>6. QED
    BY <1>4, <2>4, <2>5 DEF IInv
<1>7. CASE step = "open" /\ remote' = After(remote, r) /\ replies' = replies \o Answers(remote, r)
  <2>1. replies = <<>> /\ remote.due = 0
    BY <1>0, <1>2, <1>7 DEF LinkInOrder, ReadLink, RemoteAtRest
  <2>2. /\ remote' = OpenForReading(remote, Files[file])
        /\ Answers(remote, r) = <<Reply("open", IF remote.open = "none" THEN 0 ELSE REPLY_ERROR)>>
    BY <1>1, <1>7, <2>1 DEF After, Answers
  <2>3. replies' = <<Reply("open", IF remote.open = "none" THEN 0 ELSE REPLY_ERROR)>>
    BY <1>7, <2>1, <2>2
  <2>4. /\ Commands(replies') = {"open"} /\ Len(replies') = 1
        /\ replies'[1].seq = IF remote.open = "none" THEN 0 ELSE REPLY_ERROR
    BY <2>3, OneOnLink DEF Reply
  <2>5. /\ remote.open = "none" => remote'.open = Files[file] /\ remote'.writing = FALSE
        /\ remote'.open = "none" => remote'.writing = FALSE
        /\ remote'.due = 0
    BY <1>0, <2>1, <2>2 DEF OpenForReading, LinkInOrder, RemoteAtRest, Remotes
  <2>6. LinkInOrder'
    BY <1>0, <1>2, <1>7, <2>4, <2>5
       DEF LinkInOrder, ReadLink, WriteLink, RemoteAtRest, NothingSentYet, ReadSteps
  <2>7. JudgedAtRest' /\ ReadKept'
    BY <1>0, <1>2, <1>7 DEF JudgedAtRest, ReadKept, ReadIsCurrent, CurrentSteps
  <2>8. QED
    BY <1>4, <2>6, <2>7 DEF IInv
<1>8. CASE step = "read" /\ remote' = After(remote, r) /\ replies' = replies \o Answers(remote, r)
  <2>1. replies = <<>> /\ remote.due = 0 /\ remote.open = Files[file] /\ Files[file] # "none"
    BY <1>0, <1>2, <1>8, FilesFacts DEF LinkInOrder, ReadLink, RemoteAtRest, TypeOK, Paths
  <2>2. remote' = remote /\ Answers(remote, r) = <<DataOf(Content(remote.flash, Files[file]))>>
    BY <1>1, <1>8, <2>1 DEF After, Answers
  <2>3. replies' = <<DataOf(Content(remote'.flash, Files[file]))>>
    BY <1>8, <2>1, <2>2
  <2>4. LinkInOrder'
    BY <1>0, <1>2, <1>8, <2>2, <2>3
       DEF LinkInOrder, ReadLink, WriteLink, RemoteAtRest, NothingSentYet, ReadSteps
  <2>5. JudgedAtRest' /\ ReadKept'
    BY <1>0, <1>2, <1>8 DEF JudgedAtRest, ReadKept, ReadIsCurrent, CurrentSteps
  <2>6. QED
    BY <1>4, <2>4, <2>5 DEF IInv
<1>9. CASE step = "close" /\ remote' = After(remote, r) /\ replies' = replies \o Answers(remote, r)
  <2>1. remote.due = 0
    BY <1>0, <1>9 DEF LinkInOrder, RemoteAtRest
  <2>2. remote' = CloseFile(remote) /\ Answers(remote, r) = <<Reply("close", 0)>>
    BY <1>1, <1>9, <2>1 DEF After, Answers
  <2>3. Reply("close", 0) \in Replies /\ Reply("close", 0).cmd = "close"
    BY <1>0, EmptyLink DEF Reply, Replies
  <2>4. Commands(replies') = Commands(replies) \cup {"close"} /\ Len(replies') = Len(replies) + 1
    BY <1>0, <1>9, <2>2, <2>3, AppendToLink
  <2>5. /\ remote'.flash = remote.flash /\ remote'.open = "none" /\ remote'.writing = FALSE
        /\ remote'.due = 0
    BY <1>0, <2>1, <2>2 DEF CloseFile, Remotes
  <2>6. ~spoiled => Len(replies) = 0
    BY <1>0, <1>2, <1>9, EmptyLink DEF LinkInOrder, ReadLink
  <2>7. LinkInOrder'
    BY <1>0, <1>2, <1>9, <2>4, <2>5, <2>6
       DEF LinkInOrder, ReadLink, WriteLink, RemoteAtRest, NothingSentYet, ReadSteps
  <2>8. JudgedAtRest' /\ ReadKept'
    BY <1>0, <1>2, <1>9, <2>5 DEF JudgedAtRest, ReadKept, ReadIsCurrent, CurrentSteps
  <2>9. QED
    BY <1>4, <2>7, <2>8 DEF IInv
<1>10. QED
  BY <1>1, <1>3, <1>5, <1>6, <1>7, <1>8, <1>9 DEF ReadSteps
(* A ping, an open, a read or a close is answered.                         *)
LEMMA ReadAnswersKeep ==
  ASSUME IInv, PingOrOpenAnswered \/ DataRead \/ ReadClosed
  PROVE  IInv'
<1>0. TypeOK /\ LinkInOrder /\ ReadKept
  BY DEF IInv
<1>1. CASE PingOrOpenAnswered /\ step = "ping"
  <2>1. /\ step' = "open" /\ awaiting' = FALSE /\ awaiting = TRUE /\ Accept
        /\ UNCHANGED <<remote, reading, file, got, spoiled, sent, answer, container, backup,
                       outcome, lab, faults>>
    BY <1>0, <1>1 DEF PingOrOpenAnswered, request, Accept, TypeOK
  <2>2. replies' = <<>> /\ remote.due = 0
    <3>1. CommandAwaited = "ping"
      BY <1>1 DEF CommandAwaited
    <3>2. "ping" \notin Earlier(replies) /\ ("ping" \in Commands(replies) => remote.due = 0)
      BY <1>0, <1>1 DEF LinkInOrder, ReadLink
    <3>3. QED
      BY <1>0, <2>1, <3>1, <3>2, AcceptFacts
  <2>3. TypeOK'
    BY <1>0, <2>1, <2>2, EmptyLink DEF TypeOK, Steps, ReadSteps
  <2>4. LinkInOrder'
    BY <1>0, <1>1, <2>1, <2>2, EmptyLink
       DEF LinkInOrder, ReadLink, WriteLink, RemoteAtRest, NothingSentYet, ReadSteps
  <2>5. JudgedAtRest' /\ ReadKept'
    BY <1>0, <1>1, <2>1 DEF JudgedAtRest, ReadKept, ReadIsCurrent, CurrentSteps
  <2>6. QED
    BY <2>3, <2>4, <2>5 DEF IInv
<1>2. CASE PingOrOpenAnswered /\ step = "open"
  <2>1. /\ step' = "read" /\ awaiting' = FALSE /\ awaiting = TRUE /\ Accept
        /\ UNCHANGED <<remote, reading, file, got, spoiled, sent, answer, container, backup,
                       outcome, lab, faults>>
    BY <1>0, <1>2 DEF PingOrOpenAnswered, request, Accept, TypeOK
  <2>2. replies' = <<>> /\ remote.open = Files[file] /\ remote.writing = FALSE
    BY <1>0, <1>2, <2>1, AcceptFacts DEF LinkInOrder, ReadLink
  <2>3. TypeOK'
    BY <1>0, <2>1, <2>2, EmptyLink DEF TypeOK, Steps, ReadSteps
  <2>4. LinkInOrder'
    BY <1>0, <1>2, <2>1, <2>2, EmptyLink
       DEF LinkInOrder, ReadLink, WriteLink, RemoteAtRest, NothingSentYet, ReadSteps
  <2>5. JudgedAtRest' /\ ReadKept'
    BY <1>0, <1>2, <2>1 DEF JudgedAtRest, ReadKept, ReadIsCurrent, CurrentSteps
  <2>6. QED
    BY <2>3, <2>4, <2>5 DEF IInv
<1>3. CASE DataRead
  <2>1. /\ step = "read" /\ step' = "close" /\ awaiting' = FALSE /\ awaiting = TRUE /\ Accept
        /\ UNCHANGED <<remote, reading, file, spoiled, sent, answer, container, backup,
                       outcome, lab>>
    BY <1>0, <1>3 DEF DataRead, request, Accept, TypeOK
  <2>2. /\ \/ got' = [got EXCEPT ![Files[file]] = Head(replies).val]
           \/ /\ ShortReads /\ Len(Head(replies).val) > 1
              /\ got' = [got EXCEPT ![Files[file]] = Tail(Head(replies).val)]
        /\ faults' \in 0..MaxFaults
    BY <1>0, <1>3 DEF DataRead, Fault, TypeOK
  <2>3. replies = <<DataOf(Content(remote.flash, Files[file]))>> /\ Len(replies) = 1
    BY <1>0, <2>1, AcceptFacts, OneOnLink DEF LinkInOrder, ReadLink
  <2>4. replies' = <<>> /\ Head(replies).val = Content(remote.flash, Files[file])
    BY <1>0, <2>1, <2>3, AcceptFacts DEF DataOf
  <2>5. /\ Head(replies).val \in Seq(Cells)
        /\ Len(Head(replies).val) > 1 => Tail(Head(replies).val) \in Seq(Cells)
    <3>1. Head(replies).val \in Seq(Cells)
      BY <1>0, <2>4, ContentType DEF TypeOK, Remotes
    <3>2. ASSUME Len(Head(replies).val) > 1 PROVE Head(replies).val # <<>>
      BY <3>1, <3>2
    <3>3. QED
      BY <3>1, <3>2
  <2>6. Files[file] \in Paths /\ got \in [Paths -> Seq(Cells)]
    BY <1>0, FilesFacts DEF TypeOK
  <2>7. got' \in [Paths -> Seq(Cells)]
    BY <2>2, <2>5, <2>6
  <2>8. ~ShortReads /\ Files[file] = "/cfg/usercfg" =>
          got'["/cfg/usercfg"] = Served(remote.flash)
    BY <2>2, <2>4, <2>6 DEF Content
  <2>9. TypeOK'
    BY <1>0, <2>1, <2>2, <2>4, <2>7, EmptyLink DEF TypeOK, Steps, ReadSteps
  <2>10. LinkInOrder'
    BY <1>0, <2>1, <2>4, EmptyLink
       DEF LinkInOrder, ReadLink, WriteLink, RemoteAtRest, NothingSentYet, ReadSteps
  <2>11. JudgedAtRest' /\ ReadKept'
    BY <1>0, <2>1, <2>8 DEF JudgedAtRest, ReadKept, ReadIsCurrent, CurrentSteps
  <2>12. QED
    BY <2>9, <2>10, <2>11 DEF IInv
<1>4. CASE ReadClosed
  <2>1. step = "close" /\ awaiting /\ Accept /\ NextAfterClose /\ Unread /\ remote' = remote
        /\ faults' \in 0..MaxFaults
    BY <1>0, <1>4 DEF ReadClosed, Accept, TypeOK
  <2>2. Drops
    BY <2>1 DEF Accept, Drops
  <2>3. QED
    BY <2>1, <2>2, NextAfterCloseKeeps
<1>5. QED
  BY <1>1, <1>2, <1>3, <1>4 DEF PingOrOpenAnswered

-----------------------------------------------------------------------------
(* writeFileConfig, up to its open for writing.                            *)

(* The reset after failed reads goes out.                                  *)
LEMMA SendResetFirstKeeps ==
  ASSUME IInv, SendResetFirst
  PROVE  IInv'
<1>0. TypeOK /\ LinkInOrder /\ ReadKept /\ remote \in Remotes /\ replies \in Seq(Replies)
  BY DEF IInv, TypeOK
<1> DEFINE r == Report("reset", "none", 0)
<1>1. IsReport(r) /\ r.cmd = "reset"
  BY DEF IsReport, Report
<1>2. /\ step = "resetFirst" /\ awaiting = FALSE /\ awaiting' = TRUE /\ Transmit(r)
      /\ UNCHANGED <<step, reading, file, got, spoiled, sent, answer, container, backup, outcome, lab>>
  BY <1>0 DEF SendResetFirst, Send, request, TypeOK
<1> HIDE DEF r
<1>3. /\ remote' \in Remotes /\ replies' \in Seq(Replies) /\ faults' \in 0..MaxFaults
      /\ Earlier(replies') \subseteq Commands(replies)
      /\ remote' = remote \/ remote' = After(remote, r)
  BY <1>0, <1>1, <1>2, TransmitFacts
<1>4. TypeOK'
  BY <1>0, <1>2, <1>3 DEF TypeOK
<1>5. remote'.open = "none" => remote'.writing = FALSE
  BY <1>0, <1>1, <1>3 DEF After, TakePacket, CloseFile, LinkInOrder, RemoteAtRest, Remotes
<1>6. LinkInOrder'
  BY <1>0, <1>2, <1>3, <1>5
     DEF LinkInOrder, ReadLink, WriteLink, RemoteAtRest, NothingSentYet, ReadSteps
<1>7. JudgedAtRest' /\ ReadKept'
  BY <1>0, <1>2 DEF JudgedAtRest, ReadKept, ReadIsCurrent, CurrentSteps
<1>8. QED
  BY <1>4, <1>6, <1>7 DEF IInv

(* That reset is answered and the reads start again.                       *)
LEMMA ResetFirstAnsweredKeeps ==
  ASSUME IInv, ResetFirstAnswered
  PROVE  IInv'
<1>0. TypeOK /\ LinkInOrder /\ ReadKept
  BY DEF IInv
<1>1. /\ step = "resetFirst" /\ step' = "ping" /\ awaiting' = FALSE /\ Accept
      /\ reading' = "factsAgain" /\ file' = 1
      /\ UNCHANGED <<remote, got, spoiled, sent, answer, container, backup, outcome, lab, faults>>
  BY DEF ResetFirstAnswered, request
<1>2. replies' = <<>>
  <2>1. CommandAwaited = "control" /\ "control" \notin Earlier(replies)
    BY <1>0, <1>1 DEF CommandAwaited, LinkInOrder, WriteLink
  <2>2. QED
    BY <1>0, <1>1, <2>1, AcceptFacts
<1>3. TypeOK'
  <2>1. file' \in 1..Len(Files)
    BY <1>1, FilesFacts
  <2>2. QED
    BY <1>0, <1>1, <1>2, <2>1, EmptyLink DEF TypeOK, Steps, ReadSteps
<1>4. LinkInOrder'
  BY <1>0, <1>1, <1>2, EmptyLink
     DEF LinkInOrder, ReadLink, WriteLink, RemoteAtRest, NothingSentYet, ReadSteps
<1>5. JudgedAtRest' /\ ReadKept'
  BY <1>0, <1>1 DEF JudgedAtRest, ReadKept, ReadIsCurrent, CurrentSteps
<1>6. QED
  BY <1>3, <1>4, <1>5 DEF IInv

(* The judgement is of what the remote holds.                              *)
LEMMA JudgeKeeps ==
  ASSUME IInv, Judge
  PROVE  IInv'
<1>0. TypeOK /\ LinkInOrder /\ ReadKept /\ JudgedAtRest
  BY DEF IInv
<1>1. step = "judge" /\ Unread /\ UNCHANGED <<file, remote, replies, faults>>
  BY DEF Judge
<1>2. CASE FactsAllow /\ Judgement(got["/cfg/usercfg"]) # "refused"
  <2>1. step' = "reset" /\ UNCHANGED <<awaiting, spoiled, outcome, reading, got, sent, answer,
                                       container, backup, lab>>
    BY <1>1, <1>2 DEF Judge, Unread, request
  <2>2. TypeOK'
    BY <1>0, <1>1, <2>1 DEF TypeOK, Steps, WriteSteps
  <2>3. LinkInOrder'
    BY <1>0, <1>1, <2>1
       DEF LinkInOrder, ReadLink, WriteLink, RemoteAtRest, NothingSentYet, ReadSteps
  <2>4. Judgement(got["/cfg/usercfg"])' = Judgement(got["/cfg/usercfg"])
    BY <2>1 DEF Judgement
  <2>5. JudgedAtRest' /\ ReadKept'
    BY <1>0, <1>1, <1>2, <2>1, <2>4 DEF JudgedAtRest, ReadKept, ReadIsCurrent, CurrentSteps
  <2>6. QED
    BY <2>2, <2>3, <2>5 DEF IInv
<1>3. CASE ~(FactsAllow /\ Judgement(got["/cfg/usercfg"]) # "refused")
  <2>1. End("refused")
    BY <1>3 DEF Judge
  <2>2. /\ remote' \in Remotes /\ (remote'.open = "none" => remote'.writing = FALSE)
        /\ replies' \in Seq(Replies) /\ faults' \in 0..MaxFaults /\ "refused" \in Outcomes
    BY <1>0, <1>1 DEF TypeOK, LinkInOrder, RemoteAtRest, Outcomes
  <2>3. QED
    BY <1>1, <2>1, <2>2, EndKeeps
<1>4. QED
  BY <1>2, <1>3
-----------------------------------------------------------------------------
(* writeFileConfig, from its file system reset on.                         *)

(* A command of the write goes out.                                        *)
LEMMA SendWriteCommandKeeps ==
  ASSUME IInv, SendWriteCommand
  PROVE  IInv'
<1>0. TypeOK /\ LinkInOrder /\ ReadKept /\ JudgedAtRest
      /\ remote \in Remotes /\ replies \in Seq(Replies) /\ container \in Configs
  BY DEF IInv, TypeOK
<1>1. PICK r : /\ Transmit(r) /\ IsReport(r) /\ step \in {"reset", "openW", "check", "flush", "closeW"}
               /\ step = "reset" => r.cmd = "reset"
               /\ r.cmd = "openW" => step = "openW"
               /\ awaiting = FALSE /\ awaiting' = TRUE
  <2>1. AfterDataSequence(1) \in Nat /\ AfterDataSequence(2) \in Nat /\ AfterDataSequence(3) \in Nat
    BY SequenceFacts
  <2>2. CASE step = "reset" /\ Send(Report("reset", "none", 0))
    BY <1>0, <2>2 DEF IsReport, Report, Send, TypeOK
  <2>3. CASE step = "openW"  /\ Send(Report("openW", "none", OPEN_SEQUENCE))
    BY <1>0, <2>3 DEF IsReport, Report, Send, TypeOK, OPEN_SEQUENCE
  <2>4. CASE step = "check"  /\ Send(Report("check", container, AfterDataSequence(1)))
    BY <1>0, <2>1, <2>4 DEF IsReport, Report, Send, TypeOK
  <2>5. CASE step = "flush"  /\ Send(Report("flush", "none", AfterDataSequence(2)))
    BY <1>0, <2>1, <2>5 DEF IsReport, Report, Send, TypeOK
  <2>6. CASE step = "closeW" /\ Send(Report("close", "none",
                                       AfterDataSequence(IF answer = "m" THEN 3 ELSE 2)))
    BY <1>0, <2>1, <2>6 DEF IsReport, Report, Send, TypeOK
  <2>7. QED
    BY <2>2, <2>3, <2>4, <2>5, <2>6 DEF SendWriteCommand
<1>2. UNCHANGED <<step, reading, file, got, spoiled, sent, answer, container, backup, outcome, lab>>
  BY DEF SendWriteCommand, request
<1>3. /\ remote' \in Remotes /\ replies' \in Seq(Replies) /\ faults' \in 0..MaxFaults
      /\ Earlier(replies') \subseteq Commands(replies)
      /\ Len(replies') <= Len(replies) + 1
      /\ remote' = remote \/ remote' = After(remote, r)
  BY <1>0, <1>1, TransmitFacts
<1>4. TypeOK'
  BY <1>0, <1>1, <1>2, <1>3 DEF TypeOK
<1>5. remote'.open = "none" => remote'.writing = FALSE
  BY <1>0, <1>3, NoFileNoWriting DEF LinkInOrder, RemoteAtRest
<1>6. LinkInOrder'
  BY <1>0, <1>1, <1>2, <1>3, <1>5, EmptyLink
     DEF LinkInOrder, ReadLink, WriteLink, RemoteAtRest, NothingSentYet, ReadSteps
<1>7. step = "reset" =>
        remote'.flash = remote.flash /\ remote'.due = 0 /\ remote'.writing = FALSE
  BY <1>0, <1>1, <1>3, ResetAtRest DEF JudgedAtRest
<1>8. Judgement(got["/cfg/usercfg"])' = Judgement(got["/cfg/usercfg"])
  BY <1>2 DEF Judgement
<1>9. JudgedAtRest' /\ ReadKept'
  BY <1>0, <1>1, <1>2, <1>7, <1>8 DEF JudgedAtRest, ReadKept, ReadIsCurrent, CurrentSteps
<1>10. QED
  BY <1>4, <1>6, <1>9 DEF IInv

(* The steps that accept a reply and go on to the next command.            *)
LEMMA CommandAnswersKeep ==
  ASSUME IInv,
         ResetAnswered \/ CheckAnswered \/ FlushAnswered \/ CloseAnswered
  PROVE  IInv'
<1>0. TypeOK /\ LinkInOrder /\ ReadKept /\ JudgedAtRest
  BY DEF IInv
<1>1. /\ step \in {"reset", "check", "flush", "closeW"} /\ Accept
      /\ awaiting' = FALSE
      /\ UNCHANGED <<remote, got, spoiled, sent, container, backup, outcome, lab, faults>>
      /\ step = "reset" => step' = "openW" /\ UNCHANGED <<reading, file, answer>>
      /\ step = "check" => step' \in {"flush", "closeW"} /\ UNCHANGED <<reading, file>>
      /\ step = "flush" => step' = "closeW" /\ UNCHANGED <<reading, file, answer>>
      /\ step = "closeW" => step' = "ping" /\ reading' = "back" /\ file' = Len(Files)
                            /\ UNCHANGED answer
  BY DEF ResetAnswered, CheckAnswered, FlushAnswered, CloseAnswered, request
<1>2. replies' = <<>>
  <2>1. Earlier(replies) \subseteq {"close", "write"} \/ Len(replies) <= 1
    BY <1>0, <1>1 DEF LinkInOrder, WriteLink
  <2>2. step \in {"reset", "check"} => CommandAwaited \notin Earlier(replies)
    BY <1>0, <1>1 DEF CommandAwaited, LinkInOrder, WriteLink
  <2>3. step \in {"flush", "closeW"} => Len(replies) <= 1
    BY <1>0, <1>1 DEF LinkInOrder, WriteLink
  <2>4. QED
    BY <1>0, <1>1, <2>2, <2>3, AcceptFacts
<1>3. answer' \in {"none", "m", "u"}
  <2>1. CASE step = "check"
    <3>1. answer' = Head(replies).mark
      BY <2>1 DEF ResetAnswered, CheckAnswered, FlushAnswered, CloseAnswered
    <3>2. Head(replies) \in Replies
      BY <1>0, <1>1, AcceptFacts
    <3>3. QED
      BY <3>1, <3>2 DEF Replies
  <2>2. CASE step # "check"
    BY <1>0, <1>1, <2>2 DEF TypeOK
  <2>3. QED
    BY <2>1, <2>2
<1>4. TypeOK'
  <2>1. file' \in 1..Len(Files) /\ reading' \in {"facts", "factsAgain", "back"}
    BY <1>0, <1>1, FilesFacts DEF TypeOK
  <2>2. step' \in Steps
    BY <1>1 DEF Steps, ReadSteps, WriteSteps
  <2>3. QED
    BY <1>0, <1>1, <1>2, <1>3, <2>1, <2>2, EmptyLink DEF TypeOK
<1>5. LinkInOrder'
  BY <1>0, <1>1, <1>2, EmptyLink
     DEF LinkInOrder, ReadLink, WriteLink, RemoteAtRest, NothingSentYet, ReadSteps
<1>6. Judgement(got["/cfg/usercfg"])' = Judgement(got["/cfg/usercfg"])
  BY <1>1 DEF Judgement
<1>7. JudgedAtRest' /\ ReadKept'
  BY <1>0, <1>1, <1>6 DEF JudgedAtRest, ReadKept, ReadIsCurrent, CurrentSteps
<1>8. QED
  BY <1>4, <1>5, <1>7 DEF IInv

(* The steps that accept a reply and look at its sequence number.          *)
LEMMA SequencedAnswersKeep ==
  ASSUME IInv, OpenAnswered \/ ChunkAnswered
  PROVE  IInv'
<1>0. TypeOK /\ LinkInOrder /\ ReadKept /\ JudgedAtRest
  BY DEF IInv
<1>1. /\ step \in {"openW", "data"} /\ Accept /\ Unread /\ UNCHANGED <<remote, faults>>
      /\ \/ Throw
         \/ /\ awaiting' = FALSE /\ UNCHANGED <<file, spoiled, outcome>>
            /\ step = "openW" => step' = "chunk"
            /\ step = "data"  => step' = IF sent = NPackets THEN "check" ELSE "chunk"
  BY DEF OpenAnswered, ChunkAnswered
<1>2. CASE Throw
  <2>1. Drops
    BY <1>1 DEF Accept, Drops
  <2>2. step \in Steps \ {"idle", "judge", "verify", "reboot"} /\ faults' \in 0..MaxFaults
    BY <1>0, <1>1 DEF TypeOK
  <2>3. QED
    BY <1>1, <1>2, <2>1, <2>2, ThrowKeeps
<1>3. CASE ~Throw
  <2>1. /\ awaiting' = FALSE
        /\ UNCHANGED <<file, spoiled, outcome, remote, faults, reading, got, sent, answer,
                       container, backup, lab>>
        /\ step = "openW" => step' = "chunk"
        /\ step = "data"  => step' = IF sent = NPackets THEN "check" ELSE "chunk"
    BY <1>1, <1>3 DEF Unread, request
  <2>2. replies' \in Seq(Replies) /\ Commands(replies') \subseteq {"write"}
        /\ Earlier(replies') \subseteq {"write"}
    <3>1. step = "openW" => replies' = <<>>
      BY <1>0, <1>1, AcceptFacts DEF LinkInOrder, WriteLink
    <3>2. step = "data" => Commands(replies) \subseteq {"write"}
      BY <1>0 DEF LinkInOrder, WriteLink
    <3>3. QED
      BY <1>0, <1>1, <3>1, <3>2, AcceptFacts, EmptyLink
  <2>3. TypeOK'
    BY <1>0, <1>1, <2>1, <2>2 DEF TypeOK, Steps, WriteSteps
  <2>4. sent \in 0..NPackets /\ (step = "openW" => sent = 0)
    BY <1>0 DEF TypeOK, LinkInOrder, NothingSentYet
  <2>5. LinkInOrder'
    BY <1>0, <1>1, <2>1, <2>2, <2>4
       DEF LinkInOrder, ReadLink, WriteLink, RemoteAtRest, NothingSentYet, ReadSteps
  <2>6. JudgedAtRest' /\ ReadKept'
    BY <1>0, <1>1, <2>1 DEF JudgedAtRest, ReadKept, ReadIsCurrent, CurrentSteps
  <2>7. QED
    BY <2>3, <2>5, <2>6 DEF IInv
<1>4. QED
  BY <1>2, <1>3
(* A chunk's command, its packets and the done packet go out.              *)
LEMMA ChunkKeeps ==
  ASSUME IInv, SendChunkCommand \/ SendDataPacket \/ SendDonePacket
  PROVE  IInv'
<1>0. TypeOK /\ LinkInOrder /\ ReadKept /\ JudgedAtRest
      /\ remote \in Remotes /\ replies \in Seq(Replies) /\ container \in Configs
      /\ sent \in 0..NPackets /\ faults \in 0..MaxFaults
  BY DEF IInv, TypeOK
<1>1. /\ step \in {"chunk", "data"} /\ step' = "data"
      /\ UNCHANGED <<reading, file, got, spoiled, answer, container, backup, outcome, lab>>
      /\ sent' \in 0..NPackets /\ awaiting' \in BOOLEAN
  <2>1. CASE SendChunkCommand
    BY <1>0, <2>1 DEF SendChunkCommand, request, TypeOK
  <2>2. CASE SendDataPacket
    <3>1. awaiting' \in BOOLEAN
      BY <2>2 DEF SendDataPacket
    <3>2. sent' \in 0..NPackets
      BY <1>0, <2>2 DEF SendDataPacket
    <3>3. QED
      BY <2>2, <3>1, <3>2 DEF SendDataPacket, request
  <2>3. CASE SendDonePacket
    BY <1>0, <2>3 DEF SendDonePacket, Send, request
  <2>4. QED
    BY <2>1, <2>2, <2>3
<1>2. PICK r : /\ IsReport(r) /\ r.cmd \in {"write", "data", "done"}
               /\ \/ Transmit(r)
                  \/ Deliver(r) /\ Fault
  <2>1. CASE SendChunkCommand
    <3>1. sent + 1 \in 1..NPackets
      BY <1>0, <2>1 DEF LinkInOrder, NothingSentYet, SendChunkCommand
    <3>2. ChunkCount(sent + 1) \in Nat \ {0} /\ ChunkSequence(sent + 1) \in Nat
      BY <3>1, SequenceFacts
    <3>3. QED
      BY <2>1, <3>2 DEF SendChunkCommand, IsReport, Report
  <2>2. CASE SendDataPacket
    <3>1. sent + 1 \in 1..NPackets
      BY <1>0, <2>2 DEF SendDataPacket
    <3>2. PacketSequence(sent + 1) \in Nat /\ Packet(container, sent + 1) \in Cells /\ Junk \in Cells
      <4>1. sent + 1 \in Nat
        BY <3>1
      <4>2. QED
        BY <1>0, <3>1, <4>1, SequenceFacts, CellsFacts
    <3> DEFINE d == Report("data", Packet(container, sent + 1), PacketSequence(sent + 1))
    <3>3. IsReport(d) /\ d.cmd = "data"
      BY <3>2 DEF IsReport, Report
    <3>4. IsReport([d EXCEPT !.arg = Junk]) /\ [d EXCEPT !.arg = Junk].cmd = "data"
      BY <3>2 DEF IsReport, Report
    <3>5. TransmitData(d)
      BY <2>2 DEF SendDataPacket
    <3>6. QED
      BY <3>3, <3>4, <3>5 DEF TransmitData
  <2>3. CASE SendDonePacket
    BY <2>3 DEF SendDonePacket, Send, IsReport, Report, DONE_PACKET
  <2>4. QED
    BY <2>1, <2>2, <2>3
<1>3. /\ remote' \in Remotes /\ faults' \in 0..MaxFaults
      /\ \/ remote' = remote /\ replies' = replies
         \/ remote' = After(remote, r) /\ replies' = replies \o Answers(remote, r)
  BY <1>0, <1>2, AfterType DEF Transmit, Deliver, Fault
<1>4. replies' \in Seq(Replies) /\ Commands(replies') \subseteq {"write"}
  <2>1. Commands(replies) \subseteq {"write"}
    BY <1>0, <1>1 DEF LinkInOrder, WriteLink
  <2>2. CASE replies' = replies \/ Answers(remote, r) = <<>>
    BY <1>0, <1>3, <2>1, <2>2
  <2>3. ASSUME NEW x \in Replies, Answers(remote, r) = <<x>>, remote.due > 0 => x.cmd = "write",
               replies' = replies \o Answers(remote, r)
        PROVE  replies' \in Seq(Replies) /\ Commands(replies') \subseteq {"write"}
    <3>1. remote.due > 0
      BY <1>2, <2>3 DEF Answers
    <3>2. QED
      BY <1>0, <2>1, <2>3, <3>1, AppendToLink
  <2>4. QED
    BY <1>0, <1>2, <1>3, <2>2, <2>3, AnswersShape
<1>5. remote'.open = "none" => remote'.writing = FALSE
  BY <1>0, <1>3, NoFileNoWriting DEF LinkInOrder, RemoteAtRest
<1>6. TypeOK'
  BY <1>0, <1>1, <1>3, <1>4 DEF TypeOK, Steps, WriteSteps
<1>7. LinkInOrder'
  BY <1>0, <1>1, <1>4, <1>5
     DEF LinkInOrder, ReadLink, WriteLink, RemoteAtRest, NothingSentYet, ReadSteps
<1>8. JudgedAtRest' /\ ReadKept'
  BY <1>0, <1>1 DEF JudgedAtRest, ReadKept, ReadIsCurrent, CurrentSteps
<1>9. QED
  BY <1>6, <1>7, <1>8 DEF IInv

(* The read back is compared.                                              *)
LEMMA VerifyKeeps ==
  ASSUME IInv, Verify
  PROVE  IInv'
<1>0. TypeOK /\ LinkInOrder /\ ReadKept
  BY DEF IInv
<1>1. step = "verify" /\ file' = file /\ Unread /\ UNCHANGED <<remote, replies, faults>>
  BY DEF Verify
<1>2. /\ remote' \in Remotes /\ (remote'.open = "none" => remote'.writing = FALSE)
      /\ replies' \in Seq(Replies) /\ faults' \in 0..MaxFaults
      /\ "ok" \in Outcomes /\ "failed" \in Outcomes
  BY <1>0, <1>1 DEF TypeOK, LinkInOrder, RemoteAtRest, Outcomes
<1>3. CASE End("ok") \/ End("failed")
  BY <1>1, <1>2, <1>3, EndKeeps
<1>4. CASE step' = "reboot" /\ UNCHANGED <<awaiting, spoiled, outcome>>
  <2>1. UNCHANGED <<reading, got, sent, answer, container, backup, lab>>
    BY <1>1 DEF Unread, request
  <2>2. TypeOK'
    BY <1>0, <1>1, <1>2, <1>4, <2>1 DEF TypeOK, Steps
  <2>3. LinkInOrder'
    BY <1>0, <1>1, <1>2, <1>4, <2>1
       DEF LinkInOrder, ReadLink, WriteLink, RemoteAtRest, NothingSentYet, ReadSteps
  <2>4. JudgedAtRest' /\ ReadKept'
    BY <1>0, <1>1, <1>4, <2>1 DEF JudgedAtRest, ReadKept, ReadIsCurrent, CurrentSteps
  <2>5. QED
    BY <2>2, <2>3, <2>4 DEF IInv
<1>5. QED
  BY <1>3, <1>4 DEF Verify

-----------------------------------------------------------------------------
(* What ends a run, and what happens outside one.                          *)

(* A reboot, a kill or a restart of the remote ends a run.                 *)
LEMMA EndsKeep ==
  ASSUME IInv, Reboot \/ KillRun \/ (RemoteRestarts /\ step # "idle")
  PROVE  IInv'
<1>0. TypeOK /\ LinkInOrder /\ remote \in Remotes
  BY DEF IInv, TypeOK
<1>1. PICK how \in Outcomes : End(how)
  BY DEF Reboot, KillRun, RemoteRestarts, Outcomes
<1>2. file' = file /\ Unread
  BY DEF Reboot, KillRun, RemoteRestarts
<1>3. /\ remote' \in Remotes /\ (remote'.open = "none" => remote'.writing = FALSE)
      /\ replies' \in Seq(Replies) /\ faults' \in 0..MaxFaults
  <2>1. CASE Reboot
    <3>1. IsReport(Report("reboot", "none", 0)) /\ Transmit(Report("reboot", "none", 0))
      BY <2>1 DEF IsReport, Report, Reboot
    <3>2. QED
      BY <1>0, <3>1, TransmitFacts, NoFileNoWriting DEF LinkInOrder, RemoteAtRest
  <2>2. CASE KillRun
    BY <1>0, <2>2 DEF KillRun, Fault, TypeOK, LinkInOrder, RemoteAtRest
  <2>3. CASE RemoteRestarts
    <3>1. remote' = Restarted(remote) /\ replies' = <<>> /\ Fault
      BY <2>3 DEF RemoteRestarts
    <3>2. remote'.writing = FALSE
      BY <3>1 DEF Restarted
    <3>3. QED
      BY <1>0, <3>1, <3>2, RemoteStepTypes, EmptyLink DEF Fault, TypeOK
  <2>4. QED
    BY <2>1, <2>2, <2>3
<1>4. QED
  BY <1>1, <1>2, <1>3, EndKeeps

(* What happens between runs.                                              *)
LEMMA OutsideKeeps ==
  ASSUME IInv, NEW c \in Configs,
         OwnerSyncs(c) \/ ReadIntoLab(c) \/ (RemoteRestarts /\ step = "idle")
  PROVE  IInv'
<1>0. TypeOK /\ LinkInOrder /\ ReadKept /\ remote \in Remotes
  BY DEF IInv, TypeOK
<1>1. /\ step = "idle" /\ lab' \in SUBSET Configs /\ lab \subseteq lab'
      /\ UNCHANGED <<step, awaiting, spoiled, outcome, file, reading, got, sent, answer,
                     container, backup>>
  BY <1>0 DEF OwnerSyncs, ReadIntoLab, RemoteRestarts, Unread, request, TypeOK
<1>2. replies' \in Seq(Replies) /\ faults' \in 0..MaxFaults
  <2>1. faults' = faults \/ Fault
    BY DEF OwnerSyncs, ReadIntoLab, RemoteRestarts
  <2>2. faults' \in 0..MaxFaults
    BY <1>0, <2>1 DEF Fault, TypeOK
  <2>3. replies' = replies \/ replies' = <<>>
    BY DEF OwnerSyncs, ReadIntoLab, RemoteRestarts
  <2>4. QED
    BY <1>0, <2>2, <2>3, EmptyLink DEF TypeOK
<1>3. remote' \in Remotes /\ (remote'.open = "none" => remote'.writing = FALSE)
  <2>1. CASE OwnerSyncs(c)
    BY <2>1, RemoteOfType DEF OwnerSyncs, RemoteOf
  <2>2. CASE ReadIntoLab(c)
    BY <1>0, <2>2 DEF ReadIntoLab, LinkInOrder, RemoteAtRest
  <2>3. CASE RemoteRestarts
    BY <1>0, <2>3, RemoteStepTypes DEF RemoteRestarts, Restarted
  <2>4. QED
    BY <2>1, <2>2, <2>3
<1>4. TypeOK'
  BY <1>0, <1>1, <1>2, <1>3 DEF TypeOK
<1>5. LinkInOrder'
  BY <1>0, <1>1, <1>2, <1>3
     DEF LinkInOrder, ReadLink, WriteLink, RemoteAtRest, NothingSentYet, ReadSteps
<1>6. JudgedAtRest' /\ ReadKept'
  BY <1>0, <1>1 DEF JudgedAtRest, ReadKept, ReadIsCurrent, CurrentSteps
<1>7. QED
  BY <1>4, <1>5, <1>6 DEF IInv
-----------------------------------------------------------------------------
(* The results.                                                            *)

(* Every step of a run, and every step between runs, keeps the invariant.  *)
LEMMA StepKeeps ==
  ASSUME IInv, [Next]_vars
  PROVE  IInv'
<1>1. CASE Next
  <2>1. CASE Start
    BY <2>1, StartRunKeeps DEF Start
  <2>2. CASE Read
    BY <2>2, SendReadKeeps, ReadAnswersKeep DEF Read
  <2>3. CASE Write
    BY <2>3, SendResetFirstKeeps, ResetFirstAnsweredKeeps, JudgeKeeps, SendWriteCommandKeeps,
       CommandAnswersKeep, SequencedAnswersKeep, ChunkKeeps, VerifyKeeps, EndsKeep DEF Write
  <2>4. CASE WrongReply \/ TimeOut \/ WriteThrows
    BY <2>4, FailuresKeep
  <2>5. CASE KillRun
    BY <2>5, EndsKeep
  <2>6. CASE RemoteRestarts
    <3>1. PICK c \in Configs : TRUE
      BY DEF IInv, TypeOK
    <3>2. QED
      BY <2>6, <3>1, EndsKeep, OutsideKeeps
  <2>7. CASE \E c \in Configs : OwnerSyncs(c) \/ ReadIntoLab(c)
    BY <2>7, OutsideKeeps
  <2>8. QED
    BY <1>1, <2>1, <2>2, <2>3, <2>4, <2>5, <2>6, <2>7 DEF Next, Run, Outside
<1>2. CASE UNCHANGED vars
  <2>1. /\ UNCHANGED <<remote, replies, step, awaiting, reading, file, got, spoiled, sent, answer>>
        /\ UNCHANGED <<container, backup, outcome, lab, faults>>
    BY <1>2 DEF vars
  <2>2. TypeOK'
    BY <2>1 DEF IInv, TypeOK
  <2>3. JudgedAtRest' /\ LinkInOrder'
    BY <2>1 DEF IInv, JudgedAtRest, LinkInOrder, ReadLink, WriteLink, RemoteAtRest, NothingSentYet
  <2>4. Judgement(got["/cfg/usercfg"])' = Judgement(got["/cfg/usercfg"])
    BY <2>1 DEF Judgement
  <2>5. ReadKept'
    BY <2>1, <2>4 DEF IInv, ReadKept, ReadIsCurrent
  <2>6. QED
    BY <2>2, <2>3, <2>5 DEF IInv
<1>3. QED
  BY <1>1, <1>2

(* The inductive invariant of writing a configuration (writeFileConfig of  *)
(* filewrite.ts): everything has its type, what is judged is judged at     *)
(* rest, the link is in order and, when no data packet of a read is lost,  *)
(* what was read is current.                                               *)
THEOREM Invariance == Spec => []IInv
<1>1. Init => IInv
  BY InitKeeps
<1>2. IInv /\ [Next]_vars => IInv'
  BY StepKeeps
<1>3. QED
  BY <1>1, <1>2, PTL DEF Spec

(* Type correctness of the whole write path, faults and all.               *)
THEOREM TypeCorrect == Spec => []TypeOK
<1>1. IInv => TypeOK
  BY DEF IInv
<1>2. QED
  BY <1>1, Invariance, PTL

(* From the judgement on (judgeCurrentContent) until the open for writing, *)
(* the remote is part way through nothing: no chunk, no file open.         *)
THEOREM JudgedRemoteIsAtRest == Spec => []JudgedAtRest
<1>1. IInv => JudgedAtRest
  BY DEF IInv
<1>2. QED
  BY <1>1, Invariance, PTL

(* A reply nobody waited for is never taken for a later command's: the     *)
(* link is in order (awaitReply and exchange, which look at the command    *)
(* alone, get away with it).                                               *)
THEOREM LinkStaysInOrder == Spec => []LinkInOrder
<1>1. IInv => LinkInOrder
  BY DEF IInv
<1>2. QED
  BY <1>1, Invariance, PTL

(* What can happen to the remote in one step.                              *)
OpensForWriting ==
  /\ step = "openW" /\ awaiting = FALSE
  /\ remote' = After(remote, Report("openW", "none", OPEN_SEQUENCE))

(* What a run puts in the flash: packets of its own container, and what is *)
(* programmed wrong.                                                       *)
OwnCells == {Junk} \cup {Packet(container, i) : i \in 1..NPackets}

IsOwnReport(r) ==
  /\ IsReport(r) /\ r.cmd # "openW"
  /\ r.cmd = "data" => r.arg \in OwnCells

Reported == step # "idle" /\ \E r : IsOwnReport(r) /\ remote' = After(remote, r)

(* The four ways the flash changes: not, by a report, by the open for      *)
(* writing, by its owner between runs.                                     *)
LEMMA RemoteSteps ==
  ASSUME IInv, [Next]_vars
  PROVE  \/ remote'.flash = remote.flash
         \/ Reported
         \/ OpensForWriting
         \/ step = "idle" /\ \E c \in Configs : remote' = RemoteOf(c)
<1>0. TypeOK /\ LinkInOrder /\ remote \in Remotes
      /\ container \in Configs /\ sent \in 0..NPackets
  BY DEF IInv, TypeOK
<1>1. ASSUME step # "idle", NEW r, IsOwnReport(r), Transmit(r)
      PROVE  remote'.flash = remote.flash \/ Reported
  BY <1>1 DEF Transmit, Deliver, Reported
<1>2. CASE SendRead
  <2>1. IsOwnReport(Report(step, Files[file], 0)) /\ step # "idle"
    BY <1>0, <1>2, FilesFacts DEF IsOwnReport, IsReport, Report, SendRead, TypeOK, ReadSteps
  <2>2. QED
    BY <1>1, <1>2, <2>1 DEF SendRead, Send
<1>3. CASE SendResetFirst
  <2>1. IsOwnReport(Report("reset", "none", 0))
    BY DEF IsOwnReport, IsReport, Report
  <2>2. QED
    BY <1>1, <1>3, <2>1 DEF SendResetFirst, Send
<1>4. CASE SendWriteCommand
  <2>1. AfterDataSequence(1) \in Nat /\ AfterDataSequence(2) \in Nat /\ AfterDataSequence(3) \in Nat
    BY SequenceFacts
  <2>2. CASE step = "openW"  /\ Send(Report("openW", "none", OPEN_SEQUENCE))
    BY <1>0, <2>2 DEF Send, Transmit, Deliver, OpensForWriting, TypeOK
  <2>3. CASE step # "openW"
    <3>1. PICK r : IsOwnReport(r) /\ Transmit(r)
      <4>1. \/ Transmit(Report("reset", "none", 0))
            \/ Transmit(Report("check", container, AfterDataSequence(1)))
            \/ Transmit(Report("flush", "none", AfterDataSequence(2)))
            \/ Transmit(Report("close", "none", AfterDataSequence(IF answer = "m" THEN 3 ELSE 2)))
        BY <1>4, <2>3 DEF SendWriteCommand, Send
      <4>2. \A arg : \A cmd \in {"reset", "check", "flush", "close"}, n \in Nat :
              IsOwnReport(Report(cmd, arg, n))
        BY DEF IsOwnReport, IsReport, Report
      <4>3. AfterDataSequence(IF answer = "m" THEN 3 ELSE 2) \in Nat
        BY <2>1
      <4>4. QED
        BY <2>1, <4>1, <4>2, <4>3
    <3>2. QED
      BY <1>1, <1>4, <3>1 DEF SendWriteCommand
  <2>4. QED
    BY <1>4, <2>2, <2>3 DEF SendWriteCommand
<1>5. CASE SendChunkCommand \/ SendDataPacket \/ SendDonePacket
  <2>1. PICK r : /\ IsOwnReport(r)
                 /\ Transmit(r) \/ (Deliver(r) /\ Fault)
    <3>1. CASE SendChunkCommand
      <4>1. sent + 1 \in 1..NPackets
        BY <1>0, <3>1 DEF LinkInOrder, NothingSentYet, SendChunkCommand
      <4>2. ChunkCount(sent + 1) \in Nat \ {0} /\ ChunkSequence(sent + 1) \in Nat
        BY <4>1, SequenceFacts
      <4>3. QED
        BY <3>1, <4>2 DEF SendChunkCommand, IsOwnReport, IsReport, Report
    <3>2. CASE SendDataPacket
      <4>1. sent + 1 \in 1..NPackets /\ sent + 1 \in Nat
        BY <1>0, <3>2 DEF SendDataPacket
      <4>2. /\ PacketSequence(sent + 1) \in Nat
            /\ Packet(container, sent + 1) \in Cells /\ Junk \in Cells
            /\ Packet(container, sent + 1) \in OwnCells /\ Junk \in OwnCells
        BY <1>0, <4>1, SequenceFacts, CellsFacts DEF OwnCells
      <4> DEFINE d == Report("data", Packet(container, sent + 1), PacketSequence(sent + 1))
      <4>3. IsOwnReport(d)
        BY <4>2 DEF IsOwnReport, IsReport, Report
      <4>4. IsOwnReport([d EXCEPT !.arg = Junk])
        BY <4>2 DEF IsOwnReport, IsReport, Report
      <4>5. TransmitData(d)
        BY <3>2 DEF SendDataPacket
      <4>6. QED
        BY <4>3, <4>4, <4>5 DEF TransmitData
    <3>3. CASE SendDonePacket
      BY <3>3 DEF SendDonePacket, Send, IsOwnReport, IsReport, Report, DONE_PACKET
    <3>4. QED
      BY <1>5, <3>1, <3>2, <3>3
  <2>2. step # "idle"
    BY <1>5 DEF SendChunkCommand, SendDataPacket, SendDonePacket
  <2>3. QED
    BY <2>1, <2>2, <1>1 DEF Deliver, Reported
<1>6. CASE Reboot
  <2>1. IsOwnReport(Report("reboot", "none", 0))
    BY DEF IsOwnReport, IsReport, Report
  <2>2. QED
    BY <1>1, <1>6, <2>1 DEF Reboot
<1>7. CASE RemoteRestarts
  BY <1>7 DEF RemoteRestarts, Restarted
<1>8. CASE \E c \in Configs : OwnerSyncs(c)
  BY <1>8 DEF OwnerSyncs
<1>9. CASE remote' = remote
  BY <1>9
<1>10. QED
  <2>1. CASE Start
    BY <2>1, <1>9 DEF Start, StartRun
  <2>2. CASE Read
    BY <2>2, <1>2, <1>9 DEF Read, PingOrOpenAnswered, DataRead, ReadClosed
  <2>3. CASE Write
    BY <2>3, <1>3, <1>4, <1>5, <1>6, <1>9
       DEF Write, ResetFirstAnswered, Judge, ResetAnswered, OpenAnswered, ChunkAnswered,
           CheckAnswered, FlushAnswered, CloseAnswered, Verify
  <2>4. CASE WrongReply \/ TimeOut
    BY <2>4, <1>9 DEF WrongReply, TimeOut
  <2>5. CASE Outside
    BY <2>5, <1>7, <1>8, <1>9 DEF Outside, WriteThrows, KillRun, ReadIntoLab
  <2>6. CASE UNCHANGED vars
    BY <2>6, <1>9 DEF vars
  <2>7. QED
    BY <2>1, <2>2, <2>3, <2>4, <2>5, <2>6 DEF Next, Run

(* A report that is not an open for writing only adds to the flash, and    *)
(* nothing but what is its run's.                                          *)
LEMMA ReportedAddsItsOwn ==
  ASSUME remote \in Remotes, Reported
  PROVE  \E more \in Seq(OwnCells) : remote'.flash = remote.flash \o more
<1>1. PICK r : IsOwnReport(r) /\ remote' = After(remote, r)
  BY DEF Reported
<1>2. AsData(r) \in Seq(OwnCells) /\ <<>> \in Seq(OwnCells)
  <2>1. Junk \in OwnCells /\ (r.cmd = "data" => r.arg \in OwnCells)
    BY <1>1 DEF IsOwnReport, OwnCells
  <2> HIDE DEF OwnCells
  <2>2. QED
    BY <2>1 DEF AsData
<1>3. remote'.flash = remote.flash \o (IF remote.due > 0 THEN AsData(r) ELSE <<>>)
  BY <1>1, WhatReportsAdd DEF IsOwnReport
<1>4. QED
  BY <1>2, <1>3

(* The open for writing leaves the flash empty or, swallowed by a chunk, as*)
(* it was and one packet more.                                             *)
LEMMA OpenedFlash ==
  ASSUME remote \in Remotes, OpensForWriting
  PROVE  remote'.flash = <<>> \/ \E more \in Seq(OwnCells) : remote'.flash = remote.flash \o more
<1> DEFINE r == Report("openW", "none", OPEN_SEQUENCE)
<1>1. IsReport(r) /\ r.cmd = "openW"
  BY DEF IsReport, Report, OPEN_SEQUENCE
<1>2. remote' = After(remote, r) /\ remote.flash \in Seq(Cells)
  BY DEF OpensForWriting, Remotes
<1> HIDE DEF r
<1>3. CASE remote.due > 0
  <2>1. AsData(r) \in Seq(OwnCells)
    BY <1>1 DEF AsData, OwnCells
  <2>2. remote'.flash = remote.flash \o AsData(r)
    BY <1>2, <1>3 DEF After, TakePacket, Remotes
  <2>3. QED
    BY <2>1, <2>2
<1>4. CASE ~(remote.due > 0)
  <2>1. remote' = OpenForWriting(remote)
    BY <1>1, <1>2, <1>4 DEF After
  <2>2. remote'.flash = <<>> \/ remote'.flash = remote.flash
    BY <2>1 DEF OpenForWriting, Remotes
  <2>3. remote.flash = remote.flash \o <<>> /\ <<>> \in Seq(OwnCells)
    BY <1>2
  <2>4. QED
    BY <2>2, <2>3
<1>5. QED
  BY <1>3, <1>4

(* In one step the flash is left, or added to by a run, or erased by its   *)
(* open for writing, or put right by its owner between runs.               *)
LEMMA FlashSteps ==
  ASSUME IInv, [Next]_vars
  PROVE  \/ remote'.flash = remote.flash
         \/ step # "idle" /\ \E more \in Seq(OwnCells) : remote'.flash = remote.flash \o more
         \/ OpensForWriting /\ remote'.flash = <<>>
         \/ step = "idle" /\ \E c \in Configs : remote' = RemoteOf(c)
<1>1. remote \in Remotes
  BY DEF IInv, TypeOK
<1>2. CASE Reported
  BY <1>1, <1>2, ReportedAddsItsOwn DEF Reported
<1>3. CASE OpensForWriting
  BY <1>1, <1>3, OpenedFlash DEF OpensForWriting
<1>4. QED
  BY <1>2, <1>3, RemoteSteps

(* What a run adds are cells.                                              *)
LEMMA OwnCellsAreCells ==
  ASSUME IInv, NEW more \in Seq(OwnCells) PROVE more \in Seq(Cells)
<1>1. OwnCells \subseteq Cells
  BY CellsFacts DEF OwnCells, IInv, TypeOK
<1>2. QED
  BY <1>1

(* When no data packet of a read is lost, what the open for writing erases *)
(* is what judgeCurrentContent judged: no late or left-over reply was taken*)
(* for the configuration.                                                  *)
THEOREM ErasesOnlyWhatItJudged == ShortReads = FALSE => (Spec => ErasesWhatItJudged)
<1>1. ASSUME ShortReads = FALSE, IInv, [Next]_vars,
             remote.flash # <<>>, remote'.flash = <<>>
      PROVE  got["/cfg/usercfg"] = Served(remote.flash)
  <2>0. remote \in Remotes /\ remote.flash \in Seq(Cells) /\ ReadIsCurrent
    BY <1>1 DEF IInv, TypeOK, Remotes, ReadKept
  <2>1. ASSUME NEW more \in Seq(OwnCells), remote'.flash = remote.flash \o more PROVE FALSE
    <3>1. Len(remote'.flash) = Len(remote.flash) + Len(more) /\ Len(remote.flash) > 0
          /\ Len(more) \in Nat /\ Len(remote.flash) \in Nat
      BY <1>1, <2>0, <2>1, OwnCellsAreCells
    <3>2. Len(remote'.flash) = 0
      BY <1>1
    <3>3. QED
      BY <3>1, <3>2
  <2>2. ASSUME NEW c \in Configs PROVE remote' # RemoteOf(c)
    BY <1>1, WholeFlashFacts DEF RemoteOf
  <2>3. OpensForWriting
    BY <1>1, <2>1, <2>2, FlashSteps
  <2>4. QED
    BY <2>0, <2>3 DEF OpensForWriting, ReadIsCurrent
<1>2. ASSUME ShortReads = FALSE
      PROVE  IInv /\ [Next]_vars =>
               [remote.flash # <<>> /\ remote'.flash = <<>> =>
                  got["/cfg/usercfg"] = Served(remote.flash)]_vars
  BY <1>1, <1>2
<1>3. ASSUME ShortReads = FALSE PROVE Spec => ErasesWhatItJudged
  BY <1>2, <1>3, Invariance, PTL DEF Spec, ErasesWhatItJudged
<1>4. QED
  BY <1>3

(* When no data packet of a read is lost, a whole configuration the lab has*)
(* no copy of is there after every step but one of its owner's.            *)
LEMMA UnknownIsKept ==
  ASSUME ShortReads = FALSE, IInv, [Next]_vars, NEW c \in Configs \ lab, Holds(remote.flash, c)
  PROVE  \/ Holds(remote'.flash, c)
         \/ step = "idle" /\ \E d \in Configs : remote' = RemoteOf(d)
<1>0. remote \in Remotes /\ remote.flash \in Seq(Cells) /\ ReadIsCurrent
  BY DEF IInv, TypeOK, Remotes, ReadKept
<1>1. CASE \E more \in Seq(OwnCells) : remote'.flash = remote.flash \o more
  BY <1>0, <1>1, OwnCellsAreCells, HoldsSurvivesPackets
<1>2. CASE remote'.flash = remote.flash
  BY <1>2
<1>4. CASE OpensForWriting
  <2>1. /\ got["/cfg/usercfg"] = Served(remote.flash)
        /\ Judgement(got["/cfg/usercfg"]) # "refused"
        /\ container \in lab /\ backup \in lab
    BY <1>0, <1>4 DEF OpensForWriting, ReadIsCurrent
  <2>2. Judgement(ReadableOf(c)) # "refused"
    BY <2>1, HeldIsServed
  <2>3. container \in Configs /\ backup \in Configs
    BY DEF IInv, TypeOK
  <2>4. c # backup /\ c # container
    BY <2>1
  <2>5. ReadableOf(c) # ReadableOf(backup) /\ ReadableOf(c) # ReadableOf(container)
    BY <2>3, <2>4, NoTwoReadAlike
  <2>6. Judgement(ReadableOf(c)) = "refused"
    BY <2>5 DEF Judgement
  <2>7. QED
    BY <2>2, <2>6
<1>5. QED
  BY <1>1, <1>2, <1>4, FlashSteps

(* When no data packet of a read is lost, a run never takes from the remote*)
(* a whole configuration the lab has no copy of (judgeCurrentContent and   *)
(* its caller).                                                            *)
THEOREM NothingIsLost == ShortReads = FALSE => (Spec => NothingLost)
<1>1. ASSUME ShortReads = FALSE
      PROVE  IInv /\ [Next]_vars =>
               [step # "idle" =>
                  \A c \in Configs \ lab : Holds(remote.flash, c) => Holds(remote'.flash, c)]_vars
  BY <1>1, UnknownIsKept
<1>2. ASSUME ShortReads = FALSE PROVE Spec => NothingLost
  BY <1>1, <1>2, Invariance, PTL DEF Spec, NothingLost
<1>3. QED
  BY <1>2

-----------------------------------------------------------------------------
(* What is refused has a way back.                                         *)

(* A run writes what it was started to write, learns nothing, and is over  *)
(* when it has an outcome.                                                 *)
LEMMA RunSteps ==
  ASSUME [Next]_vars, step # "idle"
  PROVE  lab' = lab /\ container' = container /\ (step' = "idle" \/ outcome' = outcome)
<1>1. ASSUME NextAfterClose PROVE step' = "idle" \/ outcome' = outcome
  BY <1>1 DEF NextAfterClose, ReadsFailed, End
<1>2. ASSUME Throw PROVE step' = "idle" \/ outcome' = outcome
  BY <1>1, <1>2 DEF Throw, ReadsFailed, End
<1>3. CASE Read
  BY <1>1, <1>3
     DEF Read, SendRead, PingOrOpenAnswered, DataRead, ReadClosed, Unread, request
<1>4. CASE Write
  <2>1. CASE SendResetFirst \/ ResetFirstAnswered \/ Judge \/ SendWriteCommand \/ ResetAnswered
    BY <2>1 DEF SendResetFirst, ResetFirstAnswered, Judge, SendWriteCommand, ResetAnswered,
                Unread, request, End
  <2>2. CASE OpenAnswered \/ ChunkAnswered
    BY <1>2, <2>2 DEF OpenAnswered, ChunkAnswered, Unread, request
  <2>3. CASE SendChunkCommand \/ SendDataPacket \/ SendDonePacket
    BY <2>3 DEF SendChunkCommand, SendDataPacket, SendDonePacket, request
  <2>4. CASE CheckAnswered \/ FlushAnswered \/ CloseAnswered \/ Verify \/ Reboot
    BY <2>4 DEF CheckAnswered, FlushAnswered, CloseAnswered, Verify, Reboot, Unread, request, End
  <2>5. QED
    BY <1>4, <2>1, <2>2, <2>3, <2>4 DEF Write
<1>5. CASE WrongReply \/ TimeOut \/ WriteThrows
  BY <1>2, <1>5 DEF WrongReply, TimeOut, WriteThrows, Unread, request
<1>6. CASE KillRun \/ RemoteRestarts
  BY <1>6 DEF KillRun, RemoteRestarts, Unread, request, End
<1>7. CASE UNCHANGED vars
  BY <1>7 DEF vars, request
<1>8. QED
  BY <1>3, <1>4, <1>5, <1>6, <1>7
     DEF Next, Run, Outside, Start, StartRun, OwnerSyncs, ReadIntoLab

(* What happens between runs.                                              *)
LEMMA IdleSteps ==
  ASSUME IInv, [Next]_vars, step = "idle"
  PROVE  \/ Start \/ RemoteRestarts \/ UNCHANGED vars
         \/ \E c \in Configs : OwnerSyncs(c) \/ ReadIntoLab(c)
<1>1. ~awaiting
  BY DEF IInv, LinkInOrder, WriteLink
<1>2. ~Read
  BY DEF Read, SendRead, PingOrOpenAnswered, DataRead, ReadClosed, ReadSteps
<1>3. ~Write
  BY DEF Write, SendResetFirst, ResetFirstAnswered, Judge, SendWriteCommand, ResetAnswered,
         OpenAnswered, SendChunkCommand, SendDataPacket, SendDonePacket, ChunkAnswered,
         CheckAnswered, FlushAnswered, CloseAnswered, Verify, Reboot
<1>4. ~WrongReply /\ ~TimeOut /\ ~WriteThrows /\ ~KillRun
  BY <1>1 DEF WrongReply, TimeOut, WriteThrows, KillRun
<1>5. QED
  BY <1>2, <1>3, <1>4 DEF Next, Run, Outside

(* The lab forgets nothing.                                                *)
LEMMA LabGrows ==
  ASSUME IInv, [Next]_vars
  PROVE  lab \subseteq lab'
  BY RunSteps, IdleSteps
     DEF Start, StartRun, RemoteRestarts, Unread, vars, OwnerSyncs, ReadIntoLab

(* A packet of a configuration the lab has no copy of is there with the    *)
(* rest of it: a run writes from the lab, and its owner's software all of  *)
(* it.                                                                     *)
OriginInv ==
  \A i \in DOMAIN remote.flash :
    remote.flash[i].of \in Configs \ lab => Holds(remote.flash, remote.flash[i].of)

NoOutcomeYet == step # "idle" => outcome = "none"

LEMMA OriginKept ==
  ASSUME ShortReads = FALSE, IInv, OriginInv, [Next]_vars
  PROVE  OriginInv'
<1>0. remote \in Remotes /\ remote.flash \in Seq(Cells) /\ lab \subseteq lab' /\ ReadIsCurrent
  BY LabGrows DEF IInv, TypeOK, Remotes, ReadKept
<1>1. CASE remote'.flash = remote.flash
  BY <1>0, <1>1 DEF OriginInv
<1>2. ASSUME step # "idle", NEW more \in Seq(OwnCells), remote'.flash = remote.flash \o more
      PROVE  OriginInv'
  <2>1. more \in Seq(Cells) /\ container \in lab
    BY <1>0, <1>2, OwnCellsAreCells DEF ReadIsCurrent
  <2>2. SUFFICES ASSUME NEW i \in DOMAIN remote'.flash, remote'.flash[i].of \in Configs \ lab'
                 PROVE  Holds(remote'.flash, remote'.flash[i].of)
    BY DEF OriginInv
  <2>3. CASE i \in DOMAIN remote.flash
    <3>1. remote'.flash[i] = remote.flash[i]
      BY <1>0, <1>2, <2>1, <2>3
    <3>2. remote.flash[i].of \in Configs /\ Holds(remote.flash, remote.flash[i].of)
      BY <1>0, <2>2, <2>3, <3>1 DEF OriginInv
    <3>3. QED
      BY <1>0, <1>2, <2>1, <3>1, <3>2, HoldsSurvivesPackets
  <2>4. CASE i \notin DOMAIN remote.flash
    <3>1. PICK j \in DOMAIN more : remote'.flash[i] = more[j]
      <4>1. i \in 1..(Len(remote.flash) + Len(more)) /\ i \notin 1..Len(remote.flash)
            /\ Len(remote.flash) \in Nat /\ Len(more) \in Nat
        BY <1>0, <1>2, <2>1, <2>2, <2>4
      <4>2. i - Len(remote.flash) \in DOMAIN more
            /\ remote'.flash[i] = more[i - Len(remote.flash)]
        BY <1>0, <1>2, <2>1, <4>1
      <4>3. QED
        BY <4>2
    <3>2. more[j] \in OwnCells
      BY <1>2, <3>1
    <3>3. more[j].of = NoConfig \/ more[j].of = container
      BY <3>2 DEF OwnCells, Junk, Packet
    <3>4. QED
      BY <1>0, <2>1, <2>2, <3>1, <3>3
  <2>5. QED
    BY <2>3, <2>4
<1>3. CASE remote'.flash = <<>>
  BY <1>3 DEF OriginInv
<1>4. ASSUME NEW c \in Configs, remote' = RemoteOf(c) PROVE OriginInv'
  <2>1. remote'.flash = WholeFlash(c)
    BY <1>4 DEF RemoteOf
  <2>2. \A i \in DOMAIN remote'.flash : remote'.flash[i].of = c
    BY <2>1 DEF WholeFlash, Packet
  <2>3. QED
    BY <2>1, <2>2, HoldsItsOwn DEF OriginInv
<1>5. QED
  BY <1>1, <1>2, <1>3, <1>4, FlashSteps

LEMMA OutcomeKept ==
  ASSUME IInv, NoOutcomeYet, [Next]_vars
  PROVE  NoOutcomeYet'
<1>1. CASE step # "idle"
  BY <1>1, RunSteps DEF NoOutcomeYet
<1>2. CASE step = "idle"
  BY <1>2, IdleSteps
     DEF NoOutcomeYet, Start, StartRun, RemoteRestarts, vars, OwnerSyncs, ReadIntoLab
<1>3. QED
  BY <1>1, <1>2

(* Only the judgement refuses.                                             *)
LEMMA OnlyJudgeRefuses ==
  ASSUME IInv, NoOutcomeYet, [Next]_vars, step = "judge", outcome' = "refused"
  PROVE  Judge
<1>1. outcome = "none" /\ ~awaiting
  BY DEF NoOutcomeYet, IInv, LinkInOrder, WriteLink
<1>2. ~Read
  BY DEF Read, SendRead, PingOrOpenAnswered, DataRead, ReadClosed, ReadSteps
<1>3. Write => Judge
  BY DEF Write, SendResetFirst, ResetFirstAnswered, SendWriteCommand, ResetAnswered,
         OpenAnswered, SendChunkCommand, SendDataPacket, SendDonePacket, ChunkAnswered,
         CheckAnswered, FlushAnswered, CloseAnswered, Verify, Reboot
<1>4. ~WrongReply /\ ~TimeOut /\ ~WriteThrows
  BY <1>1 DEF WrongReply, TimeOut, WriteThrows
<1>5. ~KillRun /\ ~RemoteRestarts
  BY DEF KillRun, RemoteRestarts, End
<1>6. ~Start /\ \A c \in Configs : ~OwnerSyncs(c) /\ ~ReadIntoLab(c)
  BY DEF Start, StartRun, OwnerSyncs, ReadIntoLab
<1>7. ~UNCHANGED vars
  BY <1>1 DEF vars
<1>8. QED
  BY <1>2, <1>3, <1>4, <1>5, <1>6, <1>7 DEF Next, Run, Outside

(* What reads back as a configuration has its first packet.                *)
LEMMA FirstPacketServed ==
  ASSUME NEW flash \in Seq(Cells), NEW c \in Configs, Served(flash) = ReadableOf(c)
  PROVE  1 \in DOMAIN flash /\ flash[1].of = c
<1>1. 1 \in 1..NRead
  OBVIOUS
<1>2. ReadableOf(c) # <<>> /\ ReadableOf(c)[1] = Packet(c, 1)
  BY <1>1 DEF ReadableOf
<1>3. Served(flash) = [i \in 1..NRead |-> CellAt(flash, i)]
  BY <1>2 DEF Served
<1>4. CellAt(flash, 1) = Packet(c, 1)
  BY <1>1, <1>2, <1>3
<1>5. Packet(c, 1) # Erased /\ Packet(c, 1).of = c
  BY DEF Packet, Erased
<1>6. QED
  BY <1>4, <1>5 DEF CellAt

(* When no data packet of a read is lost, a remote that is refused can be  *)
(* written all the same: it reads back as a configuration the lab has, or  *)
(* as one that is whole on it, end marker and all, and can be read into the*)
(* lab first (judgeCurrentContent, and the refusal of writeFileConfig that *)
(* says so).                                                               *)
THEOREM NobodyIsLockedOut == ShortReads = FALSE => (Spec => NeverLockedOut)
<1>1. Init => OriginInv /\ NoOutcomeYet
  <2>1. SUFFICES ASSUME Init PROVE OriginInv
    BY DEF Init, NoOutcomeYet
  <2>2. PICK c \in Configs : remote.flash = WholeFlash(c)
    BY <2>1 DEF Init, RemoteOf
  <2>3. \A i \in DOMAIN remote.flash : remote.flash[i].of = c
    BY <2>2 DEF WholeFlash, Packet
  <2>4. QED
    BY <2>2, <2>3, HoldsItsOwn DEF OriginInv
<1>2. ASSUME ShortReads = FALSE
      PROVE  IInv /\ OriginInv /\ NoOutcomeYet /\ [Next]_vars => OriginInv' /\ NoOutcomeYet'
  BY <1>2, OriginKept, OutcomeKept
<1>3. ASSUME ShortReads = FALSE, IInv, OriginInv, NoOutcomeYet, [Next]_vars,
             step = "judge", outcome' = "refused", FactsAllow
      PROVE  \E c \in Configs :
               Served(remote.flash) = ReadableOf(c) /\ (c \in lab \/ Holds(remote.flash, c))
  <2>1. Judgement(got["/cfg/usercfg"]) = "refused"
    BY <1>3, OnlyJudgeRefuses DEF Judge, NoOutcomeYet
  <2>2. PICK c \in Configs : got["/cfg/usercfg"] = ReadableOf(c)
    BY <2>1 DEF Judgement
  <2>3. Served(remote.flash) = ReadableOf(c) /\ remote.flash \in Seq(Cells)
    BY <1>3, <2>2 DEF IInv, TypeOK, Remotes, ReadKept, ReadIsCurrent, CurrentSteps
  <2>4. 1 \in DOMAIN remote.flash /\ remote.flash[1].of = c
    BY <2>3, FirstPacketServed
  <2>5. c \in lab \/ Holds(remote.flash, c)
    BY <1>3, <2>4 DEF OriginInv
  <2>6. QED
    BY <2>3, <2>5
<1>4. ASSUME ShortReads = FALSE
      PROVE  IInv /\ OriginInv /\ NoOutcomeYet /\ [Next]_vars =>
               [step = "judge" /\ outcome' = "refused" /\ FactsAllow =>
                  \E c \in Configs :
                    /\ Served(remote.flash) = ReadableOf(c)
                    /\ c \in lab \/ Holds(remote.flash, c)]_vars
  BY <1>3, <1>4
<1>5. ASSUME ShortReads = FALSE PROVE Spec => NeverLockedOut
  BY <1>1, <1>2, <1>4, <1>5, Invariance, PTL DEF Spec, NeverLockedOut
<1>6. QED
  BY <1>5

-----------------------------------------------------------------------------
(* What a reboot rests on: the write from its open to its read back.       *)

(* The container's first k packets.                                        *)
Prefix(k) == [i \in 1..k |-> Packet(container, i)]

ReadingBack == reading = "back" /\ step \in ReadSteps

AfterWrite == step \in {"check", "flush", "closeW", "verify", "reboot"} \/ ReadingBack

(* The packets an open chunk still waits for, before its answer.           *)
Left ==
  IF sent = NPackets THEN 1
    ELSE ChunkEnd(sent + 1) - sent + (IF ChunkEnd(sent + 1) = NPackets THEN 1 ELSE 0)

(* A check on the link that says m.                                        *)
Marked(q) == \E i \in DOMAIN q : q[i].cmd = "check" /\ q[i].mark = "m"

(* The read back is of the configuration, and is it or is short.           *)
BackInv ==
  /\ ReadingBack => file = Len(Files)
  /\ (ReadingBack /\ step = "close" /\ ~spoiled) \/ step = "verify" =>
       \/ got["/cfg/usercfg"] = Served(remote.flash)
       \/ Len(got["/cfg/usercfg"]) < NRead
  /\ step = "reboot" => Served(remote.flash) = ReadableOf(container) /\ answer = "m"
  /\ step \in {"verify", "reboot"} => remote.due = 0 /\ remote.writing = FALSE

(* A check that said m has set the verdict, and nothing since clears it.   *)
VerdictInv ==
  /\ step # "idle" /\ answer # "none" => AfterWrite /\ step # "check"
  /\ step # "idle" /\ answer = "m" => remote.verdict
  /\ step = "check" /\ Marked(replies) => remote.verdict

(* An open for writing that is answered well has erased the file.          *)
OpenInv ==
  /\ step = "openW" /\ ~awaiting => remote.due = 0
  /\ step = "openW" /\ replies # <<>> /\ replies[1].seq = OPEN_SEQUENCE =>
       remote.flash = <<>> /\ remote.due = 0
  /\ step = "chunk" => ~awaiting

(* With no fault yet, the remote is as far as the tool is.                 *)
FlashInv ==
  faults = 0 =>
    /\ step \in {"chunk", "data"} => remote.flash = Prefix(sent)
    /\ step = "chunk" => remote.due = 0
    /\ step = "data" => remote.due = IF awaiting THEN 0 ELSE Left
    /\ AfterWrite => remote.flash = Prefix(NPackets) /\ remote.due = 0

WriteInv == BackInv /\ VerdictInv /\ OpenInv /\ FlashInv

(* Only an open for writing and a reboot can clear the verdict, and outside*)
(* a chunk only an open for writing or a chunk's command changes the flash *)
(* or what is due.                                                         *)
LEMMA QuietReport ==
  ASSUME NEW rem \in Remotes, NEW r, r.cmd \notin {"openW", "reboot"}
  PROVE  /\ rem.verdict => After(rem, r).verdict
         /\ rem.due = 0 /\ r.cmd # "write" => After(rem, r).flash = rem.flash /\ After(rem, r).due = 0
<1>1. CASE rem.due > 0
  BY <1>1 DEF After, TakePacket, Remotes
<1>2. CASE ~(rem.due > 0)
  <2>1. /\ OpenForReading(rem, r.arg).flash = rem.flash /\ OpenForReading(rem, r.arg).due = rem.due
        /\ OpenForReading(rem, r.arg).verdict = rem.verdict
    BY DEF OpenForReading, Remotes
  <2>2. OpenChunk(rem, r.arg).verdict = rem.verdict
    BY DEF OpenChunk, Remotes
  <2>3. /\ Check(rem, r.arg).flash = rem.flash /\ Check(rem, r.arg).due = rem.due
        /\ rem.verdict => Check(rem, r.arg).verdict
    BY DEF Check, Remotes
  <2>4. /\ CloseFile(rem).flash = rem.flash /\ CloseFile(rem).due = rem.due
        /\ CloseFile(rem).verdict = rem.verdict
    BY DEF CloseFile, Remotes
  <2>5. QED
    BY <1>2, <2>1, <2>2, <2>3, <2>4 DEF After
<1>3. QED
  BY <1>1, <1>2

(* A check that says m joins the link only by being said.                  *)
LEMMA MarkedFacts ==
  ASSUME NEW q \in Seq(Replies)
  PROVE  /\ "check" \notin Commands(q) => ~Marked(q)
         /\ \A x \in Replies : Marked(q \o <<x>>) =>
              Marked(q) \/ (x.cmd = "check" /\ x.mark = "m")
         /\ q # <<>> /\ Head(q).cmd = "check" /\ Head(q).mark = "m" => Marked(q)
<1>1. "check" \notin Commands(q) => ~Marked(q)
  BY DEF Commands, Marked
<1>2. ASSUME NEW x \in Replies, Marked(q \o <<x>>)
      PROVE  Marked(q) \/ (x.cmd = "check" /\ x.mark = "m")
  <2>1. PICK i \in DOMAIN (q \o <<x>>) :
          (q \o <<x>>)[i].cmd = "check" /\ (q \o <<x>>)[i].mark = "m"
    BY <1>2 DEF Marked
  <2>2. i \in 1..(Len(q) + 1) /\ Len(q) \in Nat
    BY <2>1
  <2>3. CASE i = Len(q) + 1
    <3>1. (q \o <<x>>)[i] = x
      BY <2>3
    <3>2. QED
      BY <2>1, <3>1
  <2>4. CASE i # Len(q) + 1
    <3>1. i \in DOMAIN q /\ (q \o <<x>>)[i] = q[i]
      BY <2>2, <2>4
    <3>2. QED
      BY <2>1, <3>1 DEF Marked
  <2>5. QED
    BY <2>3, <2>4
<1>3. ASSUME q # <<>>, Head(q).cmd = "check", Head(q).mark = "m" PROVE Marked(q)
  <2>1. 1 \in DOMAIN q /\ q[1] = Head(q)
    BY <1>3
  <2>2. QED
    BY <1>3, <2>1 DEF Marked
<1>4. QED
  BY <1>1, <1>2, <1>3

(* Nothing is asked of a run that has ended.                               *)
LEMMA IdleIsFine ==
  ASSUME step' = "idle"
  PROVE  WriteInv'
  BY DEF WriteInv, BackInv, VerdictInv, OpenInv, FlashInv, AfterWrite, ReadingBack, ReadSteps

(* Nor of one that has not come to its open for writing.                   *)
LEMMA FactsAreFine ==
  ASSUME step' \in ReadSteps \cup {"resetFirst", "judge", "reset"}, reading' # "back",
         answer' = "none"
  PROVE  WriteInv'
  BY DEF WriteInv, BackInv, VerdictInv, OpenInv, FlashInv, AfterWrite, ReadingBack, ReadSteps

(* Until it has written, a run has no answer from the check.               *)
LEMMA NoAnswerYet ==
  ASSUME WriteInv, step # "idle", ~AfterWrite \/ step = "check"
  PROVE  answer = "none"
  BY DEF WriteInv, VerdictInv

(* A failed read that is of the remote as it was written ends the run.     *)
LEMMA ReadsFailedIsFine ==
  ASSUME WriteInv, step \in {"ping", "open", "close"}, ReadsFailed, Unread
  PROVE  WriteInv'
<1>1. CASE reading = "facts" /\ FlagsSet
  <2>1. answer = "none"
    BY <1>1, NoAnswerYet DEF AfterWrite, ReadingBack
  <2>2. step' = "resetFirst" /\ reading' # "back" /\ answer' = "none"
    BY <1>1, <2>1 DEF ReadsFailed, Unread
  <2>3. QED
    BY <2>2, FactsAreFine
<1>2. CASE ~(reading = "facts" /\ FlagsSet)
  <2>1. step' = "idle"
    BY <1>2 DEF ReadsFailed, End
  <2>2. QED
    BY <2>1, IdleIsFine
<1>3. QED
  BY <1>1, <1>2

(* What was read back is compared with what is there.                      *)
LEMMA NextAfterCloseIsFine ==
  ASSUME IInv, WriteInv, step = "close", NextAfterClose, Unread, remote' = remote,
         faults' = 0 => faults = 0
  PROVE  WriteInv'
<1>0. /\ reading' = reading /\ got' = got /\ sent' = sent /\ answer' = answer
      /\ container' = container
  BY DEF Unread, request
<1>1. CASE spoiled
  BY <1>1, ReadsFailedIsFine DEF NextAfterClose
<1>2. CASE ~spoiled /\ reading # "back"
  <2>1. answer = "none"
    BY <1>2, NoAnswerYet DEF AfterWrite, ReadingBack
  <2>2. step' \in {"ping", "judge"}
    BY <1>2 DEF NextAfterClose
  <2>3. QED
    BY <1>0, <1>2, <2>1, <2>2, FactsAreFine DEF ReadSteps
<1>3. CASE ~spoiled /\ reading = "back"
  <2>1. ReadingBack /\ file = Len(Files)
    BY <1>3 DEF WriteInv, BackInv, ReadingBack, ReadSteps
  <2>2. step' = "verify" /\ file' = file
    BY <1>3, <2>1, FilesFacts DEF NextAfterClose
  <2>3. remote.due = 0 /\ remote.writing = FALSE
    BY DEF IInv, LinkInOrder, RemoteAtRest
  <2>4. BackInv'
    BY <1>0, <1>3, <2>1, <2>2, <2>3 DEF WriteInv, BackInv, ReadingBack, ReadSteps
  <2>5. VerdictInv'
    BY <1>0, <2>1, <2>2 DEF WriteInv, VerdictInv, AfterWrite
  <2>6. OpenInv'
    BY <2>2 DEF OpenInv
  <2>7. FlashInv'
    BY <1>0, <2>1, <2>2 DEF WriteInv, FlashInv, AfterWrite, Prefix
  <2>8. QED
    BY <2>4, <2>5, <2>6, <2>7 DEF WriteInv
<1>4. QED
  BY <1>1, <1>2, <1>3

(* An exception ends the write, or closes the file being read back.        *)
LEMMA ThrowIsFine ==
  ASSUME IInv, WriteInv, step \in Steps \ {"idle", "judge", "verify"},
         Throw, Unread, remote' = remote, faults' = 0 => faults = 0
  PROVE  WriteInv'
<1>0. /\ reading' = reading /\ got' = got /\ sent' = sent /\ answer' = answer
      /\ container' = container
  BY DEF Unread, request
<1>1. CASE step = "close"
  BY <1>1, NextAfterCloseIsFine DEF Throw
<1>2. CASE step = "read" /\ reading # "back"
  <2>1. answer = "none"
    BY <1>2, NoAnswerYet DEF AfterWrite, ReadingBack
  <2>2. step' = "close"
    BY <1>2 DEF Throw
  <2>3. QED
    BY <1>0, <1>2, <2>1, <2>2, FactsAreFine DEF ReadSteps
<1>3. CASE step = "read" /\ reading = "back"
  <2>1. ReadingBack /\ file = Len(Files)
    BY <1>3 DEF WriteInv, BackInv, ReadingBack, ReadSteps
  <2>2. step' = "close" /\ file' = file /\ spoiled' = TRUE
    BY <1>3 DEF Throw
  <2>3. BackInv'
    BY <2>1, <2>2 DEF BackInv
  <2>4. VerdictInv'
    BY <1>0, <1>3, <2>1, <2>2 DEF WriteInv, VerdictInv, AfterWrite, ReadingBack, ReadSteps
  <2>5. OpenInv'
    BY <2>2 DEF OpenInv
  <2>6. FlashInv'
    BY <1>0, <2>1, <2>2 DEF WriteInv, FlashInv, AfterWrite, Prefix
  <2>7. QED
    BY <2>3, <2>4, <2>5, <2>6 DEF WriteInv
<1>4. CASE step \in {"ping", "open"}
  BY <1>4, ReadsFailedIsFine DEF Throw
<1>5. CASE step \notin {"ping", "open", "read", "close"}
  <2>1. step' = "idle"
    BY <1>5 DEF Throw, End
  <2>2. QED
    BY <2>1, IdleIsFine
<1>6. QED
  BY <1>1, <1>2, <1>3, <1>4, <1>5

(* Faults only add up.                                                     *)
LEMMA FailuresAreFine ==
  ASSUME IInv, WriteInv, WrongReply \/ TimeOut \/ WriteThrows
  PROVE  WriteInv'
<1>1. step \in Steps \ {"idle", "judge", "verify"}
  BY DEF WrongReply, TimeOut, WriteThrows, IInv, TypeOK, LinkInOrder, WriteLink
<1>2. Throw /\ Unread /\ remote' = remote
  BY DEF WrongReply, TimeOut, WriteThrows
<1>3. faults' = 0 => faults = 0
  <2>1. faults \in Nat
    BY DEF IInv, TypeOK
  <2>2. faults' = faults \/ faults' = faults + 1
    BY DEF WrongReply, TimeOut, WriteThrows, Fault
  <2>3. QED
    BY <2>1, <2>2
<1>4. QED
  BY <1>1, <1>2, <1>3, ThrowIsFine

(* Reports the remote gets, or does not, add no fault unseen.              *)
LEMMA TransmitFaults ==
  ASSUME IInv, NEW r, Transmit(r)
  PROVE  faults' = 0 => faults = 0 /\ remote' = After(remote, r)
                        /\ replies' = replies \o Answers(remote, r)
<1>1. faults \in Nat
  BY DEF IInv, TypeOK
<1>2. QED
  BY <1>1 DEF Transmit, Deliver, Fault

(* A report of a read goes out.                                            *)
LEMMA SendReadIsFine ==
  ASSUME IInv, WriteInv, SendRead
  PROVE  WriteInv'
<1>0. remote \in Remotes /\ TypeOK
  BY DEF IInv, TypeOK
<1> DEFINE r == Report(step, Files[file], 0)
<1>1. r.cmd = step /\ step \in ReadSteps
  BY DEF Report, SendRead
<1>2. /\ Transmit(r)
      /\ UNCHANGED <<step, reading, file, got, spoiled, sent, answer, container>>
  BY DEF SendRead, Send, request
<1> HIDE DEF r
<1>3. CASE reading # "back"
  <2>1. answer = "none"
    BY <1>1, <1>3, NoAnswerYet DEF AfterWrite, ReadingBack, ReadSteps
  <2>2. QED
    BY <1>1, <1>2, <1>3, <2>1, FactsAreFine
<1>4. CASE reading = "back"
  <2>1. ReadingBack /\ ReadingBack' /\ step # "check" /\ step # "verify" /\ step # "reboot"
    BY <1>1, <1>2, <1>4 DEF ReadingBack, ReadSteps
  <2>2. remote' = remote \/ remote' = After(remote, r)
    BY <1>2 DEF Transmit, Deliver
  <2>3. remote.verdict => remote'.verdict
    BY <1>0, <1>1, <2>2, QuietReport DEF ReadSteps
  <2>4. remote.due = 0 => remote'.flash = remote.flash /\ remote'.due = 0
    BY <1>0, <1>1, <2>2, QuietReport DEF ReadSteps
  <2>5. step = "close" => remote.due = 0
    BY DEF IInv, LinkInOrder, RemoteAtRest
  <2>6. BackInv'
    BY <1>2, <2>1, <2>4, <2>5 DEF WriteInv, BackInv
  <2>7. VerdictInv'
    BY <1>2, <2>1, <2>3 DEF WriteInv, VerdictInv, AfterWrite
  <2>8. OpenInv'
    BY <1>1, <1>2 DEF OpenInv, ReadSteps
  <2>9. FlashInv'
    <3>1. faults' = 0 => faults = 0
      BY <1>2, TransmitFaults
    <3>2. QED
      BY <1>1, <1>2, <2>1, <2>4, <3>1 DEF WriteInv, FlashInv, AfterWrite, Prefix, ReadSteps
  <2>10. QED
    BY <2>6, <2>7, <2>8, <2>9 DEF WriteInv
<1>5. QED
  BY <1>3, <1>4

(* A report of a read is answered.                                         *)
LEMMA ReadAnswersAreFine ==
  ASSUME IInv, WriteInv, PingOrOpenAnswered \/ DataRead \/ ReadClosed
  PROVE  WriteInv'
<1>0. remote \in Remotes /\ TypeOK /\ LinkInOrder /\ faults \in Nat
  BY DEF IInv, TypeOK
<1>1. CASE ReadClosed
  <2>1. step = "close" /\ NextAfterClose /\ Unread /\ remote' = remote /\ faults' = faults
    BY <1>1 DEF ReadClosed
  <2>2. QED
    BY <2>1, NextAfterCloseIsFine
<1>2. CASE (PingOrOpenAnswered \/ DataRead) /\ reading # "back"
  <2>1. step \in ReadSteps /\ step' \in ReadSteps /\ reading' = reading /\ answer' = answer
    BY <1>2 DEF PingOrOpenAnswered, DataRead, ReadSteps
  <2>2. answer = "none"
    BY <1>2, <2>1, NoAnswerYet DEF AfterWrite, ReadingBack, ReadSteps
  <2>3. QED
    BY <1>2, <2>1, <2>2, FactsAreFine
<1>3. CASE (PingOrOpenAnswered \/ DataRead) /\ reading = "back"
  <2>1. /\ step \in {"ping", "open", "read"} /\ step' \in {"open", "read", "close"}
        /\ step' = "close" => DataRead
        /\ UNCHANGED <<remote, reading, file, spoiled, sent, answer, container>>
        /\ faults' = faults \/ faults' = faults + 1
    BY <1>3 DEF PingOrOpenAnswered, DataRead, request, Fault
  <2>2. ReadingBack /\ ReadingBack' /\ file = Len(Files) /\ file' = Len(Files)
    BY <1>3, <2>1 DEF WriteInv, BackInv, ReadingBack, ReadSteps
  <2>3. ASSUME DataRead
        PROVE  \/ got'["/cfg/usercfg"] = Served(remote.flash)
               \/ Len(got'["/cfg/usercfg"]) < NRead
    <3> DEFINE whole == Head(replies).val
    <3>1. Files[file] = "/cfg/usercfg" /\ "/cfg/usercfg" \in Paths
      BY <2>2, FilesFacts DEF Paths
    <3>2. replies = <<DataOf(Content(remote.flash, Files[file]))>>
      BY <1>0, <2>3 DEF DataRead, Accept, LinkInOrder, ReadLink
    <3>3. whole = Served(remote.flash)
      BY <3>1, <3>2 DEF DataOf, Content
    <3>4. \/ got' = [got EXCEPT ![Files[file]] = whole]
          \/ Len(whole) > 1 /\ got' = [got EXCEPT ![Files[file]] = Tail(whole)]
      BY <2>3 DEF DataRead
    <3>5. got \in [Paths -> Seq(Cells)]
      BY <1>0 DEF TypeOK
    <3>6. CASE got' = [got EXCEPT ![Files[file]] = whole]
      BY <3>1, <3>3, <3>5, <3>6
    <3>7. CASE Len(whole) > 1 /\ got' = [got EXCEPT ![Files[file]] = Tail(whole)]
      <4>1. Served(remote.flash) = [i \in 1..NRead |-> CellAt(remote.flash, i)]
        BY <3>3, <3>7 DEF Served
      <4>2. whole \in Seq(Cells) /\ Len(whole) = NRead
        <5>1. Len([i \in 1..NRead |-> CellAt(remote.flash, i)]) = NRead
          OBVIOUS
        <5>2. Served(remote.flash) \in Seq(Cells)
          BY <1>0, ServedType DEF Remotes
        <5>3. QED
          BY <3>3, <4>1, <5>1, <5>2
      <4> HIDE DEF whole
      <4>3. Len(Tail(whole)) = NRead - 1
        BY <4>2
      <4>4. got'["/cfg/usercfg"] = Tail(whole)
        BY <3>1, <3>5, <3>7
      <4>5. QED
        BY <4>3, <4>4
    <3>8. QED
      BY <3>4, <3>6, <3>7
  <2>4. BackInv'
    BY <2>1, <2>2, <2>3 DEF BackInv
  <2>5. VerdictInv'
    BY <2>1, <2>2 DEF WriteInv, VerdictInv, AfterWrite
  <2>6. OpenInv'
    BY <2>1 DEF OpenInv
  <2>7. FlashInv'
    <3>1. faults' = 0 => faults = 0
      BY <1>0, <2>1
    <3>2. QED
      BY <2>1, <2>2, <3>1 DEF WriteInv, FlashInv, AfterWrite, Prefix
  <2>8. QED
    BY <2>4, <2>5, <2>6, <2>7 DEF WriteInv
<1>4. QED
  BY <1>1, <1>2, <1>3

(* A run starts, goes back to its reads, judges, or ends.                  *)
LEMMA BeforeTheWriteIsFine ==
  ASSUME IInv, WriteInv, Start \/ SendResetFirst \/ ResetFirstAnswered \/ Judge
  PROVE  WriteInv'
<1>1. CASE Start
  <2>1. step' = "ping" /\ reading' = "facts" /\ answer' = "none"
    BY <1>1 DEF Start, StartRun
  <2>2. QED
    BY <2>1, FactsAreFine DEF ReadSteps
<1>2. CASE SendResetFirst \/ ResetFirstAnswered \/ Judge
  <2>1. /\ step \in {"resetFirst", "judge"} /\ answer' = answer
        /\ reading' = reading \/ reading' = "factsAgain"
        /\ step' \in {"resetFirst", "ping", "reset", "idle"}
    BY <1>2 DEF SendResetFirst, ResetFirstAnswered, Judge, End, Unread
  <2>2. reading # "back"
    BY <2>1 DEF IInv, LinkInOrder, NothingSentYet
  <2>3. answer = "none"
    BY <2>1, NoAnswerYet DEF AfterWrite, ReadingBack, ReadSteps
  <2>4. QED
    BY <2>1, <2>2, <2>3, FactsAreFine, IdleIsFine DEF ReadSteps
<1>3. QED
  BY <1>1, <1>2

(* The file system reset and the open for writing.                         *)
LEMMA OpeningIsFine ==
  ASSUME IInv, WriteInv,
         \/ SendWriteCommand /\ step \in {"reset", "openW"}
         \/ ResetAnswered \/ OpenAnswered
  PROVE  WriteInv'
<1>0. remote \in Remotes /\ TypeOK /\ LinkInOrder /\ JudgedAtRest /\ replies \in Seq(Replies)
      /\ step \in {"reset", "openW"} /\ reading # "back" /\ sent = 0
  BY DEF IInv, TypeOK, ResetAnswered, OpenAnswered, LinkInOrder, NothingSentYet
<1>1. answer = "none"
  BY <1>0, NoAnswerYet DEF AfterWrite, ReadingBack, ReadSteps
<1>2. CASE SendWriteCommand /\ step = "reset"
  <2>1. step' = "reset" /\ reading' = reading /\ answer' = answer
    BY <1>2 DEF SendWriteCommand
  <2>2. QED
    BY <1>0, <1>1, <2>1, FactsAreFine
<1>3. CASE SendWriteCommand /\ step = "openW"
  <2>1. step' = "openW" /\ awaiting' = TRUE /\ awaiting = FALSE /\ answer' = answer
        /\ Transmit(Report("openW", "none", OPEN_SEQUENCE))
    BY <1>0, <1>3 DEF SendWriteCommand, Send, TypeOK
  <2>2. replies = <<>> /\ remote.due = 0
    BY <1>3, <2>1, <1>0 DEF LinkInOrder, WriteLink, WriteInv, OpenInv
  <2>3. ASSUME Deliver(Report("openW", "none", OPEN_SEQUENCE)), replies'[1].seq = OPEN_SEQUENCE
        PROVE  remote'.flash = <<>> /\ remote'.due = 0
    <3>1. /\ remote' = OpenForWriting(remote)
          /\ replies' = <<Reply("open", IF remote.open = "none" THEN OPEN_SEQUENCE
                                          ELSE REPLY_ERROR)>>
      BY <2>2, <2>3 DEF Deliver, After, Answers, Report
    <3>2. remote.open = "none"
      BY <2>3, <3>1 DEF Reply, OPEN_SEQUENCE, REPLY_ERROR
    <3>3. QED
      BY <1>0, <2>2, <3>1, <3>2 DEF OpenForWriting, Remotes
  <2>4. OpenInv'
    BY <2>1, <2>2, <2>3 DEF OpenInv, Transmit
  <2>5. BackInv' /\ VerdictInv' /\ FlashInv'
    BY <1>1, <2>1 DEF BackInv, VerdictInv, FlashInv, AfterWrite, ReadingBack, ReadSteps
  <2>6. QED
    BY <2>4, <2>5 DEF WriteInv
<1>4. CASE ResetAnswered
  <2>1. step = "reset" /\ step' = "openW" /\ answer' = answer /\ remote' = remote /\ Accept
    BY <1>4 DEF ResetAnswered
  <2>2. remote.due = 0
    BY <1>0, <2>1 DEF JudgedAtRest
  <2>3. replies' = <<>>
    <3>1. CommandAwaited = "control" /\ "control" \notin Earlier(replies)
      BY <1>0, <2>1 DEF CommandAwaited, LinkInOrder, WriteLink
    <3>2. QED
      BY <1>0, <2>1, <3>1, AcceptFacts
  <2>4. QED
    BY <1>1, <2>1, <2>2, <2>3
       DEF WriteInv, OpenInv, BackInv, VerdictInv, FlashInv, AfterWrite, ReadingBack, ReadSteps
<1>5. CASE OpenAnswered
  <2>1. step = "openW" /\ Accept /\ Unread /\ UNCHANGED <<remote, faults>>
    BY <1>5 DEF OpenAnswered
  <2>2. CASE Throw
    BY <1>0, <2>1, <2>2, ThrowIsFine DEF TypeOK
  <2>3. CASE ~Throw
    <3>1. Head(replies).seq = OPEN_SEQUENCE /\ step' = "chunk" /\ awaiting' = FALSE
      BY <1>5, <2>3 DEF OpenAnswered
    <3>2. answer' = answer /\ sent' = sent /\ container' = container
      BY <2>1 DEF Unread, request
    <3>3. replies # <<>> /\ replies[1].seq = OPEN_SEQUENCE
      BY <1>0, <2>1, <3>1, AcceptFacts
    <3>4. remote'.flash = <<>> /\ remote'.due = 0
      BY <2>1, <3>3 DEF WriteInv, OpenInv
    <3>5. Prefix(sent)' = <<>>
      BY <1>0, <3>2 DEF Prefix
    <3>6. QED
      BY <1>1, <3>1, <3>2, <3>4, <3>5
         DEF WriteInv, OpenInv, BackInv, VerdictInv, FlashInv, AfterWrite, ReadingBack, ReadSteps
  <2>4. QED
    BY <2>2, <2>3
<1>6. QED
  BY <1>0, <1>2, <1>3, <1>4, <1>5

(* A chunk ends at or after each of its packets and not after the          *)
(* container, and a packet that does not end it is followed by one of the  *)
(* same chunk.                                                             *)
LEMMA ChunkEnds ==
  ASSUME NEW i \in 1..NPackets
  PROVE  /\ ChunkEnd(i) \in i..NPackets
         /\ i < ChunkEnd(i) => ChunkEnd(i + 1) = ChunkEnd(i)
<1>1. /\ ChunkOf(i) \in Nat /\ ChunkOf(i) * PacketsPerChunk \in Nat
      /\ ChunkOf(i) * PacketsPerChunk >= i
  <2>1. ChunkOf(i) \in Nat /\ ChunkOf(i) * PacketsPerChunk >= i
    BY ChunkFacts
  <2>2. QED
    BY <2>1
<1>2. ChunkEnd(i) \in i..NPackets
  BY <1>1 DEF ChunkEnd
<1>3. ASSUME i < ChunkEnd(i) PROVE ChunkOf(i + 1) = ChunkOf(i)
  <2> DEFINE n == i - 1
             q == n \div PacketsPerChunk
  <2>1. n \in Nat /\ PacketsPerChunk \in Nat \ {0} /\ i \in Nat
    OBVIOUS
  <2>2. \A m \in Nat, k \in Nat \ {0} :
          m \div k \in Nat /\ m = k * (m \div k) + (m % k) /\ m % k \in 0..k-1
    OBVIOUS
  <2>3. /\ q \in Nat /\ n = PacketsPerChunk * q + (n % PacketsPerChunk)
        /\ n % PacketsPerChunk \in 0..PacketsPerChunk-1
    BY <2>1, <2>2
  <2>4. ChunkOf(i) = q + 1 /\ ChunkOf(i + 1) = (i \div PacketsPerChunk) + 1
    BY DEF ChunkOf
  <2>5. i < (q + 1) * PacketsPerChunk
    BY <1>1, <1>3, <2>4 DEF ChunkEnd
  <2>6. (q + 1) * PacketsPerChunk = PacketsPerChunk * q + PacketsPerChunk
    BY <2>1, <2>3
  <2> DEFINE p == i \div PacketsPerChunk
  <2>7. /\ p \in Nat /\ i = PacketsPerChunk * p + (i % PacketsPerChunk)
        /\ i % PacketsPerChunk \in 0..PacketsPerChunk-1
    BY <2>1, <2>2
  <2>8. PacketsPerChunk * q <= i /\ i < PacketsPerChunk * q + PacketsPerChunk
    BY <2>1, <2>3, <2>5, <2>6
  <2>9. p = q
    <3> HIDE DEF p, q
    <3>1. ASSUME p < q PROVE FALSE
      <4>1. PacketsPerChunk * (p + 1) <= PacketsPerChunk * q
        BY <2>1, <2>3, <2>7, <3>1
      <4>2. PacketsPerChunk * (p + 1) = PacketsPerChunk * p + PacketsPerChunk
        BY <2>1, <2>7
      <4>3. QED
        BY <2>1, <2>3, <2>7, <2>8, <4>1, <4>2
    <3>2. ASSUME q < p PROVE FALSE
      <4>1. PacketsPerChunk * (q + 1) <= PacketsPerChunk * p
        BY <2>1, <2>3, <2>7, <3>2
      <4>2. PacketsPerChunk * (q + 1) = PacketsPerChunk * q + PacketsPerChunk
        BY <2>1, <2>3
      <4>3. QED
        BY <2>1, <2>3, <2>7, <2>8, <4>1, <4>2
    <3>3. QED
      BY <2>3, <2>7, <3>1, <3>2
  <2>10. QED
    BY <2>4, <2>9
<1>4. QED
  BY <1>2, <1>3 DEF ChunkEnd

(* A packet more is the next of the container.                             *)
LEMMA PrefixFacts ==
  ASSUME NEW k \in Nat
  PROVE  Prefix(k) \o <<Packet(container, k + 1)>> = Prefix(k + 1)
<1> DEFINE p == Prefix(k)
           x == Packet(container, k + 1)
<1>1. p \in Seq({Packet(container, i) : i \in 1..k}) /\ Len(p) = k
  BY DEF Prefix
<1>2. \A i \in 1..k : p[i] = Packet(container, i)
  BY DEF Prefix
<1> HIDE DEF p
<1>3. Len(p \o <<x>>) = k + 1
  BY <1>1
<1>4. p \o <<x>> = [i \in 1..(k + 1) |-> IF i <= k THEN p[i] ELSE x]
  BY <1>1, <1>3
<1>5. QED
  BY <1>2, <1>4 DEF Prefix, p

(* Each packet of a chunk arrives where it belongs, and the last of them is*)
(* the one its answer comes after.                                         *)
LEMMA ChunkIsFine ==
  ASSUME IInv, WriteInv, SendChunkCommand \/ SendDataPacket \/ SendDonePacket
  PROVE  WriteInv'
<1>0. remote \in Remotes /\ TypeOK /\ LinkInOrder /\ sent \in 0..NPackets /\ faults \in Nat
      /\ container \in Configs /\ awaiting \in BOOLEAN
  BY DEF IInv, TypeOK
<1>1. /\ step \in {"chunk", "data"} /\ step' = "data"
      /\ UNCHANGED <<reading, answer, container>>
  BY DEF SendChunkCommand, SendDataPacket, SendDonePacket, request
<1>2. answer' = "none"
  BY <1>1, NoAnswerYet DEF AfterWrite, ReadingBack, ReadSteps
<1>3. BackInv' /\ VerdictInv' /\ OpenInv'
  BY <1>1, <1>2 DEF BackInv, VerdictInv, OpenInv, ReadingBack, ReadSteps
<1>4. SUFFICES ASSUME faults' = 0
               PROVE  remote'.flash = Prefix(sent)' /\ remote'.due = (IF awaiting THEN 0 ELSE Left)'
  BY <1>1, <1>3 DEF WriteInv, FlashInv, AfterWrite, ReadingBack, ReadSteps
<1>5. ASSUME NEW r, Transmit(r) PROVE faults = 0 /\ remote' = After(remote, r)
  BY <1>4, <1>5, TransmitFaults
<1>6. CASE SendChunkCommand
  <2> DEFINE i == sent + 1
  <2>1. step = "chunk" /\ awaiting' = awaiting /\ sent' = sent
        /\ Transmit(Report("write", ChunkCount(i), ChunkSequence(i)))
    BY <1>6 DEF SendChunkCommand
  <2>2. sent < NPackets /\ awaiting = FALSE
    BY <1>0, <2>1 DEF LinkInOrder, NothingSentYet, WriteInv, OpenInv
  <2>3. faults = 0 /\ remote.due = 0 /\ remote.flash = Prefix(sent)
    BY <1>5, <2>1 DEF WriteInv, FlashInv
  <2>4. remote' = OpenChunk(remote, ChunkCount(i))
    BY <1>5, <2>1, <2>3 DEF After, Report
  <2>5. remote'.flash = remote.flash /\ remote'.due = ChunkCount(i) - 1
    BY <1>0, <2>4 DEF OpenChunk, Remotes
  <2>6. i \in 1..NPackets /\ ChunkEnd(i) \in i..NPackets
    BY <1>0, <2>2, ChunkEnds
  <2>7. ChunkCount(i) - 1 = Left
    BY <1>0, <2>2, <2>6 DEF ChunkCount, Left
  <2>8. Left' = Left /\ Prefix(sent)' = Prefix(sent)
    BY <1>1, <2>1 DEF Left, Prefix
  <2>9. QED
    BY <2>1, <2>2, <2>3, <2>5, <2>7, <2>8
<1>7. CASE SendDataPacket
  <2> DEFINE i == sent + 1
             d == Report("data", Packet(container, i), PacketSequence(i))
  <2>1. /\ step = "data" /\ awaiting = FALSE /\ sent < NPackets /\ sent' = i
        /\ awaiting' = (i = ChunkEnd(i) /\ i < NPackets)
        /\ TransmitData(d)
    BY <1>0, <1>7 DEF SendDataPacket
  <2>2. faults = 0 /\ remote' = After(remote, d)
    BY <1>0, <1>4, <1>5, <2>1 DEF TransmitData, Fault
  <2>3. remote.flash = Prefix(sent) /\ remote.due = Left
    BY <2>1, <2>2 DEF WriteInv, FlashInv
  <2>4. i \in 1..NPackets /\ ChunkEnd(i) \in i..NPackets
        /\ (i < ChunkEnd(i) => ChunkEnd(i + 1) = ChunkEnd(i))
    BY <1>0, <2>1, ChunkEnds
  <2>5. Left = ChunkEnd(i) - sent + (IF ChunkEnd(i) = NPackets THEN 1 ELSE 0) /\ Left > 0
    BY <1>0, <2>1, <2>4 DEF Left
  <2>6. /\ remote'.flash = remote.flash \o <<Packet(container, i)>>
        /\ remote'.due = Left - 1
    BY <1>0, <2>2, <2>3, <2>5 DEF After, TakePacket, AsData, Report, Remotes
  <2>7. remote'.flash = Prefix(i)
    BY <1>0, <2>3, <2>6, PrefixFacts
  <2>8. Prefix(sent)' = Prefix(i)
    BY <1>1, <2>1 DEF Prefix
  <2>9. Left' = IF i = NPackets THEN 1
                ELSE ChunkEnd(i + 1) - i + (IF ChunkEnd(i + 1) = NPackets THEN 1 ELSE 0)
    BY <2>1 DEF Left
  <2>10. Left \in Nat /\ remote'.due \in Nat /\ ChunkEnd(i) \in Nat /\ i \in Nat
    BY <1>0, <2>4, <2>5, <2>6
  <2>11. /\ i = ChunkEnd(i) /\ i < NPackets => awaiting' = TRUE
         /\ ~(i = ChunkEnd(i) /\ i < NPackets) => awaiting' = FALSE
    BY <2>1, Zenon
  <2>12. remote'.due = Left - 1 /\ ChunkEnd(i) <= NPackets /\ ChunkEnd(i) >= i /\ NPackets \in Nat
         /\ i = sent + 1 /\ sent \in Nat
    BY <1>0, <2>4, <2>6
  <2> HIDE DEF i, d
  <2>13. CASE i < ChunkEnd(i)
    <3>1. awaiting' = FALSE /\ i # NPackets /\ ChunkEnd(i + 1) = ChunkEnd(i)
      BY <2>4, <2>10, <2>13, <2>11, <2>12
    <3>2. Left' = ChunkEnd(i) - i + (IF ChunkEnd(i) = NPackets THEN 1 ELSE 0)
      BY <2>9, <3>1
    <3>3. ChunkEnd(i) - i = ChunkEnd(i) - sent - 1
      BY <2>10, <2>12
    <3>4. remote'.due = Left'
      BY <2>5, <2>10, <2>12, <3>2, <3>3
    <3>5. QED
      BY <2>7, <2>8, <3>1, <3>4
  <2>14. CASE i = ChunkEnd(i) /\ i < NPackets
    <3>1. awaiting' = TRUE /\ ChunkEnd(i) # NPackets
      BY <2>10, <2>14, <2>11, <2>12
    <3>2. Left = 1
      BY <2>5, <2>14, <2>12, <3>1
    <3>3. QED
      BY <2>6, <2>7, <2>8, <3>1, <3>2
  <2>15. CASE i = NPackets
    <3>1. awaiting' = FALSE /\ ChunkEnd(i) = NPackets
      BY <2>10, <2>15, <2>11, <2>12
    <3>2. Left = 2 /\ Left' = 1
      BY <2>5, <2>9, <2>15, <2>12, <3>1
    <3>3. QED
      BY <2>6, <2>7, <2>8, <3>1, <3>2
  <2>16. QED
    BY <2>4, <2>10, <2>13, <2>14, <2>15
<1>8. CASE SendDonePacket
  <2>1. step = "data" /\ awaiting = FALSE /\ awaiting' = TRUE /\ sent = NPackets /\ sent' = sent
        /\ Transmit(Report("done", "none", DONE_PACKET))
    BY <1>0, <1>8 DEF SendDonePacket, Send
  <2>2. faults = 0 /\ remote' = After(remote, Report("done", "none", DONE_PACKET))
    BY <1>5, <2>1
  <2>3. remote.flash = Prefix(sent) /\ remote.due = 1
    BY <2>1, <2>2 DEF WriteInv, FlashInv, Left
  <2>4. remote'.flash = remote.flash \o <<>> /\ remote'.due = 0
    BY <1>0, <2>2, <2>3 DEF After, TakePacket, AsData, Report, Remotes
  <2>5. remote'.flash = remote.flash
    <3>1. remote.flash \in Seq(Cells)
      BY <1>0 DEF Remotes
    <3>2. QED
      BY <2>4, <3>1
  <2>6. Prefix(sent)' = Prefix(sent)
    BY <1>1, <2>1 DEF Prefix
  <2>7. QED
    BY <2>1, <2>3, <2>4, <2>5, <2>6
<1>9. QED
  BY <1>6, <1>7, <1>8

(* A chunk is answered.                                                    *)
LEMMA ChunkAnsweredIsFine ==
  ASSUME IInv, WriteInv, ChunkAnswered
  PROVE  WriteInv'
<1>0. remote \in Remotes /\ TypeOK /\ LinkInOrder /\ sent \in 0..NPackets
  BY DEF IInv, TypeOK
<1>1. step = "data" /\ Accept /\ Unread /\ UNCHANGED <<remote, faults>>
  BY DEF ChunkAnswered
<1>2. CASE Throw
  BY <1>0, <1>1, <1>2, ThrowIsFine DEF TypeOK
<1>3. CASE ~Throw
  <2>1. step' = (IF sent = NPackets THEN "check" ELSE "chunk") /\ awaiting' = FALSE
    BY <1>3 DEF ChunkAnswered
  <2>2. UNCHANGED <<reading, answer, sent, container>> /\ awaiting = TRUE
    BY <1>0, <1>1 DEF Unread, request, Accept, TypeOK
  <2>3. answer' = "none"
    BY <1>1, <2>2, NoAnswerYet DEF AfterWrite, ReadingBack, ReadSteps
  <2>4. ~Marked(replies')
    <3>1. replies' \in Seq(Replies) /\ Commands(replies') \subseteq Commands(replies)
      BY <1>0, <1>1, AcceptFacts
    <3>2. "check" \notin Commands(replies')
      BY <1>0, <1>1, <3>1 DEF LinkInOrder, WriteLink
    <3>3. QED
      BY <3>1, <3>2, MarkedFacts
  <2>5. BackInv' /\ OpenInv'
    BY <2>1 DEF BackInv, OpenInv, ReadingBack, ReadSteps
  <2>6. VerdictInv'
    BY <2>3, <2>4 DEF VerdictInv
  <2>7. FlashInv'
    BY <1>1, <2>1, <2>2 DEF WriteInv, FlashInv, AfterWrite, ReadingBack, ReadSteps, Prefix
  <2>8. QED
    BY <2>5, <2>6, <2>7 DEF WriteInv
<1>4. QED
  BY <1>2, <1>3

(* The check, the flush and the close go out.                              *)
LEMMA ClosingIsFine ==
  ASSUME IInv, WriteInv, SendWriteCommand, step \in {"check", "flush", "closeW"}
  PROVE  WriteInv'
<1>0. remote \in Remotes /\ TypeOK /\ LinkInOrder /\ replies \in Seq(Replies)
      /\ container \in Configs
  BY DEF IInv, TypeOK
<1>1. /\ UNCHANGED <<step, reading, answer, sent, container>>
      /\ AfterWrite /\ AfterWrite'
  BY DEF SendWriteCommand, request, AfterWrite
<1>2. PICK r : /\ Transmit(r) /\ r.cmd \in {"check", "flush", "close"} /\ IsReport(r)
               /\ awaiting = FALSE /\ awaiting' = TRUE
  <2>1. AfterDataSequence(1) \in Nat /\ AfterDataSequence(2) \in Nat /\ AfterDataSequence(3) \in Nat
    BY SequenceFacts
  <2>2. \A arg : \A cmd \in {"check", "flush", "close"}, n \in Nat :
          IsReport(Report(cmd, arg, n)) /\ Report(cmd, arg, n).cmd = cmd
    BY DEF IsReport, Report
  <2>3. CASE Send(Report("check", container, AfterDataSequence(1)))
    BY <1>0, <2>1, <2>2, <2>3 DEF Send, TypeOK
  <2>4. CASE Send(Report("flush", "none", AfterDataSequence(2)))
    BY <1>0, <2>1, <2>2, <2>4 DEF Send, TypeOK
  <2>5. CASE Send(Report("close", "none", AfterDataSequence(IF answer = "m" THEN 3 ELSE 2)))
    BY <1>0, <2>1, <2>2, <2>5 DEF Send, TypeOK
  <2>6. QED
    BY <2>3, <2>4, <2>5 DEF SendWriteCommand
<1>3. remote' = remote \/ remote' = After(remote, r)
  BY <1>2 DEF Transmit, Deliver
<1>4. /\ remote.verdict => remote'.verdict
      /\ remote.due = 0 => remote'.flash = remote.flash /\ remote'.due = 0
  BY <1>0, <1>2, <1>3, QuietReport
<1>5. step = "check" /\ Marked(replies') => remote'.verdict
  <2>1. ASSUME step = "check", Marked(replies') PROVE remote'.verdict
    <3>1. ~Marked(replies)
      BY <1>0, <1>2, <2>1, MarkedFacts DEF LinkInOrder, WriteLink
    <3>2. PICK x \in Replies : /\ Answers(remote, r) = <<x>> /\ remote' = After(remote, r)
                               /\ replies' = replies \o <<x>> /\ (remote.due > 0 => x.cmd = "write")
      <4>1. remote' = After(remote, r) /\ replies' = replies \o Answers(remote, r)
        BY <1>2, <2>1, <3>1 DEF Transmit, Deliver
      <4>2. CASE Answers(remote, r) = <<>>
        BY <1>0, <2>1, <3>1, <4>1, <4>2
      <4>3. QED
        BY <1>0, <1>2, <4>1, <4>2, AnswersShape
    <3>3. x.cmd = "check" /\ x.mark = "m"
      BY <1>0, <2>1, <3>1, <3>2, MarkedFacts
    <3>4. ~(remote.due > 0)
      BY <3>2, <3>3
    <3>5. r.cmd = "check"
      BY <1>2, <3>2, <3>3, <3>4 DEF Answers, Reply
    <3>6. x = Checked(r.seq, CheckMatches(remote.flash, r.arg)) /\ remote' = Check(remote, r.arg)
      BY <3>2, <3>4, <3>5 DEF Answers, After
    <3>7. CheckMatches(remote.flash, r.arg)
      BY <3>3, <3>6 DEF Checked
    <3>8. QED
      BY <1>0, <3>6, <3>7 DEF Check, Remotes
  <2>2. QED
    BY <2>1
<1>6. BackInv' /\ OpenInv'
  BY <1>1 DEF BackInv, OpenInv, ReadingBack, ReadSteps
<1>7. VerdictInv'
  BY <1>1, <1>4, <1>5 DEF WriteInv, VerdictInv
<1>8. FlashInv'
  <2>1. faults' = 0 => faults = 0
    BY <1>2, TransmitFaults
  <2>2. QED
    BY <1>1, <1>4, <2>1 DEF WriteInv, FlashInv, Prefix
<1>9. QED
  BY <1>6, <1>7, <1>8 DEF WriteInv

(* They are answered, and the configuration is read back.                  *)
LEMMA ClosedIsFine ==
  ASSUME IInv, WriteInv, CheckAnswered \/ FlushAnswered \/ CloseAnswered
  PROVE  WriteInv'
<1>0. remote \in Remotes /\ TypeOK /\ replies \in Seq(Replies)
  BY DEF IInv, TypeOK
<1>1. /\ step \in {"check", "flush", "closeW"} /\ Accept
      /\ UNCHANGED <<remote, faults, sent, container>>
      /\ step = "check" => CheckAnswered
      /\ step # "check" => answer' = answer
      /\ \/ step' \in {"flush", "closeW"}
         \/ step' = "ping" /\ reading' = "back" /\ file' = Len(Files)
  BY DEF CheckAnswered, FlushAnswered, CloseAnswered, request
<1>2. AfterWrite /\ AfterWrite' /\ step' # "check"
  BY <1>1 DEF AfterWrite, ReadingBack, ReadSteps
<1>3. answer' = "m" => remote.verdict
  <2>1. CASE step = "check"
    <3>1. answer' = Head(replies).mark /\ Head(replies).cmd = "check" /\ replies # <<>>
      BY <1>1, <2>1 DEF CheckAnswered, Accept, Accepts, CommandAwaited
    <3>2. answer' = "m" => Marked(replies)
      BY <1>0, <3>1, MarkedFacts
    <3>3. QED
      BY <2>1, <3>2 DEF WriteInv, VerdictInv
  <2>2. CASE step # "check"
    BY <1>1, <2>2 DEF WriteInv, VerdictInv
  <2>3. QED
    BY <2>1, <2>2
<1>4. BackInv' /\ OpenInv'
  BY <1>1 DEF BackInv, OpenInv, ReadingBack, ReadSteps
<1>5. VerdictInv'
  BY <1>1, <1>2, <1>3 DEF VerdictInv
<1>6. FlashInv'
  BY <1>1, <1>2 DEF WriteInv, FlashInv, AfterWrite, Prefix
<1>7. QED
  BY <1>4, <1>5, <1>6 DEF WriteInv

(* What was read back is the container, all that a read can serve of it.   *)
LEMMA VerifyIsFine ==
  ASSUME IInv, WriteInv, Verify
  PROVE  WriteInv'
<1>1. step = "verify" /\ Unread /\ UNCHANGED <<remote, faults, file>>
  BY DEF Verify
<1>2. CASE step' = "idle"
  BY <1>2, IdleIsFine
<1>3. CASE step' # "idle"
  <2>1. /\ got["/cfg/usercfg"] = ReadableOf(container) /\ answer = "m" /\ step' = "reboot"
    BY <1>3 DEF Verify, End
  <2>2. Len(ReadableOf(container)) = NRead
    BY DEF ReadableOf
  <2>3. Served(remote.flash) = ReadableOf(container)
    BY <1>1, <2>1, <2>2 DEF WriteInv, BackInv
  <2>4. UNCHANGED <<answer, sent, container>>
    BY <1>1 DEF Unread, request
  <2>5. BackInv'
    BY <1>1, <2>1, <2>3, <2>4 DEF WriteInv, BackInv, ReadingBack, ReadSteps
  <2>6. VerdictInv' /\ OpenInv'
    BY <1>1, <2>1, <2>4 DEF WriteInv, VerdictInv, OpenInv, AfterWrite
  <2>7. FlashInv'
    BY <1>1, <2>1, <2>4 DEF WriteInv, FlashInv, AfterWrite, Prefix
  <2>8. QED
    BY <2>5, <2>6, <2>7 DEF WriteInv
<1>4. QED
  BY <1>2, <1>3

(* Every step keeps what a reboot rests on.                                *)
LEMMA WriteStepKeeps ==
  ASSUME IInv, WriteInv, [Next]_vars
  PROVE  WriteInv'
<1>1. CASE Start \/ SendResetFirst \/ ResetFirstAnswered \/ Judge
  BY <1>1, BeforeTheWriteIsFine
<1>2. CASE Read
  BY <1>2, SendReadIsFine, ReadAnswersAreFine DEF Read
<1>3. CASE SendWriteCommand
  BY <1>3, OpeningIsFine, ClosingIsFine DEF SendWriteCommand
<1>4. CASE ResetAnswered \/ OpenAnswered
  BY <1>4, OpeningIsFine
<1>5. CASE SendChunkCommand \/ SendDataPacket \/ SendDonePacket \/ ChunkAnswered
  BY <1>5, ChunkIsFine, ChunkAnsweredIsFine
<1>6. CASE CheckAnswered \/ FlushAnswered \/ CloseAnswered \/ Verify
  BY <1>6, ClosedIsFine, VerifyIsFine
<1>7. CASE WrongReply \/ TimeOut \/ WriteThrows
  BY <1>7, FailuresAreFine
<1>8. CASE Reboot \/ KillRun \/ RemoteRestarts \/ \E c \in Configs : OwnerSyncs(c) \/ ReadIntoLab(c)
  <2>1. step' = "idle"
    BY <1>8 DEF Reboot, KillRun, RemoteRestarts, OwnerSyncs, ReadIntoLab, End
  <2>2. QED
    BY <2>1, IdleIsFine
<1>9. CASE UNCHANGED vars
  <2>1. /\ UNCHANGED <<remote, replies, step, awaiting, reading, file, got, spoiled, sent, answer>>
        /\ UNCHANGED <<container, faults>>
    BY <1>9 DEF vars
  <2>2. AfterWrite' = AfterWrite /\ ReadingBack' = ReadingBack /\ Left' = Left
        /\ Prefix(sent)' = Prefix(sent) /\ Prefix(NPackets)' = Prefix(NPackets)
    BY <2>1 DEF AfterWrite, ReadingBack, Left, Prefix
  <2>3. BackInv' /\ VerdictInv' /\ OpenInv'
    BY <2>1, <2>2 DEF WriteInv, BackInv, VerdictInv, OpenInv
  <2>4. FlashInv'
    BY <2>1, <2>2 DEF WriteInv, FlashInv
  <2>5. QED
    BY <2>3, <2>4 DEF WriteInv
<1>10. QED
  BY <1>1, <1>2, <1>3, <1>4, <1>5, <1>6, <1>7, <1>8, <1>9 DEF Next, Run, Write, Outside

(* A reboot goes out only for a container that was read back whole, with   *)
(* nothing open for writing and the verdict set, and, unless something went*)
(* wrong on the way, with its end marker in place (writeFileConfig's verify*)
(* and its reboot), even when a data packet of the read back was lost.     *)
THEOREM RebootsOnlyVerified == Spec => []RebootOnlyVerified
<1>1. Init => WriteInv
  BY DEF Init, WriteInv, BackInv, VerdictInv, OpenInv, FlashInv, AfterWrite, ReadingBack, ReadSteps
<1>2. IInv /\ WriteInv /\ [Next]_vars => WriteInv'
  BY WriteStepKeeps
<1>3. IInv /\ WriteInv => RebootOnlyVerified
  <2>1. SUFFICES ASSUME IInv, WriteInv, step = "reboot"
                 PROVE  /\ Served(remote.flash) = ReadableOf(container)
                        /\ remote.due = 0 /\ remote.writing = FALSE
                        /\ remote.verdict
                        /\ faults = 0 => Holds(remote.flash, container)
    BY DEF RebootOnlyVerified
  <2>2. /\ Served(remote.flash) = ReadableOf(container) /\ answer = "m"
        /\ remote.due = 0 /\ remote.writing = FALSE
    BY <2>1 DEF WriteInv, BackInv
  <2>3. remote.verdict
    BY <2>1, <2>2 DEF WriteInv, VerdictInv
  <2>4. faults = 0 => remote.flash = WholeFlash(container)
    BY <2>1 DEF WriteInv, FlashInv, AfterWrite, Prefix, WholeFlash
  <2>5. container \in Configs
    BY <2>1 DEF IInv, TypeOK
  <2>6. QED
    BY <2>2, <2>3, <2>4, <2>5, HoldsItsOwn
<1>4. QED
  BY <1>1, <1>2, <1>3, Invariance, PTL DEF Spec
-----------------------------------------------------------------------------
(* The write path implements the store.                                    *)

(* The configuration the remote is seen to hold is the one it holds.       *)
LEMMA HeldFacts ==
  /\ \A c \in Configs : Holds(remote.flash, c) => held = c
  /\ held # NoConfig => held \in Configs /\ Holds(remote.flash, held)
<1>1. ASSUME NEW c \in Configs, Holds(remote.flash, c)
      PROVE  held = c
  <2>1. HoldsSome(remote.flash)
    BY <1>1 DEF HoldsSome
  <2>2. held \in Configs /\ Holds(remote.flash, held)
    BY <1>1, <2>1 DEF held
  <2>3. QED
    BY <1>1, <2>2, HoldsOne
<1>2. ASSUME held # NoConfig PROVE held \in Configs /\ Holds(remote.flash, held)
  <2>1. HoldsSome(remote.flash)
    BY <1>2 DEF held
  <2>2. QED
    BY <2>1 DEF held, HoldsSome
<1>3. QED
  BY <1>1, <1>2

(* So it is after a step.                                                  *)
LEMMA HeldNextFacts ==
  /\ \A c \in Configs : Holds(remote'.flash, c) => held' = c
  /\ held' # NoConfig => held' \in Configs /\ Holds(remote'.flash, held')
<1>1. ASSUME NEW c \in Configs, Holds(remote'.flash, c)
      PROVE  held' = c
  <2>1. held' \in Configs /\ Holds(remote'.flash, held')
    BY <1>1 DEF held, HoldsSome
  <2>2. QED
    BY <1>1, <2>1, HoldsOne
<1>2. ASSUME held' # NoConfig PROVE held' \in Configs /\ Holds(remote'.flash, held')
  <2>1. HoldsSome(remote'.flash)
    BY <1>2 DEF held
  <2>2. QED
    BY <2>1 DEF held, HoldsSome
<1>3. QED
  BY <1>1, <1>2

(* A run that makes the remote whole makes it its own container.           *)
LEMMA FilledWithItsOwn ==
  ASSUME NEW flash \in Seq(Cells), NEW more \in Seq(OwnCells), more \in Seq(Cells),
         NEW c \in Configs, Holds(flash \o more, c), ~Holds(flash, c)
  PROVE  c = container
<1>1. PICK i \in 1..NPackets : CellAt(flash, i) # Packet(c, i)
  BY DEF Holds
<1>2. CellAt(flash \o more, i) = Packet(c, i)
  BY DEF Holds
<1>3. Packet(c, i) # Erased /\ Packet(c, i).of = c /\ c # NoConfig
  BY DEF Packet, Erased
<1>4. i \in DOMAIN (flash \o more) /\ (flash \o more)[i] = Packet(c, i)
  BY <1>2, <1>3 DEF CellAt
<1>5. i \notin DOMAIN flash
  <2>1. SUFFICES ASSUME i \in DOMAIN flash PROVE FALSE
    OBVIOUS
  <2>2. (flash \o more)[i] = flash[i]
    BY <2>1
  <2>3. QED
    BY <1>1, <1>4, <2>1, <2>2 DEF CellAt
<1>6. Len(flash) \in Nat /\ Len(more) \in Nat /\ i \in 1..(Len(flash) + Len(more))
      /\ i \notin 1..Len(flash)
  BY <1>4, <1>5
<1>7. i - Len(flash) \in 1..Len(more) /\ (flash \o more)[i] = more[i - Len(flash)]
  BY <1>6
<1>8. Packet(c, i) \in OwnCells
  BY <1>4, <1>7
<1>9. QED
  BY <1>3, <1>8 DEF OwnCells, Junk, Packet

(* A run ends with the flash as its last step found it: by then nothing is *)
(* due that a reboot could be taken for.                                   *)
LEMMA EndLeavesFlash ==
  ASSUME IInv, WriteInv, [Next]_vars, step # "idle", step' = "idle"
  PROVE  remote'.flash = remote.flash
<1>1. CASE Read
  BY <1>1 DEF Read, SendRead, PingOrOpenAnswered, DataRead, ReadClosed, ReadSteps
<1>2. CASE Reboot
  <2>1. remote \in Remotes /\ remote.due = 0 /\ remote.flash \in Seq(Cells)
    BY <1>2 DEF IInv, TypeOK, Remotes, WriteInv, BackInv, Reboot
  <2> DEFINE r == Report("reboot", "none", 0)
  <2>2. r.cmd # "openW"
    BY DEF Report
  <2>3. remote' = remote \/ remote' = After(remote, r)
    BY <1>2 DEF Reboot, Transmit, Deliver
  <2> HIDE DEF r
  <2>4. After(remote, r).flash = remote.flash \o (IF remote.due > 0 THEN AsData(r) ELSE <<>>)
    BY <2>1, <2>2, WhatReportsAdd
  <2>5. remote.flash \o <<>> = remote.flash
    BY <2>1
  <2>6. QED
    BY <2>1, <2>3, <2>4, <2>5
<1>3. CASE Write /\ ~Reboot
  <2>1. ~SendResetFirst /\ ~SendWriteCommand /\ ~SendChunkCommand /\ ~SendDataPacket
        /\ ~SendDonePacket
    BY DEF SendResetFirst, SendWriteCommand, SendChunkCommand, SendDataPacket, SendDonePacket
  <2>2. QED
    BY <1>3, <2>1
       DEF Write, ResetFirstAnswered, Judge, ResetAnswered, OpenAnswered, ChunkAnswered,
           CheckAnswered, FlushAnswered, CloseAnswered, Verify
<1>4. CASE WrongReply \/ TimeOut \/ WriteThrows \/ KillRun \/ RemoteRestarts
  BY <1>4 DEF WrongReply, TimeOut, WriteThrows, KillRun, RemoteRestarts, Restarted, IInv, TypeOK,
              Remotes
<1>5. CASE UNCHANGED vars
  BY <1>5 DEF vars
<1>6. QED
  BY <1>1, <1>2, <1>3, <1>4, <1>5
     DEF Next, Run, Outside, Start, StartRun, OwnerSyncs, ReadIntoLab

storeWrites == IF step = "idle" THEN NoConfig ELSE container

(* Every step of the write path is a step of the store or none of it.      *)
LEMMA StepOfStore ==
  ASSUME ShortReads = FALSE, IInv, WriteInv, [Next]_vars
  PROVE  [Store!Next]_<<held, storeWrites, lab>>
<1>0. /\ remote \in Remotes /\ remote.flash \in Seq(Cells) /\ container \in Configs
      /\ NoConfig \notin Configs /\ ReadIsCurrent
  BY DEF IInv, TypeOK, Remotes, ReadKept
<1>1. ASSUME remote'.flash = remote.flash PROVE held' = held
  BY <1>1 DEF held
<1>2. CASE step = "idle"
  <2>1. storeWrites = NoConfig
    BY <1>2 DEF storeWrites
  <2>2. CASE Start
    <3>1. /\ remote' = remote /\ lab' = lab /\ container' \in lab /\ step' = "ping"
      BY <2>2 DEF Start, StartRun
    <3>2. storeWrites' \in lab /\ held' = held
      BY <1>1, <3>1 DEF storeWrites
    <3>3. QED
      BY <2>1, <3>1, <3>2 DEF Store!Begin, Store!Next, storeWrites
  <2>3. CASE RemoteRestarts
    <3>1. remote'.flash = remote.flash /\ lab' = lab /\ step' = "idle"
      BY <1>0, <1>2, <2>3 DEF RemoteRestarts, Restarted, Unread, Remotes
    <3>2. QED
      BY <1>1, <1>2, <3>1 DEF storeWrites
  <2>4. ASSUME NEW c \in Configs, OwnerSyncs(c)
        PROVE  Store!OwnerFills
    <3>1. remote' = RemoteOf(c) /\ lab' = lab /\ step' = "idle"
      BY <1>2, <2>4 DEF OwnerSyncs, Unread
    <3>2. held' = c
      BY <3>1, HoldsItsOwn, HeldNextFacts DEF RemoteOf
    <3>3. QED
      BY <1>2, <3>1, <3>2 DEF Store!OwnerFills
  <2>5. ASSUME NEW c \in Configs, ReadIntoLab(c)
        PROVE  Store!Learn
    <3>1. Holds(remote.flash, c) /\ remote' = remote /\ lab' = lab \cup {c} /\ step' = "idle"
      BY <1>2, <2>5 DEF ReadIntoLab
    <3>2. held = c /\ held' = held
      BY <1>1, <3>1, HeldFacts
    <3>3. QED
      BY <1>0, <1>2, <3>1, <3>2 DEF Store!Learn
  <2>6. CASE UNCHANGED vars
    BY <1>1, <2>6 DEF vars, storeWrites
  <2>7. QED
    BY <1>2, <2>2, <2>3, <2>4, <2>5, <2>6, IdleSteps DEF Store!Next
<1>3. CASE step # "idle" /\ step' = "idle"
  <2>1. lab' = lab /\ held' = held
    BY <1>1, <1>3, RunSteps, EndLeavesFlash
  <2>2. QED
    BY <1>0, <1>3, <2>1 DEF Store!Finish, Store!Next
<1>4. CASE step # "idle" /\ step' # "idle"
  <2>1. lab' = lab /\ container' = container /\ container \in lab
    BY <1>0, <1>4, RunSteps DEF ReadIsCurrent
  <2>2. storeWrites' = storeWrites /\ storeWrites = container
    BY <1>4, <2>1 DEF storeWrites
  <2>3. CASE remote'.flash = remote.flash
    BY <1>1, <2>1, <2>2, <2>3
  <2>4. ASSUME NEW more \in Seq(OwnCells), remote'.flash = remote.flash \o more
        PROVE  held' = held \/ (held = NoConfig /\ held' = container)
    <3>1. more \in Seq(Cells)
      BY OwnCellsAreCells
    <3>2. CASE held # NoConfig
      BY <1>0, <2>4, <3>1, <3>2, HeldFacts, HoldsSurvivesPackets, HeldNextFacts
    <3>3. CASE held = NoConfig /\ held' # NoConfig
      <4>1. held' \in Configs /\ Holds(remote.flash \o more, held')
        BY <2>4, <3>3, HeldNextFacts
      <4>2. ~Holds(remote.flash, held')
        BY <1>0, <3>3, <4>1, HeldFacts
      <4>3. QED
        BY <1>0, <3>1, <3>3, <4>1, <4>2, FilledWithItsOwn
    <3>4. QED
      BY <3>2, <3>3
  <2>5. ASSUME remote'.flash = <<>>
        PROVE  held' = NoConfig /\ (held = NoConfig \/ held \in lab)
    <3>1. \A c : ~Holds(<<>>, c)
      <4>1. 1 \in 1..NPackets
        OBVIOUS
      <4>2. \A c : CellAt(<<>>, 1) # Packet(c, 1)
        BY DEF CellAt, Packet, Erased
      <4>3. QED
        BY <4>1, <4>2 DEF Holds
    <3>2. held' = NoConfig
      BY <2>5, <3>1, HeldNextFacts
    <3>3. ASSUME held # NoConfig, held \notin lab PROVE FALSE
      <4>1. held \in Configs \ lab /\ Holds(remote.flash, held)
        BY <3>3, HeldFacts
      <4>2. Holds(remote'.flash, held)
        BY <1>4, <4>1, UnknownIsKept
      <4>3. QED
        BY <2>5, <3>1, <4>2
    <3>4. QED
      BY <3>2, <3>3
  <2>6. QED
    <3>1. \/ held' = held
          \/ held = NoConfig /\ held' = container
          \/ held' = NoConfig /\ held \in lab
      BY <1>1, <1>4, <2>4, <2>5, FlashSteps
    <3>2. CASE held' = held
      BY <2>1, <2>2, <3>2
    <3>3. CASE held = NoConfig /\ held' = container
      BY <1>0, <1>4, <2>1, <2>2, <3>3
         DEF Store!FillWithItsOwn, Store!Fill, Store!Next, storeWrites
    <3>4. CASE held' = NoConfig /\ held \in lab
      BY <1>0, <1>4, <2>1, <2>2, <3>4 DEF Store!Empty, Store!Next, storeWrites
    <3>5. QED
      BY <3>1, <3>2, <3>3, <3>4
<1>5. QED
  BY <1>2, <1>3, <1>4

(* When no data packet of a read is lost, the write path (writeFileConfig  *)
(* and its readFile) is a store that a run empties only of what the lab    *)
(* has, fills only with the container it was started on, and changes in no *)
(* other way, whatever is lost, late, killed or restarted.                 *)
THEOREM ImplementsTheStore == ShortReads = FALSE => (Spec => IsAStore)
<1>1. Init => Store!Init
  <2>1. SUFFICES ASSUME Init PROVE held \in Configs /\ step = "idle" /\ lab \in SUBSET Configs
    BY DEF Store!Init
  <2>2. PICK c \in Configs : remote = RemoteOf(c)
    BY <2>1 DEF Init
  <2>3. Holds(remote.flash, c)
    BY <2>2, HoldsItsOwn DEF RemoteOf
  <2>4. QED
    BY <2>1, <2>3, HeldFacts DEF Init
<1>2. Init => WriteInv
  BY DEF Init, WriteInv, BackInv, VerdictInv, OpenInv, FlashInv, AfterWrite, ReadingBack, ReadSteps
<1>3. IInv /\ WriteInv /\ [Next]_vars => WriteInv'
  BY WriteStepKeeps
<1>4. ASSUME ShortReads = FALSE
      PROVE  IInv /\ WriteInv /\ [Next]_vars =>
               [Store!Next]_<<held, IF step = "idle" THEN NoConfig ELSE container, lab>>
  BY <1>4, StepOfStore DEF storeWrites
<1>5. ASSUME ShortReads = FALSE PROVE Spec => IsAStore
  BY <1>1, <1>2, <1>3, <1>4, <1>5, Invariance, PTL DEF Spec, IsAStore, Store!Safety
<1>6. QED
  BY <1>5
=============================================================================
