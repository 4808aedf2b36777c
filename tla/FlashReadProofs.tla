---------------------------- MODULE FlashReadProofs ----------------------------
(***************************************************************************)
(* Theorems about FlashRead, for a flash, a configuration, a region, a     *)
(* window and a queue of any size, a sequence of any length and any number *)
(* of sessions, retries and requests the remote misses.                    *)
(***************************************************************************)
EXTENDS FlashRead, TLAPS, SequenceTheorems, FiniteSetTheorems

(* What the remote has still to say to the one who listens.                *)
Rest == queue \o owed

EndsAtLast(rest) ==
  /\ rest # <<>> /\ rest[Len(rest)] = Finished
  /\ \A i \in 1..Len(rest) - 1 : rest[i].kind = "chunk"

(* A session asks for what is left of its range, and what it has gathered  *)
(* is empty before its first window.                                       *)
AskingInv ==
  /\ step \in {"window", "stream", "drain"} => Len(image) < End - Start
  /\ step \in {"judge", "file"} => Len(image) = End - Start
  /\ step \in {"off", "asks", "version"} => image = <<>>
  /\ step = "asks" => opens < VersionSends
  /\ step = "version" => opens <= VersionSends

(* As long as no wait was given up, what is under way is what was asked.   *)
PipeInv ==
  ~gaveUp =>
    /\ attached
    /\ step \in Steps \ {"version", "stream", "drain"} => Rest = <<>>
    /\ step = "version" => Rest \in {<<>>, <<VersionReply>>}
    /\ step \in {"stream", "drain"} => Rest = <<>> \/ EndsAtLast(Rest)

(* Then a stream either has lost chunks, and will fall short of its count, *)
(* or what was heard and what is to come are the places asked for.         *)
Follows(heard, rest, from) ==
  /\ \A i \in 1..Len(heard) : heard[i] = from + i - 1
  /\ \A i \in 1..Len(rest) - 1 : rest[i].at = from + Len(heard) + i - 1
StreamInv ==
  ~gaveUp /\ step = "stream" /\ Rest # <<>> =>
    /\ Len(got) + Len(Rest) - 1 <= Count
    /\ Len(got) + Len(Rest) - 1 = Count => Follows(got, Rest, At)

GatheredInv ==
  ~gaveUp => \A i \in 1..Len(image) : image[i] = Start + i - 1

FiledInv ==
  /\ \A f \in DOMAIN disk : disk[f].bytes = Nothing => disk[f].sidecar = 0
  /\ step = "sidecar" =>
       disk[<<program, minute>>].by = sessions /\ disk[<<program, minute>>].bytes # Nothing

IInv == /\ TypeOK /\ AskingInv /\ PipeInv /\ StreamInv /\ GatheredInv /\ FiledInv
        /\ RegionIsWhatWasThere /\ SidecarIsTheReads

-----------------------------------------------------------------------------
(* Sequences.                                                              *)

(* The first report taken off the pipe leaves the rest in its order.       *)
LEMMA TailFacts ==
  ASSUME NEW r \in Seq(Reports), r # <<>>
  PROVE  /\ Tail(r) \in Seq(Reports) /\ Head(r) \in Reports /\ Head(r) = r[1]
         /\ Len(r) \in Nat \ {0} /\ Len(Tail(r)) = Len(r) - 1
         /\ \A i \in 1..Len(r) - 1 : Tail(r)[i] = r[i + 1]
         /\ Len(r) = 1 => Tail(r) = <<>>
<1>1. /\ Tail(r) \in Seq(Reports) /\ Head(r) \in Reports /\ Head(r) = r[1]
      /\ Len(r) \in Nat \ {0} /\ Len(Tail(r)) = Len(r) - 1
      /\ \A i \in 1..Len(r) - 1 : Tail(r)[i] = r[i + 1]
  OBVIOUS
<1> QED BY <1>1, EmptySeq

LEMMA TakenFromRest ==
  ASSUME NEW q \in Seq(Reports), NEW o \in Seq(Reports), q # <<>>
  PROVE  /\ q \o o \in Seq(Reports) /\ q \o o # <<>> /\ (q \o o)[1] = Head(q)
         /\ Tail(q) \o o = Tail(q \o o)
<1>1. Len(q) \in Nat \ {0} /\ Len(o) \in Nat /\ q[1] = Head(q)
  BY TailFacts
<1>2. /\ q \o o \in Seq(Reports) /\ Len(q \o o) = Len(q) + Len(o)
      /\ \A i \in 1..Len(q) + Len(o) : (q \o o)[i] = IF i <= Len(q) THEN q[i] ELSE o[i - Len(q)]
  BY ConcatProperties
<1>3. q \o o # <<>> /\ (q \o o)[1] = Head(q)
  BY <1>1, <1>2
<1>4. /\ Tail(q) \in Seq(Reports) /\ Len(Tail(q)) = Len(q) - 1
      /\ \A i \in 1..Len(q) - 1 : Tail(q)[i] = q[i + 1]
  BY TailFacts
<1>5. /\ Tail(q) \o o \in Seq(Reports) /\ Len(Tail(q) \o o) = Len(q) - 1 + Len(o)
      /\ \A i \in 1..Len(q) - 1 + Len(o) :
           (Tail(q) \o o)[i] = IF i <= Len(q) - 1 THEN Tail(q)[i] ELSE o[i - (Len(q) - 1)]
  BY <1>4, ConcatProperties
<1>6. /\ Tail(q \o o) \in Seq(Reports) /\ Len(Tail(q \o o)) = Len(q) - 1 + Len(o)
      /\ \A i \in 1..Len(q) - 1 + Len(o) : Tail(q \o o)[i] = (q \o o)[i + 1]
  <2>1. /\ Tail(q \o o) \in Seq(Reports) /\ Len(Tail(q \o o)) = Len(q \o o) - 1
        /\ \A i \in 1..Len(q \o o) - 1 : Tail(q \o o)[i] = (q \o o)[i + 1]
    BY <1>2, <1>3, TailFacts
  <2> QED BY <1>1, <1>2, <2>1
<1>7. \A i \in 1..Len(q) - 1 + Len(o) : (Tail(q) \o o)[i] = Tail(q \o o)[i]
  BY <1>1, <1>2, <1>4, <1>5, <1>6
<1>8. Tail(q) \o o = Tail(q \o o)
  BY <1>5, <1>6, <1>7, SeqEqual
<1> QED BY <1>2, <1>3, <1>8

(* What arrives moves up, and costs the oldest of a full queue.            *)
LEMMA ArrivedInRest ==
  ASSUME NEW q \in Seq(Reports), NEW o \in Seq(Reports), o # <<>>, Len(q) <= QueueDepth
  PROVE  /\ Arriving(q, Head(o)) \in Seq(Reports) /\ Len(Arriving(q, Head(o))) <= QueueDepth
         /\ Tail(o) \in Seq(Reports) /\ q \o o \in Seq(Reports) /\ q \o o # <<>>
         /\ \/ Arriving(q, Head(o)) \o Tail(o) = q \o o
            \/ Arriving(q, Head(o)) \o Tail(o) = Tail(q \o o) /\ Len(q \o o) > 1
<1>1. /\ Tail(o) \in Seq(Reports) /\ Head(o) \in Reports /\ Head(o) = o[1]
      /\ Len(o) \in Nat \ {0} /\ Len(Tail(o)) = Len(o) - 1
      /\ \A i \in 1..Len(o) - 1 : Tail(o)[i] = o[i + 1]
  BY TailFacts
<1>2. Len(q) \in Nat /\ QueueDepth \in Nat \ {0}
  BY PipeAssumption
<1>3. \A s \in Seq(Reports) : Append(s, Head(o)) \o Tail(o) = s \o o
  <2> SUFFICES ASSUME NEW s \in Seq(Reports) PROVE Append(s, Head(o)) \o Tail(o) = s \o o
    OBVIOUS
  <2>1. o = <<Head(o)>> \o Tail(o)
    BY HeadTailProperties, HeadTailAppend, ConcatProperties, <1>1
  <2>2. Append(s, Head(o)) = s \o <<Head(o)>>
    BY <1>1, AppendIsConcat
  <2>3. <<Head(o)>> \in Seq(Reports)
    BY <1>1
  <2> QED BY <1>1, <2>1, <2>2, <2>3, ConcatAssociative
<1>4. /\ q \o o \in Seq(Reports) /\ Len(q \o o) = Len(q) + Len(o) /\ q \o o # <<>>
  BY <1>1, <1>2, ConcatProperties
<1>5. CASE Len(q) < QueueDepth
  BY <1>1, <1>2, <1>3, <1>4, <1>5, AppendProperties DEF Arriving
<1>6. CASE ~(Len(q) < QueueDepth)
  <2>1. q # <<>>
    BY <1>2, <1>6
  <2>2. Tail(q) \in Seq(Reports) /\ Len(Tail(q)) = Len(q) - 1 /\ Len(q) = QueueDepth
    BY <1>2, <1>6, <2>1, TailFacts
  <2>3. Arriving(q, Head(o)) = Append(Tail(q), Head(o))
    BY <1>6 DEF Arriving
  <2>4. Arriving(q, Head(o)) \o Tail(o) = Tail(q) \o o
    BY <1>3, <2>2, <2>3
  <2>5. Tail(q) \o o = Tail(q \o o)
    BY <2>1, TakenFromRest
  <2>6. Arriving(q, Head(o)) \in Seq(Reports) /\ Len(Arriving(q, Head(o))) <= QueueDepth
    BY <1>1, <1>2, <2>2, <2>3, AppendProperties
  <2>7. Len(q \o o) > 1
    BY <1>1, <1>2, <1>4, <2>2
  <2> QED BY <1>1, <1>4, <2>4, <2>5, <2>6, <2>7
<1> QED BY <1>5, <1>6

LEMMA TailEnds ==
  ASSUME NEW r \in Seq(Reports), EndsAtLast(r), Len(r) > 1
  PROVE  EndsAtLast(Tail(r))
<1>1. /\ Tail(r) \in Seq(Reports) /\ Len(r) \in Nat /\ Len(Tail(r)) = Len(r) - 1
      /\ \A i \in 1..Len(r) - 1 : Tail(r)[i] = r[i + 1]
  BY TailFacts DEF EndsAtLast
<1>2. Tail(r) # <<>>
  <2>1. Len(Tail(r)) # 0
    BY <1>1
  <2> QED BY <2>1, EmptySeq
<1>3. Tail(r)[Len(Tail(r))] = Finished
  BY <1>1 DEF EndsAtLast
<1> QED BY <1>1, <1>2, <1>3 DEF EndsAtLast

(* The only acknowledgement of an answer is its last report.               *)
LEMMA EndOfAnswer ==
  ASSUME NEW r \in Seq(Reports), EndsAtLast(r)
  PROVE  /\ r[1].kind \in {"chunk", "finished"}
         /\ r[1].kind = "finished" => Len(r) = 1 /\ Tail(r) = <<>>
         /\ r[1].kind = "chunk" => Len(r) > 1 /\ EndsAtLast(Tail(r))
<1>1. Len(r) \in Nat \ {0}
  BY TailFacts DEF EndsAtLast
<1>2. CASE Len(r) = 1
  BY <1>1, <1>2, TailFacts DEF EndsAtLast, Finished
<1>3. CASE Len(r) > 1
  <2>1. r[1].kind = "chunk"
    BY <1>1, <1>3 DEF EndsAtLast
  <2>2. EndsAtLast(Tail(r))
    BY <1>3, TailEnds
  <2> QED BY <1>3, <2>1, <2>2
<1>4. \A n \in Nat \ {0} : n = 1 \/ n > 1
  OBVIOUS
<1> QED BY <1>1, <1>2, <1>3, <1>4, Zenon

LEMMA StreamFacts ==
  ASSUME NEW from \in Nat, NEW n \in Nat \ {0}, from + n <= FlashSize
  PROVE  /\ Stream(from, n) \in Seq(Reports) /\ Len(Stream(from, n)) = n + 1
         /\ EndsAtLast(Stream(from, n))
         /\ \A i \in 1..n : Stream(from, n)[i].at = from + i - 1
<1> DEFINE Chunk(i) == [kind |-> "chunk", sequence |-> i % SequenceModulus, at |-> from + i - 1]
           chunks   == [i \in 1..n |-> Chunk(i)]
<1>1. \A i \in 1..n : i % SequenceModulus \in Sequences /\ from + i - 1 \in Places
  BY PipeAssumption DEF Sequences, Places
<1>2. \A i \in 1..n : Chunk(i) \in Reports
  BY <1>1 DEF Reports
<1>3. Finished \in Reports
  BY PipeAssumption DEF Finished, Reports, Sequences, Places
<1>4. chunks \in Seq(Reports) /\ Len(chunks) = n /\ \A i \in 1..n : chunks[i] = Chunk(i)
  <2>1. chunks \in [1..n -> Reports]
    BY <1>2
  <2> HIDE DEF Chunk
  <2> QED BY <2>1, IsASeq, LenProperties
<1>5. Stream(from, n) = Append(chunks, Finished)
  BY DEF Stream
<1>6. /\ Append(chunks, Finished) \in Seq(Reports) /\ Len(Append(chunks, Finished)) = n + 1
      /\ \A i \in 1..n : Append(chunks, Finished)[i] = Chunk(i)
      /\ Append(chunks, Finished)[n + 1] = Finished
  <2> HIDE DEF Chunk, chunks
  <2> QED BY <1>3, <1>4, AppendProperties
<1>7. Append(chunks, Finished) # <<>>
  BY <1>6, EmptySeq
<1> QED BY <1>5, <1>6, <1>7 DEF EndsAtLast

(* What a session asks for lies within the flash.                          *)
LEMMA RangeFacts ==
  ASSUME TypeOK
  PROVE  /\ Start \in Nat /\ End \in Nat /\ Start < End /\ End <= FlashSize
         /\ Len(image) \in Nat /\ At \in Nat /\ At = Start + Len(image)
         /\ VersionSends \in 1..4
  BY ReadAssumption DEF TypeOK, Start, End, Programs, At, Places, VersionSends

LEMMA CountFacts ==
  ASSUME TypeOK, Len(image) < End - Start
  PROVE  Count \in Nat \ {0} /\ At + Count <= End
<1>1. CASE Probing
  <2>1. Count = 1
    BY <1>1 DEF Count
  <2> QED BY <2>1, RangeFacts
<1>2. CASE ~Probing
  <2>1. Count = IF End - At < Window THEN End - At ELSE Window
    BY <1>2 DEF Count
  <2>2. End \in Nat /\ At \in Nat /\ End - At > 0 /\ Window \in Nat \ {0}
    BY RangeFacts, ReadAssumption
  <2>3. CASE End - At < Window
    BY <2>1, <2>2, <2>3
  <2>4. CASE ~(End - At < Window)
    BY <2>1, <2>2, <2>4
  <2> QED BY <2>3, <2>4
<1> QED BY <1>1, <1>2

(* The request stays the same while what is gathered does.                 *)
LEMMA SameRequest ==
  ASSUME UNCHANGED <<program, image>>
  PROVE  Count' = Count /\ At' = At /\ Start' = Start /\ End' = End /\ Probing' = Probing
         /\ VersionSends' = VersionSends
  BY DEF Count, At, Start, End, Probing, VersionSends

-----------------------------------------------------------------------------
(* What a step keeps by leaving things alone.                              *)

LEMMA LabKeeps ==
  ASSUME IInv, UNCHANGED disk, gaveUp => gaveUp',
         step' = "sidecar" => step = "sidecar" /\ UNCHANGED <<program, minute, sessions>>
  PROVE  FiledInv' /\ RegionIsWhatWasThere' /\ SidecarIsTheReads'
<1>1. FiledInv'
  BY DEF IInv, FiledInv
<1>2. RegionIsWhatWasThere'
  BY DEF IInv, RegionIsWhatWasThere
<1>3. SidecarIsTheReads'
  BY DEF IInv, SidecarIsTheReads
<1> QED BY <1>1, <1>2, <1>3

LEMMA GatheredKeeps ==
  ASSUME IInv, UNCHANGED <<program, image>> \/ image' = <<>>, gaveUp => gaveUp'
  PROVE  GatheredInv'
<1>1. CASE UNCHANGED <<program, image>>
  BY <1>1, SameRequest DEF IInv, GatheredInv
<1>2. CASE image' = <<>>
  BY <1>2, EmptySeq DEF GatheredInv
<1> QED BY <1>1, <1>2

LEMMA InitHolds == Init => IInv
<1> SUFFICES ASSUME Init PROVE IInv
  OBVIOUS
<1>1. TypeOK
  <2>1. NoFile \in Files
    BY ReadAssumption DEF NoFile, Files
  <2>2. disk \in [Programs \X Minutes -> Files]
    BY <2>1 DEF Init
  <2>3. <<>> \in Seq(Reports) /\ <<>> \in Seq(Places) /\ Len(<<>>) <= QueueDepth
    BY PipeAssumption, EmptySeq
  <2>4. 0 \in 0..IdlePolls - 1 /\ 0 \in 0..MaxWindowRetries /\ 0 \in 0..MaxSessions /\ 0 \in 0..MaxLost
    BY ReadAssumption
  <2>5. attached \in BOOLEAN /\ gaveUp \in BOOLEAN
    BY Zenon DEF Init
  <2>6. step \in Steps /\ program \in Programs /\ opens \in 0..4 /\ minute \in Minutes
    BY DEF Init, Steps, Programs
  <2>7. /\ owed \in Seq(Reports) /\ queue \in Seq(Reports) /\ Len(queue) <= QueueDepth
        /\ got \in Seq(Places) /\ image \in Seq(Places)
    BY <2>3 DEF Init
  <2>8. idle \in 0..IdlePolls - 1 /\ attempt \in 0..MaxWindowRetries
        /\ sessions \in 0..MaxSessions /\ lost \in 0..MaxLost
    BY <2>4 DEF Init
  <2> QED BY <2>2, <2>5, <2>6, <2>7, <2>8 DEF TypeOK
<1>2. AskingInv /\ FiledInv /\ SidecarIsTheReads
  BY DEF Init, AskingInv, FiledInv, NoFile, SidecarIsTheReads
<1>3. PipeInv /\ StreamInv
  BY DEF Init, PipeInv, StreamInv, Rest
<1>4. GatheredInv
  BY EmptySeq DEF Init, GatheredInv
<1>5. RegionIsWhatWasThere
  BY DEF Init, RegionIsWhatWasThere, NoFile, Programs
<1> QED BY <1>1, <1>2, <1>3, <1>4, <1>5 DEF IInv

-----------------------------------------------------------------------------
(* The pipe, as a step finds it and leaves it.                             *)

LEMMA EmptyRest ==
  ASSUME TypeOK
  PROVE  Rest \in Seq(Reports) /\ (Rest = <<>> <=> queue = <<>> /\ owed = <<>>)
  BY ConcatProperties, ConcatEmptySeq DEF TypeOK, Rest

LEMMA TakeRest ==
  ASSUME TypeOK, Take, queue # <<>>
  PROVE  /\ queue' \in Seq(Reports) /\ Len(queue') <= QueueDepth /\ Head(queue) \in Reports
         /\ Rest' = Tail(Rest) /\ Rest \in Seq(Reports) /\ Rest # <<>> /\ Rest[1] = Head(queue)
<1>1. queue \in Seq(Reports) /\ owed \in Seq(Reports) /\ Len(queue) <= QueueDepth
  BY DEF TypeOK
<1>2. /\ Tail(queue) \in Seq(Reports) /\ Head(queue) \in Reports
      /\ Len(queue) \in Nat \ {0} /\ Len(Tail(queue)) = Len(queue) - 1
  BY <1>1, TailFacts
<1>3. queue' = Tail(queue) /\ owed' = owed
  BY DEF Take
<1>4. Len(queue') <= QueueDepth
  BY <1>1, <1>2, <1>3, PipeAssumption
<1> QED BY <1>1, <1>2, <1>3, <1>4, TakenFromRest DEF Rest

LEMMA SentRest ==
  ASSUME TypeOK, NEW answer \in Seq(Reports), Send(answer), UNCHANGED queue
  PROVE  /\ owed' \in Seq(Reports) /\ lost' \in 0..MaxLost
         /\ Rest = <<>> => Rest' \in {answer, <<>>}
<1>1. owed \in Seq(Reports) /\ lost \in 0..MaxLost
  BY DEF TypeOK
<1>2. CASE owed' = owed \o answer /\ UNCHANGED lost
  <2>1. owed' \in Seq(Reports)
    BY <1>1, <1>2, ConcatProperties
  <2>2. Rest = <<>> => Rest' = answer
    BY <1>1, <1>2, <2>1, EmptyRest, ConcatEmptySeq DEF Rest
  <2> QED BY <1>1, <1>2, <2>1, <2>2
<1>3. CASE lost < MaxLost /\ lost' = lost + 1 /\ UNCHANGED owed
  BY <1>1, <1>3, ReadAssumption DEF Rest
<1> QED BY <1>2, <1>3 DEF Send

(* A step that leaves the pipe alone, or takes the only report there is.   *)
LEMMA QuietKeeps ==
  ASSUME IInv, UNCHANGED <<owed, queue>>, gaveUp => gaveUp', attached => attached',
         step \in Steps \ {"version", "stream", "drain"}, step' \in Steps \ {"version", "stream"}
  PROVE  PipeInv' /\ StreamInv'
  BY DEF IInv, PipeInv, StreamInv, Rest

-----------------------------------------------------------------------------
(* The steps.                                                              *)

LEMMA OpenKeeps ==
  ASSUME IInv, NEW p \in Programs, NEW m \in Minutes, Open(p, m)
  PROVE  IInv'
<1>1. TypeOK'
  <2>1. /\ opens' = 0 /\ idle' = 0 /\ got' = <<>> /\ attempt' = 0 /\ image' = <<>>
        /\ sessions' = sessions + 1 /\ sessions < MaxSessions /\ step' = "asks"
        /\ program' = p /\ minute' = m /\ UNCHANGED <<owed, queue, disk, lost, gaveUp>>
    BY DEF Open
  <2>2. attached' \in BOOLEAN
    BY Zenon DEF Open
  <2>3. <<>> \in Seq(Places) /\ 0 \in 0..IdlePolls - 1 /\ 0 \in 0..MaxWindowRetries
    BY ReadAssumption, EmptySeq
  <2>4. sessions' \in 0..MaxSessions
    BY <2>1, ReadAssumption DEF IInv, TypeOK
  <2> QED BY <2>1, <2>2, <2>3, <2>4 DEF IInv, TypeOK, Steps
<1>2. AskingInv'
  BY DEF Open, AskingInv, VersionSends
<1>3. PipeInv' /\ StreamInv'
  BY QuietKeeps DEF Open, Steps
<1>4. GatheredInv'
  BY GatheredKeeps DEF Open
<1>5. FiledInv' /\ RegionIsWhatWasThere' /\ SidecarIsTheReads'
  BY LabKeeps DEF Open
<1> QED BY <1>1, <1>2, <1>3, <1>4, <1>5 DEF IInv

LEMMA AskVersionKeeps == IInv /\ AskVersion => IInv'
<1> SUFFICES ASSUME IInv, AskVersion PROVE IInv'
  OBVIOUS
<1>0. /\ step = "asks" /\ UNCHANGED <<queue, attached, program, idle, got, attempt, image, minute,
                                      disk, sessions, gaveUp>>
  BY DEF AskVersion
<1>1. <<VersionReply>> \in Seq(Reports)
  <2>1. VersionReply \in Reports
    BY PipeAssumption DEF VersionReply, Reports, Sequences, Places
  <2> QED BY <2>1
<1>2. opens < VersionSends /\ VersionSends \in 1..4 /\ opens \in 0..4
  BY <1>0, RangeFacts DEF IInv, AskingInv, TypeOK
<1>3. GatheredInv' /\ FiledInv' /\ RegionIsWhatWasThere' /\ SidecarIsTheReads'
  <2>1. step' # "sidecar"
    BY DEF AskVersion
  <2> QED BY <1>0, <2>1, GatheredKeeps, LabKeeps
<1>4. CASE Send(<<VersionReply>>) /\ step' = "version" /\ opens' = opens + 1
  <2>1. /\ owed' \in Seq(Reports) /\ lost' \in 0..MaxLost
        /\ Rest = <<>> => Rest' \in {<<VersionReply>>, <<>>}
    BY <1>0, <1>1, <1>4, SentRest DEF IInv
  <2>2. TypeOK'
    BY <1>0, <1>2, <1>4, <2>1 DEF IInv, TypeOK, Steps
  <2>3. AskingInv'
    BY <1>0, <1>2, <1>4, SameRequest DEF IInv, AskingInv
  <2>4. PipeInv' /\ StreamInv'
    BY <1>0, <1>4, <2>1 DEF IInv, PipeInv, StreamInv, Steps
  <2> QED BY <1>3, <2>2, <2>3, <2>4 DEF IInv
<1>5. CASE step' = "close" /\ UNCHANGED <<owed, lost, opens>>
  <2>1. TypeOK'
    BY <1>0, <1>5 DEF IInv, TypeOK, Steps
  <2>2. AskingInv'
    BY <1>5 DEF AskingInv
  <2>3. PipeInv' /\ StreamInv'
    BY <1>0, <1>5, QuietKeeps DEF Steps
  <2> QED BY <1>3, <2>1, <2>2, <2>3 DEF IInv
<1> QED BY <1>4, <1>5 DEF AskVersion

LEMMA HearVersionKeeps == IInv /\ HearVersion => IInv'
<1> SUFFICES ASSUME IInv, HearVersion PROVE IInv'
  OBVIOUS
<1>0. /\ step = "version"
      /\ UNCHANGED <<program, opens, got, attempt, image, minute, disk, sessions, lost>>
  BY DEF HearVersion
<1>1. TypeOK /\ AskingInv /\ PipeInv
  BY DEF IInv
<1>2. gaveUp => gaveUp'
  BY DEF HearVersion, GivesUp
<1>3. GatheredInv' /\ FiledInv' /\ RegionIsWhatWasThere' /\ SidecarIsTheReads'
  <2>1. step' # "sidecar"
    BY DEF HearVersion, StillWaiting
  <2> QED BY <1>0, <1>2, <2>1, GatheredKeeps, LabKeeps
<1>4. image = <<>> /\ opens <= VersionSends /\ Len(image) = 0 /\ Start < End /\ Start \in Nat /\ End \in Nat
  <2>1. image = <<>> /\ opens <= VersionSends
    BY <1>0, <1>1 DEF AskingInv
  <2> QED BY <1>1, <2>1, RangeFacts, EmptySeq
<1>5. CASE StillWaiting("version") /\ UNCHANGED <<pipe, gaveUp>>
  <2>1. TypeOK'
    BY <1>0, <1>1, <1>5, ReadAssumption DEF StillWaiting, pipe, TypeOK, Steps
  <2>2. AskingInv'
    BY <1>0, <1>1, <1>4, <1>5, SameRequest DEF StillWaiting, AskingInv
  <2>3. PipeInv' /\ StreamInv'
    BY <1>0, <1>1, <1>5 DEF StillWaiting, pipe, PipeInv, StreamInv, Rest
  <2> QED BY <1>3, <2>1, <2>2, <2>3 DEF IInv
<1>6. CASE /\ GivesUp /\ UNCHANGED pipe
           /\ step' = IF opens < VersionSends THEN "asks" ELSE "close"
  <2>1. gaveUp' = TRUE /\ idle' = 0
    BY <1>6 DEF GivesUp
  <2>2. TypeOK'
    BY <1>0, <1>1, <1>6, <2>1, ReadAssumption DEF pipe, TypeOK, Steps
  <2>3. AskingInv'
    BY <1>0, <1>1, <1>4, <1>6, SameRequest DEF AskingInv
  <2>4. PipeInv' /\ StreamInv'
    BY <2>1 DEF PipeInv, StreamInv
  <2> QED BY <1>3, <2>2, <2>3, <2>4 DEF IInv
<1>7. CASE Take /\ queue # <<>> /\ step' \in {"window", "close"} /\ UNCHANGED gaveUp
  <2>1. /\ queue' \in Seq(Reports) /\ Len(queue') <= QueueDepth
        /\ Rest' = Tail(Rest) /\ Rest # <<>>
    BY <1>1, <1>7, TakeRest
  <2>2. ~gaveUp => Rest' = <<>>
    <3>1. ~gaveUp => Rest = <<VersionReply>>
      BY <1>0, <1>1, <2>1 DEF PipeInv
    <3>2. Tail(<<VersionReply>>) = <<>>
      OBVIOUS
    <3> QED BY <2>1, <3>1, <3>2
  <2>3. TypeOK'
    BY <1>0, <1>1, <1>7, <2>1, ReadAssumption DEF Take, TypeOK, Steps
  <2>4. AskingInv'
    BY <1>0, <1>1, <1>4, <1>7, SameRequest DEF AskingInv
  <2>5. PipeInv' /\ StreamInv'
    BY <1>1, <1>7, <2>2 DEF Take, PipeInv, StreamInv
  <2> QED BY <1>3, <2>3, <2>4, <2>5 DEF IInv
<1>8. CASE ~attached /\ step' = "close" /\ UNCHANGED <<pipe, idle, gaveUp>>
  <2>1. TypeOK'
    BY <1>0, <1>1, <1>8 DEF pipe, TypeOK, Steps
  <2>2. AskingInv'
    BY <1>8 DEF AskingInv
  <2>3. PipeInv' /\ StreamInv'
    BY <1>1, <1>8 DEF PipeInv, StreamInv
  <2> QED BY <1>3, <2>1, <2>2, <2>3 DEF IInv
<1>9. (Heard("version") \/ Heard("chunk") \/ Heard("finished")) => queue # <<>>
  BY DEF Heard
<1> QED BY <1>5, <1>6, <1>7, <1>8, <1>9 DEF HearVersion

LEMMA AskWindowKeeps == IInv /\ AskWindow => IInv'
<1> SUFFICES ASSUME IInv, AskWindow PROVE IInv'
  OBVIOUS
<1>0. /\ step = "window" /\ got' = <<>> /\ idle' = 0
      /\ UNCHANGED <<queue, attached, program, opens, attempt, image, minute, disk, sessions, gaveUp>>
  BY DEF AskWindow
<1>1. TypeOK /\ AskingInv /\ PipeInv
  BY DEF IInv
<1>2. Len(image) < End - Start
  BY <1>0, <1>1 DEF AskingInv
<1>3. /\ Count \in Nat \ {0} /\ At \in Nat /\ At + Count <= FlashSize
      /\ Count' = Count /\ At' = At /\ Start' = Start /\ End' = End
  <2>1. /\ Count \in Nat \ {0} /\ At \in Nat /\ At + Count <= End
        /\ End <= FlashSize /\ End \in Nat /\ FlashSize \in Nat
    BY <1>1, <1>2, CountFacts, RangeFacts, PipeAssumption
  <2> QED BY <1>0, <2>1, SameRequest
<1>4. step' \in {"stream", "drain"}
  BY DEF AskWindow
<1>5. GatheredInv' /\ FiledInv' /\ RegionIsWhatWasThere' /\ SidecarIsTheReads'
  BY <1>0, <1>4, GatheredKeeps, LabKeeps
<1>6. AskingInv'
  BY <1>0, <1>2, <1>3, <1>4 DEF AskingInv
<1>7. ~gaveUp => Rest = <<>>
  BY <1>0, <1>1 DEF PipeInv, Steps
<1>8. CASE Send(Stream(At, Count)) /\ step' = "stream"
  <2> DEFINE answer == Stream(At, Count)
  <2>1. /\ answer \in Seq(Reports) /\ Len(answer) = Count + 1 /\ EndsAtLast(answer)
        /\ \A i \in 1..Count : answer[i].at = At + i - 1
    BY <1>3, StreamFacts
  <2> HIDE DEF answer
  <2>2. Send(answer)
    BY <1>8 DEF answer
  <2>3. /\ owed' \in Seq(Reports) /\ lost' \in 0..MaxLost
        /\ Rest = <<>> => Rest' \in {answer, <<>>}
    BY <1>0, <1>1, <2>1, <2>2, SentRest
  <2>4. TypeOK'
    BY <1>0, <1>1, <1>8, <2>3, ReadAssumption, EmptySeq DEF TypeOK, Steps
  <2>5. PipeInv'
    BY <1>0, <1>1, <1>7, <1>8, <2>1, <2>3 DEF PipeInv
  <2>6. Follows(<<>>, answer, At)
    BY <1>3, <2>1 DEF Follows
  <2>7. StreamInv'
    <3>1. ~gaveUp' /\ Rest' # <<>> => Rest' = answer
      BY <1>0, <1>7, <2>3
    <3>2. Len(got') = 0
      BY <1>0
    <3>3. Len(got') + Len(answer) - 1 = Count'
      BY <1>3, <2>1, <3>2
    <3> QED BY <1>0, <1>3, <2>6, <3>1, <3>3 DEF StreamInv
  <2> QED BY <1>5, <1>6, <2>4, <2>5, <2>7 DEF IInv
<1>9. CASE ~attached /\ step' = "drain" /\ UNCHANGED <<owed, lost>>
  <2>1. TypeOK'
    BY <1>0, <1>1, <1>9, ReadAssumption, EmptySeq DEF TypeOK, Steps
  <2>2. PipeInv' /\ StreamInv'
    BY <1>0, <1>1, <1>9, <1>7 DEF PipeInv, StreamInv, Rest
  <2> QED BY <1>5, <1>6, <2>1, <2>2 DEF IInv
<1> QED BY <1>8, <1>9 DEF AskWindow

-----------------------------------------------------------------------------
(* A stream, report by report.                                             *)

(* What listening needs: the request stands, and an answer is under way.   *)
LEMMA Listening ==
  ASSUME IInv, step \in {"stream", "drain"}
  PROVE  /\ TypeOK /\ Len(image) < End - Start /\ Len(image) \in Nat
         /\ Count \in Nat \ {0} /\ At \in Nat /\ At + Count <= End /\ At = Start + Len(image)
         /\ Start \in Nat /\ End \in Nat
         /\ got \in Seq(Places) /\ Len(got) \in Nat /\ image \in Seq(Places)
         /\ ~gaveUp => attached /\ (Rest = <<>> \/ EndsAtLast(Rest))
<1>1. TypeOK /\ Len(image) < End - Start
  BY DEF IInv, AskingInv
<1>2. got \in Seq(Places) /\ Len(got) \in Nat /\ image \in Seq(Places)
  BY <1>1, LenProperties DEF TypeOK
<1> QED BY <1>1, <1>2, RangeFacts, CountFacts DEF IInv, PipeInv

(* What was heard next is where what was to come began.                    *)
LEMMA FollowsOn ==
  ASSUME NEW heard \in Seq(Places), NEW r \in Seq(Reports), NEW from \in Nat, Len(r) > 1,
         Follows(heard, r, from)
  PROVE  Follows(Append(heard, r[1].at), Tail(r), from)
<1>0. Len(heard) \in Nat /\ Len(r) \in Nat
  BY LenProperties
<1>1. r # <<>>
  BY EmptySeq
<1>2. /\ Tail(r) \in Seq(Reports) /\ Len(Tail(r)) = Len(r) - 1
      /\ \A i \in 1..Len(r) - 1 : Tail(r)[i] = r[i + 1]
  BY <1>1, TailFacts
<1>3. r[1] \in Reports
  BY <1>0, ElementOfSeq
<1>4. r[1].at \in Places
  BY <1>3 DEF Reports
<1>5. /\ Len(Append(heard, r[1].at)) = Len(heard) + 1
      /\ \A i \in 1..Len(heard) : Append(heard, r[1].at)[i] = heard[i]
      /\ Append(heard, r[1].at)[Len(heard) + 1] = r[1].at
  BY <1>4, AppendProperties
<1>6. r[1].at = from + Len(heard)
  BY <1>0 DEF Follows
<1>7. \A i \in 1..Len(heard) + 1 : Append(heard, r[1].at)[i] = from + i - 1
  BY <1>0, <1>5, <1>6 DEF Follows
<1>8. \A i \in 1..Len(r) - 2 : r[i + 1].at = from + Len(heard) + i
  <2> TAKE i \in 1..Len(r) - 2
  <2>1. i + 1 \in 1..Len(r) - 1
    BY <1>0
  <2>2. r[i + 1].at = from + Len(heard) + (i + 1) - 1
    BY <2>1 DEF Follows
  <2> QED BY <1>0, <2>2
<1>9. \A i \in 1..Len(Tail(r)) - 1 : Tail(r)[i].at = from + (Len(heard) + 1) + i - 1
  BY <1>0, <1>2, <1>8
<1> QED BY <1>5, <1>7, <1>9 DEF Follows

LEMMA HearChunkKeeps ==
  ASSUME IInv, step = "stream", HearChunk, UNCHANGED <<image, attempt>>,
         UNCHANGED <<program, opens, minute, disk, sessions, lost>>
  PROVE  IInv'
<1>0. /\ Take /\ UNCHANGED gaveUp /\ queue # <<>> /\ Head(queue).kind = "chunk"
      /\ \/ InOrder(Head(queue)) /\ got' = Append(got, Head(queue).at) /\ step' = "stream"
         \/ UNCHANGED got /\ step' = "drain"
  BY DEF HearChunk, Heard
<1>1. /\ TypeOK /\ Len(image) < End - Start /\ At \in Nat /\ got \in Seq(Places)
      /\ Len(got) \in Nat /\ Count \in Nat \ {0}
      /\ ~gaveUp => attached /\ (Rest = <<>> \/ EndsAtLast(Rest))
  BY Listening
<1>2. /\ queue' \in Seq(Reports) /\ Len(queue') <= QueueDepth /\ Head(queue) \in Reports
      /\ Rest' = Tail(Rest) /\ Rest \in Seq(Reports) /\ Rest # <<>> /\ Rest[1] = Head(queue)
  BY <1>0, <1>1, TakeRest
<1>3. ~gaveUp => Len(Rest) > 1 /\ EndsAtLast(Rest')
  BY <1>0, <1>1, <1>2, EndOfAnswer
<1>4. Head(queue).at \in Places
  BY <1>2 DEF Reports
<1>5. TypeOK'
  <2>1. got' \in Seq(Places)
    BY <1>0, <1>1, <1>4, AppendProperties
  <2> QED BY <1>0, <1>1, <1>2, <2>1, ReadAssumption DEF Take, TypeOK, Steps
<1>6. AskingInv'
  BY <1>0, <1>1, SameRequest DEF AskingInv
<1>7. PipeInv'
  BY <1>0, <1>1, <1>3 DEF Take, PipeInv
<1>8. StreamInv'
  <2> SUFFICES ASSUME ~gaveUp', step' = "stream", Rest' # <<>>
               PROVE  /\ Len(got') + Len(Rest') - 1 <= Count'
                      /\ Len(got') + Len(Rest') - 1 = Count' => Follows(got', Rest', At')
    BY DEF StreamInv
  <2>1. ~gaveUp /\ got' = Append(got, Rest[1].at) /\ Count' = Count /\ At' = At
    BY <1>0, <1>2, SameRequest
  <2>2. Len(got') = Len(got) + 1 /\ Len(Rest') = Len(Rest) - 1 /\ Len(Rest) \in Nat
    BY <1>1, <1>2, <1>4, <2>1, TailFacts, AppendProperties
  <2>3. /\ Len(got) + Len(Rest) - 1 <= Count
        /\ Len(got) + Len(Rest) - 1 = Count => Follows(got, Rest, At)
    BY <1>2, <2>1 DEF IInv, StreamInv
  <2>4. Follows(got, Rest, At) => Follows(got', Rest', At)
    BY <1>1, <1>2, <1>3, <2>1, FollowsOn
  <2>5. Len(got') + Len(Rest') - 1 = Len(got) + Len(Rest) - 1
    BY <1>1, <2>2
  <2> QED BY <2>1, <2>3, <2>4, <2>5
<1>9. GatheredInv' /\ FiledInv' /\ RegionIsWhatWasThere' /\ SidecarIsTheReads'
  BY <1>0, GatheredKeeps, LabKeeps
<1> QED BY <1>5, <1>6, <1>7, <1>8, <1>9 DEF IInv

(* A window that is whole is the next of what was asked for.               *)
LEMMA GatheredOn ==
  ASSUME IInv, step = "stream", ~gaveUp, EndsAtLast(Rest), Len(Rest) = 1,
         Len(got) = Count, image' = image \o got
  PROVE  \A i \in 1..Len(image') : image'[i] = Start + i - 1
<1>1. /\ image \in Seq(Places) /\ got \in Seq(Places) /\ Len(image) \in Nat /\ Len(got) \in Nat
      /\ At = Start + Len(image) /\ Start \in Nat /\ Count \in Nat
  BY Listening
<1>2. Follows(got, Rest, At)
  BY <1>1 DEF IInv, StreamInv, EndsAtLast
<1>3. /\ Len(image') = Len(image) + Len(got)
      /\ \A i \in 1..Len(image) + Len(got) :
           image'[i] = IF i <= Len(image) THEN image[i] ELSE got[i - Len(image)]
  BY <1>1, ConcatProperties
<1>4. \A i \in 1..Len(image) : image[i] = Start + i - 1
  BY DEF IInv, GatheredInv
<1>5. \A i \in 1..Len(got) : got[i] = Start + Len(image) + i - 1
  BY <1>1, <1>2 DEF Follows
<1> QED BY <1>1, <1>3, <1>4, <1>5

LEMMA HearFinishedKeeps ==
  ASSUME IInv, step = "stream", HearFinished,
         UNCHANGED <<program, opens, minute, disk, sessions, lost>>
  PROVE  IInv'
<1>0. Take /\ UNCHANGED gaveUp /\ queue # <<>> /\ Head(queue).kind = "finished"
  BY DEF HearFinished, Heard
<1>1. /\ TypeOK /\ Len(image) < End - Start /\ At \in Nat /\ got \in Seq(Places)
      /\ Len(got) \in Nat /\ Count \in Nat \ {0} /\ At + Count <= End /\ At = Start + Len(image)
      /\ Len(image) \in Nat /\ image \in Seq(Places) /\ Start \in Nat /\ End \in Nat
      /\ ~gaveUp => attached /\ (Rest = <<>> \/ EndsAtLast(Rest))
  BY Listening
<1>2. /\ queue' \in Seq(Reports) /\ Len(queue') <= QueueDepth
      /\ Rest' = Tail(Rest) /\ Rest \in Seq(Reports) /\ Rest # <<>> /\ Rest[1] = Head(queue)
  BY <1>0, <1>1, TakeRest
<1>3. ~gaveUp => EndsAtLast(Rest) /\ Len(Rest) = 1 /\ Rest' = <<>>
  BY <1>0, <1>1, <1>2, EndOfAnswer
<1>4. step' \in {"window", "judge", "close", "drain"}
  BY DEF HearFinished
<1>5. PipeInv' /\ StreamInv'
  BY <1>0, <1>1, <1>3, <1>4 DEF Take, PipeInv, StreamInv
<1>6. FiledInv' /\ RegionIsWhatWasThere' /\ SidecarIsTheReads'
  BY <1>0, <1>4, LabKeeps
<1>7. CASE /\ Whole /\ image' = image \o got /\ got' = <<>> /\ attempt' = 0
           /\ step' = IF At + Count < End THEN "window" ELSE "judge"
  <2>1. Len(got) = Count
    BY <1>7 DEF Whole
  <2>2. image' \in Seq(Places) /\ Len(image') = Len(image) + Count
    BY <1>1, <1>7, <2>1, ConcatProperties
  <2>3. TypeOK'
    BY <1>0, <1>1, <1>2, <1>7, <2>2, ReadAssumption, EmptySeq DEF Take, TypeOK, Steps
  <2>4. AskingInv'
    <3>1. Start' = Start /\ End' = End
      BY DEF Start, End
    <3>2. step' = "window" => Len(image') < End - Start
      BY <1>1, <1>7, <2>2
    <3>3. step' = "judge" => Len(image') = End - Start
      <4>1. step' = "judge" => ~(At + Count < End)
        BY <1>7
      <4>2. At + Count <= End /\ At \in Nat /\ Count \in Nat /\ End \in Nat
        BY <1>1
      <4>3. step' = "judge" => At + Count = End
        BY <4>1, <4>2
      <4>4. At + Count = End => Len(image) + Count = End - Start
        BY <1>1
      <4> QED BY <2>2, <4>3, <4>4
    <3>4. step' \in {"window", "judge"}
      BY <1>7
    <3> QED BY <3>1, <3>2, <3>3, <3>4 DEF AskingInv
  <2>5. GatheredInv'
    <3>1. Start' = Start
      BY DEF Start
    <3> QED BY <1>0, <1>3, <1>7, <2>1, <3>1, GatheredOn DEF GatheredInv
  <2> QED BY <1>5, <1>6, <2>3, <2>4, <2>5 DEF IInv
<1>8. CASE /\ UNCHANGED <<image, got, attempt>>
           /\ step' = IF Len(got) = Count THEN "close" ELSE "drain"
  <2>1. TypeOK'
    BY <1>0, <1>1, <1>2, <1>8, ReadAssumption DEF Take, TypeOK, Steps
  <2>2. AskingInv'
    BY <1>1, <1>8, SameRequest DEF AskingInv
  <2>3. GatheredInv'
    BY <1>0, <1>8, GatheredKeeps
  <2> QED BY <1>5, <1>6, <2>1, <2>2, <2>3 DEF IInv
<1> QED BY <1>7, <1>8 DEF HearFinished

LEMMA HearStreamKeeps == IInv /\ HearStream => IInv'
<1> SUFFICES ASSUME IInv, HearStream PROVE IInv'
  OBVIOUS
<1>0. step = "stream" /\ UNCHANGED <<program, opens, minute, disk, sessions, lost>>
  BY DEF HearStream
<1>1. /\ TypeOK /\ Len(image) < End - Start
      /\ ~gaveUp => attached /\ (Rest = <<>> \/ EndsAtLast(Rest))
  BY <1>0, Listening
<1>2. CASE HearFinished
  BY <1>0, <1>2, HearFinishedKeeps
<1>3. CASE HearChunk /\ UNCHANGED <<image, attempt>>
  BY <1>0, <1>3, HearChunkKeeps
<1>4. CASE /\ UNCHANGED <<got, image, attempt>> /\ step' \in {"stream", "drain"}
           /\ ~HearFinished /\ ~HearChunk
  <2>1. AskingInv'
    BY <1>0, <1>1, <1>4, SameRequest DEF AskingInv
  <2>2. gaveUp => gaveUp'
    BY <1>4 DEF HearStream, GivesUp
  <2>3. GatheredInv' /\ FiledInv' /\ RegionIsWhatWasThere' /\ SidecarIsTheReads'
    BY <1>0, <1>4, <2>2, GatheredKeeps, LabKeeps
  <2>4. CASE Heard("version") /\ Take /\ step' = "drain" /\ UNCHANGED gaveUp
    <3>1. queue # <<>> /\ Head(queue).kind = "version"
      BY <2>4 DEF Heard
    <3>2. /\ queue' \in Seq(Reports) /\ Len(queue') <= QueueDepth
          /\ Rest \in Seq(Reports) /\ Rest # <<>> /\ Rest[1] = Head(queue)
      BY <1>1, <2>4, <3>1, TakeRest
    <3>3. gaveUp
      BY <1>1, <3>1, <3>2, EndOfAnswer
    <3>4. TypeOK'
      BY <1>0, <1>1, <1>4, <2>4, <3>2, ReadAssumption DEF Take, TypeOK, Steps
    <3>5. PipeInv' /\ StreamInv'
      BY <2>4, <3>3 DEF PipeInv, StreamInv
    <3> QED BY <2>1, <2>3, <3>4, <3>5 DEF IInv
  <2>5. CASE StillWaiting("stream") /\ UNCHANGED <<pipe, gaveUp>>
    <3>1. TypeOK'
      BY <1>0, <1>1, <1>4, <2>5, ReadAssumption DEF StillWaiting, pipe, TypeOK, Steps
    <3>2. Rest' = Rest /\ Count' = Count /\ At' = At
      BY <1>0, <1>4, <2>5, SameRequest DEF pipe, Rest
    <3>3. PipeInv'
      BY <1>0, <1>1, <2>5, <3>2 DEF StillWaiting, pipe, PipeInv
    <3>4. StreamInv'
      BY <1>0, <1>4, <2>5, <3>2 DEF IInv, StreamInv
    <3> QED BY <2>1, <2>3, <3>1, <3>3, <3>4 DEF IInv
  <2>6. CASE GivesUp /\ UNCHANGED pipe
    <3>1. gaveUp' = TRUE /\ idle' = 0
      BY <2>6 DEF GivesUp
    <3>2. TypeOK'
      BY <1>0, <1>1, <1>4, <2>6, <3>1, ReadAssumption DEF pipe, TypeOK, Steps
    <3>3. PipeInv' /\ StreamInv'
      BY <3>1 DEF PipeInv, StreamInv
    <3> QED BY <2>1, <2>3, <3>2, <3>3 DEF IInv
  <2>7. CASE ~attached /\ UNCHANGED <<pipe, idle, gaveUp>>
    <3>1. TypeOK'
      BY <1>0, <1>1, <1>4, <2>7 DEF pipe, TypeOK, Steps
    <3>2. PipeInv' /\ StreamInv'
      BY <1>1, <2>7 DEF PipeInv, StreamInv
    <3> QED BY <2>1, <2>3, <3>1, <3>2 DEF IInv
  <2> QED BY <1>4, <2>4, <2>5, <2>6, <2>7 DEF HearStream
<1> QED BY <1>2, <1>3, <1>4 DEF HearStream, StillWaiting

LEMMA DrainKeeps == IInv /\ Drain => IInv'
<1> SUFFICES ASSUME IInv, Drain PROVE IInv'
  OBVIOUS
<1>0. step = "drain" /\ UNCHANGED <<program, opens, got, image, minute, disk, sessions, lost>>
  BY DEF Drain
<1>1. /\ TypeOK /\ Len(image) < End - Start
      /\ ~gaveUp => attached /\ (Rest = <<>> \/ EndsAtLast(Rest))
  BY <1>0, Listening
<1>2. Rethrown => step' \in {"window", "close"} /\ attempt' \in 0..MaxWindowRetries
  BY <1>1, ReadAssumption DEF Rethrown, MayRetry, TypeOK
<1>3. step' \in {"window", "close", "drain"}
  BY <1>0, <1>2 DEF Drain, StillWaiting
<1>4. AskingInv'
  BY <1>0, <1>1, <1>3, SameRequest DEF AskingInv
<1>5. gaveUp => gaveUp'
  BY DEF Drain, GivesUp
<1>6. GatheredInv' /\ FiledInv' /\ RegionIsWhatWasThere' /\ SidecarIsTheReads'
  BY <1>0, <1>3, <1>5, GatheredKeeps, LabKeeps
<1>7. StreamInv'
  BY <1>3 DEF StreamInv
<1>8. ASSUME Take, queue # <<>>, UNCHANGED gaveUp, step' = "drain" \/ Head(queue).kind = "finished",
             attempt' \in 0..MaxWindowRetries
      PROVE  IInv'
  <2>1. /\ queue' \in Seq(Reports) /\ Len(queue') <= QueueDepth /\ Rest' = Tail(Rest)
        /\ Rest \in Seq(Reports) /\ Rest # <<>> /\ Rest[1] = Head(queue)
    BY <1>1, <1>8, TakeRest
  <2>2. TypeOK'
    BY <1>0, <1>1, <1>3, <1>8, <2>1, ReadAssumption DEF Take, TypeOK, Steps
  <2>3. ~gaveUp => /\ Rest' = <<>> \/ EndsAtLast(Rest')
                   /\ Head(queue).kind = "finished" => Rest' = <<>>
    BY <1>1, <2>1, EndOfAnswer
  <2>4. PipeInv'
    BY <1>1, <1>3, <1>8, <2>3 DEF Take, PipeInv
  <2> QED BY <1>4, <1>6, <1>7, <2>2, <2>4 DEF IInv
<1>9. CASE EndsTheAnswer /\ Take /\ Rethrown /\ UNCHANGED gaveUp
  BY <1>2, <1>8, <1>9 DEF EndsTheAnswer, Heard
<1>10. CASE /\ Heard("chunk") \/ Heard("version")
            /\ Take /\ UNCHANGED <<step, attempt, gaveUp>>
  BY <1>0, <1>1, <1>8, <1>10 DEF Heard, TypeOK
<1>11. CASE StillWaiting("drain") /\ UNCHANGED <<pipe, attempt, gaveUp>>
  <2>1. TypeOK'
    BY <1>0, <1>1, <1>11, ReadAssumption DEF StillWaiting, pipe, TypeOK, Steps
  <2>2. PipeInv'
    BY <1>0, <1>1, <1>11 DEF StillWaiting, pipe, PipeInv, Rest
  <2> QED BY <1>4, <1>6, <1>7, <2>1, <2>2 DEF IInv
<1>12. CASE GivesUp /\ Rethrown /\ UNCHANGED pipe
  <2>1. gaveUp' = TRUE /\ idle' = 0
    BY <1>12 DEF GivesUp
  <2>2. TypeOK'
    BY <1>0, <1>1, <1>2, <1>3, <1>12, <2>1, ReadAssumption DEF pipe, TypeOK, Steps
  <2>3. PipeInv'
    BY <2>1 DEF PipeInv
  <2> QED BY <1>4, <1>6, <1>7, <2>2, <2>3 DEF IInv
<1>13. CASE ~attached /\ Rethrown /\ UNCHANGED <<pipe, idle, gaveUp>>
  <2>1. TypeOK'
    BY <1>0, <1>1, <1>2, <1>3, <1>13 DEF pipe, TypeOK, Steps
  <2>2. PipeInv'
    BY <1>1, <1>13 DEF PipeInv
  <2> QED BY <1>4, <1>6, <1>7, <2>1, <2>2 DEF IInv
<1> QED BY <1>9, <1>10, <1>11, <1>12, <1>13 DEF Drain

-----------------------------------------------------------------------------
(* Judging, filing and the world.                                          *)

LEMMA JudgeKeeps == IInv /\ Judge => IInv'
<1> SUFFICES ASSUME IInv, Judge PROVE IInv'
  OBVIOUS
<1>0. /\ step = "judge" /\ step' \in {"close", "file"}
      /\ UNCHANGED <<pipe, program, opens, idle, got, attempt, image, minute, disk, sessions, lost, gaveUp>>
  BY DEF Judge
<1>1. TypeOK'
  BY <1>0 DEF IInv, TypeOK, pipe, Steps
<1>2. AskingInv'
  BY <1>0, SameRequest DEF IInv, AskingInv
<1>3. PipeInv' /\ StreamInv'
  BY <1>0, QuietKeeps DEF pipe, Steps
<1>4. GatheredInv' /\ FiledInv' /\ RegionIsWhatWasThere' /\ SidecarIsTheReads'
  BY <1>0, GatheredKeeps, LabKeeps
<1> QED BY <1>1, <1>2, <1>3, <1>4 DEF IInv

LEMMA FileKeeps == IInv /\ File => IInv'
<1> SUFFICES ASSUME IInv, File PROVE IInv'
  OBVIOUS
<1> DEFINE f == <<program, minute>>
<1>0. /\ step = "file" /\ step' \in {"sidecar", "close"}
      /\ UNCHANGED <<pipe, program, opens, idle, got, attempt, image, minute, sessions, lost, gaveUp>>
  BY DEF File
<1>1. /\ f \in Programs \X Minutes /\ image \in Seq(Places) /\ sessions \in 0..MaxSessions
      /\ disk \in [Programs \X Minutes -> Files]
  BY DEF IInv, TypeOK
<1>2. AskingInv'
  BY <1>0 DEF AskingInv
<1>3. PipeInv' /\ StreamInv'
  BY <1>0, QuietKeeps DEF pipe, Steps
<1>4. GatheredInv'
  BY <1>0, GatheredKeeps
<1>5. CASE UNCHANGED disk /\ step' = "close"
  <2>1. TypeOK'
    BY <1>0, <1>5 DEF IInv, TypeOK, pipe, Steps
  <2>2. FiledInv' /\ RegionIsWhatWasThere' /\ SidecarIsTheReads'
    BY <1>0, <1>5, LabKeeps
  <2> QED BY <1>2, <1>3, <1>4, <2>1, <2>2 DEF IInv
<1>6. CASE /\ disk[f].bytes = Nothing /\ step' = "sidecar"
           /\ disk' = [disk EXCEPT ![f].bytes = image, ![f].by = sessions]
  <2>1. disk[f].sidecar = 0 /\ disk[f] \in Files
    BY <1>1, <1>6 DEF IInv, FiledInv
  <2>2. /\ disk'[f] = [bytes |-> image, by |-> sessions, sidecar |-> 0]
        /\ \A g \in Programs \X Minutes : g # f => disk'[g] = disk[g]
        /\ DOMAIN disk' = Programs \X Minutes /\ DOMAIN disk = Programs \X Minutes
    BY <1>1, <1>6, <2>1 DEF Files
  <2>3. disk'[f] \in Files
    <3>1. image \in Seq(Places) \cup {Nothing} /\ sessions \in 0..MaxSessions /\ 0 \in 0..MaxSessions
      BY <1>1, ReadAssumption
    <3> HIDE DEF f
    <3> QED BY <2>2, <3>1 DEF Files
  <2>4. disk' \in [Programs \X Minutes -> Files]
    BY <1>1, <1>6, <2>2, <2>3
  <2>5. TypeOK'
    BY <1>0, <1>6, <2>4 DEF IInv, TypeOK, pipe, Steps
  <2>6. image # Nothing
    BY <1>1, ReadAssumption
  <2>7. FiledInv'
    <3>1. \A g \in Programs \X Minutes : disk'[g].bytes = Nothing => disk'[g].sidecar = 0
      BY <2>2, <2>6 DEF IInv, FiledInv
    <3>2. disk'[f].by = sessions' /\ disk'[f].bytes # Nothing /\ f = <<program', minute'>>
      BY <1>0, <2>2, <2>6
    <3> HIDE DEF f
    <3> QED BY <2>2, <3>1, <3>2 DEF FiledInv
  <2>8. SidecarIsTheReads'
    BY <2>2 DEF IInv, SidecarIsTheReads
  <2>9. RegionIsWhatWasThere'
    <3>1. program = "region" /\ ~gaveUp =>
            image = [i \in 1..RegionEnd - RegionFrom |-> RegionFrom + i - 1]
      <4> SUFFICES ASSUME program = "region", ~gaveUp
                   PROVE  image = [i \in 1..RegionEnd - RegionFrom |-> RegionFrom + i - 1]
        OBVIOUS
      <4>1. Len(image) = RegionEnd - RegionFrom
        BY <1>0 DEF IInv, AskingInv, Start, End
      <4>2. \A i \in 1..Len(image) : image[i] = RegionFrom + i - 1
        BY DEF IInv, GatheredInv, Start
      <4>3. image = [i \in 1..Len(image) |-> image[i]]
        BY <1>1, LenProperties
      <4> QED BY <4>1, <4>2, <4>3
    <3>2. \A m \in Minutes : <<"region", m>> \in Programs \X Minutes
      BY DEF Programs
    <3>3. \A m \in Minutes : <<"region", m>> = f => program = "region"
      OBVIOUS
    <3> SUFFICES ASSUME NEW m \in Minutes, disk'[<<"region", m>>].bytes # Nothing, ~gaveUp'
                 PROVE  disk'[<<"region", m>>].bytes
                          = [i \in 1..RegionEnd - RegionFrom |-> RegionFrom + i - 1]
      BY DEF RegionIsWhatWasThere
    <3>4. CASE <<"region", m>> = f
      <4>1. program = "region" /\ ~gaveUp
        BY <1>0, <3>3, <3>4
      <4>2. disk'[f].bytes = image
        BY <2>2
      <4> HIDE DEF f
      <4> QED BY <3>1, <3>4, <4>1, <4>2
    <3>5. CASE <<"region", m>> # f
      BY <1>0, <2>2, <3>2, <3>5 DEF IInv, RegionIsWhatWasThere
    <3> QED BY <3>4, <3>5
  <2> QED BY <1>2, <1>3, <1>4, <2>5, <2>7, <2>8, <2>9 DEF IInv
<1> QED BY <1>5, <1>6 DEF File

LEMMA SidecarKeeps == IInv /\ Sidecar => IInv'
<1> SUFFICES ASSUME IInv, Sidecar PROVE IInv'
  OBVIOUS
<1> DEFINE f == <<program, minute>>
<1>0. /\ step = "sidecar" /\ step' = "close"
      /\ UNCHANGED <<pipe, program, opens, idle, got, attempt, image, minute, sessions, lost, gaveUp>>
  BY DEF Sidecar
<1>1. /\ f \in Programs \X Minutes /\ sessions \in 0..MaxSessions
      /\ disk \in [Programs \X Minutes -> Files]
  BY DEF IInv, TypeOK
<1>2. AskingInv'
  BY <1>0 DEF AskingInv
<1>3. PipeInv' /\ StreamInv'
  BY <1>0, QuietKeeps DEF pipe, Steps
<1>4. GatheredInv'
  BY <1>0, GatheredKeeps
<1>5. CASE UNCHANGED disk
  <2>1. TypeOK'
    BY <1>0, <1>5 DEF IInv, TypeOK, pipe, Steps
  <2>2. FiledInv' /\ RegionIsWhatWasThere' /\ SidecarIsTheReads'
    BY <1>0, <1>5, LabKeeps
  <2> QED BY <1>2, <1>3, <1>4, <2>1, <2>2 DEF IInv
<1>6. CASE disk' = [disk EXCEPT ![f].sidecar = sessions]
  <2>1. disk[f] \in Files /\ disk[f].by = sessions /\ disk[f].bytes # Nothing
    BY <1>0, <1>1 DEF IInv, FiledInv
  <2>2. /\ disk'[f] = [bytes |-> disk[f].bytes, by |-> sessions, sidecar |-> sessions]
        /\ \A g \in Programs \X Minutes : g # f => disk'[g] = disk[g]
        /\ DOMAIN disk' = Programs \X Minutes /\ DOMAIN disk = Programs \X Minutes
    BY <1>1, <1>6, <2>1 DEF Files
  <2>3. disk'[f] \in Files
    BY <1>1, <2>1, <2>2 DEF Files
  <2>4. disk' \in [Programs \X Minutes -> Files]
    BY <1>1, <1>6, <2>2, <2>3
  <2>5. TypeOK'
    BY <1>0, <2>4 DEF IInv, TypeOK, pipe, Steps
  <2> HIDE DEF f
  <2>6. FiledInv' /\ SidecarIsTheReads'
    BY <1>0, <2>1, <2>2 DEF IInv, FiledInv, SidecarIsTheReads
  <2>7. \A g \in Programs \X Minutes : disk'[g].bytes = disk[g].bytes
    BY <2>2
  <2>8. RegionIsWhatWasThere'
    BY <1>0, <2>7 DEF IInv, RegionIsWhatWasThere, Programs
  <2> QED BY <1>2, <1>3, <1>4, <2>5, <2>6, <2>8 DEF IInv
<1> QED BY <1>5, <1>6 DEF Sidecar

LEMMA EndedKeeps ==
  ASSUME IInv, Ended, gaveUp => gaveUp', gaveUp' \in BOOLEAN,
         ~gaveUp' => attached /\ Rest = <<>>
  PROVE  IInv'
<1>0. /\ step' = "off" /\ queue' = <<>> /\ got' = <<>> /\ image' = <<>>
      /\ opens' = 0 /\ idle' = 0 /\ attempt' = 0
      /\ UNCHANGED <<owed, attached, program, minute, disk, sessions, lost>>
  BY DEF Ended
<1>1. TypeOK'
  <2>1. <<>> \in Seq(Reports) /\ <<>> \in Seq(Places) /\ Len(<<>>) <= QueueDepth
    BY PipeAssumption, EmptySeq
  <2>2. 0 \in 0..IdlePolls - 1 /\ 0 \in 0..MaxWindowRetries /\ 0 \in 0..4 /\ "off" \in Steps
    BY ReadAssumption DEF Steps
  <2> QED BY <1>0, <2>1, <2>2 DEF IInv, TypeOK
<1>2. AskingInv'
  BY <1>0 DEF AskingInv
<1>3. ~gaveUp' => attached' /\ Rest' = <<>>
  BY <1>0, EmptyRest, ConcatEmptySeq DEF IInv, Rest
<1>4. PipeInv' /\ StreamInv'
  BY <1>0, <1>3 DEF PipeInv, StreamInv
<1>5. GatheredInv' /\ FiledInv' /\ RegionIsWhatWasThere' /\ SidecarIsTheReads'
  BY <1>0, GatheredKeeps, LabKeeps
<1> QED BY <1>1, <1>2, <1>4, <1>5 DEF IInv

LEMMA CloseKeeps == IInv /\ Close => IInv'
<1> SUFFICES ASSUME IInv, Close PROVE IInv'
  OBVIOUS
<1>1. step = "close" /\ Ended /\ gaveUp' = gaveUp /\ gaveUp \in BOOLEAN
  BY DEF Close, IInv, TypeOK
<1>2. ~gaveUp => attached /\ Rest = <<>>
  BY <1>1 DEF IInv, PipeInv, Steps
<1>3. gaveUp' \in BOOLEAN
  BY <1>1
<1> QED BY <1>1, <1>2, <1>3, EndedKeeps

LEMMA KillKeeps == IInv /\ Kill => IInv'
<1> SUFFICES ASSUME IInv, Kill PROVE IInv'
  OBVIOUS
<1>1. Ended /\ gaveUp' = TRUE
  BY DEF Kill
<1> QED BY <1>1, EndedKeeps

LEMMA ReenumerateKeeps == IInv /\ Reenumerate => IInv'
<1> SUFFICES ASSUME IInv, Reenumerate PROVE IInv'
  OBVIOUS
<1>0. /\ attached' = FALSE /\ queue' = <<>> /\ gaveUp' = TRUE
      /\ UNCHANGED <<owed, reader, disk, sessions, lost>>
  BY DEF Reenumerate
<1>1. TypeOK'
  <2>1. <<>> \in Seq(Reports) /\ Len(<<>>) <= QueueDepth
    BY PipeAssumption, EmptySeq
  <2> QED BY <1>0, <2>1 DEF IInv, TypeOK, reader
<1>2. AskingInv'
  BY <1>0, SameRequest DEF IInv, AskingInv, reader
<1>3. PipeInv' /\ StreamInv'
  BY <1>0 DEF PipeInv, StreamInv
<1>4. GatheredInv' /\ FiledInv' /\ RegionIsWhatWasThere' /\ SidecarIsTheReads'
  BY <1>0, GatheredKeeps, LabKeeps DEF reader
<1> QED BY <1>1, <1>2, <1>3, <1>4 DEF IInv

(* A report moves up; where that costs one, the stream falls short.        *)
LEMMA EmitKeeps == IInv /\ Emit => IInv'
<1> SUFFICES ASSUME IInv, Emit PROVE IInv'
  OBVIOUS
<1>0. /\ owed # <<>> /\ owed' = Tail(owed) /\ queue' = Arriving(queue, Head(owed))
      /\ UNCHANGED <<attached, reader, disk, sessions, lost, gaveUp>>
  BY DEF Emit
<1>1. queue \in Seq(Reports) /\ owed \in Seq(Reports) /\ Len(queue) <= QueueDepth
  BY DEF IInv, TypeOK
<1>2. /\ queue' \in Seq(Reports) /\ Len(queue') <= QueueDepth /\ owed' \in Seq(Reports)
      /\ Rest \in Seq(Reports) /\ Rest # <<>>
      /\ Rest' = Rest \/ (Rest' = Tail(Rest) /\ Len(Rest) > 1)
  BY <1>0, <1>1, ArrivedInRest DEF Rest
<1>3. TypeOK'
  BY <1>0, <1>2 DEF IInv, TypeOK, reader
<1>4. AskingInv'
  BY <1>0, SameRequest DEF IInv, AskingInv, reader
<1>5. GatheredInv' /\ FiledInv' /\ RegionIsWhatWasThere' /\ SidecarIsTheReads'
  BY <1>0, GatheredKeeps, LabKeeps DEF reader
<1>6. UNCHANGED <<step, got, image, program, attached, gaveUp>>
  BY <1>0 DEF reader
<1>7. Count' = Count /\ At' = At
  BY <1>6, SameRequest
<1>8. CASE Rest' = Rest
  BY <1>3, <1>4, <1>5, <1>6, <1>7, <1>8 DEF IInv, PipeInv, StreamInv
<1>9. CASE Rest' = Tail(Rest) /\ Len(Rest) > 1
  <2>1. ~gaveUp => step \in {"stream", "drain"} /\ EndsAtLast(Rest) /\ attached
    <3>1. Rest # <<VersionReply>>
      <4>1. Len(<<VersionReply>>) = 1
        OBVIOUS
      <4> QED BY <1>9, <4>1
    <3>2. step \in Steps
      BY DEF IInv, TypeOK
    <3> HIDE DEF Rest
    <3> QED BY <1>2, <3>1, <3>2 DEF IInv, PipeInv
  <2>2. ~gaveUp => EndsAtLast(Rest')
    BY <1>2, <1>9, <2>1, TailEnds
  <2>3. PipeInv'
    BY <1>6, <2>1, <2>2 DEF PipeInv
  <2>4. StreamInv'
    <3> SUFFICES ASSUME ~gaveUp, step = "stream"
                 PROVE  /\ Len(got') + Len(Rest') - 1 <= Count'
                        /\ Len(got') + Len(Rest') - 1 # Count'
      BY <1>6 DEF StreamInv
    <3>1. Len(got) + Len(Rest) - 1 <= Count
      BY <1>2 DEF IInv, StreamInv
    <3>2. Len(Rest') = Len(Rest) - 1 /\ Len(Rest) \in Nat
      BY <1>2, <1>9, TailFacts
    <3>3. Len(got) \in Nat /\ Count \in Nat
      BY CountFacts, LenProperties DEF IInv, TypeOK, AskingInv
    <3>4. Len(got') = Len(got) /\ Count' = Count
      BY <1>6, <1>7
    <3> QED BY <3>1, <3>2, <3>3, <3>4
  <2> QED BY <1>3, <1>4, <1>5, <2>3, <2>4 DEF IInv
<1> QED BY <1>2, <1>8, <1>9

LEMMA StepKeeps == IInv /\ [Next]_vars => IInv'
<1> SUFFICES ASSUME IInv, [Next]_vars PROVE IInv'
  OBVIOUS
<1>1. ASSUME NEW p \in Programs, NEW m \in Minutes, Open(p, m) PROVE IInv'
  BY <1>1, OpenKeeps
<1>2. CASE Host
  BY <1>2, AskVersionKeeps, HearVersionKeeps, AskWindowKeeps, HearStreamKeeps, DrainKeeps,
     JudgeKeeps, FileKeeps, SidecarKeeps, CloseKeeps DEF Host
<1>3. CASE Emit
  BY <1>3, EmitKeeps
<1>4. CASE Reenumerate
  BY <1>4, ReenumerateKeeps
<1>5. CASE Kill
  BY <1>5, KillKeeps
<1>6. CASE UNCHANGED vars
  <2>1. UNCHANGED <<owed, queue, attached, step, program, opens, idle, got, attempt, image, minute,
                    disk, sessions, lost, gaveUp>>
    BY <1>6 DEF vars, pipe, reader
  <2>2. TypeOK' /\ FiledInv' /\ RegionIsWhatWasThere' /\ SidecarIsTheReads'
    BY <2>1 DEF IInv, TypeOK, FiledInv, RegionIsWhatWasThere, SidecarIsTheReads
  <2>3. AskingInv' /\ GatheredInv'
    BY <2>1, SameRequest DEF IInv, AskingInv, GatheredInv
  <2>4. PipeInv' /\ StreamInv'
    BY <2>1, SameRequest DEF IInv, PipeInv, StreamInv, Rest
  <2> QED BY <2>2, <2>3, <2>4 DEF IInv
<1> QED BY <1>1, <1>2, <1>3, <1>4, <1>5, <1>6 DEF Next

LEMMA Invariance == Spec => []IInv
<1> QED BY InitHolds, StepKeeps, PTL DEF Spec

-----------------------------------------------------------------------------
(* What the closures of a configuration tell.                              *)

(* A word that only chunk p has is in the configuration's checksum, so a   *)
(* sequence of readable chunks with that checksum has chunk p somewhere.   *)
LEMMA ChecksumFinds ==
  ASSUME NEW places \in Seq(Readable), Len(places) = Length, Xor(places) = Xor(TheConfig),
         NEW p \in 0..Length - 1
  PROVE  \E i \in 1..Length : places[i] = p
<1> DEFINE Holders(s, w) == {i \in DOMAIN s : w \in Content[s[i]]}
<1>0. Length \in Nat
  BY ReadAssumption
<1>1. PICK w \in Words : w \in Content[p] /\ \A q \in Readable \ {p} : w \notin Content[q]
  BY IndependentWords
<1>2. Holders(TheConfig, w) = {p + 1}
  <2>1. \A i \in 1..Length : w \in Content[i - 1] <=> i = p + 1
    BY <1>0, <1>1 DEF Readable
  <2>2. DOMAIN TheConfig = 1..Length /\ \A i \in 1..Length : TheConfig[i] = i - 1
    BY DEF TheConfig
  <2>3. \A i : i \in Holders(TheConfig, w) <=> i \in 1..Length /\ i = p + 1
    BY <2>1, <2>2
  <2>4. p + 1 \in 1..Length
    BY <1>0
  <2> HIDE DEF Holders
  <2> QED BY <2>3, <2>4
<1>3. w \in Xor(TheConfig)
  <2>1. Cardinality({p + 1}) = 1
    BY FS_Singleton
  <2>2. Cardinality(Holders(TheConfig, w)) % 2 = 1
    <3> HIDE DEF Holders
    <3> QED BY <1>2, <2>1
  <2> QED BY <2>2 DEF Xor
<1>4. Holders(places, w) # {}
  <2>1. Cardinality(Holders(places, w)) % 2 = 1
    BY <1>3 DEF Xor
  <2>2. Cardinality({}) % 2 # 1
    BY FS_EmptySet
  <2> QED BY <2>1, <2>2
<1>5. PICK i \in DOMAIN places : w \in Content[places[i]]
  BY <1>4
<1>6. i \in 1..Length /\ places[i] \in Readable
  BY <1>5, LenProperties, ElementOfSeq
<1> QED BY <1>1, <1>5, <1>6

(* There are as many places to hold chunks as chunks, so each has its own. *)
LEMMA ClosedIsComplete ==
  ASSUME NEW places \in Seq(Readable), Len(places) = Length, Xor(places) = Xor(TheConfig),
         places[1] = 0, places[Length] = Length - 1
  PROVE  EachChunkOnce(places)
<1> DEFINE Chunks  == 0..Length - 1
           Indices == 1..Length
           where   == [p \in Chunks |-> CHOOSE i \in Indices : places[i] = p]
<1>0. Length \in Nat /\ Length >= 3
  BY ReadAssumption
<1>1. \A p \in Chunks : where[p] \in Indices /\ places[where[p]] = p
  BY ChecksumFinds
<1>2. where \in Injection(Chunks, Indices)
  <2>1. where \in [Chunks -> Indices]
    BY <1>1
  <2>2. IsInjective(where)
    <3> HIDE DEF Chunks, Indices
    <3> QED BY <1>1 DEF IsInjective
  <2> QED BY <2>1, <2>2 DEF Injection
<1>3. IsFiniteSet(Indices) /\ Cardinality(Indices) = Length /\ Cardinality(Chunks) = Length
  <2>1. 0 \in Int /\ 1 \in Int /\ Length \in Int /\ Length - 1 \in Int
    BY <1>0
  <2>2. IsFiniteSet(Indices) /\ Cardinality(Indices) = IF 1 > Length THEN 0 ELSE Length - 1 + 1
    BY <2>1, FS_Interval
  <2>3. Cardinality(Chunks) = IF 0 > Length - 1 THEN 0 ELSE Length - 1 - 0 + 1
    BY <2>1, FS_Interval
  <2> QED BY <1>0, <2>2, <2>3
<1>4. where \in Surjection(Chunks, Indices)
  <2> HIDE DEF Chunks, Indices, where
  <2> QED BY <1>2, <1>3, FS_Injection
<1>5. \A j \in Indices : \E p \in Chunks : where[p] = j
  <2> HIDE DEF Chunks, Indices, where
  <2> QED BY <1>4 DEF Surjection
<1>6. \A p \in Chunks : \E i \in Indices : places[i] = p /\ \A j \in Indices : places[j] = p => j = i
  <2> HIDE DEF Chunks, Indices, where
  <2> TAKE p \in Chunks
  <2>1. where[p] \in Indices /\ places[where[p]] = p
    BY <1>1
  <2>2. \A j \in Indices : places[j] = p => j = where[p]
    BY <1>1, <1>5
  <2> QED BY <2>1, <2>2
<1> QED BY <1>6 DEF EachChunkOnce

-----------------------------------------------------------------------------
(* What every report under way and every chunk gathered is of, whatever    *)
(* was given up, and what a configuration has passed on its way to a file. *)

Known == {report \in Reports : report.at \in Readable}

KnownInv ==
  owed \in Seq(Known) /\ queue \in Seq(Known) /\ got \in Seq(Readable) /\ image \in Seq(Readable)
HeaderInv == program = "config" /\ image # <<>> => image[1] = 0
JudgedInv == step = "file" /\ program = "config" => Closes
ClosureInv == KnownInv /\ HeaderInv /\ JudgedInv /\ FiledIsTheRemotes

LEMMA ClosureInit == Init => ClosureInv
<1> SUFFICES ASSUME Init PROVE ClosureInv
  OBVIOUS
<1>1. KnownInv
  BY EmptySeq DEF Init, KnownInv
<1>2. HeaderInv /\ JudgedInv
  BY DEF Init, HeaderInv, JudgedInv
<1>3. FiledIsTheRemotes
  BY DEF Init, FiledIsTheRemotes, NoFile, Programs
<1> QED BY <1>1, <1>2, <1>3 DEF ClosureInv

(* An answer is of what its session asked for.                             *)
LEMMA AnswersAreKnown ==
  ASSUME TypeOK, Len(image) < End - Start
  PROVE  Stream(At, Count) \in Seq(Known)
<1>1. /\ Count \in Nat \ {0} /\ At + Count <= End /\ At \in Nat /\ Start \in Nat /\ End \in Nat
      /\ At >= Start /\ End <= FlashSize /\ FlashSize \in Nat
  BY CountFacts, RangeFacts, PipeAssumption
<1>2. \A i \in 1..Count : At + i - 1 \in Start..End - 1
  BY <1>1
<1>3. Start..End - 1 \subseteq Readable
  BY DEF TypeOK, Programs, Start, End, Readable
<1>4. 0 \in Readable
  BY ReadAssumption DEF Readable
<1>5. /\ Stream(At, Count) \in Seq(Reports) /\ Len(Stream(At, Count)) = Count + 1
      /\ EndsAtLast(Stream(At, Count))
      /\ \A i \in 1..Count : Stream(At, Count)[i].at = At + i - 1
  BY <1>1, StreamFacts
<1> HIDE DEF At, Count
<1> DEFINE answer == Stream(At, Count)
<1>6. \A i \in 1..Len(answer) : answer[i] \in Known
  <2> HIDE DEF answer
  <2> TAKE i \in 1..Len(answer)
  <2>1. answer[i] \in Reports
    BY <1>5, ElementOfSeq DEF answer
  <2>2. answer[i].at \in Readable
    <3>1. CASE i = Count + 1
      BY <1>4, <1>5, <3>1 DEF answer, EndsAtLast, Finished
    <3>2. CASE i # Count + 1
      <4>1. i \in 1..Count
        BY <1>1, <1>5, <3>2 DEF answer
      <4> QED BY <1>2, <1>3, <1>5, <4>1 DEF answer
    <3> QED BY <3>1, <3>2
  <2> QED BY <2>1, <2>2 DEF Known
<1> HIDE DEF answer
<1>7. answer \in Seq(Reports)
  BY <1>5 DEF answer
<1>8. answer \in Seq(Known)
  BY <1>6, <1>7, LenProperties, SeqDef
<1> QED BY <1>8 DEF answer

(* A step takes what is known off the pipe, and adds what was asked to it. *)
LEMMA KnownTaken ==
  ASSUME KnownInv, Take, queue # <<>>
  PROVE  owed' \in Seq(Known) /\ queue' \in Seq(Known) /\ Head(queue).at \in Readable
<1>1. owed \in Seq(Known) /\ queue \in Seq(Known)
  BY DEF KnownInv
<1>2. Tail(queue) \in Seq(Known) /\ Head(queue) \in Known
  BY <1>1, HeadTailProperties
<1> QED BY <1>1, <1>2 DEF Take, Known

LEMMA KnownSent ==
  ASSUME KnownInv, NEW answer \in Seq(Known), Send(answer)
  PROVE  owed' \in Seq(Known)
<1>1. owed \in Seq(Known)
  BY DEF KnownInv
<1> QED BY <1>1, ConcatProperties DEF Send

LEMMA KnownArrived ==
  ASSUME KnownInv, Emit
  PROVE  owed' \in Seq(Known) /\ queue' \in Seq(Known)
<1>1. owed \in Seq(Known) /\ queue \in Seq(Known) /\ QueueDepth \in Nat \ {0}
  BY PipeAssumption DEF KnownInv
<1>2. owed' = Tail(owed) /\ queue' = Arriving(queue, Head(owed)) /\ owed # <<>>
  BY DEF Emit
<1>3. Tail(owed) \in Seq(Known) /\ Head(owed) \in Known
  BY <1>1, <1>2, HeadTailProperties
<1>4. ~(Len(queue) < QueueDepth) => queue # <<>>
  BY <1>1
<1>5. ~(Len(queue) < QueueDepth) => Tail(queue) \in Seq(Known)
  BY <1>1, <1>4, HeadTailProperties
<1> QED BY <1>1, <1>2, <1>3, <1>5, AppendProperties DEF Arriving

LEMMA KnownKeeps == IInv /\ KnownInv /\ [Next]_vars => KnownInv'
<1> SUFFICES ASSUME IInv, KnownInv, [Next]_vars PROVE KnownInv'
  OBVIOUS
<1>0. owed \in Seq(Known) /\ queue \in Seq(Known) /\ got \in Seq(Readable) /\ image \in Seq(Readable)
  BY DEF KnownInv
<1>1. <<>> \in Seq(Known) /\ <<>> \in Seq(Readable)
  BY EmptySeq
<1>2. ASSUME NEW p \in Programs, NEW m \in Minutes, Open(p, m) PROVE KnownInv'
  BY <1>0, <1>1, <1>2 DEF Open, KnownInv
<1>3. ASSUME UNCHANGED <<owed, queue>> \/ (Take /\ queue # <<>>), UNCHANGED <<got, image>> PROVE KnownInv'
  BY <1>0, <1>3, KnownTaken DEF KnownInv
<1>4. CASE AskVersion
  <2>1. <<VersionReply>> \in Seq(Known)
    <3>1. VersionReply \in Known
      BY PipeAssumption, ReadAssumption DEF VersionReply, Known, Reports, Sequences, Places, Readable
    <3> QED BY <3>1
  <2>2. owed' \in Seq(Known)
    BY <1>0, <1>4, <2>1, KnownSent DEF AskVersion
  <2> QED BY <1>0, <1>4, <2>2 DEF AskVersion, KnownInv
<1>5. CASE HearVersion
  <2>1. UNCHANGED <<owed, queue>> \/ (Take /\ queue # <<>>)
    BY <1>5 DEF HearVersion, Heard, pipe
  <2> QED BY <1>3, <1>5, <2>1 DEF HearVersion
<1>6. CASE AskWindow
  <2>1. Stream(At, Count) \in Seq(Known)
    BY <1>6, AnswersAreKnown DEF AskWindow, IInv, AskingInv
  <2>2. owed' \in Seq(Known)
    BY <1>0, <1>6, <2>1, KnownSent DEF AskWindow
  <2> QED BY <1>0, <1>1, <1>6, <2>2 DEF AskWindow, KnownInv
<1>7. CASE HearStream
  <2>1. CASE HearFinished
    <3>1. Take /\ queue # <<>>
      BY <2>1 DEF HearFinished, Heard
    <3>2. image \o got \in Seq(Readable)
      BY <1>0, ConcatProperties
    <3>3. got' \in {got, <<>>} /\ image' \in {image, image \o got}
      BY <2>1 DEF HearFinished
    <3> QED BY <1>0, <1>1, <3>1, <3>2, <3>3, KnownTaken DEF KnownInv
  <2>2. CASE HearChunk /\ UNCHANGED image
    <3>1. Take /\ queue # <<>> /\ (UNCHANGED got \/ got' = Append(got, Head(queue).at))
      BY <2>2 DEF HearChunk, Heard
    <3>2. owed' \in Seq(Known) /\ queue' \in Seq(Known) /\ Head(queue).at \in Readable
      BY <3>1, KnownTaken
    <3>3. Append(got, Head(queue).at) \in Seq(Readable)
      BY <1>0, <3>2, AppendProperties
    <3> QED BY <1>0, <2>2, <3>1, <3>2, <3>3 DEF KnownInv
  <2>3. CASE /\ UNCHANGED <<owed, queue>> \/ (Take /\ queue # <<>>)
             /\ UNCHANGED <<got, image>>
    BY <1>3, <2>3
  <2> QED BY <1>7, <2>1, <2>2, <2>3 DEF HearStream, Heard, pipe
<1>8. CASE Drain
  <2>1. UNCHANGED <<owed, queue>> \/ (Take /\ queue # <<>>)
    BY <1>8 DEF Drain, EndsTheAnswer, Heard, pipe
  <2> QED BY <1>3, <1>8, <2>1 DEF Drain
<1>9. CASE Judge \/ File \/ Sidecar
  BY <1>3, <1>9 DEF Judge, File, Sidecar, pipe
<1>10. CASE Close \/ Kill
  BY <1>0, <1>1, <1>10 DEF Close, Kill, Ended, KnownInv
<1>11. CASE Emit
  BY <1>0, <1>11, KnownArrived DEF Emit, reader, KnownInv
<1>12. CASE Reenumerate
  BY <1>0, <1>1, <1>12 DEF Reenumerate, reader, KnownInv
<1>13. CASE UNCHANGED vars
  BY <1>3, <1>13 DEF vars, pipe, reader
<1> QED BY <1>2, <1>4, <1>5, <1>6, <1>7, <1>8, <1>9, <1>10, <1>11, <1>12, <1>13 DEF Next, Host

(* What a step may do to what a session has gathered, judged and filed.    *)
LEMMA StepsOfASession ==
  ASSUME [Next]_vars
  PROVE  /\ gaveUp => gaveUp'
         /\ \/ image' = <<>> \/ UNCHANGED <<program, image>>
            \/ Whole /\ image' = image \o got /\ UNCHANGED program
         /\ step' = "file" => Judge \/ (step = "file" /\ UNCHANGED <<program, image>>)
         /\ UNCHANGED disk \/ File \/ Sidecar
<1> DEFINE Goal ==
      /\ gaveUp => gaveUp'
      /\ \/ image' = <<>> \/ UNCHANGED <<program, image>>
         \/ Whole /\ image' = image \o got /\ UNCHANGED program
      /\ step' = "file" => Judge \/ (step = "file" /\ UNCHANGED <<program, image>>)
      /\ UNCHANGED disk \/ File \/ Sidecar
<1> SUFFICES Goal
  OBVIOUS
<1>1. ASSUME NEW p \in Programs, NEW m \in Minutes, Open(p, m) PROVE Goal
  BY <1>1 DEF Open
<1>2. CASE AskVersion \/ HearVersion \/ AskWindow
  <2>1. step' # "file" /\ UNCHANGED <<program, image, disk>> /\ (gaveUp => gaveUp')
    BY <1>2 DEF AskVersion, HearVersion, AskWindow, StillWaiting, GivesUp
  <2> QED BY <2>1
<1>3. CASE HearStream
  <2>1. step' # "file" /\ UNCHANGED <<program, disk>> /\ (gaveUp => gaveUp')
    BY <1>3 DEF HearStream, HearFinished, HearChunk, StillWaiting, GivesUp
  <2>2. UNCHANGED image \/ (Whole /\ image' = image \o got)
    BY <1>3 DEF HearStream, HearFinished
  <2> QED BY <2>1, <2>2
<1>4. CASE Drain
  <2>1. step' # "file" /\ UNCHANGED <<program, image, disk>> /\ (gaveUp => gaveUp')
    BY <1>4 DEF Drain, Rethrown, StillWaiting, GivesUp
  <2> QED BY <2>1
<1>5. CASE Judge
  BY <1>5 DEF Judge
<1>6. CASE File
  BY <1>6 DEF File
<1>7. CASE Sidecar
  BY <1>7 DEF Sidecar
<1>8. CASE Close \/ Kill
  BY <1>8 DEF Close, Kill, Ended
<1>9. CASE Emit \/ Reenumerate
  BY <1>9 DEF Emit, Reenumerate, reader
<1>10. CASE UNCHANGED vars
  BY <1>10 DEF vars, reader
<1> HIDE DEF Goal
<1> QED BY <1>1, <1>2, <1>3, <1>4, <1>5, <1>6, <1>7, <1>8, <1>9, <1>10 DEF Next, Host

(* The header comes first, from the probe that asked for it alone.         *)
LEMMA HeaderKeeps == IInv /\ KnownInv /\ HeaderInv /\ [Next]_vars => HeaderInv'
<1> SUFFICES ASSUME IInv, KnownInv, HeaderInv, [Next]_vars, program' = "config", image' # <<>>
             PROVE  image'[1] = 0
  BY DEF HeaderInv
<1>1. CASE UNCHANGED <<program, image>>
  BY <1>1 DEF HeaderInv
<1>2. CASE Whole /\ image' = image \o got /\ UNCHANGED program
  <2>1. image \in Seq(Readable) /\ got \in Seq(Readable) /\ Len(image) \in Nat /\ Len(got) \in Nat
    BY LenProperties DEF KnownInv
  <2>2. \A i \in 1..Len(image) + Len(got) :
          image'[i] = IF i <= Len(image) THEN image[i] ELSE got[i - Len(image)]
    BY <1>2, <2>1, ConcatProperties
  <2>3. CASE image = <<>>
    <3>1. Len(got) = 1 /\ got[1] = 0
      BY <1>2, <2>3 DEF Whole, Count, Probing
    <3>2. Len(image) = 0
      BY <2>3
    <3> QED BY <2>2, <3>1, <3>2
  <2>4. CASE image # <<>>
    <3>1. Len(image) >= 1
      BY <2>1, <2>4, EmptySeq
    <3>2. image[1] = 0
      BY <1>2, <2>4 DEF HeaderInv
    <3> QED BY <2>1, <2>2, <3>1, <3>2
  <2> QED BY <2>3, <2>4
<1> QED BY <1>1, <1>2, StepsOfASession

LEMMA JudgedKeeps == JudgedInv /\ [Next]_vars => JudgedInv'
<1> SUFFICES ASSUME JudgedInv, [Next]_vars, step' = "file", program' = "config"
             PROVE  Closes'
  BY DEF JudgedInv
<1>1. UNCHANGED image => Closes' = Closes
  BY DEF Closes, Xor
<1>2. CASE Judge
  BY <1>1, <1>2 DEF Judge
<1>3. CASE step = "file" /\ UNCHANGED <<program, image>>
  BY <1>1, <1>3 DEF JudgedInv
<1> QED BY <1>2, <1>3, StepsOfASession

(* What a session files as a configuration is complete, and in order if no *)
(* wait was given up.                                                      *)
LEMMA FilesComplete ==
  ASSUME IInv, ClosureInv, step = "file", program = "config"
  PROVE  EachChunkOnce(image) /\ (~gaveUp => image = TheConfig)
<1>1. /\ image \in Seq(Readable) /\ Len(image) = Length /\ Closes /\ Length \in Nat /\ Length >= 3
  BY ReadAssumption DEF ClosureInv, KnownInv, JudgedInv, IInv, AskingInv, Start, End
<1>2. image # <<>>
  BY <1>1
<1>3. image[1] = 0
  BY <1>2 DEF ClosureInv, HeaderInv
<1>4. EachChunkOnce(image)
  BY <1>1, <1>3, ClosedIsComplete DEF Closes
<1>5. ~gaveUp => image = TheConfig
  <2>1. ~gaveUp => \A i \in 1..Length : image[i] = i - 1
    BY <1>1 DEF IInv, GatheredInv, Start
  <2>2. image = [i \in 1..Length |-> image[i]]
    BY <1>1, LenProperties
  <2> QED BY <2>1, <2>2 DEF TheConfig
<1> QED BY <1>4, <1>5

LEMMA FiledKeeps == IInv /\ ClosureInv /\ [Next]_vars => FiledIsTheRemotes'
<1> SUFFICES ASSUME IInv, ClosureInv, [Next]_vars PROVE FiledIsTheRemotes'
  OBVIOUS
<1>0. FiledIsTheRemotes /\ (gaveUp => gaveUp')
  BY StepsOfASession DEF ClosureInv
<1> DEFINE f == <<program, minute>>
<1>1. /\ disk \in [Programs \X Minutes -> Files] /\ f \in Programs \X Minutes
      /\ \A m \in Minutes : <<"config", m>> \in Programs \X Minutes
  BY DEF IInv, TypeOK, Programs
<1>2. ASSUME \A g \in Programs \X Minutes : disk'[g].bytes = disk[g].bytes
      PROVE  FiledIsTheRemotes'
  <2> SUFFICES ASSUME NEW m \in Minutes, disk'[<<"config", m>>].bytes # Nothing
               PROVE  /\ EachChunkOnce(disk'[<<"config", m>>].bytes)
                      /\ ~gaveUp' => disk'[<<"config", m>>].bytes = TheConfig
    BY DEF FiledIsTheRemotes, EachChunkOnce, TheConfig
  <2>1. disk'[<<"config", m>>].bytes = disk[<<"config", m>>].bytes
    BY <1>1, <1>2
  <2> QED BY <1>0, <2>1 DEF FiledIsTheRemotes
<1>3. CASE UNCHANGED disk
  BY <1>2, <1>3
<1>4. CASE Sidecar
  <2>1. UNCHANGED disk \/ disk' = [disk EXCEPT ![f].sidecar = sessions]
    BY <1>4 DEF Sidecar
  <2>2. \A g \in Programs \X Minutes : disk[g] \in Files
    BY <1>1
  <2>3. \A g \in Programs \X Minutes : disk'[g].bytes = disk[g].bytes
    <3> HIDE DEF f
    <3> QED BY <1>1, <2>1, <2>2 DEF Files
  <2> QED BY <1>2, <2>3
<1>5. CASE File
  <2>1. step = "file" /\ UNCHANGED <<program, minute, gaveUp>>
    BY <1>5 DEF File
  <2>2. CASE UNCHANGED disk
    BY <1>2, <2>2
  <2>3. CASE disk' = [disk EXCEPT ![f].bytes = image, ![f].by = sessions]
    <3>1. /\ disk[f] \in Files
          /\ disk'[f].bytes = image
          /\ \A g \in Programs \X Minutes : g # f => disk'[g] = disk[g]
      <4> HIDE DEF f
      <4> QED BY <1>1, <2>3 DEF Files
    <3> SUFFICES ASSUME NEW m \in Minutes, disk'[<<"config", m>>].bytes # Nothing
                 PROVE  /\ EachChunkOnce(disk'[<<"config", m>>].bytes)
                        /\ ~gaveUp => disk'[<<"config", m>>].bytes = TheConfig
      BY <2>1 DEF FiledIsTheRemotes, EachChunkOnce, TheConfig
    <3>2. CASE <<"config", m>> = f
      <4>1. program = "config"
        BY <3>2
      <4>2. EachChunkOnce(image) /\ (~gaveUp => image = TheConfig)
        BY <2>1, <4>1, FilesComplete
      <4> HIDE DEF f
      <4> QED BY <3>1, <3>2, <4>2
    <3>3. CASE <<"config", m>> # f
      <4>1. disk'[<<"config", m>>] = disk[<<"config", m>>]
        BY <1>1, <3>1, <3>3
      <4> QED BY <1>0, <4>1 DEF FiledIsTheRemotes
    <3> QED BY <3>2, <3>3
  <2> QED BY <1>5, <2>2, <2>3 DEF File
<1> QED BY <1>3, <1>4, <1>5, StepsOfASession

LEMMA ClosureInvariance == Spec => []ClosureInv
<1>1. IInv /\ ClosureInv /\ [Next]_vars => ClosureInv'
  BY KnownKeeps, HeaderKeeps, JudgedKeeps, FiledKeeps DEF ClosureInv
<1> QED BY <1>1, ClosureInit, Invariance, PTL DEF Spec

-----------------------------------------------------------------------------
(* Whatever was late, missed, dropped, unplugged or killed, the reader is  *)
(* in a state HarmonyRemote can be in: remote.ts's waits and retries stay  *)
(* within their limits and the host's queue within its depth.              *)
THEOREM TypeCorrect == Spec => []TypeOK
<1> QED BY Invariance, PTL DEF IInv

(* Region reads: as long as no wait was given up, what fileRegion put in   *)
(* the lab is what the flash held from the first byte asked for to the     *)
(* last, for a queue of any depth and a sequence that wraps anywhere:      *)
(* chunks lost leave the stream short of the count readFlash asks.         *)
THEOREM RegionsAreTheRemotes == Spec => []RegionIsWhatWasThere
<1> QED BY Invariance, PTL DEF IInv

(* Configuration reads: whatever was given up, killed, unplugged or lost,  *)
(* and however many sessions and retries, a configuration readConfig let   *)
(* through to the lab is complete, and the remote's byte for byte unless a *)
(* wait was given up.  The count asks for as many chunks as there are, the *)
(* checksum for each of them, so none is there twice.                      *)
THEOREM ConfigurationsAreComplete == Spec => []FiledIsTheRemotes
<1> QED BY ClosureInvariance, PTL DEF ClosureInv

(* Filing: the sidecar beside a read was written by the session that wrote *)
(* the bytes, through kills between the two and reads filed in one minute. *)
THEOREM SidecarsAreTheReads == Spec => []SidecarIsTheReads
<1> QED BY Invariance, PTL DEF IInv

(* Sessions: one that ends with no wait given up has read its answers to   *)
(* their acknowledgement, by readFlash's drain if not by its stream, and   *)
(* the next finds nothing of them.                                         *)
THEOREM SessionsLeaveNothing == Spec => []LeavesNothingBehind
<1>1. IInv => LeavesNothingBehind
  BY EmptyRest DEF IInv, PipeInv, Steps, LeavesNothingBehind
<1> QED BY <1>1, Invariance, PTL
=============================================================================
