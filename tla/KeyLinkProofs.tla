----------------------------- MODULE KeyLinkProofs -----------------------------
(***************************************************************************)
(* Theorems about KeyLink, for any remotes, codes, attempts, links, presses*)
(* and faults, where a remote that stopped answering is unplugged before it*)
(* is connected again.                                                     *)
(***************************************************************************)
EXTENDS KeyLink, TLAPS, SequenceTheorems

Asks == [what : Waiting, link : Nat]

(* What this proof needs of the types.                                     *)
LinkTypes ==
  /\ requests \in Seq(Asks) /\ links \in Nat
  /\ phase \in Waiting \cup {"idle", "pause"} /\ alive \in BOOLEAN

OnlyVersions(queue) == \A i \in DOMAIN queue : queue[i].what = "version"

(* A key read waits behind whatever version requests a retry left, alone   *)
(* and last; a device that is gone has none.                               *)
Queued ==
  /\ phase = "idle" => ~alive
  /\ phase # "idle" /\ ~alive => requests = <<>>
  /\ phase \in {"version", "pause"} => OnlyVersions(requests)
  /\ phase \in {"last", "held"} =>
       \A i \in DOMAIN requests :
         requests[i].what # "version" => i = Len(requests) /\ requests[i] = Request(phase, links)

IInv == LinkTypes /\ Queued /\ OwnAddresses

-----------------------------------------------------------------------------
(* A queue with nothing in it.                                             *)
LEMMA EmptyQueue == <<>> \in Seq(Asks) /\ OnlyVersions(<<>>) /\ \A i \in DOMAIN <<>> : FALSE
  BY DEF OnlyVersions

(* The first request answered or lost leaves the others in their order.    *)
LEMMA TailFacts ==
  ASSUME NEW q \in Seq(Asks), q # <<>>
  PROVE  /\ Tail(q) \in Seq(Asks) /\ Head(q) \in Asks /\ Head(q) = q[1]
         /\ 1 \in DOMAIN q /\ Len(q) \in Nat
         /\ Len(q) = 1 => Tail(q) = <<>>
         /\ Len(Tail(q)) = Len(q) - 1
         /\ \A i \in DOMAIN Tail(q) : i \in Nat /\ i + 1 \in DOMAIN q /\ Tail(q)[i] = q[i + 1]
<1>1. Len(q) \in Nat /\ Len(q) >= 1 /\ DOMAIN q = 1..Len(q)
  OBVIOUS
<1>2. Tail(q) \in Seq(Asks) /\ Len(Tail(q)) = Len(q) - 1 /\ DOMAIN Tail(q) = 1..(Len(q) - 1)
  BY <1>1
<1>3. \A i \in 1..(Len(q) - 1) : Tail(q)[i] = q[i + 1]
  BY <1>1
<1> QED BY <1>1, <1>2, <1>3

(* A request sent joins the queue at its end.                              *)
LEMMA AppendFacts ==
  ASSUME NEW q \in Seq(Asks), NEW x \in Asks
  PROVE  /\ Append(q, x) \in Seq(Asks) /\ Len(Append(q, x)) = Len(q) + 1 /\ Len(q) \in Nat
         /\ DOMAIN Append(q, x) = 1..(Len(q) + 1)
         /\ \A i \in DOMAIN Append(q, x) :
              \/ i \in DOMAIN q /\ Append(q, x)[i] = q[i]
              \/ i = Len(q) + 1 /\ Append(q, x)[i] = x
  OBVIOUS

(* A key read sent after nothing but version requests is the last of the   *)
(* queue and the one key read in it.                                       *)
LEMMA SentAlone ==
  ASSUME NEW q \in Seq(Asks), OnlyVersions(q), NEW what \in Waiting, links \in Nat
  PROVE  LET s == Append(q, Request(what, links)) IN
         /\ s \in Seq(Asks)
         /\ what = "version" => OnlyVersions(s)
         /\ \A i \in DOMAIN s : s[i].what # "version" => i = Len(s) /\ s[i] = Request(what, links)
<1>1. Request(what, links) \in Asks /\ Request(what, links).what = what
  BY DEF Request, Asks
<1> QED BY <1>1, AppendFacts DEF OnlyVersions

(* The page lets go.                                                       *)
LEMMA EndedKeeps ==
  ASSUME IInv, Ended, requests' \in Seq(Asks), links' = links
  PROVE  IInv'
  BY DEF IInv, LinkTypes, Queued, OwnAddresses, Ended, Waiting

(* What happens at the remote alone.                                       *)
LEMMA SameLink ==
  ASSUME IInv, UNCHANGED <<requests, phase, alive, copyRead, heldRead, links>>
  PROVE  IInv'
  BY DEF IInv, LinkTypes, Queued, OnlyVersions, OwnAddresses

(* A request taken off the queue in the phase it stays in.                 *)
LEMMA TakenKeeps ==
  ASSUME IInv, requests # <<>>, requests' = Tail(requests),
         UNCHANGED <<phase, alive, copyRead, heldRead, links>>
  PROVE  IInv'
<1>1. LinkTypes'
  BY TailFacts DEF IInv, LinkTypes
<1>2. Queued'
  BY TailFacts DEF IInv, LinkTypes, Queued, OnlyVersions
<1> QED BY <1>1, <1>2 DEF IInv, OwnAddresses

-----------------------------------------------------------------------------
(* Every step keeps the invariant.                                         *)

(* A link starts on an empty queue, the remote having been plugged in anew.*)
LEMMA ConnectKeeps == ASSUME Replugs, IInv, Connect PROVE IInv'
<1>1. requests = <<>> /\ links \in Nat /\ links' = links + 1
  BY DEF IInv, LinkTypes, Connect
<1>2. requests' = Append(<<>>, Request("version", links'))
  BY <1>1 DEF Connect
<1>3. Request("version", links') \in Asks /\ Request("version", links').what = "version"
  BY <1>1 DEF Request, Asks, Waiting
<1>4. requests' \in Seq(Asks) /\ OnlyVersions(requests')
  BY <1>2, <1>3 DEF OnlyVersions
<1> QED BY <1>1, <1>4 DEF IInv, LinkTypes, Queued, OwnAddresses, Connect, Waiting

(* An unplugged remote forgets its requests.                               *)
LEMMA UnplugKeeps == ASSUME IInv, Unplug PROVE IInv'
<1>1. /\ requests' = <<>> /\ alive' = FALSE /\ phase' = phase /\ links' = links
      /\ copyRead' = copyRead /\ heldRead' = heldRead
  BY DEF Unplug, reads
<1>2. LinkTypes'
  BY <1>1, EmptyQueue DEF IInv, LinkTypes
<1>3. Queued'
  BY <1>1, EmptyQueue DEF Queued
<1> QED BY <1>1, <1>2, <1>3 DEF IInv, OwnAddresses

(* The first key read goes out behind the version requests left.           *)
LEMMA OpenKeeps == ASSUME IInv, Open PROVE IInv'
<1>1. /\ requests \in Seq(Asks) /\ requests # <<>> /\ OnlyVersions(requests) /\ links \in Nat
      /\ alive
  BY DEF IInv, LinkTypes, Queued, Open, Answered
<1>2. Tail(requests) \in Seq(Asks) /\ OnlyVersions(Tail(requests))
  BY <1>1, TailFacts DEF OnlyVersions
<1>3. "last" \in Waiting
  BY DEF Waiting
<1>4. /\ requests' = Append(Tail(requests), Request("last", links))
      /\ phase' = "last" /\ alive' = alive /\ links' = links
  BY DEF Open
<1>5. /\ requests' \in Seq(Asks)
      /\ \A i \in DOMAIN requests' :
           requests'[i].what # "version" => i = Len(requests') /\ requests'[i] = Request("last", links)
  BY <1>1, <1>2, <1>3, <1>4, SentAlone
<1> QED BY <1>1, <1>4, <1>5 DEF IInv, LinkTypes, Queued, OwnAddresses, Waiting

(* A version request sent again.                                           *)
LEMMA AskAgainKeeps == ASSUME IInv, AskAgain PROVE IInv'
<1>1. /\ requests \in Seq(Asks) /\ OnlyVersions(requests) /\ links \in Nat
      /\ phase = "version" /\ phase' = phase /\ alive' = alive /\ links' = links
      /\ UNCHANGED reads
  BY DEF IInv, LinkTypes, Queued, AskAgain
<1>2. "version" \in Waiting
  BY DEF Waiting
<1>3. /\ requests' \in Seq(Asks) /\ OnlyVersions(requests')
      /\ ~alive => requests' = requests
  BY <1>1, <1>2, SentAlone DEF AskAgain, Sent
<1> QED BY <1>1, <1>3 DEF IInv, LinkTypes, Queued, OwnAddresses

(* A key answer that can be used is the only key read in the queue, so it  *)
(* is this read's own and leaves the queue empty behind it.                *)
LEMMA AnsweredKeyRead ==
  ASSUME IInv, phase \in {"last", "held"}, Answered, Usable
  PROVE  /\ Head(requests) = Request(phase, links)
         /\ Tail(requests) = <<>> /\ alive
<1>1. requests \in Seq(Asks) /\ requests # <<>>
  BY DEF IInv, LinkTypes, Answered
<1>2. 1 \in DOMAIN requests /\ requests[1].what # "version"
  BY <1>1, TailFacts DEF Usable
<1>3. Len(requests) = 1 /\ requests[1] = Request(phase, links)
  BY <1>2 DEF IInv, Queued
<1>4. alive
  BY <1>1 DEF IInv, LinkTypes, Queued
<1> QED BY <1>1, <1>3, <1>4, TailFacts

(* The copy is taken from the first read, and the second goes out.        *)
LEMMA TakeLastKeeps == ASSUME IInv, TakeLast PROVE IInv'
<1>1. /\ Head(requests) = Request("last", links) /\ Tail(requests) = <<>> /\ alive
      /\ links \in Nat
  BY AnsweredKeyRead DEF TakeLast, IInv, LinkTypes
<1>2. <<>> \in Seq(Asks) /\ OnlyVersions(<<>>) /\ "held" \in Waiting
  BY DEF OnlyVersions, Waiting
<1>3. requests' = Append(<<>>, Request("held", links))
  BY <1>1 DEF TakeLast, Sent
<1>4. copyRead'.what = "last" /\ copyRead'.link = links
  BY <1>1 DEF TakeLast, Reading, Request
<1>5. phase' = "held" /\ alive' = alive /\ links' = links
  BY DEF TakeLast
<1> QED BY <1>1, <1>2, <1>3, <1>4, <1>5, SentAlone DEF IInv, LinkTypes, Queued, OwnAddresses

(* The held byte is taken from the second, and nothing is left asked.     *)
LEMMA TakeHeldKeeps == ASSUME IInv, TakeHeld PROVE IInv'
<1>1. /\ Head(requests) = Request("held", links) /\ Tail(requests) = <<>> /\ alive
      /\ links \in Nat
  BY AnsweredKeyRead DEF TakeHeld, IInv, LinkTypes
<1>2. copyRead.what = "last" /\ copyRead.link = links
  BY DEF IInv, OwnAddresses, TakeHeld
<1>3. /\ phase' = "pause" /\ requests' = <<>> /\ alive' = alive /\ links' = links
      /\ copyRead' = Forgotten(copyRead) /\ heldRead' = Forgotten(Reading(Head(requests)))
  BY <1>1 DEF TakeHeld
<1>4. copyRead'.what = "last" /\ copyRead'.link = links
  BY <1>2, <1>3 DEF Forgotten
<1>5. heldRead'.what = "held" /\ heldRead'.link = links
  BY <1>1, <1>3 DEF Forgotten, Reading, Request
<1>6. requests' \in Seq(Asks) /\ OnlyVersions(requests')
  BY <1>3 DEF OnlyVersions
<1> QED BY <1>1, <1>3, <1>4, <1>5, <1>6 DEF IInv, LinkTypes, Queued, OwnAddresses

(* The next poll's first read.                                             *)
LEMMA PollAgainKeeps == ASSUME IInv, PollAgain PROVE IInv'
<1>1. /\ requests \in Seq(Asks) /\ OnlyVersions(requests) /\ links \in Nat
      /\ phase' = "last" /\ alive' = alive /\ links' = links
  BY DEF IInv, LinkTypes, Queued, PollAgain
<1>2. "last" \in Waiting
  BY DEF Waiting
<1>3. CASE alive
  <2>1. requests' = Append(requests, Request("last", links))
    BY <1>3 DEF PollAgain, Sent
  <2>2. /\ requests' \in Seq(Asks)
        /\ \A i \in DOMAIN requests' :
             requests'[i].what # "version" => i = Len(requests') /\ requests'[i] = Request("last", links)
    BY <1>1, <1>2, <2>1, SentAlone
  <2> QED BY <1>1, <1>3, <2>2 DEF IInv, LinkTypes, Queued, OwnAddresses, Waiting
<1>4. CASE ~alive
  <2>1. requests' = <<>>
    BY <1>4 DEF IInv, Queued, PollAgain, Sent
  <2> QED BY <1>1, <1>4, <2>1, EmptyQueue DEF IInv, LinkTypes, Queued, OwnAddresses, Waiting
<1> QED BY <1>3, <1>4 DEF IInv, LinkTypes

(* Every step, where the person unplugs a silent remote.                  *)
LEMMA StepKeeps == ASSUME Replugs, IInv, [Next]_vars PROVE IInv'
<1>1. CASE UNCHANGED vars
  BY <1>1, SameLink DEF vars, reads
<1>2. CASE Person
  BY <1>2, SameLink, ConnectKeeps, UnplugKeeps DEF Person, Plug, Press, LetKeyGo, Stop, reads
<1>3. CASE LoseRequest
  BY <1>3, TakenKeeps DEF LoseRequest, reads
<1>4. CASE Drop
  BY <1>4, TakenKeeps DEF Drop, Answered, reads
<1>5. CASE Refuse \/ EndUnanswered \/ SendFails \/ PollEnds
  <2>1. requests \in Seq(Asks) /\ (requests # <<>> => Tail(requests) \in Seq(Asks))
    BY TailFacts DEF IInv, LinkTypes
  <2> QED BY <1>5, <2>1, EndedKeeps DEF Refuse, EndUnanswered, SendFails, PollEnds, Answered
<1> QED BY <1>1, <1>2, <1>3, <1>4, <1>5, OpenKeeps, AskAgainKeeps, TakeLastKeeps, TakeHeldKeeps,
           PollAgainKeeps DEF Next, Page

(* Nothing is asked at the start.                                         *)
LEMMA InitKeeps == Init => IInv
<1> SUFFICES ASSUME Init PROVE IInv
  OBVIOUS
<1>1. requests = <<>> /\ phase = "idle" /\ alive = FALSE /\ links = 0
  BY DEF Init
<1>2. LinkTypes
  BY <1>1, EmptyQueue DEF LinkTypes
<1> QED BY <1>1, <1>2 DEF IInv, Queued, OwnAddresses

-----------------------------------------------------------------------------
(* The presses told to the page.  What is to be told is made since: a code *)
(* that the tracker would take for a new press comes from one later than   *)
(* the last it reported, and one later than the watch's beginning.         *)

(* The last press reported, or what was pressed before the watch began.    *)
Latest == Watch!Latest

(* A code the tracker would take for a new one comes from a press made     *)
(* since the last it reported.                                             *)
CopyIsNew(byte) ==
  Watching(tracker) =>
    byte.code \in {NoKey, tracker.last, tracker.awaiting} \/ byte.press > Latest
HeldIsNew ==
  Watching(tracker) => held.code \in {NoKey, tracker.held} \/ held.press > Latest

(* Between the two reads of a poll the copy only moves on.                 *)
CopyReadInv ==
  /\ CopyIsNew(copyRead.byte)
  /\ reported # <<>> => Latest <= copyRead.byte.press
  /\ copyRead.byte = copy \/ (copy.press > from /\ copy.press > copyRead.byte.press)

TellInv ==
  /\ held \in {NoByte, copy} /\ copy.press <= made
  /\ alive => unit # NoRemote
  /\ phase # "idle" => links > 0
  /\ ~Going => reported = <<>> /\ from = 0 /\ tracker = NewTracker
  /\ from <= made /\ from <= Latest
  /\ ~Watching(tracker) => reported = <<>>
  /\ Going /\ alive =>
       /\ CopyIsNew(copy) /\ HeldIsNew
       /\ reported # <<>> => Latest <= copy.press
       /\ phase = "held" => CopyReadInv

ToldInv == TypeOK /\ TellInv

LEMMA PairIn == ASSUME NEW S, NEW i \in S, NEW j \in S PROVE <<i, j>> \in Seq(S)
  OBVIOUS

LEMMA LastOfSeq ==
  ASSUME NEW S, NEW s \in Seq(S), s # <<>> PROVE s[Len(s)] \in S
<1>1. Len(s) \in Nat \ {0}
  BY EmptySeq
<1> QED BY <1>1, ElementOfSeq

(* The types a press is told by.                                           *)
LEMMA ToldTypes ==
  ASSUME TypeOK
  PROVE  /\ held.press \in 0..MaxPresses /\ copy.press \in 0..MaxPresses /\ MaxPresses \in Nat
         /\ copyRead.byte \in Bytes /\ copyRead.byte.press \in 0..MaxPresses
         /\ held.code \in Codes \cup {NoKey} /\ copy.code \in Codes \cup {NoKey}
         /\ copyRead.byte.code \in Codes \cup {NoKey}
         /\ made \in 0..MaxPresses /\ from \in 0..MaxPresses /\ links \in 0..MaxLinks
         /\ MaxLinks \in Nat
         /\ reported \in Seq(1..MaxPresses) /\ Latest \in 0..MaxPresses
         /\ reported = <<>> => Latest = from
         /\ reported # <<>> => Latest = reported[Len(reported)]
<1>1. NoByte \in Bytes
  BY BoundsAssumption DEF NoByte, Byte, Bytes
<1>2. copyRead.byte \in Bytes
  BY <1>1 DEF TypeOK, Answers, NoAnswer
<1>3. reported # <<>> => reported[Len(reported)] \in 1..MaxPresses
  <2>1. reported \in Seq(1..MaxPresses)
    BY DEF TypeOK
  <2> QED BY <2>1, LastOfSeq
<1>4. /\ reported = <<>> => Latest = from
      /\ reported # <<>> => Latest = reported[Len(reported)]
  BY DEF Latest, Watch!Latest
<1>5. Latest \in 0..MaxPresses
  BY <1>3, <1>4 DEF TypeOK
<1> QED BY <1>2, <1>4, <1>5, BoundsAssumption DEF TypeOK, Bytes

(* What does not touch the presses told leaves the last of them.           *)
LEMMA SameLatest == ASSUME UNCHANGED <<reported, from>> PROVE Latest' = Latest
  BY DEF Latest, Watch!Latest

LEMMA ReportedNumbers == ASSUME TypeOK PROVE reported \in Seq(Nat)
<1>1. reported \in Seq(1..MaxPresses) /\ 1..MaxPresses \subseteq Nat
  BY BoundsAssumption DEF TypeOK
<1> QED BY <1>1, SeqMonotonic

(* Reporting moves the last press on.                                      *)
LEMMA LatestMoves ==
  ASSUME NEW s \in Seq(Nat), NEW i \in Nat, NEW j \in Nat
  PROVE  /\ Append(s, i) # <<>> /\ Append(s, i)[Len(Append(s, i))] = i
         /\ s \o <<i, j>> # <<>> /\ (s \o <<i, j>>)[Len(s \o <<i, j>>)] = j
<1>1. /\ Len(s) \in Nat /\ Len(Append(s, i)) = Len(s) + 1 /\ Append(s, i)[Len(s) + 1] = i
  OBVIOUS
<1>2. <<i, j>> \in Seq(Nat) /\ Len(<<i, j>>) = 2 /\ <<i, j>>[2] = j
  OBVIOUS
<1>3. /\ Len(s \o <<i, j>>) = Len(s) + 2 /\ (s \o <<i, j>>)[Len(s) + 2] = j
  BY <1>1, <1>2
<1> QED BY <1>1, <1>3

(* The page lets go, or nothing of the watch changes.                      *)
LEMMA ToldEnded ==
  ASSUME ToldInv, Ended, UNCHANGED <<cable, links>>, requests' \in Seq(Requests),
         faults' \in 0..MaxFaults
  PROVE  ToldInv'
<1>1. /\ phase' = "idle" /\ attempt' = 0 /\ alive' = FALSE /\ running' = FALSE
      /\ tracker' = NewTracker /\ copyRead' = NoAnswer /\ heldRead' = NoAnswer
      /\ reported' = <<>> /\ from' = 0 /\ passed' = 0 /\ UNCHANGED <<unit, held, copy, made, links>>
  BY DEF Ended, cable
<1>2. TypeOK'
  <2>0. alive' \in BOOLEAN /\ running' \in BOOLEAN
    BY <1>1, Zenon
  <2>1. phase' \in Waiting \cup {"idle", "pause"} /\ attempt' \in 0..VERSION_ATTEMPTS
    BY <1>1, BoundsAssumption
  <2>2. tracker' \in [held : Codes \cup {NoKey, Undefined}, last : Codes \cup {NoKey, Undefined},
                      awaiting : Codes \cup {Undefined}]
    BY <1>1 DEF NewTracker
  <2>3. copyRead' \in Answers /\ heldRead' \in Answers
    BY <1>1 DEF Answers
  <2>4. reported' \in Seq(1..MaxPresses) /\ from' \in 0..MaxPresses /\ passed' \in 0..MaxPresses
    <3>1. <<>> \in Seq(1..MaxPresses)
      BY EmptySeq
    <3>2. 0 \in 0..MaxPresses
      BY BoundsAssumption
    <3> QED BY <1>1, <3>1, <3>2
  <2> QED BY <1>1, <2>0, <2>1, <2>2, <2>3, <2>4 DEF ToldInv, TypeOK
<1>3. Latest' = 0
  BY <1>1 DEF Latest, Watch!Latest
<1>4. TellInv'
  BY <1>1, <1>3, ToldTypes, BoundsAssumption DEF ToldInv, TellInv, Going
<1> QED BY <1>2, <1>4 DEF ToldInv

(* A step of the link that leaves what is read and told alone.             *)
LEMMA ToldKeeps ==
  ASSUME ToldInv, UNCHANGED <<cable, phase, copyRead, tracker, reported, from, links>>,
         alive' => alive, TypeOK'
  PROVE  ToldInv'
<1>1. Latest' = Latest
  BY SameLatest
<1>2. TellInv'
  BY <1>1 DEF ToldInv, TellInv, CopyReadInv, CopyIsNew, HeldIsNew, Going, cable
<1> QED BY <1>2 DEF ToldInv

(* The queue of requests, as a step leaves it.                             *)
LEMMA QueueTypes ==
  ASSUME ToldInv
  PROVE  /\ requests \in Seq(Requests)
         /\ requests # <<>> => Tail(requests) \in Seq(Requests)
         /\ \A q \in Seq(Requests), what \in Waiting : phase # "idle" =>
              Append(q, Request(what, links)) \in Seq(Requests) /\ Sent(q, what) \in Seq(Requests)
<1>1. requests \in Seq(Requests) /\ (requests # <<>> => Tail(requests) \in Seq(Requests))
  BY DEF ToldInv, TypeOK
<1>2. ASSUME NEW what \in Waiting, phase # "idle" PROVE Request(what, links) \in Requests
  BY <1>2, ToldTypes DEF ToldInv, TellInv, Request, Requests
<1>3. ASSUME NEW q \in Seq(Requests), NEW what \in Waiting, phase # "idle"
      PROVE  Append(q, Request(what, links)) \in Seq(Requests) /\ Sent(q, what) \in Seq(Requests)
  <2>1. Request(what, links) \in Requests
    BY <1>2, <1>3
  <2>2. Append(q, Request(what, links)) \in Seq(Requests)
    BY <2>1
  <2> QED BY <2>2 DEF Sent
<1> QED BY <1>1, <1>3

(* What the abstract watch does in a step.                                 *)
Matched == [Watch!Next]_(Watch!vars)

LEMMA NothingTold ==
  ASSUME UNCHANGED <<made, reported, from>>, Going' <=> Going
  PROVE  Matched
<1>1. Going' = Going
  BY DEF Going
<1> QED BY <1>1 DEF Matched, Watch!vars

LEMMA WatchEnds ==
  ASSUME ToldInv, Ended, UNCHANGED made
  PROVE  Matched
<1>1. ~Going' /\ reported' = <<>> /\ from' = 0 /\ made' = made
  BY DEF Ended, Going
<1>2. CASE Going
  BY <1>1, <1>2 DEF Matched, Watch!Next, Watch!End
<1>3. CASE ~Going
  BY <1>1, <1>3, NothingTold DEF ToldInv, TellInv
<1> QED BY <1>2, <1>3

(* The person.                                                             *)
LEMMA PlugTold ==
  ASSUME ToldInv, NEW r \in Remotes, NEW code \in Codes \cup {NoKey}, Plug(r, code)
  PROVE  ToldInv' /\ Matched
<1>1. /\ unit = NoRemote /\ unit' = r /\ held' = NoByte /\ copy' = Byte(code, 0)
      /\ UNCHANGED <<made, requests, phase, attempt, alive, running, tracker, copyRead, heldRead,
                     reported, from, passed, links, faults>>
  BY DEF Plug, reads, told
<1>2. Byte(code, 0) \in Bytes /\ NoByte \in Bytes /\ Byte(code, 0).press = 0
  BY BoundsAssumption DEF Byte, NoByte, Bytes
<1>3. TypeOK'
  BY <1>1, <1>2 DEF ToldInv, TypeOK
<1>4. ~alive
  BY <1>1 DEF ToldInv, TellInv
<1>5. TellInv'
  <2>1. Latest' = Latest /\ Going' = Going
    BY <1>1, SameLatest DEF Going
  <2>2. copy'.press <= made'
    BY <1>1, <1>2, ToldTypes DEF ToldInv
  <2> QED BY <1>1, <1>4, <2>1, <2>2 DEF ToldInv, TellInv
<1> QED BY <1>1, <1>3, <1>5, NothingTold DEF ToldInv, Going

LEMMA UnplugTold == ASSUME ToldInv, Unplug PROVE ToldInv' /\ Matched
<1>1. /\ unit' = NoRemote /\ held' = NoByte /\ copy' = NoByte /\ requests' = <<>> /\ alive' = FALSE
      /\ UNCHANGED <<made, phase, attempt, running, tracker, copyRead, heldRead,
                     reported, from, passed, links, faults>>
  BY DEF Unplug, reads, told
<1>2. NoByte \in Bytes /\ NoByte.press = 0
  BY BoundsAssumption DEF Byte, NoByte, Bytes
<1>3. TypeOK'
  <2>1. requests' \in Seq(Requests)
    BY <1>1, EmptySeq
  <2>2. alive' \in BOOLEAN
    BY <1>1, Zenon
  <2> QED BY <1>1, <1>2, <2>1, <2>2 DEF ToldInv, TypeOK
<1>4. TellInv'
  <2>1. Latest' = Latest /\ Going' = Going
    BY <1>1, SameLatest DEF Going
  <2>2. copy'.press <= made'
    BY <1>1, <1>2, ToldTypes DEF ToldInv
  <2> QED BY <1>1, <2>1, <2>2 DEF ToldInv, TellInv
<1> QED BY <1>1, <1>3, <1>4, NothingTold DEF ToldInv, Going

(* A press is later than any reported, and moves the copy on.              *)
LEMMA PressTold ==
  ASSUME ToldInv, NEW code \in Codes, Press(code) PROVE ToldInv' /\ Matched
<1>1. /\ made < MaxPresses /\ made' = made + 1 /\ held' = Byte(code, made') /\ copy' = held'
      /\ UNCHANGED <<unit, requests, phase, attempt, alive, running, tracker, copyRead, heldRead,
                     reported, from, passed, links, faults>>
  BY DEF Press, reads, told
<1>2. TypeOK /\ TellInv
  BY DEF ToldInv
<1>3. copy'.press = made + 1 /\ held' = copy' /\ held'.press = made + 1 /\ copy' \in Bytes
  BY <1>1, <1>2, ToldTypes DEF Byte, Bytes
<1>4. made' \in 0..MaxPresses
  BY <1>1, <1>2, ToldTypes
<1>5. TypeOK'
  BY <1>1, <1>2, <1>3, <1>4 DEF TypeOK
<1>6. Latest' = Latest /\ Going' = Going
  BY <1>1, SameLatest DEF Going
<1>7. ASSUME Going, alive
      PROVE  Latest <= made /\ from <= made /\ copy.press <= made
  <2>1. reported = <<>> => Latest = from
    BY <1>2, ToldTypes
  <2> QED BY <1>2, <1>7, <2>1, ToldTypes DEF TellInv
<1>8. ASSUME Going, alive, phase = "held" PROVE CopyReadInv'
  <2>1. CopyReadInv
    BY <1>2, <1>8 DEF TellInv
  <2>2. copyRead.byte.press <= made
    <3>1. copyRead.byte.press <= copy.press
      BY <1>2, <2>1, ToldTypes DEF CopyReadInv
    <3> QED BY <1>2, <1>7, <1>8, <3>1, ToldTypes
  <2> QED BY <1>1, <1>2, <1>3, <1>6, <1>7, <1>8, <2>1, <2>2, ToldTypes DEF CopyReadInv, CopyIsNew
<1>9. ASSUME Going, alive
      PROVE  CopyIsNew(copy)' /\ HeldIsNew' /\ (reported' # <<>> => Latest' <= copy'.press)
  <2>1. copy'.press > Latest' /\ held'.press > Latest'
    BY <1>2, <1>3, <1>6, <1>7, <1>9, ToldTypes
  <2>2. CopyIsNew(copy)' /\ HeldIsNew'
    BY <2>1 DEF CopyIsNew, HeldIsNew
  <2>3. Latest' <= copy'.press
    BY <1>2, <1>3, <1>6, <2>1, ToldTypes
  <2> QED BY <2>2, <2>3
<1>10. TellInv'
  <2>1. copy'.press <= made' /\ from' <= made'
    BY <1>1, <1>2, <1>3, ToldTypes DEF TellInv
  <2> QED BY <1>1, <1>2, <1>3, <1>6, <1>8, <1>9, <2>1 DEF TellInv
<1>11. Matched
  BY <1>1, <1>6 DEF Matched, Watch!Next, Watch!Press
<1> QED BY <1>5, <1>10, <1>11 DEF ToldInv

LEMMA LetKeyGoTold == ASSUME ToldInv, LetKeyGo PROVE ToldInv' /\ Matched
<1>1. /\ held' = NoByte
      /\ UNCHANGED <<unit, copy, made, requests, phase, attempt, alive, running, tracker, copyRead,
                     heldRead, reported, from, passed, links, faults>>
  BY DEF LetKeyGo, reads, told
<1>2. NoByte \in Bytes /\ NoByte.code = NoKey
  BY BoundsAssumption DEF Byte, NoByte, Bytes
<1>3. TypeOK'
  BY <1>1, <1>2 DEF ToldInv, TypeOK
<1>4. Latest' = Latest /\ Going' = Going
  BY <1>1, SameLatest DEF Going
<1>5. HeldIsNew'
  BY <1>1, <1>2 DEF HeldIsNew
<1>6. TellInv'
  BY <1>1, <1>4, <1>5 DEF ToldInv, TellInv, CopyReadInv, CopyIsNew
<1> QED BY <1>1, <1>3, <1>4, <1>6, NothingTold DEF ToldInv

(* A link is opened while nothing is watched, and starts to watch when the *)
(* version has been answered.                                              *)
LEMMA ConnectTold == ASSUME ToldInv, Connect PROVE ToldInv' /\ Matched
<1>1. /\ phase = "idle" /\ unit # NoRemote /\ links < MaxLinks /\ links' = links + 1
      /\ phase' = "version" /\ attempt' = 1 /\ alive' = TRUE
      /\ requests' = Append(requests, Request("version", links'))
      /\ UNCHANGED <<unit, held, copy, made, running, tracker, copyRead, heldRead,
                     reported, from, passed, faults>>
  BY DEF Connect, cable, reads, told
<1>2. links' \in 1..MaxLinks
  BY <1>1, ToldTypes DEF ToldInv
<1>3. requests' \in Seq(Requests)
  <2>1. Request("version", links') \in Requests
    BY <1>2 DEF Request, Requests, Waiting
  <2>2. requests \in Seq(Requests)
    BY DEF ToldInv, TypeOK
  <2> QED BY <1>1, <2>1, <2>2
<1>4. TypeOK'
  <2>1. alive' \in BOOLEAN
    BY <1>1, Zenon
  <2>2. attempt' \in 0..VERSION_ATTEMPTS /\ links' \in 0..MaxLinks /\ phase' \in Waiting \cup {"idle", "pause"}
    BY <1>1, <1>2, BoundsAssumption DEF Waiting
  <2> QED BY <1>1, <1>3, <2>1, <2>2 DEF ToldInv, TypeOK
<1>5. ~Going /\ ~Going' /\ Latest' = Latest
  BY <1>1, SameLatest DEF Going
<1>6. TellInv'
  BY <1>1, <1>2, <1>5, ToldTypes DEF ToldInv, TellInv
<1> QED BY <1>1, <1>4, <1>5, <1>6, NothingTold DEF ToldInv

LEMMA OpenTold == ASSUME ToldInv, Open PROVE ToldInv' /\ Matched
<1>1. /\ phase = "version" /\ requests # <<>> /\ phase' = "last" /\ running' = TRUE
      /\ requests' = Append(Tail(requests), Request("last", links)) /\ from' = made
      /\ UNCHANGED <<unit, held, copy, made, attempt, alive, tracker, copyRead, heldRead,
                     reported, passed, links, faults>>
  BY DEF Open, Answered, cable, reads
<1>2. requests' \in Seq(Requests)
  <2>1. "last" \in Waiting
    BY DEF Waiting
  <2> QED BY <1>1, <2>1, QueueTypes
<1>3. TypeOK'
  <2>1. running' \in BOOLEAN
    BY <1>1, Zenon
  <2>2. from' \in 0..MaxPresses /\ phase' \in Waiting \cup {"idle", "pause"}
    BY <1>1 DEF ToldInv, TypeOK, Waiting
  <2> QED BY <1>1, <1>2, <2>1, <2>2 DEF ToldInv, TypeOK
<1>4. ~Going /\ reported = <<>> /\ tracker = NewTracker
  BY <1>1 DEF ToldInv, TellInv, Going
<1>5. Latest' = made' /\ Going' /\ ~Watching(tracker')
  BY <1>1, <1>4 DEF Latest, Watch!Latest, Going, Watching, NewTracker
<1>6. TellInv'
  BY <1>1, <1>4, <1>5, ToldTypes DEF ToldInv, TellInv, CopyIsNew, HeldIsNew
<1>7. Matched
  BY <1>1, <1>4, <1>5 DEF Matched, Watch!Next, Watch!Begin
<1> QED BY <1>3, <1>6, <1>7 DEF ToldInv

LEMMA TakeLastTold == ASSUME IInv, ToldInv, TakeLast PROVE ToldInv' /\ Matched
<1>1. /\ phase = "last" /\ phase' = "held" /\ copyRead' = Reading(Head(requests))
      /\ requests' = Sent(Tail(requests), "held") /\ requests # <<>>
      /\ UNCHANGED <<unit, held, copy, made, attempt, alive, running, tracker, heldRead,
                     reported, from, passed, links, faults>>
  BY DEF TakeLast, Answered, cable, told
<1>2. Head(requests) = Request("last", links) /\ alive
  BY AnsweredKeyRead DEF TakeLast
<1>3. copyRead' = [what |-> "last", link |-> links, byte |-> copy]
  BY <1>1, <1>2 DEF Reading, Request
<1>4. Going /\ Going' /\ Latest' = Latest
  BY <1>1, SameLatest DEF Going
<1>5. TypeOK'
  <2>1. requests' \in Seq(Requests)
    BY <1>1, QueueTypes DEF Waiting
  <2>2. copyRead' \in Answers
    <3>1. links \in 1..MaxLinks /\ copy \in Bytes
      BY <1>1, ToldTypes DEF ToldInv, TellInv, TypeOK
    <3> QED BY <1>3, <3>1 DEF Answers
  <2> QED BY <1>1, <2>1, <2>2 DEF ToldInv, TypeOK, Waiting
<1>6. CopyReadInv'
  <2>1. CopyIsNew(copy) /\ (reported # <<>> => Latest <= copy.press)
    BY <1>2, <1>4 DEF ToldInv, TellInv
  <2> QED BY <1>1, <1>3, <1>4, <2>1 DEF CopyReadInv, CopyIsNew
<1>7. TellInv'
  BY <1>1, <1>2, <1>4, <1>6 DEF ToldInv, TellInv, CopyIsNew, HeldIsNew
<1> QED BY <1>1, <1>4, <1>5, <1>7, NothingTold DEF ToldInv

(* What a poll shows: at most a press by the copy and a later one by the   *)
(* held byte, each made since the last reported.                           *)
PressByCopy == PressedBetween(tracker, held.code, copyRead.byte.code)
PressByHeld == HeldNow(tracker, held.code)

LEMMA PollShows ==
  ASSUME IInv, ToldInv, TakeHeld
  PROVE  /\ alive /\ Going /\ CopyReadInv /\ CopyIsNew(copy) /\ HeldIsNew
         /\ tracker' = Update(tracker, held.code, copyRead.byte.code)
         /\ requests' = <<>> /\ heldRead' = [what |-> "held", link |-> links, byte |-> NoByte]
         /\ PressByCopy => copyRead.byte.press \in Latest + 1..made
         /\ PressByHeld => held = copy /\ held.press \in Latest + 1..made
         /\ PressByCopy /\ PressByHeld => copyRead.byte.press < held.press
         /\ reported' =
              IF PressByCopy
              THEN IF PressByHeld THEN reported \o <<copyRead.byte.press, held.press>>
                                  ELSE Append(reported, copyRead.byte.press)
              ELSE IF PressByHeld THEN Append(reported, held.press) ELSE reported
<1> DEFINE c == copyRead.byte
<1>1. /\ Head(requests) = Request("held", links) /\ Tail(requests) = <<>> /\ alive
      /\ phase = "held" /\ Going
  BY AnsweredKeyRead DEF TakeHeld, Going
<1>2. Reading(Head(requests)) = [what |-> "held", link |-> links, byte |-> held]
  BY <1>1 DEF Reading, Request
<1>3. /\ tracker' = Update(tracker, held.code, c.code) /\ requests' = <<>>
      /\ heldRead' = [what |-> "held", link |-> links, byte |-> NoByte]
      /\ reported' = reported \o ReportedBy(Reading(Head(requests)))
  BY <1>1, <1>2 DEF TakeHeld, Forgotten
<1>4. ReportedBy(Reading(Head(requests))) =
        (IF PressByCopy THEN <<c.press>> ELSE <<>>) \o (IF PressByHeld THEN <<held.press>> ELSE <<>>)
  BY <1>2 DEF ReportedBy, PressByCopy, PressByHeld
<1>5. CopyReadInv /\ CopyIsNew(copy) /\ HeldIsNew
  BY <1>1 DEF ToldInv, TellInv
<1>6. /\ c.press \in Nat /\ copy.press \in Nat /\ held.press \in Nat /\ made \in Nat /\ Latest \in Nat
      /\ reported \in Seq(Nat) /\ copy.press <= made /\ held \in {NoByte, copy}
      /\ NoByte.code = NoKey
  BY ReportedNumbers, ToldTypes DEF ToldInv, TellInv, NoByte, Byte
<1>7. PressByCopy => c.press \in Latest + 1..made
  <2>1. c.press <= copy.press
    BY <1>5, <1>6 DEF CopyReadInv
  <2>2. PressByCopy => c.press > Latest
    BY <1>5 DEF PressByCopy, PressedBetween, IsCopyOfAPress, CopyReadInv, CopyIsNew
  <2> QED BY <1>6, <2>1, <2>2
<1>8. PressByHeld => held = copy /\ held.press \in Latest + 1..made
  <2>1. PressByHeld => held = copy
    BY <1>6 DEF PressByHeld, HeldNow
  <2>2. PressByHeld => held.press > Latest
    BY <1>5 DEF PressByHeld, HeldNow, HeldIsNew
  <2> QED BY <1>6, <2>1, <2>2
<1>9. PressByCopy /\ PressByHeld => c.press < held.press
  <2>1. PressByCopy => c.code # held.code
    BY DEF PressByCopy, PressedBetween, IsCopyOfAPress
  <2> QED BY <1>5, <1>6, <1>8, <2>1 DEF CopyReadInv
<1>10. \A i, j \in Nat : /\ <<i>> \o <<j>> = <<i, j>> /\ <<i>> \o <<>> = <<i>> /\ <<>> \o <<j>> = <<j>>
                         /\ reported \o <<i>> = Append(reported, i)
  <2> TAKE i, j \in Nat
  <2>1. <<i>> \o <<j>> = <<i, j>> /\ <<i>> \o <<>> = <<i>> /\ <<>> \o <<j>> = <<j>>
    <3>1. <<i>> \in Seq(Nat) /\ <<j>> \in Seq(Nat)
      OBVIOUS
    <3>2. <<i>> \o <<j>> = <<i, j>>
      <4>1. <<i, j>> \in Seq(Nat) /\ Len(<<i, j>>) = 2 /\ <<i, j>>[1] = i /\ <<i, j>>[2] = j
        OBVIOUS
      <4>2. /\ <<i>> \o <<j>> \in Seq(Nat) /\ Len(<<i>> \o <<j>>) = 2
            /\ (<<i>> \o <<j>>)[1] = i /\ (<<i>> \o <<j>>)[2] = j
        BY <3>1, ConcatProperties
      <4>3. \A k \in 1..2 : k = 1 \/ k = 2
        OBVIOUS
      <4> QED BY <4>1, <4>2, <4>3, SeqEqual
    <3> QED BY <3>1, <3>2, ConcatEmptySeq
  <2>2. reported \o <<i>> = Append(reported, i)
    BY <1>6, AppendIsConcat
  <2> QED BY <2>1, <2>2
<1>11. <<>> \o <<>> = <<>> /\ reported \o <<>> = reported
  BY <1>6
<1> HIDE DEF c
<1>12. reported' =
         IF PressByCopy
         THEN IF PressByHeld THEN reported \o <<c.press, held.press>> ELSE Append(reported, c.press)
         ELSE IF PressByHeld THEN Append(reported, held.press) ELSE reported
  BY <1>3, <1>4, <1>6, <1>10, <1>11
<1> QED BY <1>1, <1>3, <1>5, <1>7, <1>8, <1>9, <1>12 DEF c

(* The last press reported is the held byte's, or else the copy's.         *)
LEMMA LatestAfterPoll ==
  ASSUME IInv, ToldInv, TakeHeld
  PROVE  /\ PressByHeld => reported' # <<>> /\ Latest' = held.press
         /\ PressByCopy /\ ~PressByHeld => reported' # <<>> /\ Latest' = copyRead.byte.press
         /\ ~PressByCopy /\ ~PressByHeld => reported' = reported /\ Latest' = Latest
<1>1. from' = from
  BY DEF TakeHeld
<1>2. copyRead.byte.press \in Nat /\ held.press \in Nat /\ reported \in Seq(Nat)
  BY ReportedNumbers, ToldTypes DEF ToldInv
<1>3. reported' # <<>> => Latest' = reported'[Len(reported')]
  BY DEF Latest, Watch!Latest
<1>4. CASE PressByHeld
  BY <1>2, <1>3, <1>4, PollShows, LatestMoves
<1>5. CASE PressByCopy /\ ~PressByHeld
  BY <1>2, <1>3, <1>5, PollShows, LatestMoves
<1>6. CASE ~PressByCopy /\ ~PressByHeld
  BY <1>1, <1>6, PollShows, SameLatest
<1> QED BY <1>4, <1>5, <1>6

(* What is read in a poll is told, and nothing of it twice.                *)
LEMMA TakeHeldTold == ASSUME IInv, ToldInv, TakeHeld PROVE ToldInv' /\ Matched
<1> DEFINE c == copyRead.byte
<1>1. /\ phase = "held" /\ phase' = "pause" /\ passed' = c.press /\ copyRead' = Forgotten(copyRead)
      /\ UNCHANGED <<unit, held, copy, made, attempt, alive, running, from, links, faults>>
  BY DEF TakeHeld, cable
<1>2. /\ alive /\ Going /\ CopyReadInv /\ tracker' = Update(tracker, held.code, c.code)
      /\ requests' = <<>> /\ heldRead' = [what |-> "held", link |-> links, byte |-> NoByte]
      /\ PressByCopy => c.press \in Latest + 1..made
      /\ PressByHeld => held = copy /\ held.press \in Latest + 1..made
      /\ PressByCopy /\ PressByHeld => c.press < held.press
      /\ reported' =
           IF PressByCopy
           THEN IF PressByHeld THEN reported \o <<c.press, held.press>> ELSE Append(reported, c.press)
           ELSE IF PressByHeld THEN Append(reported, held.press) ELSE reported
  BY PollShows
<1>3. /\ PressByHeld => reported' # <<>> /\ Latest' = held.press
      /\ PressByCopy /\ ~PressByHeld => reported' # <<>> /\ Latest' = c.press
      /\ ~PressByCopy /\ ~PressByHeld => reported' = reported /\ Latest' = Latest
  BY LatestAfterPoll
<1>4. /\ c.press \in 0..MaxPresses /\ held.press \in 0..MaxPresses /\ copy.press \in 0..MaxPresses
      /\ made \in 0..MaxPresses /\ from \in 0..MaxPresses /\ Latest \in 0..MaxPresses
      /\ held.code \in Codes \cup {NoKey} /\ c.code \in Codes \cup {NoKey}
      /\ MaxPresses \in Nat /\ reported \in Seq(1..MaxPresses)
      /\ reported = <<>> => Latest = from
  BY ToldTypes DEF ToldInv
<1>5. Going' /\ from' = from
  BY <1>1 DEF Going
<1>6. /\ tracker'.held = held.code /\ tracker'.last = c.code
      /\ PressByHeld => c.code = held.code \/ tracker'.awaiting = held.code
      /\ tracker' \in [held : Codes \cup {NoKey, Undefined}, last : Codes \cup {NoKey, Undefined},
                       awaiting : Codes \cup {Undefined}]
  <2>1. HeldNow(tracker, held.code) => held.code \in Codes
    BY <1>4 DEF HeldNow
  <2>2. tracker.awaiting \in Codes \cup {Undefined}
    BY DEF ToldInv, TypeOK
  <2> QED BY <1>2, <1>4, <2>1, <2>2 DEF Update, PressByHeld
<1> HIDE DEF c
<1>7. reported' \in Seq(1..MaxPresses)
  <2>1. /\ PressByCopy => c.press \in 1..MaxPresses
        /\ PressByHeld => held.press \in 1..MaxPresses
    BY <1>2, <1>4
  <2>2. \A i \in 1..MaxPresses : Append(reported, i) \in Seq(1..MaxPresses)
    BY <1>4, AppendProperties
  <2>3. \A i, j \in 1..MaxPresses : reported \o <<i, j>> \in Seq(1..MaxPresses)
    <3> TAKE i, j \in 1..MaxPresses
    <3>1. <<i, j>> \in Seq(1..MaxPresses)
      BY PairIn
    <3> QED BY <1>4, <3>1, ConcatProperties
  <2> QED BY <1>2, <1>4, <2>1, <2>2, <2>3
<1>8. TypeOK'
  <2>1. requests' \in Seq(Requests)
    BY <1>2, EmptySeq
  <2>2. copyRead' \in Answers /\ heldRead' \in Answers
    <3>1. NoByte \in Bytes /\ links \in 1..MaxLinks /\ copyRead \in Answers
      BY <1>1, ToldTypes, BoundsAssumption DEF ToldInv, TellInv, TypeOK, NoByte, Byte, Bytes
    <3>2. heldRead' \in Answers
      BY <1>2, <3>1 DEF Answers
    <3>3. copyRead' \in Answers
      BY <1>1, <3>1 DEF Answers, NoAnswer, Forgotten
    <3> QED BY <3>2, <3>3
  <2> QED BY <1>1, <1>4, <1>6, <1>7, <2>1, <2>2 DEF ToldInv, TypeOK
<1>9. c.press <= copy.press /\ (reported # <<>> => Latest <= c.press)
      /\ (c = copy \/ (copy.press > from /\ copy.press > c.press)) /\ from <= Latest
  BY <1>2, <1>4 DEF CopyReadInv, c, ToldInv, TellInv
<1>10. CopyIsNew(copy)'
  <2> SUFFICES copy.code \in {NoKey, tracker'.last, tracker'.awaiting} \/ copy.press > Latest'
    BY <1>1 DEF CopyIsNew
  <2>1. CASE PressByHeld
    BY <1>2, <1>6, <2>1
  <2>2. CASE PressByCopy /\ ~PressByHeld
    BY <1>3, <1>6, <1>9, <2>2
  <2>3. CASE ~PressByCopy /\ ~PressByHeld
    BY <1>3, <1>4, <1>6, <1>9, <2>3
  <2> QED BY <2>1, <2>2, <2>3
<1>11. HeldIsNew'
  BY <1>1, <1>6 DEF HeldIsNew
<1>12. from' <= Latest' /\ (reported' # <<>> => Latest' <= copy'.press)
  <2>1. CASE PressByHeld
    BY <1>1, <1>2, <1>3, <1>4, <1>5, <1>9, <2>1
  <2>2. CASE PressByCopy /\ ~PressByHeld
    BY <1>1, <1>2, <1>3, <1>4, <1>5, <1>9, <2>2
  <2>3. CASE ~PressByCopy /\ ~PressByHeld
    BY <1>1, <1>3, <1>4, <1>5, <1>9, <2>3
  <2> QED BY <2>1, <2>2, <2>3
<1>13. TellInv'
  <2>1. Watching(tracker')
    BY <1>4, <1>6, CodesAssumption DEF Watching
  <2> QED BY <1>1, <1>2, <1>5, <1>10, <1>11, <1>12, <2>1 DEF ToldInv, TellInv
<1>14. Matched
  <2>1. ASSUME PressByCopy \/ PressByHeld PROVE Watch!Report
    <3>1. CASE PressByCopy /\ PressByHeld
      BY <1>1, <1>2, <1>5, <3>1 DEF Watch!Report, Latest
    <3>2. CASE PressByCopy /\ ~PressByHeld
      BY <1>1, <1>2, <1>5, <3>2 DEF Watch!Report, Latest
    <3>3. CASE ~PressByCopy /\ PressByHeld
      BY <1>1, <1>2, <1>5, <3>3 DEF Watch!Report, Latest
    <3> QED BY <2>1, <3>1, <3>2, <3>3
  <2>2. CASE ~PressByCopy /\ ~PressByHeld
    BY <1>1, <1>2, <1>5, <2>2, NothingTold
  <2> QED BY <2>1, <2>2 DEF Matched, Watch!Next
<1> QED BY <1>8, <1>13, <1>14 DEF ToldInv

LEMMA PollAgainTold == ASSUME ToldInv, PollAgain PROVE ToldInv' /\ Matched
<1>1. /\ phase = "pause" /\ phase' = "last" /\ requests' = Sent(requests, "last")
      /\ copyRead' = NoAnswer /\ heldRead' = NoAnswer
      /\ UNCHANGED <<unit, held, copy, made, attempt, alive, running, tracker,
                     reported, from, passed, links, faults>>
  BY DEF PollAgain, cable, told
<1>2. TypeOK'
  <2>1. requests' \in Seq(Requests)
    BY <1>1, QueueTypes DEF Waiting
  <2> QED BY <1>1, <2>1 DEF ToldInv, TypeOK, Waiting, Answers
<1>3. Going /\ Going' /\ Latest' = Latest
  BY <1>1, SameLatest DEF Going
<1>4. TellInv'
  BY <1>1, <1>3 DEF ToldInv, TellInv, CopyIsNew, HeldIsNew
<1> QED BY <1>1, <1>2, <1>3, <1>4, NothingTold DEF ToldInv

(* A step of the link alone tells nothing.                                 *)
LEMMA LinkTold ==
  ASSUME ToldInv, Stop \/ LoseRequest \/ Drop \/ AskAgain PROVE ToldInv' /\ Matched
<1>1. UNCHANGED <<unit, held, copy, made, phase, alive, tracker, copyRead, heldRead,
                  reported, from, passed, links>>
  BY DEF Stop, LoseRequest, Drop, AskAgain, cable, reads, told
<1>2. requests' \in Seq(Requests)
  <2>1. CASE Stop
    BY <2>1, QueueTypes DEF Stop
  <2>2. CASE LoseRequest \/ Drop
    BY <2>2, QueueTypes DEF LoseRequest, Drop, Answered
  <2>3. CASE AskAgain
    BY <2>3, QueueTypes DEF AskAgain, Waiting
  <2> QED BY <2>1, <2>2, <2>3
<1>3. running' \in BOOLEAN
  BY Zenon DEF Stop, LoseRequest, Drop, AskAgain, ToldInv, TypeOK
<1>4. attempt' \in 0..VERSION_ATTEMPTS
  BY BoundsAssumption DEF Stop, LoseRequest, Drop, AskAgain, ToldInv, TypeOK
<1>5. faults' \in 0..MaxFaults
  BY BoundsAssumption DEF Stop, LoseRequest, Drop, AskAgain, GivesUp, ToldInv, TypeOK
<1>6. TypeOK'
  BY <1>1, <1>2, <1>3, <1>4, <1>5 DEF ToldInv, TypeOK
<1>7. ToldInv'
  BY <1>1, <1>6, ToldKeeps DEF cable
<1> QED BY <1>1, <1>7, NothingTold DEF Going

LEMMA LetsGoTold ==
  ASSUME ToldInv, Refuse \/ EndUnanswered \/ SendFails \/ PollEnds PROVE ToldInv' /\ Matched
<1>1. Ended /\ UNCHANGED <<cable, links>> /\ made' = made
  BY DEF Refuse, EndUnanswered, SendFails, PollEnds, cable
<1>2. requests' \in Seq(Requests)
  BY QueueTypes DEF Refuse, EndUnanswered, SendFails, PollEnds, Answered
<1>3. faults' \in 0..MaxFaults
  BY BoundsAssumption DEF Refuse, EndUnanswered, SendFails, PollEnds, GivesUp, ToldInv, TypeOK
<1> QED BY <1>1, <1>2, <1>3, ToldEnded, WatchEnds

LEMMA StepTold == ASSUME IInv, ToldInv, [Next]_vars PROVE ToldInv' /\ Matched
<1>1. CASE UNCHANGED vars
  <2>1. UNCHANGED <<unit, held, copy, made, requests, phase, attempt, alive, running, tracker,
                    copyRead, heldRead, reported, from, passed, links, faults>>
    BY <1>1 DEF vars, cable, reads, told
  <2>2. TypeOK'
    BY <2>1 DEF ToldInv, TypeOK
  <2>3. ToldInv'
    BY <2>1, <2>2, ToldKeeps DEF cable
  <2> QED BY <2>1, <2>3, NothingTold DEF Going
<1>2. CASE Person
  BY <1>2, PlugTold, PressTold, UnplugTold, LetKeyGoTold, ConnectTold, LinkTold DEF Person
<1>3. CASE Page
  BY <1>3, OpenTold, TakeLastTold, TakeHeldTold, PollAgainTold, LinkTold, LetsGoTold DEF Page
<1> QED BY <1>1, <1>2, <1>3, LinkTold DEF Next

LEMMA InitTold == Init => ToldInv /\ Watch!Init
<1> SUFFICES ASSUME Init PROVE ToldInv /\ Watch!Init
  OBVIOUS
<1>1. NoByte \in Bytes /\ NoByte.press = 0 /\ <<>> \in Seq(1..MaxPresses) /\ <<>> \in Seq(Requests)
  BY BoundsAssumption, EmptySeq DEF NoByte, Byte, Bytes
<1>2. alive \in BOOLEAN /\ running \in BOOLEAN
  BY Zenon DEF Init
<1>3. 0 \in 0..MaxPresses /\ 0 \in 0..VERSION_ATTEMPTS /\ 0 \in 0..MaxLinks /\ 0 \in 0..MaxFaults
  BY BoundsAssumption
<1>4. TypeOK
  BY <1>1, <1>2, <1>3 DEF Init, TypeOK, NewTracker, Answers
<1>5. ~Going /\ Latest = 0
  BY DEF Init, Going, Latest, Watch!Latest
<1>6. TellInv
  BY <1>1, <1>5 DEF Init, TellInv
<1>7. Watch!Init
  BY <1>5 DEF Init, Watch!Init
<1> QED BY <1>4, <1>6, <1>7 DEF ToldInv

(* What a poll takes for the copy and for the held byte are answers to its *)
(* own reads of them (link.ts, openLink), when a remote that went silent is*)
(* unplugged before it is connected again, as the page asks.               *)
THEOREM ReadsItsOwn == Replugs => (Spec => []OwnAddresses)
<1>1. IInv => OwnAddresses
  BY DEF IInv
<1>2. ASSUME Replugs PROVE IInv /\ [Next]_vars => IInv'
  BY <1>2, StepKeeps
<1>3. ASSUME Replugs PROVE Spec => []OwnAddresses
  BY <1>1, <1>2, <1>3, InitKeeps, PTL DEF Spec
<1> QED BY <1>3

(* The page's link and its tracker are in a state link.ts and presses.ts   *)
(* can be in, for any number of presses, links, attempts and faults, and a *)
(* press they report is one that was made.                                 *)
THEOREM TypeCorrect == Replugs => (Spec => []TypeOK)
<1>1. ASSUME Replugs PROVE IInv /\ ToldInv /\ [Next]_vars => IInv' /\ ToldInv'
  BY <1>1, StepKeeps, StepTold
<1>2. ToldInv => TypeOK
  BY DEF ToldInv
<1>3. ASSUME Replugs PROVE Spec => []TypeOK
  BY <1>1, <1>2, <1>3, InitKeeps, InitTold, PTL DEF Spec
<1> QED BY <1>3

(* What openLink's polls and PressTracker tell the page is what KeyWatch   *)
(* promises of it: each press at most once, in the order they were made,   *)
(* none from before the watch, though the two bytes are two reads.         *)
THEOREM ImplementsTheWatch == Replugs => (Spec => ReportsEachPressOnce)
<1>1. ASSUME Replugs
      PROVE  IInv /\ ToldInv /\ [Next]_vars => IInv' /\ ToldInv' /\ [Watch!Next]_(Watch!vars)
  BY <1>1, StepKeeps, StepTold DEF Matched
<1>2. ASSUME Replugs PROVE Spec => ReportsEachPressOnce
  BY <1>1, <1>2, InitKeeps, InitTold, PTL DEF Spec, ReportsEachPressOnce, Watch!Spec
<1> QED BY <1>2

-----------------------------------------------------------------------------
(* What the watch comes to for the page: the presses reported are some of  *)
(* those made since it began, each once, and in their order.               *)
InOrder(presses, after, upto) ==
  /\ \A i \in DOMAIN presses : after < presses[i] /\ presses[i] <= upto
  /\ \A i, j \in DOMAIN presses : i < j => presses[i] < presses[j]

ReportedInOrder == InOrder(reported, from, made)

LastOf(presses, after) == IF presses = <<>> THEN after ELSE presses[Len(presses)]

(* A press later than the last goes behind it.                             *)
LEMMA OneMore ==
  ASSUME NEW s \in Seq(Nat), NEW after \in Nat, NEW upto \in Nat, InOrder(s, after, upto),
         NEW i \in LastOf(s, after) + 1..upto
  PROVE  /\ i \in Nat /\ Append(s, i) \in Seq(Nat) /\ LastOf(Append(s, i), after) = i
         /\ InOrder(Append(s, i), after, upto)
<1> DEFINE t == Append(s, i)
<1>1. /\ Len(s) \in Nat /\ DOMAIN s = 1..Len(s) /\ \A k \in 1..Len(s) : s[k] \in Nat
      /\ s # <<>> => Len(s) \in DOMAIN s
  BY EmptySeq
<1>2. LastOf(s, after) \in Nat /\ after <= LastOf(s, after)
  BY <1>1 DEF LastOf, InOrder
<1>3. i \in Nat /\ LastOf(s, after) < i /\ i <= upto
  BY <1>2
<1>4. /\ t \in Seq(Nat) /\ Len(t) = Len(s) + 1 /\ t[Len(s) + 1] = i /\ t # <<>>
      /\ DOMAIN t = 1..Len(s) + 1 /\ \A k \in 1..Len(s) : t[k] = s[k]
  BY <1>1, <1>3
<1>5. \A k \in DOMAIN s : s[k] <= LastOf(s, after)
  <2> TAKE k \in DOMAIN s
  <2>1. s # <<>> /\ k <= Len(s)
    BY <1>1
  <2>2. /\ LastOf(s, after) = s[Len(s)] /\ Len(s) \in DOMAIN s
        /\ k \in 1..Len(s) /\ s[k] \in Nat /\ s[Len(s)] \in Nat
    <3>1. k \in 1..Len(s) /\ Len(s) \in 1..Len(s)
      BY <1>1, <2>1
    <3> QED BY <1>1, <2>1, <3>1 DEF LastOf
  <2>3. k = Len(s) \/ s[k] < s[Len(s)]
    <3>1. \A l \in DOMAIN s : k < l => s[k] < s[l]
      BY DEF InOrder
    <3>2. k < Len(s) => s[k] < s[Len(s)]
      BY <2>2, <3>1
    <3> QED BY <1>1, <2>2, <3>2
  <2> QED BY <2>2, <2>3
<1> HIDE DEF t
<1>6. \A k \in DOMAIN t : k \in DOMAIN s \/ k = Len(s) + 1
  BY <1>1, <1>4
<1>7. ASSUME NEW k \in DOMAIN t PROVE after < t[k] /\ t[k] <= upto
  <2>1. CASE k \in DOMAIN s
    BY <1>1, <1>4, <2>1 DEF InOrder
  <2>2. CASE k = Len(s) + 1
    BY <1>2, <1>3, <1>4, <2>2
  <2> QED BY <1>6, <1>7, <2>1, <2>2
<1>8. ASSUME NEW k \in DOMAIN t, NEW l \in DOMAIN t, k < l PROVE t[k] < t[l]
  <2>1. k \in DOMAIN s
    BY <1>1, <1>4, <1>8
  <2>2. CASE l \in DOMAIN s
    BY <1>1, <1>4, <1>8, <2>1, <2>2 DEF InOrder
  <2>3. CASE l = Len(s) + 1
    BY <1>1, <1>2, <1>3, <1>4, <1>5, <2>1, <2>3
  <2> QED BY <1>6, <2>2, <2>3
<1>9. InOrder(t, after, upto)
  BY <1>7, <1>8 DEF InOrder
<1>10. LastOf(t, after) = i
  BY <1>1, <1>4 DEF LastOf
<1> QED BY <1>3, <1>4, <1>9, <1>10 DEF t

(* So a report keeps the order.                                            *)
LEMMA ReportsInOrder ==
  ASSUME TypeOK, ReportedInOrder, Watch!Report
  PROVE  ReportedInOrder'
<1>1. /\ reported \in Seq(Nat) /\ from \in Nat /\ made \in Nat
      /\ Watch!Latest = LastOf(reported, from) /\ from' = from /\ made' = made
  BY ReportedNumbers, ToldTypes DEF Watch!Report, Watch!Latest, LastOf
<1>2. InOrder(reported, from, made)
  BY DEF ReportedInOrder
<1>3. ASSUME NEW i \in Watch!Latest + 1..made, reported' = Append(reported, i)
      PROVE  InOrder(reported', from, made)
  BY <1>1, <1>2, <1>3, OneMore
<1>4. ASSUME NEW i \in Watch!Latest + 1..made, NEW j \in Watch!Latest + 1..made, i < j,
             reported' = reported \o <<i, j>>
      PROVE  InOrder(reported', from, made)
  <2> DEFINE s == Append(reported, i)
  <2>1. /\ i \in Nat /\ s \in Seq(Nat) /\ LastOf(s, from) = i /\ InOrder(s, from, made)
    BY <1>1, <1>2, OneMore
  <2>2. j \in Nat /\ j \in LastOf(s, from) + 1..made
    <3>1. LastOf(reported, from) \in Nat
      BY <1>1, LastOfSeq DEF LastOf
    <3>2. j \in Nat /\ i < j /\ j <= made
      BY <1>1, <1>4, <3>1
    <3>3. j \in i + 1..made
      BY <1>1, <2>1, <3>2
    <3>4. LastOf(s, from) = i
      BY <2>1
    <3> HIDE DEF s
    <3> QED BY <3>2, <3>3, <3>4
  <2>3. Append(s, j) = reported \o <<i, j>>
    BY <1>1, <2>1, <2>2
  <2> HIDE DEF s
  <2>4. InOrder(Append(s, j), from, made)
    BY <1>1, <2>1, <2>2, OneMore
  <2>5. reported' = Append(s, j)
    BY <1>4, <2>3
  <2> QED BY <2>4, <2>5
<1>5. InOrder(reported', from, made)
  BY <1>3, <1>4 DEF Watch!Report
<1> QED BY <1>1, <1>5 DEF ReportedInOrder

LEMMA OrderKeeps ==
  ASSUME TypeOK, TypeOK', ReportedInOrder, [Watch!Next]_(Watch!vars)
  PROVE  ReportedInOrder'
<1>1. /\ from \in Nat /\ made \in Nat /\ reported \in Seq(Nat)
      /\ DOMAIN <<>> = {}
  BY ReportedNumbers, ToldTypes
<1>2. reported' = <<>> => ReportedInOrder'
  BY <1>1 DEF ReportedInOrder, InOrder
<1>3. CASE Watch!Press
  <2>1. made' = made + 1 /\ reported' = reported /\ from' = from
    BY <1>3 DEF Watch!Press
  <2>2. \A i \in DOMAIN reported : reported[i] \in Nat
    BY <1>1
  <2> QED BY <1>1, <2>1, <2>2 DEF ReportedInOrder, InOrder
<1>4. CASE Watch!Begin \/ Watch!End
  BY <1>2, <1>4 DEF Watch!Begin, Watch!End
<1>5. CASE Watch!Report
  BY <1>5, ReportsInOrder
<1>6. CASE UNCHANGED Watch!vars
  BY <1>6 DEF Watch!vars, ReportedInOrder
<1> QED BY <1>3, <1>4, <1>5, <1>6 DEF Watch!Next

(* presses.ts: the tracker reports presses and not bytes.  Those it has    *)
(* reported to the page since it began to watch are presses made since,    *)
(* none of them twice, and in the order they were made.                    *)
THEOREM PressesInOrder == Replugs => (Spec => []ReportedInOrder)
<1>1. ASSUME Replugs
      PROVE  IInv /\ ToldInv /\ [Next]_vars => IInv' /\ ToldInv' /\ [Watch!Next]_(Watch!vars)
  BY <1>1, StepKeeps, StepTold DEF Matched
<1>2. ToldInv => TypeOK
  BY DEF ToldInv
<1>3. TypeOK /\ TypeOK' /\ ReportedInOrder /\ [Watch!Next]_(Watch!vars) => ReportedInOrder'
  BY OrderKeeps
<1>4. Init => ReportedInOrder
  BY DEF Init, ReportedInOrder, InOrder
<1>5. ASSUME Replugs PROVE Spec => []ReportedInOrder
  BY <1>1, <1>2, <1>3, <1>4, <1>5, InitKeeps, InitTold, PTL DEF Spec
<1> QED BY <1>5
==============================================================================
