-------------------------------- MODULE KeyLink --------------------------------
(***************************************************************************)
(* The key reader's link to a remote (packages/keyreader/src/link.ts), the *)
(* poll that reads it (page.ts, start and poll) and the presses made of    *)
(* what it reads, beside a person who presses keys and plugs remotes in.   *)
(*                                                                         *)
(* The remote answers its requests in order.  Reading the byte and the     *)
(* page's hearing of it are one step: a press that comes between the two is*)
(* as well made after it.  A request may stay unanswered, and an answer may*)
(* come after its wait gave up.                                            *)
(***************************************************************************)
EXTENDS PressTracker, Sequences

CONSTANTS
  Remotes,          \* remotes that can be on the cable
  Known,            \* those WATCH_BY_SKIN has an entry for
  Codes,            \* scan codes
  NoRemote,
  VERSION_ATTEMPTS,
  Replugs,          \* the person unplugs a remote that stopped answering before reconnecting
  MaxPresses, MaxLinks, MaxFaults   \* bounds on one behaviour

ASSUME RemotesAssumption == Known \subseteq Remotes /\ NoRemote \notin Remotes
ASSUME CodesAssumption ==
  Codes \subseteq Nat \ {NoKey} /\ Undefined \notin Codes \cup {NoKey}
ASSUME BoundsAssumption ==
  /\ VERSION_ATTEMPTS \in Nat \ {0} /\ Replugs \in BOOLEAN
  /\ MaxPresses \in Nat /\ MaxLinks \in Nat /\ MaxFaults \in Nat

VARIABLES
  unit,       \* the remote on the cable
  held, copy, \* its two bytes, each with the press it came from, 0 for none of these
  made,       \* presses made
  requests,   \* what the remote was asked and has not answered
  phase,      \* what the page waits for, "idle" with no link and "pause" between polls
  attempt,    \* version requests sent on this link
  alive,      \* the link's device is the one on the cable
  running,
  tracker,
  copyRead, heldRead,  \* the answers taken in this poll for the copy and the held byte
  reported,   \* the presses reported on this link, in order
  from,       \* presses made before this link was opened
  passed,     \* the press the copy showed at the poll before
  links, faults

cable == <<unit, held, copy, made>>
reads == <<copyRead, heldRead>>
told  == <<reported, from, passed>>
vars  == <<cable, requests, phase, attempt, alive, running, tracker, reads, told, links, faults>>

Byte(code, press) == [code |-> code, press |-> press]
NoByte == Byte(NoKey, 0)
Bytes  == [code : Codes \cup {NoKey}, press : 0..MaxPresses]

Request(what, n) == [what |-> what, link |-> n]
Waiting  == {"version", "last", "held"}
Requests == [what : Waiting, link : 1..MaxLinks]

NoAnswer == [what |-> "none", link |-> 0, byte |-> NoByte]
Answers  == [what : {"last", "held"}, link : 1..MaxLinks, byte : Bytes] \cup {NoAnswer}

TypeOK ==
  /\ unit \in Remotes \cup {NoRemote} /\ held \in Bytes /\ copy \in Bytes
  /\ made \in 0..MaxPresses /\ requests \in Seq(Requests)
  /\ phase \in Waiting \cup {"idle", "pause"} /\ attempt \in 0..VERSION_ATTEMPTS
  /\ alive \in BOOLEAN /\ running \in BOOLEAN
  /\ tracker \in [held : Codes \cup {NoKey, Undefined}, last : Codes \cup {NoKey, Undefined},
                  awaiting : Codes \cup {Undefined}]
  /\ copyRead \in Answers /\ heldRead \in Answers
  /\ reported \in Seq(1..MaxPresses) /\ from \in 0..MaxPresses /\ passed \in 0..MaxPresses
  /\ links \in 0..MaxLinks /\ faults \in 0..MaxFaults

Init ==
  /\ unit = NoRemote /\ held = NoByte /\ copy = NoByte /\ made = 0 /\ requests = <<>>
  /\ phase = "idle" /\ attempt = 0 /\ alive = FALSE /\ running = FALSE
  /\ tracker = NewTracker /\ copyRead = NoAnswer /\ heldRead = NoAnswer
  /\ reported = <<>> /\ from = 0 /\ passed = 0 /\ links = 0 /\ faults = 0

-----------------------------------------------------------------------------
(* The person at the remote. *)

\* A remote's copy holds whatever was pressed last before it was plugged in.
Plug(r, code) ==
  /\ unit = NoRemote
  /\ unit' = r /\ held' = NoByte /\ copy' = Byte(code, 0)
  /\ UNCHANGED <<made, requests, phase, attempt, alive, running, tracker, reads, told, links, faults>>

Unplug ==
  /\ unit # NoRemote
  /\ unit' = NoRemote /\ held' = NoByte /\ copy' = NoByte
  /\ requests' = <<>> /\ alive' = FALSE
  /\ UNCHANGED <<made, phase, attempt, running, tracker, reads, told, links, faults>>

\* A key down that is not the key held: the held byte first, its copy right
\* after.
Press(code) ==
  /\ unit # NoRemote /\ made < MaxPresses /\ code # held.code
  /\ made' = made + 1
  /\ held' = Byte(code, made') /\ copy' = held'
  /\ UNCHANGED <<unit, requests, phase, attempt, alive, running, tracker, reads, told, links, faults>>

LetKeyGo ==
  /\ held.code # NoKey
  /\ held' = NoByte
  /\ UNCHANGED <<unit, copy, made, requests, phase, attempt, alive, running, tracker, reads, told,
                 links, faults>>

\* The remote drops a request, as one left idle on the cable may.
LoseRequest ==
  /\ requests # <<>> /\ faults < MaxFaults
  /\ requests' = Tail(requests) /\ faults' = faults + 1
  /\ UNCHANGED <<cable, phase, attempt, alive, running, tracker, reads, told, links>>

-----------------------------------------------------------------------------
(* Opening a link. *)

\* A report sent to a device that is gone reaches nobody.
Sent(queue, what) == IF alive THEN Append(queue, Request(what, links)) ELSE queue

\* The page lets go of the remote, as start's finally and openLink's catch do.
Ended ==
  /\ phase' = "idle" /\ attempt' = 0 /\ alive' = FALSE /\ running' = FALSE
  /\ tracker' = NewTracker /\ copyRead' = NoAnswer /\ heldRead' = NoAnswer
  /\ reported' = <<>> /\ from' = 0 /\ passed' = 0

Connect ==
  /\ phase = "idle" /\ unit # NoRemote /\ links < MaxLinks
  /\ Replugs => requests = <<>>
  /\ links' = links + 1
  /\ phase' = "version" /\ attempt' = 1 /\ alive' = TRUE
  /\ requests' = Append(requests, Request("version", links'))
  /\ UNCHANGED <<cable, running, tracker, reads, told, faults>>

\* Whether the answer to the oldest request is one this wait can use: not one
\* of another kind, nor the version of a remote the page does not read.
Answered == requests # <<>>
Usable ==
  IF phase = "version" THEN Head(requests).what = "version" /\ unit \in Known
                       ELSE Head(requests).what \in {"last", "held"}

\* The first poll's first read goes out at once.
Open ==
  /\ phase = "version" /\ Answered /\ Usable
  /\ phase' = "last" /\ running' = TRUE
  /\ requests' = Append(Tail(requests), Request("last", links))
  /\ from' = made
  /\ UNCHANGED <<cable, attempt, alive, tracker, reads, reported, passed, links, faults>>

Refuse ==
  /\ phase \in Waiting /\ Answered /\ ~Usable
  /\ requests' = Tail(requests) /\ Ended
  /\ UNCHANGED <<cable, links, faults>>

\* An answer nobody waits for.
Drop ==
  /\ phase \notin Waiting /\ Answered
  /\ requests' = Tail(requests)
  /\ UNCHANGED <<cable, phase, attempt, alive, running, tracker, reads, told, links, faults>>

\* No timer on a key read.
GivesUpOnVersions ==
  /\ phase = "version"
  /\ IF Answered THEN faults < MaxFaults /\ faults' = faults + 1 ELSE UNCHANGED faults

\* A wait gives up, on a request that is lost or on an answer that is late.
GivesUp ==
  /\ phase \in Waiting
  /\ IF Answered THEN faults < MaxFaults /\ faults' = faults + 1 ELSE UNCHANGED faults

\* A key read is sent again as well.
AskAnythingAgain ==
  /\ GivesUp /\ attempt < VERSION_ATTEMPTS
  /\ attempt' = attempt + 1 /\ requests' = Sent(requests, phase)
  /\ UNCHANGED <<cable, phase, alive, running, tracker, reads, told, links>>

\* Only the version request is sent again.
AskAgain ==
  /\ GivesUp /\ phase = "version" /\ attempt < VERSION_ATTEMPTS
  /\ attempt' = attempt + 1 /\ requests' = Sent(requests, "version")
  /\ UNCHANGED <<cable, phase, alive, running, tracker, reads, told, links>>

EndUnanswered ==
  /\ GivesUp /\ (phase = "version" => attempt = VERSION_ATTEMPTS)
  /\ Ended
  /\ UNCHANGED <<cable, requests, links>>

\* A report to a device that is gone throws.
SendFails ==
  /\ phase \in Waiting /\ ~alive
  /\ Ended
  /\ UNCHANGED <<cable, requests, links, faults>>

-----------------------------------------------------------------------------
(* The poll. *)

\* A data memory answer does not say which address it is of, so it is taken for
\* the one that is waited for.
Reading(r) == [what |-> r.what, link |-> r.link, byte |-> IF r.what = "last" THEN copy ELSE held]
Forgotten(answer) == [answer EXCEPT !.byte = NoByte]

TakeLast ==
  /\ phase = "last" /\ Answered /\ Usable
  /\ copyRead' = Reading(Head(requests))
  /\ phase' = "held" /\ requests' = Sent(Tail(requests), "held")
  /\ UNCHANGED <<cable, attempt, alive, running, tracker, heldRead, told, links, faults>>

ReportedBy(reading) ==
  (IF PressedBetween(tracker, reading.byte.code, copyRead.byte.code)
     THEN <<copyRead.byte.press>> ELSE <<>>)
    \o (IF HeldNow(tracker, reading.byte.code) THEN <<reading.byte.press>> ELSE <<>>)

TakeHeld ==
  /\ phase = "held" /\ Answered /\ Usable
  /\ LET reading == Reading(Head(requests)) IN
       /\ heldRead' = Forgotten(reading) /\ copyRead' = Forgotten(copyRead)
       /\ tracker' = Update(tracker, reading.byte.code, copyRead.byte.code)
       /\ reported' = reported \o ReportedBy(reading)
  /\ passed' = copyRead.byte.press
  /\ phase' = "pause" /\ requests' = Tail(requests)
  /\ UNCHANGED <<cable, attempt, alive, running, from, links, faults>>

PollAgain ==
  /\ phase = "pause" /\ running
  /\ phase' = "last" /\ requests' = Sent(requests, "last")
  /\ copyRead' = NoAnswer /\ heldRead' = NoAnswer
  /\ UNCHANGED <<cable, attempt, alive, running, tracker, told, links, faults>>

PollEnds ==
  /\ phase = "pause" /\ ~running
  /\ Ended
  /\ UNCHANGED <<cable, requests, links, faults>>

\* The Stop button, and the browser's word that a device was unplugged.
Stop ==
  /\ running
  /\ running' = FALSE
  /\ UNCHANGED <<cable, requests, phase, attempt, alive, tracker, reads, told, links, faults>>

-----------------------------------------------------------------------------
Person ==
  \/ \E r \in Remotes, code \in Codes \cup {NoKey} : Plug(r, code)
  \/ \E code \in Codes : Press(code)
  \/ Unplug \/ LetKeyGo \/ Connect \/ Stop

Page ==
  \/ Open \/ Refuse \/ Drop \/ AskAgain \/ EndUnanswered \/ SendFails
  \/ TakeLast \/ TakeHeld \/ PollAgain \/ PollEnds

Next == Person \/ Page \/ LoseRequest

\* The page's timers run and, the faults aside, a remote that is there answers.
Spec == Init /\ [][Next]_vars /\ WF_vars(Page)

-----------------------------------------------------------------------------
\* What a poll takes for the copy and for the held byte are answers to its own
\* reads of them, although an answer does not say which address it is of
\* (link.ts, openLink).
OwnAddresses ==
  /\ phase \in {"held", "pause"} => copyRead.what = "last" /\ copyRead.link = links
  /\ phase = "pause" => heldRead.what = "held" /\ heldRead.link = links

\* A page that is stopped, or whose remote is gone, lets go of it, and the
\* person can connect again (page.ts, start).
Going == phase \in {"last", "held", "pause"}
LetsGo == (phase # "idle" /\ ~(running /\ alive)) ~> (phase = "idle" \/ (running /\ alive))

\* A press is reported at most once, in the order it was made, and never one
\* made before the page was watching, although the two bytes it is read from
\* are two reads (presses.ts).
Watch == INSTANCE KeyWatch WITH watching <- Going
ReportsEachPressOnce == Watch!Spec

\* "A press that is missed still shows in the copy of the last key" (page.ts):
\* a poll that finds the copy moved on by the one press made since the poll
\* before reports that press, unless it did already.
MovedCopyIsReported ==
  [][phase = "held" /\ phase' = "pause" /\ Watching(tracker)
       /\ copyRead.byte.press = passed + 1 /\ copyRead.byte.code # tracker.last =>
       \/ \E i \in DOMAIN reported' : reported'[i] = copyRead.byte.press
       \/ copyRead.byte.code = tracker'.held]_vars
=============================================================================
