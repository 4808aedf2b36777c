# Harmony remotes over USB: the verification project

TLA+ models of the parts of this repository that talk to a remote or keep what a
person does with one, the configurations that check them with TLC, and theorems
about them that TLAPS checks. Paths below are relative to `packages/` unless they
say otherwise; `PROJECT.json` maps every definition to the lines it stands for and
lists the hazards each property is there for.

    tlc -workers 2 -config MCFileWrite.cfg MCFileWrite     # a run
    tlapm FileWriteProofs.tla                              # a proof

## 1. The system

The repository is a TypeScript monorepo beside Python analysis tools. What it does
to hardware goes through `usb`; `corpus` keeps what is read and runs the long
conversations; `keyreader` is a browser page with a link of its own; `codec` turns
configuration bytes into values and back.

| Part | State it keeps | Operations | Talks to | What is hard | What makes it correct |
|---|---|---|---|---|---|
| File write path, Harmony 300 and 350 (`usb/src/filewrite.ts`, `filepipe.ts`) | step of the run, replies not read, what was read back; on the remote an open file, a packet count, the flash | judge what is there, reset, erase by opening, write chunks, check, read back, reboot | the remote by HID reports and replies | a failed chunk leaves the remote counting packets; late replies; kills after the erase; short reads | nothing the lab cannot restore is erased; a reboot only of what was verified; an emptied remote is filled again |
| Block writer, Harmony One, 600, 650, 700 (`corpus/bin/write-config.ts`, `usb/src/blockwrite.ts`) | plan, journal, file and dump in the lab; the chip's blocks | compare, stamp and save, baseline neighbours, erase, write, read back, restart | the remote's flash commands, the lab's files | an erase has no length; a kill leaves half a configuration; the rerun must recognise it | what is erased was known; the lab holds what is on the remote; a restart only of a whole file; nothing beside the plan changes; a rerun goes on |
| Request channel of a Touch (`usb/src/touchsession.ts`, the guard in `filepipe.ts`) | template's step, sequence, guard's phase, replies not read; on the remote the chunk being counted and the text so far | open a session, write a request's line, announce a write of answers, read the answer | the Touch by HID, the sync above it | no acknowledgement per packet; replies matched by sequence; the listener acts on a count | a request is acted on once and whole or throws; an answer is the request's own; answers are never acted on in part |
| Answerer of a Touch's sync (`corpus/src/touchsync.ts`) | set, lists in hand, what was handed up, how often each address was handed out; on the remote its store, tags, the set aside and a queue | take changes up, start the sync, answer list after list, recover | the request channel, the engine, its screens and its owner | the owner's changes live on the remote alone; the screens act between requests; refusals in the middle | no change of the owner is lost or overwritten by the run it was handed up to; what is committed is whole; what is said of an abort is true |
| Key reader, link and presses (`keyreader/src/link.ts`, `presses.ts`) | a wait, a queue of requests at the remote, the tracker's two bytes and the press awaited | connect, ask the version, poll two bytes, let go | an 880 or 885 by WebHID; the page | two reads are not a snapshot; an answer does not say its address; unplugging and silence | a press is reported at most once and in order; a poll's bytes are its own; the page lets go |
| Key reader, work and page (`keyreader/src/session.ts`, `visit.ts`, `page.ts`) | answers per key, remote and model, the first press that waits, what the page shows | learn, skip, go back, ask again, choose, reconnect | the link above, the person | a lost connection in the middle; another remote on the reconnect; any order of clicks | one code per key; nothing learned from one press; each remote's work is its own |
| Reads of the classic remotes (`usb/src/remote.ts`, `corpus/src/read.ts`, `corpus/src/file.ts`, `corpus/bin/read-region.ts`) | reports that have arrived, the chunks of a stream, what was gathered; in the lab two files per read | ask the version, read flash in a stream, drain a stream that failed, retry a window, judge, file | the remote by HID reports, the lab's files | chunks without addresses, a queue that drops its oldest, answers that come late to the next session, two files that are one read | what is filed is what was there; a session leaves nothing behind that it could have read; every session ends |
| Firmware of an arch 14 remote (`usb/bin/reinstall-firmware.ts`, `usb/src/remote.ts`, the rails, `firmware.ts`) | a run's step; on the remote a staging region, an application, a status byte | survey, stage (disarm, erase, write, compare), request (arm, restart) | the remote's flash commands, its install at start up | a status that outlives the run that set it; a stop in the middle of a stage; an install cut short | the remote is told to install only a whole image; a way back always exists; an install ends |
| Touch activity engine (`codec/src/harmony-touch/engine.ts`) | what is believed of every state of every device, the running activity, each device's last send and wait | start, switch, off, favourite, key | the devices by infrared, one way | nothing is heard back; waits end in another order than codes are listed; a clock of fractions | the equipment follows what the engine believes; every turn moves |
| Bench (`bench/src`) | a test's steps and bands, the press last heard, how far a step is judged | derive a test from the engine, hear, judge | the engine twice, a monitor | a prediction made at two paces judged at a third; a repeat taken for a press | a faithful remote passes |
| Settings block (`usb/src/settings.ts`) | a block and its copy | write settings | the remote | a stop between two steps | the same as for the block writer |
| Rails and protocol tables (`usb/src/rails.ts`, `protocol.ts`) | none | refuse or encode one report | every writer | boundaries of addresses and sizes | arithmetic |
| Codec, silhouettes, lab, probe, Python tools | none beyond the value being built | parse, print, draw | files | format | round trips, which the tests hold |

The first ten rows are modelled, the bench in part. They are the parts in which a
fault destroys something that exists nowhere else (a configuration, an owner's change,
a remote's firmware, an hour of learning), files something that is not what it says, or
passes over a room full of equipment left in the wrong state, and in which the order of
events decides. The settings block and the rails are planned (section 7). The last row
has no behaviour over time: the codec is about 84,000 lines of byte format, sequential
and checked by its round trip.

## 2. Modules

| Component | Modules | Composition |
|---|---|---|
| File write path | `FileRemote` (the remote: what a report does to it), `FileWrite` (tool, link, faults), `ConfigStore` (the promise) | `FileWrite` extends `FileRemote` and implements `ConfigStore` |
| Block writer | `ConfigWrite` | |
| Touch channel | `TouchCable` (reports, replies, the remote's listener), `TouchChannel` (session, guard, faults), `TouchRequest` (the promise) | `TouchChannel` extends `TouchCable` and implements `TouchRequest` |
| Touch sync | `TouchEngine` (the remote's engine), `TouchSync` (answerer, screens, owner) | `TouchSync` extends `TouchEngine` and takes one request as `TouchRequest` has it |
| Key reader, link | `PressTracker` (a pure algorithm), `KeyLink` (remote, person, link, poll), `KeyWatch` (the promise) | `KeyLink` extends `PressTracker` and implements `KeyWatch` |
| Key reader, page | `KeyLearning` (a pure algorithm), `KeyPage` (page, visit, person) | `KeyPage` extends `KeyLearning` and takes presses as `KeyWatch` has them |
| Reads of the classic remotes | `FlashPipe` (the remote's reports and the host's queue), `FlashRead` (sessions, the lab's files, faults) | `FlashRead` extends `FlashPipe` |
| Firmware of an arch 14 remote | `FirmwareStage` (tool, remote, install, faults) | |
| Touch engine and bench | `ActivityEngine` (the engine as operators on one record), `TouchBench` (a remote, the test derived from it, the monitor, the judge, the devices) | `TouchBench` extends `ActivityEngine` and runs it three times: on the remote and at both ends of the band |
| Theorems | `FileWriteProofs`, `ConfigWriteProofs`, `KeyLinkProofs`, `KeyPageProofs`, `FlashReadProofs`, `FirmwareStageProofs`, `TouchSyncProofs`, `TouchChannelProofs` | each extends the module it is about |

A module takes its sizes and bounds as CONSTANTS with named assumptions. The `MC`
modules give them values and replace nothing. `MaxFaults`, `MaxStamps`,
`MaxChanges`, `MaxAsks`, `MaxPresses`, `MaxLinks`, `MaxClicks`, `MaxSessions`,
`MaxLost`, `MaxRuns`, `MaxReads` and `MaxBefore` bound one behaviour and are the only
bounds that are not the code's own. `ActivityEngine` has recursive operators, its lists
being of any length, and no theorem.

### 2.1 The file write path

State and actions. `step` is the line of `writeFileConfig` the run stands at and
`awaiting` says that its report is out; a read (`reading`, `file`, `got`) is
`readFile` with its open, data, close and the close of its `finally` (`spoiled`).
`Transmit` sends, one accepting action per reply takes it, `TimeOut` and
`WrongReply` throw. Tool and remote are in lockstep but for the data packets of a
chunk, so a report reaches the remote in the step that sends it, and what the
remote says back waits in `replies`.

Abstractions. A configuration is a sequence of packets of a container named by a
model value; the packet that carries only the end marker is one a read does not
serve, as in the firmware. The erase that an open for writing does is one step. A
late open reply matters across runs only. A data packet that comes outside a chunk
is ignored. The unit checks of the rail are `FactsAllow`. A restart of the remote
ends the run, whose handle is gone.

Faults. A report lost on its way out, a reply lost or late, a packet programmed
wrong, a kill, a restart and, between runs, the owner's own sync.

Run `file_write`: two configurations `a` and `b` of four packets in chunks of
three, three faults. Two configurations are what a backup, a container to write
and a third state of the remote need; four packets make a whole chunk and a short
one; three faults reach a fault in the run, one in its recovery and one in the
recovery from that. `ShortReads` is off in it and on in `file_write_short`.

Fairness. `WF(Run)`: a run that is started goes on, each wait having a timeout.
`SF(StartRun(c, b))`: somebody whose remote does not work runs the tool again and
goes through what the lab has. Nobody has to sync or to read anything into the
lab. Both are needed by `IsRefilled` alone.

### 2.2 The block writer

State and actions. Flash is a function from cells, one per transfer, to values that
tell a stamp, an edit, the old contents, erased and garbled apart. `StartRun` to
`Restart` are the steps of `main` and of `writeBlock`: `Attach` (which stands for
every refusal before the compare: flags, unit, readers), `Compare`, `Save`,
`Baseline`, `Erase`, `CheckErased`, `CheckNeighbours`, `WriteTransfer`, `ReadBack`,
`CheckAbove`, `ReadWhole`, `Restart`. `Stops` is a throw or a kill at any of them.

Abstractions. The cache drop changes no flash. The journal that counts is the
latest run's, as in the code. The file's edit is fixed and its stamp is taken anew
by a run that is not a rerun. `--drop-only` and `--restart-only` are left out.

Run `config_write`: five blocks of three cells, a region of three of them, two
stamps, two faults. It leaves a block on each side that the run must not touch, a
container that ends inside a block, a stamp in two blocks and one block without
one. Deadlock is not checked: at the bound on stamps nobody starts another run, and
nothing obliges anyone to.

### 2.3 The request channel of a Touch

State and actions. `step` and `awaiting` are where `operation` stands, `phase` the
guard's `TouchRoutePhase`, `seq` the `SequenceCounter`; `remote` is the pretend
Touch of the tests (`FakeTouchRemote`), its cable listener included. Each send, each
reply and each way to throw is an action. Text is counted in data packets. Opening a
session is its ping. What the rail refuses before the first report changes nothing
and is left out, and the flags are set and the unit matches; only requests the
program sends are sent, in one chunk or with their answers announced
(`LineAssumption`). A sequence number starts at 2 or 6, so the modulus is 7 to 64
(`PacketsAssumption`).

What a write that throws may have done. A transport says "wrote N of M bytes" of a
report that may have arrived, so a failing write reaches the remote or not. A program
killed part way through a chunk leaves the remote counting packets, and the pings of
the next session are counted as the rest: that is the second disjunct of
`ActsOnTheLine`. Answers stay whole all the same, because the number announced is
not reached (`AnswersWhole`).

Run `touch_channel`: three requests of four kinds (a name alone, a list, the sync
with its shifted template, a write of answers in two chunks), three faults,
`SequenceModulus` 8 in place of 64 so that it wraps, as it does in the code on a long
answer. Fairness is weak on the sends and receives of the program: every wait has
`TOUCH_TIMEOUT_MS`.

### 2.4 The answerer of a Touch's sync

State and actions. `engine` is the remote's engine as the answerer relies on it: the
store with its tags, the set aside, the queue, what runs. `ReadProvisioning`,
`AskForChanges`, `AskForSync`, `ReadList`, `AnswerList`, `WriteAnswers` are the loop
of `syncTouch`; `ScreensCommit` and `ScreensAbort` are the remote's own steps between
them. One request through the channel is one step of both sides, which is what
`TouchChannel` implements: it is acted on once before its answer, or the run throws
whether it was or not. A line that a dead session's chunk completes later is as well
acted on at the throw.

Abstractions. Session ids are fresh, so a run reads the whole queue. The owner
changes a document between runs only, since the remote shows its USB screen while it
is plugged in; the screens' ending is taken only then too. A 304 for a document that
the remote has no file for leaves it missing. A prepared set never holds a body the
owner made. What a gate finds in a document is part of which sets are enumerated.

Run `touch_sync`: two core documents (interchangeable, hence the symmetry), one
favourites list and one picture, four bodies, one change by the owner, one fault, at
most two empty lists and two hand outs. `touch_sync_ends` has one core document and
no picture; symmetry and liveness do not go together.

Fairness. `WF(Answerer)` only. Nothing is assumed of the remote: `EveryRunEnds` has
to hold with screens that never commit.

### 2.5 The key reader's link

State and actions. The remote's two bytes carry the number of the press they came
from, so that the properties can say which press was reported. `Press` writes the
held byte and its copy in one step: the firmware does so in two adjacent instructions
(`0x18CA2`, `0x18CA6`). `Connect`, `Open`, `Refuse`, `AskAgain`, `EndUnanswered`,
`SendFails` are `openLink`; `TakeLast` and `TakeHeld` are `readKeys` with the poll's
use of it; `PollAgain`, `PollEnds` and `Stop` are the loop and its ways out.

Abstractions. A byte is read by the remote and heard of by the page in one step: a
press in between touches neither the answer nor the page, so it is as well made
after. The remote answers its requests in the order it got them. The browser's word
that a device was unplugged is `Stop`. Releases of keys, which the page ignores, are
left out. `passed` is an auxiliary variable for `MovedCopyIsReported`.

Late answers. Within a link a key read that is not answered ends the link, so that a
late answer is never taken for the next read's. Across links the code relies on the
person: the page says to unplug the remote, and a remote that was unplugged has
forgotten its requests. `Replugs = TRUE` states that. With `Replugs = FALSE` and three
faults TLC finds `OwnAddresses` violated: two version requests whose answers come
late, on a device that is opened again.

Run `key_link`: one remote the page reads and one it refuses, two codes, two version
attempts, three presses, two links, three faults. Three presses of two codes make
both a repeat and an overtaking, three faults two silent requests and a late answer.
Fairness is `WF(Page)`: its waits have timers, and a remote that is there answers
apart from the faults.

### 2.6 The key reader's work

State and actions. `work` is a learning and a trace of step 1 per remote and model
(`Visit`), `session` and `view` what the page shows, `mode` the step. `Connect` is
`start` with `Visit.connected`; `Hear` is `onKey`; the clicks are the page's buttons
and its drawing. `KeyLearning` has `Learning`'s methods as functions of one record.

Abstractions. Of the link the module takes what `KeyWatch` promises: a press is heard
once, or never, and in order. What is noted and not recorded (misfits), the `Tester`,
the logs, the codes counted in step 3 and the naming of keys on models without a
drawing are left out. `sinceAsked` is an auxiliary variable: the codes heard since the
key asked was last asked anew.

Run `key_page`: two remotes, one model, a face of two keys, two codes, five presses
and five clicks. Learning both keys takes four presses, and the fifth can be a slip;
five clicks choose a work, change to step 2 and leave three to skip, go back or ask
again.

### 2.7 Reads of the classic remotes

State and actions. `owed` is what the remote has still to send, in the order it was
asked, and `queue` what has arrived for the open handle: the queue of the host's system,
which holds `QueueDepth` reports and drops its oldest. `AskVersion` and `HearVersion` are
`exchangeVersion` with its second send and `firstCommand`; `AskWindow` and `HearStream`
are `readFlash` and `readFlashStream`, a report at a time, with the sequence, the count
and the acknowledgement; `Drain` is `drainFlashRead`; `Judge` is the two closures of
`readConfig`; `File` and `Sidecar` are the two writes of `fileRead` and `fileRegion`. A
read is of a configuration, whose window may be retried, or of a region, whose may not.

Abstractions. Flash is counted in chunks, and a chunk is known by where it came from,
which its reader cannot see. The checksum is an XOR over what the chunks hold, taken as
sets of words; `IndependentWords` says that each chunk of the configuration has a word that
no other chunk a session may read has (`Readable`), so that none can stand in for it. The
XOR is blind to their order, and the model keeps that. A length in a header that was read right is right. The reads
of one exchange (memory, keys, battery) are left out.

Faults. A request the remote misses, an answer that comes after its wait, a queue that
overflows because the host is slow, a handle that dies because the remote leaves the bus,
a kill. What a session does not read stays owed to the next one.

Run `flash_read`: a configuration of eight chunks in windows of three, a region of four,
a queue of two and a sequence that wraps at two, so that both are shorter than a window
as they are in the code (31 reports and 256 values against windows of thousands); two
sessions and one missed request, so that a session meets what another left. Deadlock is
not checked: at the bound on sessions nobody opens another. Fairness is `WF(Host)`: the
host's polls return within their timeout. Nothing is assumed of the remote.

What is not promised. A region has no closures. Behind a wait that was given up the rest
of the old answer may arrive in the next read, and with a full queue such a mixture may
keep its sequence and its count. `usb/bin/read-region.ts` and the block writer drain
leftovers before they read; `corpus/bin/read-region.ts` does not. `RegionIsWhatWasThere`
is therefore stated for runs in which no wait was given up (`gaveUp`). A configuration has
its closures, which tell, whatever was given up, that each of its chunks is there and once;
that they stand in order is promised for runs without such a wait only. `readConfig` opens
no session with `drainLeftovers` either, and TLC shows what may come of it.

`MCFlashReadStale.cfg`, in which it does: four chunks in windows of one and a region of one, a queue of two,
a sequence of two values, four sessions; no request is missed and a wait is one silent poll.
Three sessions that were killed or stopped listening leave the answers that in the fourth
take each other's places. A window fits in the queue here, so that a stale answer is a
whole one; in windows of thousands of chunks it takes a host that stalls as well.

### 2.8 The firmware of an arch 14 remote

State and actions. `Survey` is `main` of `reinstall-firmware.ts` up to `--commit` (a dry
run changes nothing and is a run that stops there), `Stage` to `Compare` are
`stageFirmware`, `Request`, `Arm` and `ResetDevice` are `requestFirmwareReinstall`. Each
exchange that changes the remote may throw, its command carried out or not (`Lost`). The
remote's own part (`StartInstall` to `EndInstall`) is external: the repository has no
code for it, and the model takes it from what the rails, the tool and section 295 of
`docs/findings.md` say of the install routine: it erases, copies the length the header
states up to `REINSTALL_MAX_IMAGE`, clears the status and starts what verifies.

Abstractions. Flash is counted in transfers, an image is a model value with a length, and
a checksum that verifies says that every piece is that image's: the code's is an XOR over
words, so this is the usual assumption on one. The block above the region, which an erase
might take, is read and compared by the code and only makes it throw; the model has the
throw. A restart keeps data memory, where the status is; a loss of power does not.

Run `firmware_stage`: an image shorter than the copy limit, one of that length and one
longer than it, a region of two erase blocks of two pieces; three runs of the tool, two
backups, three faults: one to stop a stage, one in its recovery, one in the install.
Deadlock is not checked: at the bounds nobody starts the tool again. Fairness is
`WF(Remote)`: a remote that has started runs its start up code through.

### 2.9 The Touch's engine, and the bench that tests it

State and actions. `ActivityEngine` has `TouchEngine` as operators on a record: `Starting`
is `start`, as one list of steps still to build; `Built` builds it, step by step, into
entries, beliefs and lists; `Goes` is one turn of `sendInOrder`, `schedule` or a press.
The code builds a press's lists in turn and the model builds them first, which is the same
because sending changes no belief. `TouchBench` presses things on a remote that is such an
engine, with overheads of its own at every turn, derives each step's expectation as
`touchTest` does from two engines at the ends of the band, and judges what is heard by
the monitor's rule for repeats (`IsPress`) and `judge`. The devices are external: they do
what their codes say, and lose an input code while they are still coming on.

A key with a sequence on it is `KeySequence`: its commands and waits as one list, sent in
order. It asks for no state, so the engine believes what it believed; the sequence of the
instance has no power or input code in it, as its keys have none, because the engine cannot
know of one and `StartedIsReal` does not speak of it.

Abstractions. Padding, prefixes and punctuation of channel numbers, the
names and airtimes of codes (one lamp time for all) and the decoding of pulses are left
out; a step of several actions is pressed one at a time. Times are whole milliseconds; a
wait under a microsecond is one under `Threshold`, and a sleep may come out a grain short,
which is what a sum of fractions does.

What the documents' author has to keep to, met while modelling and built into the
instance: a step that `touchTest` refuses (another order at the two ends, several devices
off in no order) is not taken (`Predictable`); the same code twice within
`REPEAT_WINDOW_US` is one press; a tap of a key with a long press overwrites its device's
wait with the shorter one between keys.

Run `touch_bench`: a television, an amplifier kept on between activities with codes that
are held, a box whose power is one code and whose inputs are stepped through, a stick with
an app; three activities that share them, a favourite, two keys and one with
a sequence on it; four paces. One start
before the test, at any pace, so that the test does not begin on a remote at rest. Only
safety is checked: `EveryTurnMoves` is the absence of the loop that the comment at
`engine.ts:540` tells of, as a fact of every state. The model never stops, so deadlock
is checked.

What does not hold, and how the properties are stated because of it. `touchbench.ts:20`
has the first Off leave every device held off; a device that is always on is not switched,
its belief stays on and the derived engine's does not, and with one in the instance TLC
refutes `PassesAsPredicted`. Overheads that change within one press may fall out of the
band, so the property is about one pace per press. A switch to an activity that powers
nothing drops the devices that are kept on, since the loop that keeps them runs over what
the new one powers (`engine.ts:667`); `SwitchKeepsOn` is about the others.

## 3. What the runs check

Passing runs, by property:

- `file_write`. `RebootOnlyVerified`: a remote is rebooted only with what was read back
  whole. `NothingLost`: no whole configuration leaves a remote that the lab has no copy of.
  `ErasesWhatItJudged`. `NeverLockedOut`: a remote that is refused reads back as a
  configuration the lab has, or as one that is whole on it and can be read into the lab, so
  there is always a backup to name. `IsRefilled`: the fairness of `ConfigStore`, by which an
  emptied remote is filled again. The safety of `ConfigStore` is proved and not among the
  properties of the run; TLC finds it to hold with `IsAStore` added to `MCFileWrite.cfg`.
- `config_write`. `ErasesWhatIsKnown`, `LabHoldsWhatIsThere`, `RestartsWhole`,
  `BesideThePlan` and `RerunAccepted`, as the table of section 1 words them.
- `touch_channel`. `AnswersWhole`, `AnswersOwn`, `ActsOnTheLine`, and `IsARequest`: the
  channel implements `TouchRequest`.
- `touch_sync`. `NothingLost`, `HandedUpStays`, `CommitsWhole`, `GatheredIsOurs`,
  `FinishedDelivers`, `AbortCostIsRight`.
- `touch_sync_ends`. `EveryRunEnds`.
- `key_link`. `OwnAddresses`, `LetsGo`, and `ReportsEachPressOnce`: link and tracker
  implement `KeyWatch`.
- `key_page`. `OneKeyPerCode`, `LearnedFromTwoPresses`, `WorkKeptApart`.
- `flash_read`. `FiledIsTheRemotes`: a configuration in the lab has every chunk of the
  remote's once, whatever was late, missed, dropped or left by another session, and is the
  remote's when no wait was given up. `RegionIsWhatWasThere`: so is a region, then. `SidecarIsTheReads`: the two files of a read are one
  read's. `LeavesNothingBehind`: a session that gave up no wait leaves a clean pipe, a
  failed one too. `EverySessionEnds`.
- `firmware_stage`. `ArmedIsWhole`: a remote is told to install only a whole image it can
  copy. `AWayBack`: its application is whole, or its staged copy, or the lab has one.
  `InstallEnds`: an install ends in the application, or in safe mode with a whole copy.
- `touch_bench`. `StartedIsReal`: after a start the equipment is on, and on its inputs.
  `OffLeavesOff`. `SwitchKeepsOn`: nothing that is used next is switched off on the way.
  `PassesAsPredicted`: a test derived at the two ends of the band passes at any pace
  between. `EveryTurnMoves`.

Runs that show where the code and its words part, each one property:

- `file_write_short` (`NothingLost` with `ShortReads`): a read that loses a data
  packet comes back short and is judged "no configuration", and what the remote held
  is erased.
- `config_write_rerun` (`RerunNotRefused`): a rerun that ends before it erases makes
  its own journal the latest, and the one after it refuses what the first left.

Four more are stated in their modules and are not among the runs. TLC refutes each under
the configuration of its component with the property in place of the others, and the last
under one of its own:

- `FileWrite!EmptyNeverRefused` (`file_write`): a write that stopped before the packet
  with the end marker reads back as a whole configuration and a restore is refused
  (`filewrite.ts:274`). `NeverLockedOut` is what the code does keep.
- `TouchSync!AbortCostsNothing` (`touch_sync_ends`): after a run that gave up before the
  screens committed, the next one says that an abort costs no tag while the first one's
  hand over is still open.
- `KeyLink!MovedCopyIsReported` (`key_link`): a press reported from the held byte whose
  copy was overwritten by the next press leaves the tracker waiting for it, and a
  later press of the same key is swallowed.
- `FlashRead!FiledInOrder` (`MCFlashReadStale.cfg`): "a read that needed retries is still a
  good read, since every window is verified by the sequence check and the whole file by the
  end marker and the trailer checksum" (`read.ts:181-183`), where two windows that changed
  places pass all three. It was met in the proof of `FiledIsTheRemotes`, which used to say
  that whatever is filed is in order: the closures do not give the order, and TLC found
  how it may go. The code says of its checksum that it is blind to this (`read.ts:321`).

The matching property that does hold is kept beside each: `NothingLost` without short
reads, `RerunAccepted`, `FiledIsTheRemotes`, `NeverLockedOut`, `AbortCostIsRight`,
`ReportsEachPressOnce`.

More disagreements were met and have neither. `filewrite.ts:490-492` says that the
next run's file system reset closes a handle left open; part way through a chunk the
reset is one more data packet and closes nothing, which `FileWrite` has
(`TakePacket`) and `IsRefilled` survives. `write-config.ts:363` says that the mark of a
run past its erase stands until the last block is verified; it is taken down after
each block. `touchbench.ts:20` and `engine.ts:667` are in section 2.9.

## 4. What is proved

For every value of the constants that the assumptions allow, that is for any number of
configurations, packets, blocks, transfers, remotes, models, keys, faults and clicks:

- `FileWriteProofs`: `OnlyTheOpenErases` about the remote alone; with short reads or
  without, `TypeCorrect`, `LinkStaysInOrder`, `JudgedRemoteIsAtRest` and
  `RebootsOnlyVerified`; with `ShortReads = FALSE`, which `file_write_short` shows they must
  assume, `ErasesOnlyWhatItJudged`, `NothingIsLost`, `NobodyIsLockedOut`, that is
  `NeverLockedOut`, and `ImplementsTheStore`. The last is `IsAStore`, the refinement of
  `ConfigStore`: a run empties the remote only of what the lab has, fills it only with the
  container it was started on, changes it in no other way and ends leaving it as it is. The
  fairness of `ConfigStore`, `IsRefilled`, is not proved.
- `ConfigWriteProofs`: its types and all five properties of `config_write`.
- `KeyLinkProofs`: its types, `ReadsItsOwn`, that is `OwnAddresses`, and
  `ImplementsTheWatch`, that is `ReportsEachPressOnce`, the refinement of `KeyWatch`, and what
  it comes to for the page, `PressesInOrder`: what was reported are presses made since the
  watch began, none twice and in their order; for any codes, version attempts, presses, links and late answers, all assuming `Replugs`.
- `KeyPageProofs`: its types and all three of `key_page`.
- `FlashReadProofs`: `TypeCorrect`, `ConfigurationsAreComplete`, `RegionsAreTheRemotes`,
  `SidecarsAreTheReads`, `SessionsLeaveNothing`, that is `FiledIsTheRemotes`,
  `RegionIsWhatWasThere`, `SidecarIsTheReads` and `LeavesNothingBehind`, for any flash,
  region, window and depth of the queue, and wherever the sequence wraps. Of what the chunks
  hold only the first assumes something, `IndependentWords`.
- `FirmwareStageProofs`: `TypeCorrect`, `NeverArmedOverLess`, `AlwaysAWayBack`, that is
  `ArmedIsWhole` and `AWayBack`, for any images, lengths, regions and blocks, and whatever
  the connected remote held.
- `TouchSyncProofs`: its types and all six properties of `touch_sync`, for any documents,
  lists, bodies, engines, changes, hand outs and faults.
- `TouchChannelProofs`: its types (`TypeCorrect`), `ActsOnWholeAnswers`,
  `ReturnsItsOwnAnswer`, `ActsOnNothingElse`, that is `AnswersWhole`, `AnswersOwn` and
  `ActsOnTheLine`, `ActsAtMostOnce`, and `ImplementsTheRequest`, the refinement of `TouchRequest` without
  its fairness; for any requests, lengths of line and of answer, packets to a chunk, asks
  and faults, wherever the sequence wraps.

How. Each rests on an inductive invariant of its own, `IInv`, with one lemma per
action.

`FileWriteProofs!IInv` is types, `JudgedAtRest`, `LinkInOrder` and `ReadIsCurrent` at
once. None is inductive alone: that a read is current needs the replies to be the ones
asked for, which needs that nothing older is on the link, which holds because a run
begins on an empty link, or with a late reply to an open that it cannot take for its
own ping's, and every throw ends the run. From it, what the open for writing
erases is what was read, and the judgement is then a judgement of the remote. That two
configurations do not read alike is no result but an assumption of the model, which tags
each packet with the configuration it is of; the lemma `NoTwoReadAlike` is where the proofs
use it.

`FlashSteps` has the four ways the flash changes in one step: not, by packets of the run's
own container, erased by its open, or put right by the owner between runs. `NothingIsLost`
is by cases on it. `NobodyIsLockedOut` needs one invariant more, `OriginInv`: a packet of a
configuration the lab has no copy of is there with the rest of it, because a run writes
only from the lab and the owner's software writes all of one. What is refused begins with
the first packet of a configuration, and that is then in the lab or whole. `ImplementsTheStore`
maps the container of the run under way to `writes`: the flash becomes whole in a run only
by its own packets (`FilledWithItsOwn`), is emptied by `NothingIsLost`, and is left alone
by a run's last step (`EndLeavesFlash`), for which a reboot must find nothing due, part of
the invariant of the next theorem. `RebootsOnlyVerified` needs a second invariant on top of `IInv`,
`WriteInv`, about the way from the open for writing to the reboot: what was read back is what
the flash serves, or short, and at the reboot it is the container (`BackInv`); a check that
said `m` has set the verdict and nothing since clears it (`VerdictInv`); an open that is
answered well has erased the file (`OpenInv`); and with no fault yet, the flash holds the
container's packets as far as they were sent (`FlashInv`).

`ConfigWriteProofs!IInv` says of every cell, at every step, which of the dump, the
target and erased it may hold: of the blocks ahead of the one in hand (`AheadInv`), of
the neighbours by their baselines (`BaselineInv`, `BesideInv`), of the plan
(`PlanInv`) and of the file saved before the first erase (`SavedInv`). The neighbours
need the baselines because an erase may have taken them and the check comes after it.
`LabInv` adds that no stamp is newer than the clock, that a new stamp differs from all
earlier ones and that what a stopped run left is of one file; `NothingOutsideTheLab`
and `RerunIsAccepted` come from it.

`KeyLinkProofs!IInv` says of the remote's queue that a key read in it is this link's
own, alone and last, behind nothing but the version requests a retry left, and that a
device that is gone has no queue (`Queued`). That one read is in flight at a time is
what pairs an answer with its address; the theorem needs `Replugs`, without which the
queue a link starts on is not empty.

`ImplementsTheWatch` has an invariant of its own on top of it, `ToldInv`, checked by TLC
first. It is about the tracker's two bytes and the last press reported (`Latest`): a byte the
tracker does not know to be old is of a press later than that (`CopyIsNew`, `HeldIsNew`);
and the same of the copy a poll has read and not yet used, which has since only moved on
(`CopyReadInv`). The last is why two reads may do without being a snapshot: a press between
them is one the poll shows by the held byte, after the one of the copy, or leaves to the next.
Every step is then a step of `KeyWatch` or leaves it alone (`Matched`), with one lemma per
action; the initial states and the ending of a watch match by `~Going`, under which nothing
is reported.

`KeyPageProofs!IInv` adds to `TypeOK` and `OneKeyPerCode` that a first press that waits
was heard while its key was asked (`HeardFirst`) and that the work on the page is that
of the remote seen last, which is the one connected if any is (`OwnPage`). Without
the last, a press could be heard on another remote's work.

`FlashReadProofs!IInv` is about `Rest`, the queue and what the remote still owes, one
after the other. Until a wait is given up, `Rest` is empty but where an answer is awaited,
and there it is a version reply or ends in the only acknowledgement (`PipeInv`): the drain
that goes on to it leaves nothing. A chunk carries no address, so that what was heard are
the places asked for rests on a count (`StreamInv`): either chunks were lost, and what was
heard and what is to come fall short of what was asked, or none were, and both follow on
from its start. A full queue takes the step from the second to the first, and only the
second gets past the check of the count. `GatheredInv` carries it from window to window
to the file; `FiledInv` says whose the bytes are while the sidecar is to come.

`ConfigurationsAreComplete` needs what holds after a wait that was given up too, when `IInv`
says next to nothing of the pipe. `ClosureInv` says that whatever is owed, queued, heard or
gathered are chunks that some session asked for (`KnownInv`), that a configuration begins
with its header (`HeaderInv`) and that one which is filed was judged (`JudgedInv`). The
rest is `ClosedIsComplete`: as the checksums agree, every word that one chunk of the
configuration alone has stands an odd number of times in what was gathered, so every chunk
is there (`ChecksumFinds`); there are as many places as chunks, so each has one place, by
counting and no induction. Nothing puts them in order, which is how `FiledInOrder` was
found to fail.

`FirmwareStageProofs!IInv` adds to types, `ArmedIsWhole` and `AWayBack` that a tool at
work stages an image the remote can copy and has a backup that is in the lab, and a way
back until it erases (`StageInv`); that while it erases and writes the status is 0 and, on
a remote that came whole, the application is whole or the lab has an image (`WriteInv`);
and that an install runs only on a status of 2, with the tool gone (`InstallInv`).
`ArmedIsWhole` needs the second, since the erase and the writes would break it; `AWayBack`
needs both, since the erase destroys the staged copy and the install the application.

`TouchSyncProofs!IInv` ties the queue, the tags, the set and the stage of the run together.
`EngineInv` is about the remote alone, whatever runs: a file's tag stands for its body, the
changes that wait are the owner's and none waits where an ending would drop it, a hand over
asks for all that waits, a sync asks with the tags of what is there. `StepInv` and `ListInv`
say what may be in hand at each step; `KeptInv`, that what the owner put in the store waits
to go up or is in the lab, which is `NothingLost` before the loss; `CostInv`, that from the
hand over's ending on nothing waits; `HandedUpInv`, that once something was handed up a sync
that is on is the run's own; `GatheredInv` and `DeliveryInv`, that it gathers what the set
holds, else what is there, and that its ending means it was stored. A step of this proof
failed on two arms of one CASE of the model that overlapped where a picture has a file and
no tag was sent; the arms are exclusive now, as the code's branches are. The proof also
needed named that the paths which end a sync are no documents (`EndingAssumption`).

`TouchChannelProofs!IInv` has a part about the remote alone, whoever is connected
(`RemoteInv`): a number that is set is a line's length and what is held begins that line,
a chunk part way in begins an announcement or a line or goes on from what is held, and
what was acted on is whole. It survives a kill at any packet and the pings after it, and
it is what `AnswersWhole` rests on. The rest says that host and remote are in lockstep
while a request runs: where the guard stands and when the remote counts (`PhaseInv`,
`DueInv`), that it has the packets sent and of its chunk the ones in hand (`ChunkInv`,
`InHand`), that the number is set from the announcement to the last chunk
(`AnnouncedInv`), and that the request was acted on exactly when its last chunk is written
(`ActedInv`). `LinkInv` is why looking at a reply's command and echo is enough: when a
reply to a write command is waited for none older is left, and what is read after a read's
own reply is the rest of the remote's answer, of which a lost packet leaves too few
(`AnswerInv`). What makes both inductive is the guard: a request that threw within a chunk
leaves it off idle, and only a new transport, whose link is empty and whose ping has to be
answered as a ping, gets it back; so where a request can start, the remote counts nothing
and no reply to a write command is left.

The assumptions are the ASSUMEs of the modules: sizes are natural numbers in the order
the code has them, the sentinels differ from the values, a face lists no key twice. TLC
evaluates them in every passing run.

## 5. What is model-checked only

Liveness and everything with fairness (`IsRefilled`, `IsARequest`, `LetsGo`,
`EveryRunEnds`, `EverySessionEnds`, `InstallEnds`): TLAPS does not treat ENABLED and
fairness. The safety part of `IsARequest` is a theorem. `TouchBench`, all five of its
properties (`StartedIsReal`, `OffLeavesOff`, `SwitchKeepsOn`, `PassesAsPredicted`,
`EveryTurnMoves`): its engine builds the lists it sends by recursion, and what a recursive
operator builds is out of the provers' reach, even that its lists are lists of entries,
which a proof about a turn would begin with. The first four also depend on the room of
equipment the constants are (a room with a device that is always on refutes one of them, as
section 2.9 says), so that no general claim is made: what is checked is checked for that room.
Every other safety invariant and action property of a passing run is a theorem. Facts by
induction over data, such as what a fold over a list of any length returns, are out of the
provers' reach; the modules to be proved about use no RECURSIVE operator and state what
they need of a sequence by its elements.

Every module but `TouchBench` and the pure ones states a type invariant, `TypeOK`. Those
of `FileWrite`, `ConfigWrite`, `KeyPage`, `FlashRead`, `FirmwareStage`, `TouchSync` and
`TouchChannel` are theorems, and no run repeats them, nor `JudgedAtRest`, of which the
same holds; so is that of `KeyLink`, assuming `Replugs`.

## 6. What is not modelled

- The codec apart from the Touch's engine, silhouettes, lab helpers, probe and the Python
  tools: no behaviour over time. That is nearly all of the repository's lines, which is
  why the map covers few of them.
- HID and WebHID themselves, the typed confirmation, argument parsing, logging.
- What a rail refuses before anything is sent, beyond the fact that it may.
- `Naming`, `Tester` and the logs of the key reader; the page's drawing.
- The reads that are one exchange (memory, keys, battery, identity), the harvest and the
  records of the lab, the dry run of a block.
- The bench's decoding of pulses, its sessions' files and its server.
- The firmware of a remote beyond what the tests, the tools and the pretend remotes state
  of it.
- The planned parts below.

## 7. Plan

In order, the more a fault there can destroy the earlier:

1. `SettingsStore`: the settings block, as a store like `ConfigStore`, with a kill at
   each step.
2. `IrSessions`: the bench's queue of tests and its one run at a time; a result that
   comes after its test was given up.
3. The arithmetic of the rails as lemmas: the addresses a write may touch, for every
   model's table.
