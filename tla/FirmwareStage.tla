---------------------------- MODULE FirmwareStage ----------------------------
(***************************************************************************)
(* Installing an application image on an arch 14 remote: the tool          *)
(* (packages/usb/bin/reinstall-firmware.ts), HarmonyRemote's stageFirmware *)
(* and requestFirmwareReinstall (packages/usb/src/remote.ts) with the rails*)
(* they pass (rails.ts), and the remote's own install at start up, external*)
(* and taken from what those files say of it.                              *)
(*                                                                         *)
(* The host writes an image into the staging region of external flash and  *)
(* sets the update status to 2; the remote, restarted, erases its          *)
(* application, copies the staged image over it, clears the status and runs*)
(* the application if it verifies, else its safe mode.  Everything may stop*)
(* anywhere: the tool be killed, an answer be lost, a transfer be          *)
(* programmed wrong, the remote restart, or lose its power and with it the *)
(* status, which lives in data memory.                                     *)
(***************************************************************************)
EXTENDS Integers

CONSTANTS
  Images,        \* application images that verify at their own length
  Size,          \* their lengths, in pieces of one transfer
  CopyLimit,     \* REINSTALL_MAX_IMAGE
  BlockPieces,   \* pieces in an erase block
  Blocks,        \* erase blocks in the staging region
  HandlerRead,   \* the images STATUS_BYTE_READ_ON_APPLICATION lists
  Erased, Wrong, \* a piece that is blank, and one that is no image's
  NoImage,
  FirstRegions, FirstApps,         \* what the remotes that are connected may hold
  MaxRuns, MaxReads, MaxFaults     \* bounds

RegionPieces == BlockPieces * Blocks
Region       == 1..RegionPieces
Application  == 1..CopyLimit
Held         == Images \cup {Erased, Wrong}

ASSUME ImageAssumption ==
  /\ Size \in [Images -> Nat \ {0}] /\ \A v \in Images : Size[v] <= RegionPieces
  /\ HandlerRead \subseteq Images
  /\ Erased \notin Images /\ Wrong \notin Images /\ Erased # Wrong /\ NoImage \notin Images
ASSUME RegionAssumption ==
  /\ BlockPieces \in Nat \ {0} /\ Blocks \in Nat \ {0}
  /\ CopyLimit \in 1..RegionPieces
ASSUME ArrivalAssumption ==
  FirstRegions \subseteq [Region -> Held] /\ FirstApps \subseteq [Application -> Held]
ASSUME BoundAssumption == MaxRuns \in Nat /\ MaxReads \in Nat /\ MaxFaults \in Nat

VARIABLES
  region,      \* the staging region of external flash
  app,         \* the application area of the processor's own flash
  status,      \* the update status byte: 0, or 2 for `install what is staged'
  running,     \* what the remote runs
  copied,      \* pieces of a running install copied
  step,        \* what the tool does next, "off" when it does not run
  image,       \* what it was told to stage, NoImage for a repair
  backup,      \* the backup it was given
  done,        \* blocks erased, or pieces written
  files,       \* the lab's reads of the staging region
  cameWhole,   \* the remote had a whole application when it was first connected
  runs, reads, faults

remote == <<region, app, status, running, copied>>
tool   == <<step, image, backup, done>>
bounds == <<runs, reads, faults>>
vars   == <<remote, tool, files, cameWhole, bounds>>

(* checkFirmwareImage on a buffer of `limit' pieces: the header's image is *)
(* there, at the length it states.                                         *)
Verifies(held, limit) ==
  held[1] \in Images /\ Size[held[1]] <= limit
  /\ \A i \in 1..Size[held[1]] : held[i] = held[1]

Usable(held) == Verifies(held, CopyLimit)
AppWhole     == Verifies(app, CopyLimit)
Staged(v)    == [i \in Region |-> IF i <= Size[v] THEN v ELSE Erased]
Blank        == [i \in Region |-> Erased]

Steps == {"off", "survey", "stage", "disarm", "disarmed", "erase", "write", "compare",
          "request", "arm", "armed"}

TypeOK ==
  /\ region \in [Region -> Held] /\ app \in [Application -> Held]
  /\ status \in {0, 2} /\ copied \in 0..CopyLimit
  /\ running \in {"application", "safemode", "starting", "copying"}
  /\ step \in Steps /\ image \in Images \cup {NoImage}
  /\ backup \in [Region -> Held] /\ done \in Nat
  /\ files \subseteq [Region -> Held] /\ cameWhole \in BOOLEAN
  /\ runs \in 0..MaxRuns /\ reads \in 0..MaxReads /\ faults \in 0..MaxFaults

Boots == running' = IF Verifies(app', CopyLimit) THEN "application" ELSE "safemode"

Init ==
  /\ region \in FirstRegions /\ app \in FirstApps
  /\ status = 0 /\ copied = 0 /\ cameWhole = AppWhole
  /\ running = IF AppWhole THEN "application" ELSE "safemode"
  /\ step = "off" /\ image = NoImage /\ backup = Blank /\ done = 0 /\ files = {}
  /\ runs = 0 /\ reads = 0 /\ faults = 0

-----------------------------------------------------------------------------
(* The tool.                                                               *)

Talking == running \in {"application", "safemode"}
Goes(next) == step' = next /\ UNCHANGED <<image, backup>>

(* A read of the staging region, filed in the lab.                         *)
TakeBackup ==
  /\ step = "off" /\ Talking /\ reads < MaxReads
  /\ reads' = reads + 1 /\ files' = files \cup {region}
  /\ UNCHANGED <<remote, tool, cameWhole, runs, faults>>

RunTool(v, kept) ==
  /\ step = "off" /\ Talking /\ runs < MaxRuns
  /\ runs' = runs + 1 /\ step' = "survey" /\ image' = v /\ backup' = kept /\ done' = 0
  /\ UNCHANGED <<remote, files, cameWhole, reads, faults>>

(* A repair is for a remote in safe mode with a usable staged image.  A    *)
(* stage is for one whose region the backup equals, or whose region is     *)
(* blank, as a stage stopped past its erase leaves it, and whose backup    *)
(* holds an image.                                                         *)
IsAWayBackByHeader == backup[1] = region[1]     \* slip: the rest is not compared
IsAWayBack ==
  \/ backup = region
  \/ region = Blank /\ Verifies(backup, RegionPieces)

Survey ==
  /\ step = "survey" /\ UNCHANGED <<remote, files, cameWhole, bounds, done>>
  /\ IF image = NoImage
     THEN Goes(IF running = "safemode" /\ Usable(region) THEN "request" ELSE "off")
     ELSE Goes(IF IsAWayBack THEN "stage" ELSE "off")

(* assertStatusByteReadOn.                                                 *)
StatusByteRead == running = "safemode" \/ app[1] \in HandlerRead

(* assertStagingAllowed.                                                   *)
Stage ==
  /\ step = "stage" /\ UNCHANGED <<remote, files, cameWhole, bounds, done>>
  /\ Goes(IF StatusByteRead /\ Size[image] <= CopyLimit THEN "disarm" ELSE "off")

(* An exchange's answer may be lost, and the command with it: it throws.   *)
Lost == faults < MaxFaults /\ faults' = faults + 1 /\ Goes("off")

SetStatus(value, next) ==
  /\ \/ status' = value /\ Goes(next) /\ UNCHANGED faults
     \/ status' \in {status, value} /\ Lost
  /\ UNCHANGED <<region, app, running, copied, files, cameWhole, runs, reads, done>>

DisarmNot == step = "disarm" /\ UNCHANGED <<remote, files, cameWhole, bounds, done>>  \* slip:
             /\ Goes("erase")                           \* the status is left as it is
Disarm == step = "disarm" /\ SetStatus(0, "disarmed")

ReadBackDisarmed ==
  /\ step = "disarmed" /\ Goes(IF status = 0 THEN "erase" ELSE "off")
  /\ UNCHANGED <<remote, files, cameWhole, bounds, done>>

BlockOf(n) == {i \in Region : (n - 1) * BlockPieces < i /\ i <= n * BlockPieces}
Erasing    == [i \in Region |-> IF i \in BlockOf(done + 1) THEN Erased ELSE region[i]]

Erase ==
  /\ step = "erase"
  /\ IF done = Blocks THEN Goes("write") /\ done' = 0 /\ UNCHANGED <<region, faults>>
     ELSE \/ region' = Erasing /\ done' = done + 1 /\ Goes("erase") /\ UNCHANGED faults
          \/ region' \in {region, Erasing} /\ Lost /\ UNCHANGED done
  /\ UNCHANGED <<app, status, running, copied, files, cameWhole, runs, reads>>

(* A transfer may leave what is not the image's in the flash it names, its *)
(* acknowledgement notwithstanding.                                        *)
Writing(held) == [region EXCEPT ![done + 1] = held]

Write ==
  /\ step = "write"
  /\ IF done = Size[image] THEN Goes("compare") /\ UNCHANGED <<region, done, faults>>
     ELSE \/ region' = Writing(image) /\ done' = done + 1 /\ Goes("write") /\ UNCHANGED faults
          \/ /\ region' = Writing(Wrong) /\ done' = done + 1 /\ Goes("write")
             /\ faults < MaxFaults /\ faults' = faults + 1
          \/ region' \in {region, Writing(image), Writing(Wrong)} /\ Lost /\ UNCHANGED done
  /\ UNCHANGED <<app, status, running, copied, files, cameWhole, runs, reads>>

(* The whole region read back, and the block above it, which the model     *)
(* leaves out: an erase wider than a block only makes this throw.          *)
Compare ==
  /\ step = "compare" /\ UNCHANGED <<remote, files, cameWhole, bounds, done>>
  /\ \/ Goes(IF region = Staged(image) THEN "request" ELSE "off")
     \/ Goes("off")

(* requestFirmwareReinstall, its rail judging what it reads off the remote.*)
ReinstallAllowed == Usable(region) /\ StatusByteRead
Request ==
  /\ step = "request" /\ UNCHANGED <<remote, files, cameWhole, bounds, done>>
  /\ Goes(IF ReinstallAllowed THEN "arm" ELSE "off")

Arm == step = "arm" /\ SetStatus(2, "armed")

(* The status read back, and the reset escape, which nothing acknowledges. *)
ResetDevice ==
  /\ step = "armed" /\ Goes("off") /\ running' = "starting" /\ done' = 0
  /\ UNCHANGED <<region, app, status, copied, files, cameWhole, bounds>>

Tool == Survey \/ Stage \/ Disarm \/ ReadBackDisarmed \/ Erase \/ Write \/ Compare
        \/ Request \/ Arm \/ ResetDevice

-----------------------------------------------------------------------------
(* The remote at start up, as the safe mode image's install routine has it.*)

StartInstall ==
  /\ running = "starting" /\ status = 2
  /\ running' = "copying" /\ copied' = 0 /\ app' = [i \in Application |-> Erased]
  /\ UNCHANGED <<region, status, tool, files, cameWhole, bounds>>

Start ==
  /\ running = "starting" /\ status = 0 /\ UNCHANGED app /\ Boots
  /\ UNCHANGED <<region, status, copied, tool, files, cameWhole, bounds>>

(* The length is the header's, clamped; a blank header states the most.    *)
Clamped == IF region[1] \in Images /\ Size[region[1]] < CopyLimit THEN Size[region[1]]
           ELSE CopyLimit

Copy ==
  /\ running = "copying" /\ copied < Clamped
  /\ copied' = copied + 1 /\ app' = [app EXCEPT ![copied + 1] = region[copied + 1]]
  /\ UNCHANGED <<region, status, running, tool, files, cameWhole, bounds>>

EndInstall ==
  /\ running = "copying" /\ copied >= Clamped
  /\ status' = 0 /\ copied' = 0 /\ UNCHANGED app /\ Boots
  /\ UNCHANGED <<region, tool, files, cameWhole, bounds>>

Remote == StartInstall \/ Start \/ Copy \/ EndInstall

-----------------------------------------------------------------------------
(* What may go wrong around them.                                          *)

Fault == faults < MaxFaults /\ faults' = faults + 1 /\ UNCHANGED <<region, app, files, cameWhole, runs, reads>>

(* A restart keeps data memory; losing the power does not.                 *)
Restart ==
  /\ Fault /\ running' = "starting" /\ copied' = 0 /\ step' = "off" /\ done' = 0
  /\ status' \in {0, status} /\ UNCHANGED <<image, backup>>

KillTool ==
  /\ step # "off" /\ Fault /\ step' = "off" /\ done' = 0
  /\ UNCHANGED <<status, running, copied, image, backup>>

Next ==
  \/ TakeBackup
  \/ \E v \in Images, kept \in files : RunTool(v, kept)
  \/ RunTool(NoImage, Blank)
  \/ Tool \/ Remote \/ Restart \/ KillTool

(* The remote runs its start up code through.                              *)
Spec == Init /\ [][Next]_vars /\ WF_vars(Remote)

-----------------------------------------------------------------------------
(* A remote is told to install only while what is staged is a whole image  *)
(* it can copy whole: however a stage or a reinstall ended, a restart at   *)
(* any moment either installs that or installs nothing.                    *)
ArmedIsWhole == status = 2 => Usable(region)

(* A remote that came with a whole application never runs out of ways back:*)
(* its application is whole, or its staged copy is, or the lab holds a read*)
(* of the staging region with an image in it.                              *)
AWayBack ==
  cameWhole => AppWhole \/ Usable(region) \/ \E f \in files : Verifies(f, RegionPieces)

(* An install that has begun ends: in the application, or, cut short by a  *)
(* loss of power, in safe mode with the staged copy still whole.           *)
InstallEnds ==
  running = "copying" ~>
    \/ running = "application" /\ AppWhole
    \/ running = "safemode" /\ Usable(region)
=============================================================================
