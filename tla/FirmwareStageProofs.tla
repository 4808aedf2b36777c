------------------------ MODULE FirmwareStageProofs ------------------------
(***************************************************************************)
(* Theorems about FirmwareStage, for images, a region and a copy limit of  *)
(* any size and any number of runs, reads and faults.                      *)
(***************************************************************************)
EXTENDS FirmwareStage, TLAPS

BeforeErase == {"stage", "disarm", "disarmed"}
AtWork      == {"erase", "write", "compare"}
PastRail    == AtWork \cup {"disarm", "disarmed"}

(* A stage has an image, and past its rail one that can be copied whole; a *)
(* run stages only behind a backup the lab holds.                          *)
StageInv ==
  /\ step \in BeforeErase \cup AtWork => image \in Images
  /\ step \in PastRail => Size[image] <= CopyLimit
  /\ step # "off" /\ image # NoImage => backup \in files
  /\ step \in BeforeErase => IsAWayBack

(* The region changes only under a status of 0, and after a way back is    *)
(* known that does not pass through it.                                    *)
FilesHoldAnImage == \E f \in files : Verifies(f, RegionPieces)
WriteInv ==
  /\ step \in AtWork => status = 0
  /\ step \in AtWork /\ cameWhole => AppWhole \/ FilesHoldAnImage

(* The tool has gone while the remote starts up, and an install runs on    *)
(* the status that asked for it.                                           *)
InstallInv ==
  /\ running \in {"starting", "copying"} => step = "off"
  /\ running = "copying" => status = 2
  /\ step = "arm" => Usable(region)

IInv == TypeOK /\ ArmedIsWhole /\ AWayBack /\ StageInv /\ WriteInv /\ InstallInv

-----------------------------------------------------------------------------
LEMMA RegionSize == RegionPieces \in Nat /\ CopyLimit \in 1..RegionPieces
  BY RegionAssumption DEF RegionPieces

(* What can be copied whole verifies within the region too.                *)
LEMMA UsableVerifies ==
  ASSUME NEW held, Usable(held)
  PROVE  Verifies(held, RegionPieces)
<1>1. held[1] \in Images /\ Size[held[1]] <= CopyLimit
  BY DEF Usable, Verifies
<1>2. Size[held[1]] \in Nat
  BY <1>1, ImageAssumption
<1> QED BY <1>1, <1>2, RegionSize DEF Usable, Verifies

LEMMA InitHolds == Init => IInv
<1> SUFFICES ASSUME Init PROVE IInv
  OBVIOUS
<1>1. region \in [Region -> Held] /\ app \in [Application -> Held]
  BY ArrivalAssumption DEF Init
<1>2. Blank \in [Region -> Held]
  BY DEF Blank, Held
<1>0. AppWhole \in BOOLEAN
  BY DEF AppWhole, Verifies
<1>3. TypeOK
  <2>0. /\ status = 0 /\ copied = 0 /\ done = 0 /\ runs = 0 /\ reads = 0 /\ faults = 0
        /\ step = "off" /\ image = NoImage /\ files = {} /\ backup = Blank
    BY Zenon DEF Init
  <2>1. /\ status \in {0, 2} /\ copied \in 0..CopyLimit /\ done \in Nat
        /\ runs \in 0..MaxRuns /\ reads \in 0..MaxReads /\ faults \in 0..MaxFaults
    BY <2>0, RegionSize, BoundAssumption
  <2>2. running \in {"application", "safemode", "starting", "copying"}
    BY Zenon DEF Init
  <2>5. step \in Steps /\ image \in Images \cup {NoImage} /\ files \subseteq [Region -> Held]
    BY <2>0 DEF Steps
  <2>3. cameWhole \in BOOLEAN
    BY <1>0, Zenon DEF Init
  <2>4. backup \in [Region -> Held]
    BY <1>2, <2>0
  <2> QED BY <1>1, <2>1, <2>2, <2>3, <2>4, <2>5 DEF TypeOK
<1>4. step = "off" /\ status = 0 /\ running \in {"application", "safemode"}
  BY Zenon DEF Init
<1>5. ArmedIsWhole /\ StageInv /\ WriteInv /\ InstallInv
  BY <1>4 DEF ArmedIsWhole, StageInv, WriteInv, InstallInv, BeforeErase, AtWork, PastRail
<1>6. AWayBack
  BY Zenon DEF Init, AWayBack
<1> QED BY <1>3, <1>5, <1>6 DEF IInv

-----------------------------------------------------------------------------
(* The tool's steps.  One that leaves the remote and the lab alone keeps   *)
(* everything that is said of them.                                        *)

LEMMA SameRemote ==
  ASSUME ArmedIsWhole, AWayBack, UNCHANGED <<remote, files, cameWhole>>
  PROVE  ArmedIsWhole' /\ AWayBack'
  BY DEF ArmedIsWhole, AWayBack, Usable, AppWhole, Verifies, remote

LEMMA TakeBackupKeeps == IInv /\ TakeBackup => IInv'
<1> SUFFICES ASSUME IInv, TakeBackup PROVE IInv'
  OBVIOUS
<1> USE DEF TakeBackup, remote, tool
<1>1. TypeOK'
  BY BoundAssumption, RegionSize DEF IInv, TypeOK
<1>2. ArmedIsWhole'
  BY RegionSize, BoundAssumption DEF IInv, ArmedIsWhole, Usable, Verifies
<1>3. AWayBack'
  BY DEF IInv, AWayBack, Usable, AppWhole, Verifies
<1>4. StageInv' /\ WriteInv' /\ InstallInv'
  BY DEF IInv, StageInv, WriteInv, InstallInv, BeforeErase, AtWork, PastRail
<1> QED BY <1>1, <1>2, <1>3, <1>4 DEF IInv

LEMMA RunToolKeeps ==
  ASSUME IInv, NEW v \in Images \cup {NoImage}, NEW kept, RunTool(v, kept),
         v # NoImage => kept \in files, kept \in [Region -> Held]
  PROVE  IInv'
<1> USE DEF RunTool, remote
<1>1. TypeOK'
  BY BoundAssumption, RegionSize DEF IInv, TypeOK, Steps
<1>2. ArmedIsWhole' /\ AWayBack'
  BY SameRemote DEF IInv
<1>3. StageInv'
  BY DEF IInv, StageInv, BeforeErase, AtWork, PastRail
<1>4. WriteInv' /\ InstallInv'
  BY DEF IInv, WriteInv, InstallInv, AtWork, Talking
<1> QED BY <1>1, <1>2, <1>3, <1>4 DEF IInv

(* A step that only moves on, to a place where what it says holds.         *)
LEMMA GoesKeeps ==
  ASSUME IInv, step # "off", NEW next \in Steps, Goes(next),
         UNCHANGED <<remote, files, cameWhole>>, done' \in Nat,
         UNCHANGED <<runs, reads>>, faults' \in 0..MaxFaults,
         next \in BeforeErase \cup AtWork => image \in Images,
         next \in PastRail => Size[image] <= CopyLimit,
         next \in BeforeErase => IsAWayBack,
         next \in AtWork => status = 0 /\ (cameWhole => AppWhole \/ FilesHoldAnImage),
         next = "arm" => Usable(region)
  PROVE  IInv'
<1> USE DEF Goes, remote
<1>1. TypeOK'
  BY BoundAssumption, RegionSize DEF IInv, TypeOK
<1>2. ArmedIsWhole' /\ AWayBack'
  BY SameRemote DEF IInv
<1>3. IsAWayBack' <=> IsAWayBack
  BY DEF IsAWayBack, Verifies
<1>4. StageInv'
  BY <1>3 DEF IInv, StageInv
<1>5. AppWhole' <=> AppWhole
  BY DEF AppWhole, Verifies
<1>6. FilesHoldAnImage' <=> FilesHoldAnImage
  BY DEF FilesHoldAnImage, Verifies
<1>7. WriteInv'
  BY <1>5, <1>6 DEF IInv, WriteInv
<1>8. Usable(region)' <=> Usable(region)
  BY DEF Usable, Verifies
<1>9. InstallInv'
  BY <1>8 DEF IInv, InstallInv
<1> QED BY <1>1, <1>2, <1>4, <1>7, <1>9 DEF IInv

LEMMA SurveyKeeps == IInv /\ Survey => IInv'
<1> SUFFICES ASSUME IInv, Survey PROVE IInv'
  OBVIOUS
<1> USE DEF Survey, bounds, BeforeErase, AtWork, PastRail, Steps
<1>0. done' \in Nat /\ faults' \in 0..MaxFaults
  BY DEF IInv, TypeOK
<1>1. CASE image = NoImage
  <2>1. CASE running = "safemode" /\ Usable(region)
    <3>1. Goes("request")
      BY <1>1, <2>1
    <3> QED BY <1>0, <3>1, GoesKeeps
  <2>2. CASE ~(running = "safemode" /\ Usable(region))
    <3>1. Goes("off")
      BY <1>1, <2>2
    <3> QED BY <1>0, <3>1, GoesKeeps
  <2> QED BY <2>1, <2>2
<1>2. CASE image # NoImage
  <2>0. image \in Images
    BY <1>2 DEF IInv, TypeOK
  <2>1. CASE IsAWayBack
    <3>1. Goes("stage")
      BY <1>2, <2>1
    <3> QED BY <1>0, <2>0, <2>1, <3>1, GoesKeeps
  <2>2. CASE ~IsAWayBack
    <3>1. Goes("off")
      BY <1>2, <2>2
    <3> QED BY <1>0, <3>1, GoesKeeps
  <2> QED BY <2>1, <2>2
<1> QED BY <1>1, <1>2

LEMMA StageKeeps == IInv /\ Stage => IInv'
<1> SUFFICES ASSUME IInv, Stage PROVE IInv'
  OBVIOUS
<1> USE DEF Stage, bounds, BeforeErase, AtWork, PastRail, Steps
<1>0. done' \in Nat /\ faults' \in 0..MaxFaults
  BY DEF IInv, TypeOK
<1>1. CASE StatusByteRead /\ Size[image] <= CopyLimit
  <2>1. Goes("disarm") /\ image \in Images /\ IsAWayBack
    BY <1>1 DEF IInv, StageInv
  <2> QED BY <1>0, <1>1, <2>1, GoesKeeps
<1>2. CASE ~(StatusByteRead /\ Size[image] <= CopyLimit)
  <2>1. Goes("off")
    BY <1>2
  <2> QED BY <1>0, <2>1, GoesKeeps
<1> QED BY <1>1, <1>2

(* A status of 0 is no command; the steps after one ask nothing of it.     *)
LEMMA DisarmKeeps == IInv /\ Disarm => IInv'
<1> SUFFICES ASSUME IInv, Disarm PROVE IInv'
  OBVIOUS
<1> USE DEF Disarm, SetStatus, Lost, Goes
<1>1. TypeOK'
  BY BoundAssumption, RegionSize DEF IInv, TypeOK, Steps
<1>2. status' \in {0, status}
  OBVIOUS
<1>3. ArmedIsWhole'
  BY <1>2 DEF IInv, ArmedIsWhole, Usable, Verifies
<1>4. AWayBack'
  BY DEF IInv, AWayBack, Usable, AppWhole, Verifies
<1>5. IsAWayBack' <=> IsAWayBack
  BY DEF IsAWayBack, Verifies
<1>6. StageInv'
  BY <1>5 DEF IInv, StageInv, BeforeErase, AtWork, PastRail
<1>7. WriteInv'
  BY DEF IInv, WriteInv, AtWork
<1>8. InstallInv'
  BY DEF IInv, InstallInv
<1> QED BY <1>1, <1>3, <1>4, <1>6, <1>7, <1>8 DEF IInv

LEMMA ReadBackDisarmedKeeps == IInv /\ ReadBackDisarmed => IInv'
<1> SUFFICES ASSUME IInv, ReadBackDisarmed PROVE IInv'
  OBVIOUS
<1> USE DEF ReadBackDisarmed, bounds, BeforeErase, AtWork, PastRail, Steps
<1>0. done' \in Nat /\ faults' \in 0..MaxFaults
  BY DEF IInv, TypeOK
<1>1. CASE status = 0
  <2>1. Goes("erase") /\ image \in Images /\ Size[image] <= CopyLimit /\ IsAWayBack
    BY <1>1 DEF IInv, StageInv
  <2>2. backup \in files
    BY <2>1, ImageAssumption DEF IInv, StageInv
  <2>3. Usable(region) => Verifies(region, RegionPieces)
    BY UsableVerifies
  <2>4. cameWhole => AppWhole \/ FilesHoldAnImage
    BY <2>1, <2>2, <2>3 DEF IInv, AWayBack, IsAWayBack, FilesHoldAnImage
  <2> QED BY <1>0, <1>1, <2>1, <2>4, GoesKeeps
<1>2. CASE status # 0
  <2>1. Goes("off")
    BY <1>2
  <2> QED BY <1>0, <2>1, GoesKeeps
<1> QED BY <1>1, <1>2

(* While a stage changes the region, a way back exists outside it.         *)
LEMMA RegionKeeps ==
  ASSUME IInv, step \in {"erase", "write"}, region' \in [Region -> Held],
         NEW next \in AtWork \cup {"off"}, Goes(next), done' \in Nat,
         faults' \in 0..MaxFaults,
         UNCHANGED <<app, status, running, copied, files, cameWhole, runs, reads>>
  PROVE  IInv'
<1> USE DEF Goes
<1>1. TypeOK'
  BY BoundAssumption, RegionSize DEF IInv, TypeOK, Steps, AtWork
<1>2. status' = 0
  BY DEF IInv, WriteInv, AtWork
<1>3. ArmedIsWhole'
  BY <1>2 DEF ArmedIsWhole
<1>4. /\ AppWhole' <=> AppWhole
      /\ FilesHoldAnImage' <=> FilesHoldAnImage
  BY DEF AppWhole, FilesHoldAnImage, Verifies
<1>5. cameWhole => AppWhole \/ FilesHoldAnImage
  BY DEF IInv, WriteInv, AtWork
<1>6. AWayBack'
  BY <1>4, <1>5 DEF AWayBack, FilesHoldAnImage
<1>7. StageInv'
  BY DEF IInv, StageInv, BeforeErase, AtWork, PastRail
<1>8. WriteInv'
  BY <1>2, <1>4, <1>5 DEF WriteInv
<1>9. InstallInv'
  BY DEF IInv, InstallInv, AtWork
<1> QED BY <1>1, <1>3, <1>6, <1>7, <1>8, <1>9 DEF IInv

LEMMA EraseKeeps == IInv /\ Erase => IInv'
<1> SUFFICES ASSUME IInv, Erase PROVE IInv'
  OBVIOUS
<1>1. Erasing \in [Region -> Held] /\ region \in [Region -> Held]
  BY DEF IInv, TypeOK, Erasing, Held
<1>2. region' \in [Region -> Held]
  BY <1>1 DEF Erase
<1>3. done' \in Nat /\ faults' \in 0..MaxFaults
  BY BoundAssumption, RegionSize DEF Erase, Lost, IInv, TypeOK
<1>4. PICK next \in AtWork \cup {"off"} : Goes(next)
  BY DEF Erase, Lost, AtWork
<1> QED BY <1>2, <1>3, <1>4, RegionKeeps DEF Erase

LEMMA WriteKeeps == IInv /\ Write => IInv'
<1> SUFFICES ASSUME IInv, Write PROVE IInv'
  OBVIOUS
<1>1. /\ region \in [Region -> Held]
      /\ Writing(image) \in [Region -> Held] /\ Writing(Wrong) \in [Region -> Held]
  BY DEF IInv, TypeOK, StageInv, Write, Writing, AtWork, Held
<1>2. region' \in [Region -> Held]
  BY <1>1 DEF Write
<1>3. done' \in Nat /\ faults' \in 0..MaxFaults
  BY BoundAssumption, RegionSize DEF Write, Lost, IInv, TypeOK
<1>4. PICK next \in AtWork \cup {"off"} : Goes(next)
  BY DEF Write, Lost, AtWork
<1> QED BY <1>2, <1>3, <1>4, RegionKeeps DEF Write

LEMMA CompareKeeps == IInv /\ Compare => IInv'
<1> SUFFICES ASSUME IInv, Compare PROVE IInv'
  OBVIOUS
<1> USE DEF Compare, bounds, BeforeErase, AtWork, PastRail, Steps
<1>0. done' \in Nat /\ faults' \in 0..MaxFaults
  BY DEF IInv, TypeOK
<1>1. Goes("request") \/ Goes("off")
  OBVIOUS
<1> QED BY <1>0, <1>1, GoesKeeps

LEMMA RequestKeeps == IInv /\ Request => IInv'
<1> SUFFICES ASSUME IInv, Request PROVE IInv'
  OBVIOUS
<1> USE DEF Request, bounds, BeforeErase, AtWork, PastRail, Steps
<1>0. done' \in Nat /\ faults' \in 0..MaxFaults
  BY DEF IInv, TypeOK
<1>1. (Goes("arm") /\ Usable(region)) \/ Goes("off")
  BY DEF ReinstallAllowed
<1> QED BY <1>0, <1>1, GoesKeeps

(* Armed over what the rail judged, which nothing has written since.       *)
LEMMA ArmKeeps == IInv /\ Arm => IInv'
<1> SUFFICES ASSUME IInv, Arm PROVE IInv'
  OBVIOUS
<1> USE DEF Arm, SetStatus, Lost, Goes
<1>1. TypeOK'
  BY BoundAssumption, RegionSize DEF IInv, TypeOK, Steps
<1>2. Usable(region)'
  BY DEF IInv, InstallInv, Usable, Verifies
<1>3. ArmedIsWhole' /\ AWayBack'
  BY <1>2 DEF ArmedIsWhole, AWayBack
<1>4. StageInv' /\ WriteInv'
  BY DEF IInv, StageInv, WriteInv, BeforeErase, AtWork, PastRail
<1>5. InstallInv'
  BY <1>2 DEF IInv, InstallInv
<1> QED BY <1>1, <1>3, <1>4, <1>5 DEF IInv

(* The tool goes, and the remote's flash is as it was.                     *)
LEMMA GoneKeeps ==
  ASSUME IInv, step' = "off", image' = image, backup' = backup, done' \in Nat,
         status' \in {0, status}, running' \in {"application", "safemode", "starting", "copying"},
         running' = "copying" => running = "copying" /\ status' = status,
         copied' \in 0..CopyLimit, faults' \in 0..MaxFaults,
         UNCHANGED <<region, app, files, cameWhole, runs, reads>>
  PROVE  IInv'
<1>1. TypeOK'
  BY BoundAssumption, RegionSize DEF IInv, TypeOK, Steps
<1>2. ArmedIsWhole'
  BY RegionSize, BoundAssumption DEF IInv, ArmedIsWhole, Usable, Verifies
<1>3. AWayBack'
  BY DEF IInv, AWayBack, Usable, AppWhole, Verifies
<1>4. StageInv' /\ WriteInv'
  BY DEF StageInv, WriteInv, BeforeErase, AtWork, PastRail
<1>5. InstallInv'
  BY DEF IInv, InstallInv
<1> QED BY <1>1, <1>2, <1>3, <1>4, <1>5 DEF IInv

LEMMA ResetDeviceKeeps == IInv /\ ResetDevice => IInv'
<1> SUFFICES ASSUME IInv, ResetDevice PROVE IInv'
  OBVIOUS
<1>1. copied' \in 0..CopyLimit /\ faults' \in 0..MaxFaults
  BY DEF ResetDevice, bounds, IInv, TypeOK
<1> QED BY <1>1, GoneKeeps DEF ResetDevice, Goes, bounds

LEMMA FaultsKeep == IInv /\ (Restart \/ KillTool) => IInv'
<1> SUFFICES ASSUME IInv, Restart \/ KillTool PROVE IInv'
  OBVIOUS
<1>1. faults' \in 0..MaxFaults
  BY BoundAssumption, RegionSize DEF Restart, KillTool, Fault, IInv, TypeOK
<1>2. CASE Restart
  <2>1. copied' \in 0..CopyLimit
    BY <1>2, RegionSize DEF Restart
  <2> QED BY <1>1, <1>2, <2>1, GoneKeeps DEF Restart, Fault
<1>3. CASE KillTool
  <2>1. copied' \in 0..CopyLimit /\ running' \in {"application", "safemode", "starting", "copying"}
    BY <1>3 DEF KillTool, IInv, TypeOK
  <2> QED BY <1>1, <1>3, <2>1, GoneKeeps DEF KillTool, Fault
<1> QED BY <1>2, <1>3

-----------------------------------------------------------------------------
(* The remote's steps, with the tool gone.                                 *)

LEMMA RemoteKeepsTool ==
  ASSUME IInv, step = "off", UNCHANGED tool,
         running' # "copying" \/ status' = 2
  PROVE  StageInv' /\ WriteInv' /\ InstallInv'
  BY DEF tool, StageInv, WriteInv, InstallInv, BeforeErase, AtWork, PastRail

LEMMA StartInstallKeeps == IInv /\ StartInstall => IInv'
<1> SUFFICES ASSUME IInv, StartInstall PROVE IInv'
  OBVIOUS
<1>1. step = "off"
  BY DEF IInv, InstallInv, StartInstall
<1>2. TypeOK'
  BY RegionSize DEF IInv, TypeOK, StartInstall, tool, bounds, Held
<1>3. Usable(region)'
  BY DEF IInv, ArmedIsWhole, StartInstall, Usable, Verifies
<1>4. ArmedIsWhole' /\ AWayBack'
  BY <1>3 DEF ArmedIsWhole, AWayBack
<1>5. StageInv' /\ WriteInv' /\ InstallInv'
  BY <1>1, RemoteKeepsTool DEF StartInstall
<1> QED BY <1>2, <1>4, <1>5 DEF IInv

LEMMA StartKeeps == IInv /\ Start => IInv'
<1> SUFFICES ASSUME IInv, Start PROVE IInv'
  OBVIOUS
<1>1. step = "off"
  BY DEF IInv, InstallInv, Start
<1>2. running' \in {"application", "safemode"}
  BY DEF Start, Boots
<1>3. TypeOK'
  BY <1>2 DEF IInv, TypeOK, Start, tool, bounds
<1>4. ArmedIsWhole' /\ AWayBack'
  BY DEF IInv, ArmedIsWhole, AWayBack, Start, Usable, AppWhole, Verifies
<1>5. StageInv' /\ WriteInv' /\ InstallInv'
  BY <1>1, <1>2, RemoteKeepsTool DEF Start
<1> QED BY <1>3, <1>4, <1>5 DEF IInv

LEMMA CopyKeeps == IInv /\ Copy => IInv'
<1> SUFFICES ASSUME IInv, Copy PROVE IInv'
  OBVIOUS
<1>1. step = "off" /\ status = 2
  BY DEF IInv, InstallInv, Copy
<1>2. Clamped \in Nat /\ Clamped <= CopyLimit
  BY ImageAssumption, RegionSize DEF Clamped
<1>3. copied + 1 \in Region /\ copied + 1 \in 0..CopyLimit
  BY <1>2, RegionSize DEF Copy, IInv, TypeOK, Region
<1>4. region[copied + 1] \in Held
  BY <1>3 DEF IInv, TypeOK
<1>5. TypeOK'
  BY <1>3, <1>4 DEF IInv, TypeOK, Copy, tool, bounds
<1>6. Usable(region)'
  BY <1>1 DEF IInv, ArmedIsWhole, Copy, Usable, Verifies
<1>7. ArmedIsWhole' /\ AWayBack'
  BY <1>6 DEF ArmedIsWhole, AWayBack
<1>8. StageInv' /\ WriteInv' /\ InstallInv'
  BY <1>1, RemoteKeepsTool DEF Copy
<1> QED BY <1>5, <1>7, <1>8 DEF IInv

LEMMA EndInstallKeeps == IInv /\ EndInstall => IInv'
<1> SUFFICES ASSUME IInv, EndInstall PROVE IInv'
  OBVIOUS
<1>1. step = "off" /\ status = 2
  BY DEF IInv, InstallInv, EndInstall
<1>2. running' \in {"application", "safemode"}
  BY DEF EndInstall, Boots
<1>3. TypeOK'
  <2>1. copied' = 0 /\ status' = 0 /\ UNCHANGED <<region, app, tool, files, cameWhole, bounds>>
    BY DEF EndInstall
  <2> QED BY <2>1, <1>2, RegionSize, BoundAssumption DEF IInv, TypeOK, tool, bounds
<1>4. Usable(region)'
  BY <1>1 DEF IInv, ArmedIsWhole, EndInstall, Usable, Verifies
<1>5. ArmedIsWhole' /\ AWayBack'
  BY <1>4 DEF ArmedIsWhole, AWayBack
<1>6. StageInv' /\ WriteInv' /\ InstallInv'
  BY <1>1, <1>2, RemoteKeepsTool DEF EndInstall
<1> QED BY <1>3, <1>5, <1>6 DEF IInv

-----------------------------------------------------------------------------
LEMMA StepKeeps == IInv /\ [Next]_vars => IInv'
<1> SUFFICES ASSUME IInv, [Next]_vars PROVE IInv'
  OBVIOUS
<1>1. ASSUME NEW v \in Images, NEW kept \in files, RunTool(v, kept) PROVE IInv'
  <2>1. kept \in [Region -> Held]
    BY DEF IInv, TypeOK
  <2> QED BY <1>1, <2>1, RunToolKeeps
<1>2. CASE RunTool(NoImage, Blank)
  <2>1. Blank \in [Region -> Held]
    BY DEF Blank, Held
  <2> QED BY <1>2, <2>1, RunToolKeeps
<1>3. CASE Tool
  BY <1>3, SurveyKeeps, StageKeeps, DisarmKeeps, ReadBackDisarmedKeeps, EraseKeeps, WriteKeeps,
     CompareKeeps, RequestKeeps, ArmKeeps, ResetDeviceKeeps DEF Tool
<1>4. CASE Remote
  BY <1>4, StartInstallKeeps, StartKeeps, CopyKeeps, EndInstallKeeps DEF Remote
<1>5. CASE UNCHANGED vars
  <2>1. TypeOK' /\ ArmedIsWhole' /\ AWayBack'
    BY <1>5 DEF IInv, TypeOK, ArmedIsWhole, AWayBack, Usable, AppWhole, Verifies, vars, remote,
                tool, bounds
  <2>2. IsAWayBack' <=> IsAWayBack
    BY <1>5 DEF IsAWayBack, Verifies, vars, remote, tool
  <2>3. StageInv'
    BY <1>5, <2>2 DEF IInv, StageInv, vars, tool
  <2>4. WriteInv' /\ InstallInv'
    BY <1>5 DEF IInv, WriteInv, InstallInv, AppWhole, FilesHoldAnImage, Usable, Verifies, vars,
                remote, tool
  <2> QED BY <2>1, <2>3, <2>4 DEF IInv
<1> QED BY <1>1, <1>2, <1>3, <1>4, <1>5, TakeBackupKeeps, FaultsKeep DEF Next

LEMMA Invariance == Spec => []IInv
  BY InitHolds, StepKeeps, PTL DEF Spec

(* Every state the tool and the remote reach has its type.                 *)
THEOREM TypeCorrect == Spec => []TypeOK
<1>1. IInv => TypeOK
  BY DEF IInv
<1> QED BY <1>1, Invariance, PTL

(* A status of 2 always stands over a whole image that can be copied whole:*)
(* stageFirmware clears it first and reads it back, and                    *)
(* requestFirmwareReinstall sets it only over what its rail has verified.  *)
THEOREM NeverArmedOverLess == Spec => []ArmedIsWhole
<1>1. IInv => ArmedIsWhole
  BY DEF IInv
<1> QED BY <1>1, Invariance, PTL

(* A stage never takes the last way back: its backup rule leaves an image  *)
(* in the lab before the region is erased, unless the application, which   *)
(* no stage touches, is whole; and an install erases only what the region  *)
(* can replace.                                                            *)
THEOREM AlwaysAWayBack == Spec => []AWayBack
<1>1. IInv => AWayBack
  BY DEF IInv
<1> QED BY <1>1, Invariance, PTL
=============================================================================
