----------------------------- MODULE ConfigWrite -----------------------------
(***************************************************************************)
(* Writing a configuration onto a remote with parallel flash (Harmony One, *)
(* 600, 650, 700): packages/corpus/bin/write-config.ts, run after run, and *)
(* the erase and write sequence of packages/usb/src/blockwrite.ts that it  *)
(* puts each block through.                                                *)
(*                                                                         *)
(* Flash is blocks of cells.  An erase takes an address and no length; a   *)
(* write only clears bits, so a cell takes a value only when it is erased. *)
(* A cell stands for what one transfer writes.  A command may fail before  *)
(* the remote acted on it or after, the flash may not do as it was told,   *)
(* and a run may be killed at any step.  Between runs the lab may take a   *)
(* fresh region read and other software may write the remote.              *)
(***************************************************************************)
EXTENDS Integers, FiniteSets, FiniteSetsExt

CONSTANTS
  Top,         \* the chip's blocks are 0..Top (NOMINAL_FLASH_SIZE)
  Base, End,   \* the blocks the region read, the dump, covers
  Size,        \* transfers in a block
  Container,   \* the cells of the region the configuration takes
  StampCells,  \* those that hold the stamp: the timestamp, the clock, the checksum
  EditCells,   \* those an edit changed
  BlankCells,  \* those of them the edit leaves erased
  MaxStamps,   \* bound: runs that stamp the file
  MaxFaults    \* bound: faults in one behaviour

Chip   == 0..Top
Region == Base..End
Cells  == Chip \X (1..Size)
Held   == Region \X (1..Size)
CellsOf(b) == {b} \X (1..Size)

ASSUME ShapeAssumption  == Top \in Nat /\ Size \in Nat \ {0} /\ Base \in Chip /\ End \in Chip /\ Base <= End
ASSUME CellsAssumption  ==
  /\ Container \subseteq Held
  /\ StampCells \subseteq Container /\ EditCells \subseteq Container \ StampCells
  /\ BlankCells \subseteq EditCells
ASSUME BoundsAssumption == MaxStamps \in Nat \ {0} /\ MaxFaults \in Nat

(* What a cell may hold.                                                   *)
Value(kind, of) == [kind |-> kind, of |-> of]
Erased  == Value("erased", 0)
Garbled == Value("garbled", 0)
Other   == Value("other", 0)
Values  == [kind : {"erased", "garbled", "other", "stamp", "edit", "was"}, of : 0..MaxStamps]

(* A configuration file is its stamp and its edit; edit 0 is the           *)
(* configuration the remote came with.                                     *)
File(stamp, edit) == [stamp |-> stamp, edit |-> edit]
Files == [stamp : 0..MaxStamps, edit : {0, 1}]

FileCell(f, c) ==
  CASE c \in StampCells                 -> Value("stamp", f.stamp)
    [] c \in BlankCells /\ f.edit # 0   -> Erased
    [] c \in EditCells \ BlankCells     -> Value("edit", f.edit)
    [] OTHER                            -> Value("was", 0)

VARIABLES
  flash,     \* the chip
  dump,      \* the lab's region read, named by --dump
  file,      \* the file named by --config
  journal,   \* of the latest run: "clean", or "stopped" when it erased and never read the whole back
  now,       \* the latest stamp
  step,      \* what the run does next, "idle" between runs
  commit,    \* --commit
  resuming,  \* the run is the rerun of one that stopped past its erase
  wanted,    \* the file as the run writes it
  todo,      \* blocks still to write
  cell,      \* transfers of the current block already sent
  before,    \* the neighbours' baselines
  pastTheErase,
  outcome,   \* how the latest run ended
  found,     \* history: the chip as the run found it
  owed,      \* history: a run stopped with the message that asks for the same run again
  odd,       \* history: flash that did not do as told, or other software's write
  faults

disk == <<dump, file, journal, now>>
run  == <<step, commit, resuming, wanted, todo, cell, before, pastTheErase, outcome>>
vars == <<flash, disk, run, found, owed, odd, faults>>

Steps == {"idle", "attach", "compare", "save", "baseline", "erase", "erased", "neighbours",
          "write", "read back", "above", "whole", "restart"}

NoBaseline == [c \in {} |-> Erased]

TypeOK ==
  /\ flash \in [Cells -> Values] /\ found \in [Cells -> Values]
  /\ dump \in [Held -> Values]
  /\ file \in Files /\ wanted \in Files
  /\ journal \in {"clean", "stopped"}
  /\ now \in 0..MaxStamps
  /\ step \in Steps
  /\ commit \in BOOLEAN /\ resuming \in BOOLEAN /\ pastTheErase \in BOOLEAN
  /\ owed \in BOOLEAN /\ odd \in BOOLEAN
  /\ todo \subseteq Region
  /\ cell \in 0..(Size - 1)
  /\ DOMAIN before \subseteq Cells /\ \A c \in DOMAIN before : before[c] \in Values
  /\ outcome \in {"none", "done", "refused", "stopped", "dry run", "nothing to write"}
  /\ faults \in 0..MaxFaults

Init ==
  /\ flash = [c \in Cells |-> FileCell(File(0, 0), c)]
  /\ dump = [c \in Held |-> FileCell(File(0, 0), c)]
  /\ file = File(0, 1)
  /\ journal = "clean" /\ now = 0
  /\ step = "idle" /\ commit = FALSE /\ resuming = FALSE /\ wanted = File(0, 1)
  /\ todo = {} /\ cell = 0 /\ before = NoBaseline /\ pastTheErase = FALSE /\ outcome = "none"
  /\ found = flash
  /\ owed = FALSE /\ odd = FALSE /\ faults = 0

Fault == faults < MaxFaults /\ faults' = faults + 1

-----------------------------------------------------------------------------
(* What the file asks of the region.                                       *)

(* The dump with a file laid over its front.                               *)
Laid(f, c) == IF c \in Container THEN FileCell(f, c) ELSE dump[c]
Target(c)  == Laid(wanted, c)

BlocksDiffering == {b \in Region : \E c \in CellsOf(b) : dump[c] # Target(c)}

Block == Min(todo)

(* Slip: the block above alone.                                            *)
NeighbourAbove(b)  == {b + 1} \cap Chip
NeighbourBlocks(b) == {b - 1, b + 1} \cap Chip

(* What a block may hold before it is erased: what the dump says, or what  *)
(* an earlier run of this file left, its bytes and erased flash.  Slips:   *)
(* some of the file's bytes have to be there; any erased cell will do.     *)
InterruptedAndBegun(b) ==
  /\ \A c \in CellsOf(b) : flash[c] \in {Target(c), Erased}
  /\ \E c \in CellsOf(b) : flash[c] # Erased
InterruptedSomewhere(b) == \E c \in CellsOf(b) : flash[c] \in {Target(c), Erased}

Interrupted(b) == \A c \in CellsOf(b) : flash[c] \in {Target(c), Erased}
Known(b)       == (\A c \in CellsOf(b) : flash[c] = dump[c]) \/ Interrupted(b)

ContainerMatches == \A c \in Container : flash[c] = FileCell(wanted, c)

-----------------------------------------------------------------------------
(* How a run ends.                                                         *)

EndRun(how) ==
  /\ step' = "idle" /\ outcome' = how
  /\ UNCHANGED <<commit, resuming, wanted, todo>>
  /\ cell' = 0 /\ before' = NoBaseline /\ pastTheErase' = FALSE

(* A failure past the erase asks for the same run again (failureLine).     *)
Fail(how) == EndRun(how) /\ owed' = (owed \/ pastTheErase)

Goes(next) ==
  step' = next /\ UNCHANGED <<commit, resuming, wanted, todo, cell, before, pastTheErase, outcome, owed>>

(* A command that throws, or a run that is killed, at any step.            *)
Stops ==
  /\ step # "idle" /\ Fault /\ Fail("stopped")
  /\ UNCHANGED <<flash, disk, found, odd>>

-----------------------------------------------------------------------------
(* Before anything is erased.                                              *)

(* stoppedAfterErase of the latest journal.  Every run opens its own.      *)
StartRun(commits, asIs) ==
  /\ step = "idle"
  /\ resuming' = (journal = "stopped")
  /\ commit' = commits
  /\ IF asIs \/ resuming'
       THEN wanted' = file /\ UNCHANGED now
       ELSE now < MaxStamps /\ now' = now + 1 /\ wanted' = File(now', file.edit)
  /\ journal' = "clean"
  /\ step' = "attach" /\ outcome' = "none"
  /\ found' = flash
  /\ UNCHANGED <<flash, dump, file, todo, cell, before, pastTheErase, owed, odd, faults>>

(* No remote on the cable, or not the one the dump belongs to, is a        *)
(* refusal; a file that is the dump leaves nothing to do.                  *)
Attach ==
  /\ step = "attach"
  /\ \/ Fail("refused")
     \/ BlocksDiffering = {} /\ Fail("nothing to write")
     \/ /\ BlocksDiffering # {}
        /\ step' = "compare" /\ todo' = BlocksDiffering
        /\ UNCHANGED <<commit, resuming, wanted, cell, before, pastTheErase, outcome, owed>>
  /\ UNCHANGED <<flash, disk, found, odd, faults>>

(* Every block of the plan, before any is erased.                          *)
Compare ==
  /\ step = "compare"
  /\ IF \E b \in todo : ~Known(b) THEN Fail("refused")
     ELSE IF ~commit THEN Fail("dry run")
     ELSE Goes("save")
  /\ UNCHANGED <<flash, disk, found, odd, faults>>

(* The stamped file goes over the file before the first erase.  Slip: not. *)
SavesNothing == UNCHANGED file
SavesWanted  == file' = wanted

(* The regions the remote has cached are dropped here too: that changes no *)
(* flash.                                                                  *)
Save ==
  /\ step = "save"
  /\ SavesWanted
  /\ Goes("baseline")
  /\ UNCHANGED <<flash, dump, journal, now, found, odd, faults>>

-----------------------------------------------------------------------------
(* One block (writeBlock).                                                 *)

(* With no neighbour to read nothing would measure the erase.              *)
Baseline ==
  /\ step = "baseline"
  /\ IF NeighbourBlocks(Block) = {} THEN Fail("refused")
     ELSE /\ before' = [c \in NeighbourBlocks(Block) \X (1..Size) |-> flash[c]]
          /\ step' = "erase"
          /\ UNCHANGED <<commit, resuming, wanted, todo, cell, pastTheErase, outcome, owed>>
  /\ UNCHANGED <<flash, disk, found, odd, faults>>

Clear(cells) == flash' = [c \in Cells |-> IF c \in cells THEN Erased ELSE flash[c]]

(* The erase is logged and marked before the command goes.  The command    *)
(* takes effect; or it is acknowledged and reached less than the block, or *)
(* the block beside it as well; or it throws, the remote having acted or   *)
(* not.                                                                    *)
Erase ==
  /\ step = "erase"
  /\ journal' = "stopped"
  /\ \/ /\ Clear(CellsOf(Block))
        /\ step' = "erased" /\ pastTheErase' = TRUE
        /\ UNCHANGED <<commit, resuming, wanted, todo, cell, before, outcome, owed, odd, faults>>
     \/ /\ Fault /\ odd' = TRUE
        /\ \/ \E part \in SUBSET CellsOf(Block) : part # CellsOf(Block) /\ Clear(part)
           \/ \E n \in {Block - 1, Block + 1} \cap Chip : Clear(CellsOf(Block) \cup CellsOf(n))
        /\ step' = "erased" /\ pastTheErase' = TRUE
        /\ UNCHANGED <<commit, resuming, wanted, todo, cell, before, outcome, owed>>
     \/ /\ Fault /\ UNCHANGED odd
        /\ UNCHANGED flash \/ Clear(CellsOf(Block))
        /\ EndRun("stopped") /\ owed' = TRUE
  /\ UNCHANGED <<dump, file, now, found>>

CheckErased ==
  /\ step = "erased"
  /\ IF \A c \in CellsOf(Block) : flash[c] = Erased THEN Goes("neighbours") ELSE Fail("refused")
  /\ UNCHANGED <<flash, disk, found, odd, faults>>

CheckNeighbours ==
  /\ step = "neighbours"
  /\ IF \A c \in DOMAIN before : flash[c] = before[c] THEN Goes("write") ELSE Fail("refused")
  /\ UNCHANGED <<flash, disk, found, odd, faults>>

Programmed(old, new) == IF old \in {Erased, new} THEN new ELSE Garbled

(* Transfers of the block, in order of address.                            *)
Sending      == <<Block, cell + 1>>
Sent         == (cell + 1) % Size

WriteTransfer ==
  /\ step = "write"
  /\ LET landed == [flash EXCEPT ![Sending] = Programmed(@, Target(Sending))]
         after  == <<Block + 1, 1>> IN
       \/ /\ flash' = landed
          /\ cell' = Sent
          /\ step' = IF cell + 1 = Size THEN "read back" ELSE "write"
          /\ UNCHANGED <<commit, resuming, wanted, todo, before, pastTheErase, outcome, owed, odd, faults>>
       \/ /\ Fault /\ odd' = TRUE
          /\ flash' \in {flash, [flash EXCEPT ![Sending] = Garbled]}
                          \cup (IF cell + 1 = Size /\ after \in Cells
                                  THEN {[landed EXCEPT ![after] = Garbled]} ELSE {})
          /\ cell' = Sent
          /\ step' = IF cell + 1 = Size THEN "read back" ELSE "write"
          /\ UNCHANGED <<commit, resuming, wanted, todo, before, pastTheErase, outcome, owed>>
       \/ Fault /\ UNCHANGED odd /\ flash' \in {flash, landed} /\ Fail("stopped")
  /\ UNCHANGED <<disk, found>>

ReadBack ==
  /\ step = "read back"
  /\ IF \A c \in CellsOf(Block) : flash[c] = Target(c) THEN Goes("above") ELSE Fail("refused")
  /\ UNCHANGED <<flash, disk, found, odd, faults>>

(* A write can only have run past its range upwards.                       *)
CheckAbove ==
  /\ step = "above"
  /\ IF \A c \in DOMAIN before : c[1] = Block + 1 => flash[c] = before[c]
       THEN /\ todo' = todo \ {Block}
            /\ pastTheErase' = FALSE /\ before' = NoBaseline
            /\ step' = IF todo' = {} THEN "whole" ELSE "baseline"
            /\ UNCHANGED <<commit, resuming, wanted, cell, outcome, owed>>
       ELSE Fail("refused")
  /\ UNCHANGED <<flash, disk, found, odd, faults>>

-----------------------------------------------------------------------------
(* After the last block.                                                   *)

(* containerMatchesTheFile: the whole configuration is read back.  Slip:   *)
(* what each block's read back said is enough.                             *)
WholeUnread == Goes("restart") /\ journal' = "clean"

WholeRead ==
  IF ContainerMatches
    THEN Goes("restart") /\ journal' = "clean"
    ELSE Fail("refused") /\ UNCHANGED journal

ReadWhole ==
  /\ step = "whole"
  /\ WholeRead
  /\ UNCHANGED <<flash, dump, file, now, found, odd, faults>>

(* The restart is not acknowledged; --no-restart leaves it out.            *)
Restart ==
  /\ step = "restart"
  /\ EndRun("done") /\ owed' = FALSE
  /\ UNCHANGED <<flash, disk, found, odd, faults>>

-----------------------------------------------------------------------------
(* Between runs.                                                           *)

FreshDump ==
  /\ step = "idle"
  /\ dump' = [c \in Held |-> flash[c]]
  /\ UNCHANGED <<flash, file, journal, now, run, found, owed, odd, faults>>

(* Other software writes one block of the remote.                          *)
WrittenElsewhere(b) ==
  /\ step = "idle" /\ Fault
  /\ flash' = [c \in Cells |-> IF c[1] = b THEN Other ELSE flash[c]]
  /\ odd' = TRUE
  /\ UNCHANGED <<disk, run, found, owed>>

Next ==
  \/ \E commits, asIs \in BOOLEAN : StartRun(commits, asIs)
  \/ Attach \/ Compare \/ Save
  \/ Baseline \/ Erase \/ CheckErased \/ CheckNeighbours
  \/ WriteTransfer \/ ReadBack \/ CheckAbove
  \/ ReadWhole \/ Restart \/ Stops
  \/ FreshDump
  \/ \E b \in Region : WrittenElsewhere(b)

Spec == Init /\ [][Next]_vars
-----------------------------------------------------------------------------
(* Properties.                                                             *)

(* What an erase destroys is known: a block that is still to be erased     *)
(* holds nothing but what the dump has, what the file has, or erased       *)
(* flash, whatever the erases and the writes since the blocks were         *)
(* compared did to their neighbours.                                       *)
ErasesWhatIsKnown ==
  step = "erase" => \A c \in CellsOf(Block) : flash[c] \in {dump[c], Target(c), Erased}

(* As long as nothing but these runs wrote the remote and its flash did as *)
(* told, the lab holds all that is on it: every cell is what the dump has, *)
(* what the file has, or erased.                                           *)
LabHoldsWhatIsThere ==
  ~odd => \A c \in Held : flash[c] \in {dump[c], Laid(file, c), Erased}

(* The remote is restarted only on the whole file, the blocks the run did  *)
(* not write and every earlier run's included; the file is the lab's.      *)
RestartsWhole ==
  step = "restart" => \A c \in Container : flash[c] = FileCell(file, c)

(* A run that gets to the restart has changed no block it did not mean to, *)
(* outside the configuration and the region too.                           *)
BesideThePlan ==
  step = "restart" =>
    \A c \in Cells : c[1] \notin BlocksDiffering => flash[c] = found[c]

(* The rerun of a run that stopped past its erase finds every block as it  *)
(* was, or as that run left it, and goes on.                               *)
RerunAccepted ==
  step = "compare" /\ resuming /\ ~odd => \A b \in todo : Known(b)

(* The same of every run after one that stopped with the message asking    *)
(* for it.  The code does not keep this: the run in between, of the same   *)
(* arguments, may end before it erases anything, and its journal is then   *)
(* the latest.                                                             *)
RerunNotRefused ==
  step = "compare" /\ commit /\ owed /\ ~odd => \A b \in todo : Known(b)
=============================================================================
