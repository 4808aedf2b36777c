-------------------------- MODULE ConfigWriteProofs --------------------------
(***************************************************************************)
(* Theorems about ConfigWrite, for a chip, a region and a configuration of *)
(* any size and any number of runs and faults.                             *)
(***************************************************************************)
EXTENDS ConfigWrite, FiniteSetTheorems, TLAPS

Inside     == {"erase", "erased", "neighbours", "write", "read back", "above"}
AfterErase == Inside \ {"erase"}

Explained(v, c) == v \in {dump[c], Target(c), Erased}

(* There is a block to write wherever a step needs one, and each is one in *)
(* which the file and the dump differ.                                     *)
PlanInv ==
  /\ step \notin {"idle", "attach", "whole", "restart"} => todo # {}
  /\ step \notin {"idle", "attach"} => todo \subseteq BlocksDiffering

SavedInv == step \in Inside \cup {"baseline", "whole", "restart"} => file = wanted

(* The baselines are of both neighbours, read before the erase.            *)
BaselineInv ==
  /\ step \in Inside => DOMAIN before = {c \in Cells : c[1] \in NeighbourBlocks(Block)}
  /\ step = "erase" => \A c \in DOMAIN before : before[c] = flash[c]

(* The blocks ahead hold what is known; those beside the current one may   *)
(* have been disturbed since the erase, and their baselines say what they  *)
(* held.                                                                   *)
AheadInv ==
  /\ step \in {"save", "baseline", "erase"} =>
       \A b \in todo : \A c \in CellsOf(b) : Explained(flash[c], c)
  /\ step \in Inside => \A c \in DOMAIN before : c[1] \in todo => Explained(before[c], c)
  /\ step \in AfterErase =>
       /\ \A b \in todo \ (NeighbourBlocks(Block) \cup {Block}) :
            \A c \in CellsOf(b) : Explained(flash[c], c)
       /\ \A c \in DOMAIN before : c[1] # Block + 1 => flash[c] \in {before[c], Erased}

(* The blocks beside the plan are as they were found, or their baseline    *)
(* is.                                                                     *)
BesideInv ==
  /\ step \notin AfterErase \cup {"idle"} =>
       \A c \in Cells : c[1] \notin BlocksDiffering => flash[c] = found[c]
  /\ step \in Inside => \A c \in DOMAIN before : c[1] \notin BlocksDiffering => before[c] = found[c]
  /\ step \in AfterErase =>
       \A c \in Cells \ DOMAIN before : c[1] \notin BlocksDiffering => flash[c] = found[c]
  /\ step \in {"write", "read back", "above"} =>
       \A c \in DOMAIN before : c[1] = Block - 1 => flash[c] = before[c]

WholeInv == step = "restart" => ContainerMatches

IInv == TypeOK /\ PlanInv /\ SavedInv /\ BaselineInv /\ AheadInv /\ BesideInv /\ WholeInv

(* What the lab holds, and what a rerun finds.  A stamp is never older     *)
(* than one the lab or the remote has, so a block that holds one differs   *)
(* from every earlier file; a run that writes its stamp over the file has  *)
(* therefore compared every block the old file could be in.                *)
FreshInv ==
  /\ file.stamp <= now /\ wanted.stamp <= now
  /\ \A c \in Cells : flash[c].kind = "stamp" => flash[c].of <= now
  /\ \A c \in Held : dump[c].kind = "stamp" => dump[c].of <= now

StampedInv ==
  /\ step \in {"attach", "compare", "save"} =>
       /\ wanted.edit = file.edit
       /\ wanted = file \/ (~resuming /\ \A c \in Held : dump[c] # Value("stamp", wanted.stamp))
  /\ step \in {"compare", "save"} => todo = BlocksDiffering

(* What is not sent yet is erased, and what is sent is the file's.         *)
SentInv ==
  /\ step # "write" => cell = 0
  /\ step \in {"neighbours", "write"} /\ ~odd =>
       \A c \in CellsOf(Block) :
         /\ flash[c] \in {Target(c), Erased}
         /\ c[2] > cell => flash[c] = Erased

InLab == \A c \in Held : flash[c] \in {dump[c], Laid(file, c), Erased}

AsOneFileLeft ==
  \A b \in Region : \/ \A c \in CellsOf(b) : flash[c] = dump[c]
                    \/ \A c \in CellsOf(b) : flash[c] \in {Laid(file, c), Erased}

RerunInv ==
  /\ ~odd => InLab
  /\ step = "save" => \A b \in todo : Known(b)
  /\ ~odd /\ (\/ journal = "stopped"
              \/ resuming /\ step \in {"attach", "compare"}
              \/ step \in Inside \cup {"baseline", "whole"}) => AsOneFileLeft

LabInv == FreshInv /\ StampedInv /\ SentInv /\ RerunInv
-----------------------------------------------------------------------------
(* A set of naturals that is not empty has a least element, the one Min    *)
(* chooses: its initial segments are finite sets, ordered by inclusion.    *)
LEMMA MinIsLeast == ASSUME NEW T, T \subseteq Nat, T # {}
                    PROVE  Min(T) \in T /\ \A y \in T : Min(T) <= y
<1> DEFINE Segments == {0..x : x \in T}
<1>1. IsWellFoundedOn(StrictSubsetOrdering(Nat), FiniteSubsetsOf(Nat))
  BY FS_StrictSubsetOrderingWellFounded
<1>2. Segments \subseteq FiniteSubsetsOf(Nat) /\ Segments # {}
  <2>1. \A x \in T : 0..x \subseteq Nat /\ IsFiniteSet(0..x)
    BY FS_Interval
  <2> QED BY <2>1 DEF FiniteSubsetsOf
<1>3. PICK I \in Segments : \A J \in Segments : <<J, I>> \notin StrictSubsetOrdering(Nat)
  <2> HIDE DEF Segments
  <2> QED BY <1>1, <1>2, WFMin, Zenon
<1>4. PICK x \in T : I = 0..x
  OBVIOUS
<1>5. \A y \in T : x <= y
  <2> SUFFICES ASSUME NEW y \in T, y < x PROVE FALSE
    OBVIOUS
  <2>1. 0..y \in Segments /\ 0..y \in SUBSET Nat /\ I \in SUBSET Nat
    BY <1>4
  <2>2. 0..y \subseteq I /\ x \in I /\ x \notin 0..y
    BY <1>4
  <2>3. <<0..y, I>> \in StrictSubsetOrdering(Nat)
    BY <2>1, <2>2 DEF StrictSubsetOrdering
  <2> QED BY <1>3, <2>1, <2>3
<1> QED BY <1>5 DEF Min

(* A block has a first transfer, and the count of those sent comes back.   *)
LEMMA SizeFacts == /\ Size \in Nat /\ Size >= 1 /\ 0 \in 0..(Size - 1)
                   /\ \A n \in Nat : n % Size \in 0..(Size - 1)
                   /\ \A n \in 0..(Size - 1) : n % Size = n
                   /\ Size % Size = 0
<1>1. Size \in Nat /\ Size >= 1
  BY ShapeAssumption
<1>2. 0 \in 0..(Size - 1)
  BY <1>1
<1>3. ASSUME NEW n \in Nat PROVE n % Size \in 0..(Size - 1)
  BY <1>1
<1>4. ASSUME NEW n \in 0..(Size - 1) PROVE n % Size = n
  BY <1>1
<1>5. Size % Size = 0
  BY <1>1
<1> QED BY <1>1, <1>2, <1>3, <1>4, <1>5

(* The region lies on the chip, and its cells are those of its blocks.     *)
LEMMA ShapeFacts ==
  /\ Chip \subseteq Nat /\ Region \subseteq Chip /\ Held \subseteq Cells
  /\ \A b : NeighbourBlocks(b) \subseteq Chip
  /\ \A b \in Chip : \A c : c \in CellsOf(b) <=> c \in Cells /\ c[1] = b
  /\ \A c \in Cells : c[1] \in Chip /\ (c \in Held <=> c[1] \in Region)
<1>1. Chip \subseteq Nat /\ Region \subseteq Chip
  BY ShapeAssumption DEF Chip, Region
<1>2. \A b : NeighbourBlocks(b) \subseteq Chip
  BY DEF NeighbourBlocks
<1>3. Held \subseteq Cells
  BY <1>1 DEF Held, Cells
<1>4. ASSUME NEW b \in Chip, NEW c PROVE c \in CellsOf(b) <=> c \in Cells /\ c[1] = b
  BY DEF CellsOf, Cells
<1>5. ASSUME NEW c \in Cells PROVE c[1] \in Chip /\ (c \in Held <=> c[1] \in Region)
  BY DEF Cells, Held
<1> QED BY <1>1, <1>2, <1>3, <1>4, <1>5

(* The block being written is one of the plan.                             *)
LEMMA BlockFacts == ASSUME todo \subseteq Region, todo # {}
                    PROVE  Block \in todo /\ Block \in Region /\ Block \in Chip
BY MinIsLeast, ShapeFacts DEF Block

(* What is written is something a cell can hold.                           *)
LEMMA ValueFacts ==
  /\ Erased \in Values /\ Garbled \in Values /\ Other \in Values
  /\ \A f \in Files : \A c : FileCell(f, c) \in Values
  /\ TypeOK => \A c \in Held : Target(c) \in Values
<1>1. Erased \in Values /\ Garbled \in Values /\ Other \in Values
  BY BoundsAssumption DEF Erased, Garbled, Other, Value, Values
<1>2. ASSUME NEW f \in Files, NEW c PROVE FileCell(f, c) \in Values
  <2>1. f.stamp \in 0..MaxStamps /\ f.edit \in 0..MaxStamps
    BY BoundsAssumption DEF Files
  <2>2. /\ Value("stamp", f.stamp) \in Values
        /\ Value("edit", f.edit) \in Values
        /\ Value("was", 0) \in Values
    BY <2>1, BoundsAssumption DEF Value, Values
  <2> QED BY <1>1, <2>2 DEF FileCell
<1>3. ASSUME TypeOK, NEW c \in Held PROVE Target(c) \in Values
  BY <1>2, <1>3 DEF TypeOK, Target, Laid
<1> QED BY <1>1, <1>2, <1>3
-----------------------------------------------------------------------------
(* Between runs the invariant asks for nothing but types.                  *)
LEMMA IdleKeeps == ASSUME TypeOK', step' = "idle" PROVE IInv'
BY DEF IInv, PlanInv, SavedInv, BaselineInv, AheadInv, BesideInv, WholeInv, Inside, AfterErase

(* What a step that leaves the files and the plan alone leaves alone.      *)
LEMMA SamePlan ==
  ASSUME dump' = dump, wanted' = wanted
  PROVE  /\ BlocksDiffering' = BlocksDiffering
         /\ todo' = todo => Block' = Block
         /\ \A c : Target(c)' = Target(c)
         /\ \A v, c : Explained(v, c)' <=> Explained(v, c)
         /\ flash' = flash => (ContainerMatches' <=> ContainerMatches)
<1>1. \A c : Target(c)' = Target(c)
  BY DEF Target, Laid
<1>2. BlocksDiffering' = BlocksDiffering
  BY <1>1 DEF BlocksDiffering
<1>3. todo' = todo => Block' = Block
  BY DEF Block
<1>4. \A v, c : Explained(v, c)' <=> Explained(v, c)
  BY <1>1 DEF Explained
<1>5. flash' = flash => (ContainerMatches' <=> ContainerMatches)
  BY DEF ContainerMatches
<1> QED BY <1>1, <1>2, <1>3, <1>4, <1>5

(* A run that ends keeps the types.                                        *)
LEMMA EndRunTyped ==
  ASSUME TypeOK, NEW how \in {"none", "done", "refused", "stopped", "dry run", "nothing to write"},
         EndRun(how), flash' \in [Cells -> Values], UNCHANGED <<dump, file, now, found>>,
         journal' \in {"clean", "stopped"}, owed' \in BOOLEAN, odd' \in BOOLEAN,
         faults' \in 0..MaxFaults
  PROVE  TypeOK' /\ step' = "idle"
<1>1. DOMAIN before' = {} /\ cell' \in 0..(Size - 1)
  <2>1. before' = NoBaseline /\ cell' = 0
    BY DEF EndRun
  <2>2. DOMAIN NoBaseline = {}
    BY DEF NoBaseline
  <2>3. 0 \in 0..(Size - 1)
    BY SizeFacts
  <2> QED BY <2>1, <2>2, <2>3
<1>2. commit' \in BOOLEAN /\ resuming' \in BOOLEAN /\ pastTheErase' \in BOOLEAN
  BY DEF EndRun, TypeOK
<1> QED BY <1>1, <1>2 DEF TypeOK, EndRun, Steps

(* A fault keeps to its bound.                                             *)
LEMMA FaultTyped == ASSUME TypeOK, Fault PROVE faults' \in 0..MaxFaults
<1>1. faults \in 0..MaxFaults
  BY DEF TypeOK
<1> QED BY <1>1, BoundsAssumption DEF Fault

(* A run that fails, past the erase or before it, keeps the invariant.     *)
LEMMA FailKeeps ==
  ASSUME TypeOK, NEW how \in {"none", "done", "refused", "stopped", "dry run", "nothing to write"},
         Fail(how), flash' \in [Cells -> Values], UNCHANGED <<dump, file, now, found>>,
         journal' \in {"clean", "stopped"}, odd' \in BOOLEAN, faults' \in 0..MaxFaults
  PROVE  IInv'
<1>1. owed' \in BOOLEAN
  BY DEF Fail, TypeOK
<1>2. EndRun(how)
  BY DEF Fail
<1> QED BY <1>1, <1>2, EndRunTyped, IdleKeeps

(* A run that is killed or throws between two steps.                       *)
LEMMA StopsKeeps == ASSUME IInv, Stops PROVE IInv'
BY FailKeeps, FaultTyped DEF Stops, IInv, TypeOK, disk

(* A run that starts, with or without a stamp of its own.                  *)
LEMMA StartRunKeeps ==
  ASSUME IInv, NEW commits \in BOOLEAN, NEW asIs \in BOOLEAN, StartRun(commits, asIs)
  PROVE  IInv'
<1>1. TypeOK'
  <2>1. CASE asIs \/ resuming'
    BY <2>1 DEF StartRun, IInv, TypeOK, Steps
  <2>2. CASE ~(asIs \/ resuming')
    <3>1. now' \in 0..MaxStamps /\ file.edit \in {0, 1}
      <4>1. now \in 0..MaxStamps /\ file \in Files
        BY DEF IInv, TypeOK
      <4>2. now < MaxStamps /\ now' = now + 1
        BY <2>2 DEF StartRun
      <4> QED BY <4>1, <4>2, BoundsAssumption DEF Files
    <3>2. wanted' \in Files
      BY <2>2, <3>1 DEF StartRun, File, Files
    <3> QED BY <2>2, <3>1, <3>2 DEF StartRun, IInv, TypeOK, Steps
  <2> QED BY <2>1, <2>2
<1>2. step' = "attach" /\ found' = flash' /\ flash' = flash
  BY DEF StartRun
<1> QED BY <1>1, <1>2
  DEF IInv, PlanInv, SavedInv, BaselineInv, AheadInv, BesideInv, WholeInv, Inside, AfterErase

(* The plan is the blocks that differ.                                     *)
LEMMA AttachKeeps == ASSUME IInv, Attach PROVE IInv'
<1>1. UNCHANGED <<flash, dump, file, journal, now, found, odd, faults>> /\ step = "attach" /\ TypeOK
  BY DEF Attach, disk, IInv
<1>2. CASE Fail("refused") \/ Fail("nothing to write")
  BY <1>1, <1>2, FailKeeps DEF TypeOK
<1>3. CASE /\ BlocksDiffering # {}
           /\ step' = "compare" /\ todo' = BlocksDiffering
           /\ UNCHANGED <<commit, resuming, wanted, cell, before, pastTheErase, outcome, owed>>
  <2>1. BlocksDiffering' = BlocksDiffering
    BY <1>1, <1>3, SamePlan
  <2>2. TypeOK'
    BY <1>1, <1>3 DEF TypeOK, Steps, BlocksDiffering
  <2>3. PlanInv'
    BY <1>3, <2>1 DEF PlanInv
  <2>4. BesideInv'
    BY <1>1, <1>3, <2>1 DEF IInv, BesideInv, Inside, AfterErase
  <2> QED BY <1>3, <2>2, <2>3, <2>4
    DEF IInv, SavedInv, BaselineInv, AheadInv, WholeInv, Inside, AfterErase
<1> QED BY <1>2, <1>3 DEF Attach

(* A step that only goes on keeps the types.                               *)
LEMMA GoesTyped ==
  ASSUME TypeOK, NEW next \in Steps, Goes(next), UNCHANGED <<flash, dump, now, found, odd, faults>>,
         file' \in Files, journal' \in {"clean", "stopped"}
  PROVE  TypeOK'
BY DEF TypeOK, Goes

(* What is ahead is explained once every block of the plan was compared.   *)
LEMMA CompareKeeps == ASSUME IInv, Compare PROVE IInv'
<1>1. UNCHANGED <<flash, dump, file, journal, now, found, odd, faults>> /\ step = "compare" /\ TypeOK
  BY DEF Compare, disk, IInv
<1>2. CASE Fail("refused") \/ Fail("dry run")
  BY <1>1, <1>2, FailKeeps DEF TypeOK
<1>3. CASE Goes("save") /\ \A b \in todo : Known(b)
  <2>1. TypeOK'
    BY <1>1, <1>3, GoesTyped DEF TypeOK, Steps
  <2>2. UNCHANGED <<wanted, todo, before>> /\ step' = "save"
    BY <1>3 DEF Goes
  <2>3. PlanInv'
    BY <1>1, <2>2, SamePlan DEF IInv, PlanInv
  <2>4. \A b \in todo : \A c \in CellsOf(b) : Explained(flash[c], c)
    BY <1>3 DEF Known, Interrupted, Explained
  <2>5. AheadInv'
    BY <1>1, <2>2, <2>4, SamePlan DEF AheadInv, Inside, AfterErase
  <2>6. BesideInv'
    BY <1>1, <2>2, SamePlan DEF IInv, BesideInv, Inside, AfterErase
  <2> QED BY <2>1, <2>2, <2>3, <2>5, <2>6 DEF IInv, SavedInv, BaselineInv, WholeInv, Inside
<1> QED BY <1>2, <1>3 DEF Compare

(* The saved file is the file the run writes.                              *)
LEMMA SaveKeeps == ASSUME IInv, Save PROVE IInv'
<1>1. /\ UNCHANGED <<flash, dump, journal, now, found, odd, faults>> /\ step = "save" /\ TypeOK
      /\ file' = wanted /\ Goes("baseline")
  BY DEF Save, SavesWanted, IInv
<1>2. TypeOK'
  BY <1>1, GoesTyped DEF TypeOK, Steps
<1>3. UNCHANGED <<wanted, todo, before>> /\ step' = "baseline"
  BY <1>1 DEF Goes
<1>4. PlanInv'
  BY <1>1, <1>3, SamePlan DEF IInv, PlanInv
<1>5. AheadInv'
  BY <1>1, <1>3, SamePlan DEF IInv, AheadInv, Inside, AfterErase
<1>6. BesideInv'
  BY <1>1, <1>3, SamePlan DEF IInv, BesideInv, Inside, AfterErase
<1> QED BY <1>1, <1>2, <1>3, <1>4, <1>5, <1>6 DEF IInv, SavedInv, BaselineInv, WholeInv, Inside

(* The baselines explain the neighbours that are still to be written, and  *)
(* show the others as they were found.                                     *)
LEMMA BaselineKeeps == ASSUME IInv, Baseline PROVE IInv'
<1>1. UNCHANGED <<flash, dump, file, journal, now, found, odd, faults>> /\ step = "baseline" /\ TypeOK
  BY DEF Baseline, disk, IInv
<1>2. CASE Fail("refused")
  BY <1>1, <1>2, FailKeeps DEF TypeOK
<1>3. CASE /\ before' = [c \in NeighbourBlocks(Block) \X (1..Size) |-> flash[c]]
           /\ step' = "erase"
           /\ UNCHANGED <<commit, resuming, wanted, todo, cell, pastTheErase, outcome, owed>>
  <2>1. NeighbourBlocks(Block) \X (1..Size) = {c \in Cells : c[1] \in NeighbourBlocks(Block)}
    BY ShapeFacts DEF Cells
  <2>2. /\ DOMAIN before' = {c \in Cells : c[1] \in NeighbourBlocks(Block)}
        /\ \A c \in DOMAIN before' : before'[c] = flash[c]
    BY <1>3, <2>1
  <2>3. TypeOK'
    BY <1>1, <1>3, <2>2 DEF TypeOK, Steps
  <2>4. PlanInv' /\ SavedInv'
    BY <1>1, <1>3, SamePlan DEF IInv, PlanInv, SavedInv
  <2>5. BaselineInv'
    BY <1>1, <1>3, <2>2, SamePlan DEF BaselineInv, Inside
  <2>6. AheadInv'
    <3>1. \A b \in todo : \A c \in CellsOf(b) : Explained(flash[c], c)
      BY <1>1 DEF IInv, AheadInv
    <3>2. todo \subseteq Chip
      BY <1>1, ShapeFacts DEF TypeOK
    <3>3. \A c \in DOMAIN before' : c[1] \in todo => Explained(before'[c], c)
      BY <2>2, <3>1, <3>2, ShapeFacts
    <3> QED BY <1>1, <1>3, <3>1, <3>3, SamePlan DEF AheadInv, AfterErase
  <2>7. BesideInv'
    <3>1. \A c \in Cells : c[1] \notin BlocksDiffering => flash[c] = found[c]
      BY <1>1 DEF IInv, BesideInv, Inside, AfterErase
    <3> QED BY <1>1, <1>3, <2>2, <3>1, SamePlan DEF BesideInv, Inside, AfterErase
  <2> QED BY <1>3, <2>3, <2>4, <2>5, <2>6, <2>7 DEF IInv, WholeInv
<1> QED BY <1>2, <1>3 DEF Baseline

(* An erase, whatever it reached, leaves what is erased or was there.      *)
LEMMA ClearFacts ==
  ASSUME TypeOK, NEW cells, Clear(cells)
  PROVE  /\ flash' \in [Cells -> Values]
         /\ \A c \in Cells : flash'[c] = flash[c] \/ (c \in cells /\ flash'[c] = Erased)
BY ValueFacts DEF TypeOK, Clear

(* An erase reaches the block and at worst one beside it, of which there   *)
(* is a baseline.                                                          *)
LEMMA EraseKeeps == ASSUME IInv, Erase PROVE IInv'
<1>1. UNCHANGED <<dump, file, now, found>> /\ step = "erase" /\ TypeOK /\ journal' = "stopped"
  BY DEF Erase, IInv
<1>2. todo # {} /\ Block \in Chip /\ Block \in todo
  BY <1>1, BlockFacts DEF IInv, PlanInv, TypeOK
<1>3. ASSUME NEW cells, Clear(cells),
             \A c \in cells : c \in CellsOf(Block) \/ c[1] \in NeighbourBlocks(Block),
             step' = "erased", pastTheErase' = TRUE, odd' \in BOOLEAN, faults' \in 0..MaxFaults,
             UNCHANGED <<commit, resuming, wanted, todo, cell, before, outcome, owed>>
      PROVE  IInv'
  <2>1. \A c \in Cells : flash'[c] = flash[c] \/ (c \in cells /\ flash'[c] = Erased)
    BY <1>1, <1>3, ClearFacts
  <2>2. \A c \in Cells : c[1] \notin NeighbourBlocks(Block) \cup {Block} => flash'[c] = flash[c]
    BY <1>2, <1>3, <2>1, ShapeFacts
  <2>3. TypeOK'
    BY <1>1, <1>3, ClearFacts DEF TypeOK, Steps
  <2>4. PlanInv' /\ SavedInv' /\ BaselineInv'
    BY <1>1, <1>3, SamePlan DEF IInv, PlanInv, SavedInv, BaselineInv, Inside
  <2>5. AheadInv'
    <3>1. ASSUME NEW b \in todo \ (NeighbourBlocks(Block) \cup {Block}), NEW c \in CellsOf(b)
          PROVE  Explained(flash'[c], c)
      <4>1. c \in Cells /\ c[1] = b
        BY <1>1, ShapeFacts DEF TypeOK
      <4> QED BY <1>1, <2>2, <3>1, <4>1 DEF IInv, AheadInv
    <3>2. ASSUME NEW c \in DOMAIN before PROVE flash'[c] \in {before[c], Erased}
      <4>1. c \in Cells /\ before[c] = flash[c]
        BY <1>1 DEF IInv, BaselineInv, TypeOK
      <4> QED BY <2>1, <4>1
    <3>3. \A c \in DOMAIN before : c[1] \in todo => Explained(before[c], c)
      BY <1>1 DEF IInv, AheadInv, Inside
    <3> QED BY <1>1, <1>3, <3>1, <3>2, <3>3, SamePlan DEF AheadInv
  <2>6. BesideInv'
    <3>1. \A c \in Cells : c[1] \notin BlocksDiffering => flash[c] = found[c]
      BY <1>1 DEF IInv, BesideInv, Inside, AfterErase
    <3>2. /\ Block \in BlocksDiffering
          /\ DOMAIN before = {c \in Cells : c[1] \in NeighbourBlocks(Block)}
      BY <1>1, <1>2 DEF IInv, PlanInv, BaselineInv, Inside
    <3>3. \A c \in DOMAIN before : c[1] \notin BlocksDiffering => before[c] = found[c]
      BY <1>1 DEF IInv, BesideInv, Inside
    <3>4. \A c \in Cells \ DOMAIN before : c[1] \notin BlocksDiffering => flash'[c] = found[c]
      BY <2>2, <3>1, <3>2
    <3> QED BY <1>1, <1>3, <3>3, <3>4, SamePlan DEF BesideInv, Inside, AfterErase
  <2> QED BY <1>3, <2>3, <2>4, <2>5, <2>6 DEF IInv, WholeInv
<1>4. CASE /\ Clear(CellsOf(Block))
           /\ step' = "erased" /\ pastTheErase' = TRUE
           /\ UNCHANGED <<commit, resuming, wanted, todo, cell, before, outcome, owed, odd, faults>>
  BY <1>1, <1>3, <1>4 DEF TypeOK
<1>5. CASE /\ Fault /\ odd' = TRUE
           /\ \/ \E part \in SUBSET CellsOf(Block) : part # CellsOf(Block) /\ Clear(part)
              \/ \E n \in {Block - 1, Block + 1} \cap Chip : Clear(CellsOf(Block) \cup CellsOf(n))
           /\ step' = "erased" /\ pastTheErase' = TRUE
           /\ UNCHANGED <<commit, resuming, wanted, todo, cell, before, outcome, owed>>
  <2>1. faults' \in 0..MaxFaults /\ odd' \in BOOLEAN
    BY <1>1, <1>5, FaultTyped
  <2>2. CASE \E part \in SUBSET CellsOf(Block) : Clear(part)
    BY <1>3, <1>5, <2>1, <2>2
  <2>3. CASE \E n \in {Block - 1, Block + 1} \cap Chip : Clear(CellsOf(Block) \cup CellsOf(n))
    <3>1. PICK n \in {Block - 1, Block + 1} \cap Chip : Clear(CellsOf(Block) \cup CellsOf(n))
      BY <2>3
    <3>2. \A c \in CellsOf(n) : c[1] \in NeighbourBlocks(Block)
      BY ShapeFacts DEF NeighbourBlocks
    <3> QED BY <1>3, <1>5, <2>1, <3>1, <3>2
  <2> QED BY <1>5, <2>2, <2>3
<1>6. CASE /\ Fault /\ UNCHANGED odd
           /\ UNCHANGED flash \/ Clear(CellsOf(Block))
           /\ EndRun("stopped") /\ owed' = TRUE
  <2>1. flash' \in [Cells -> Values]
    BY <1>1, <1>6, ClearFacts DEF TypeOK
  <2>2. odd' \in BOOLEAN /\ faults' \in 0..MaxFaults
    BY <1>1, <1>6, FaultTyped DEF TypeOK
  <2> QED BY <1>1, <1>6, <2>1, <2>2, EndRunTyped, IdleKeeps
<1> QED BY <1>4, <1>5, <1>6 DEF Erase

(* A check inside a block that passes changes nothing but the step.        *)
LEMMA CheckKeeps ==
  ASSUME IInv, step \in AfterErase, NEW next \in AfterErase, Goes(next),
         UNCHANGED <<flash, dump, file, journal, now, found, odd, faults>>,
         next \in {"write", "read back", "above"} =>
           \A c \in DOMAIN before : c[1] = Block - 1 => flash[c] = before[c]
  PROVE  IInv'
<1>1. TypeOK'
  BY GoesTyped DEF IInv, TypeOK, AfterErase, Inside, Steps
<1>2. UNCHANGED <<wanted, todo, before>> /\ step' = next
  BY DEF Goes
<1>3. PlanInv' /\ SavedInv' /\ BaselineInv'
  BY <1>2, SamePlan DEF IInv, PlanInv, SavedInv, BaselineInv, AfterErase, Inside
<1>4. AheadInv'
  BY <1>2, SamePlan DEF IInv, AheadInv, AfterErase, Inside
<1>5. BesideInv'
  BY <1>2, SamePlan DEF IInv, BesideInv, AfterErase, Inside
<1> QED BY <1>1, <1>2, <1>3, <1>4, <1>5 DEF IInv, WholeInv, AfterErase, Inside

(* The checks inside a block; the block below is vouched for from the      *)
(* comparison of the neighbours on.                                        *)
LEMMA ChecksKeep == ASSUME IInv, CheckErased \/ CheckNeighbours \/ ReadBack PROVE IInv'
<1>1. UNCHANGED <<flash, dump, file, journal, now, found, odd, faults>> /\ TypeOK
  BY DEF CheckErased, CheckNeighbours, ReadBack, disk, IInv
<1>2. CASE Fail("refused")
  BY <1>1, <1>2, FailKeeps DEF TypeOK
<1>3. CASE step = "erased" /\ Goes("neighbours")
  BY <1>1, <1>3, CheckKeeps DEF AfterErase, Inside
<1>4. CASE step = "neighbours" /\ Goes("write") /\ \A c \in DOMAIN before : flash[c] = before[c]
  BY <1>1, <1>4, CheckKeeps DEF AfterErase, Inside
<1>5. CASE step = "read back" /\ Goes("above")
  <2>1. \A c \in DOMAIN before : c[1] = Block - 1 => flash[c] = before[c]
    BY <1>5 DEF IInv, BesideInv
  <2> QED BY <1>1, <1>5, <2>1, CheckKeeps DEF AfterErase, Inside
<1> QED BY <1>2, <1>3, <1>4, <1>5 DEF CheckErased, CheckNeighbours, ReadBack

(* A transfer reaches its own cell and, at worst, the first of the block   *)
(* above.                                                                  *)
LEMMA WriteTransferKeeps == ASSUME IInv, WriteTransfer PROVE IInv'
<1> DEFINE landed == [flash EXCEPT ![Sending] = Programmed(@, Target(Sending))]
           after  == <<Block + 1, 1>>
<1>1. UNCHANGED <<dump, file, journal, now, found>> /\ step = "write" /\ TypeOK
  BY DEF WriteTransfer, disk, IInv
<1>2. todo # {} /\ Block \in Region /\ Block \in todo /\ Block \in Chip
  BY <1>1, BlockFacts DEF IInv, PlanInv, TypeOK
<1>3. cell \in 0..(Size - 1) /\ Sending \in Held /\ Sending \in Cells /\ Sending[1] = Block
  <2>1. cell \in 0..(Size - 1)
    BY <1>1 DEF TypeOK
  <2>2. cell + 1 \in 1..Size
    BY <2>1, SizeFacts
  <2> QED BY <1>2, <2>1, <2>2, ShapeFacts DEF Sending, Held
<1>4. Sent \in 0..(Size - 1)
  <2>1. cell + 1 \in Nat
    BY <1>3, SizeFacts
  <2> QED BY <2>1, SizeFacts DEF Sent
<1>5. /\ landed \in [Cells -> Values]
      /\ \A c \in Cells : c # Sending => landed[c] = flash[c]
  <2>1. Programmed(flash[Sending], Target(Sending)) \in Values
    BY <1>1, <1>3, ValueFacts DEF Programmed
  <2> QED BY <1>1, <1>3, <2>1 DEF TypeOK
<1>6. ASSUME flash' \in [Cells -> Values],
             \A c \in Cells : c # Sending /\ c # after => flash'[c] = flash[c],
             cell' = Sent, step' = (IF cell + 1 = Size THEN "read back" ELSE "write"),
             odd' \in BOOLEAN, faults' \in 0..MaxFaults,
             UNCHANGED <<commit, resuming, wanted, todo, before, pastTheErase, outcome, owed>>
      PROVE  IInv'
  <2>1. step' \in {"write", "read back"}
    BY <1>6
  <2>2. \A c \in Cells : c[1] \notin {Block, Block + 1} => flash'[c] = flash[c]
    <3>1. after[1] = Block + 1
      OBVIOUS
    <3> HIDE DEF after
    <3> QED BY <1>3, <1>6, <3>1
  <2>3. TypeOK'
    BY <1>1, <1>4, <1>6, <2>1 DEF TypeOK, Steps
  <2>4. PlanInv' /\ SavedInv' /\ BaselineInv'
    BY <1>1, <1>6, <2>1, SamePlan DEF IInv, PlanInv, SavedInv, BaselineInv, Inside
  <2>5. DOMAIN before = {c \in Cells : c[1] \in NeighbourBlocks(Block)}
    BY <1>1 DEF IInv, BaselineInv, Inside
  <2>6. AheadInv'
    <3>1. ASSUME NEW b \in todo \ (NeighbourBlocks(Block) \cup {Block}), NEW c \in CellsOf(b)
          PROVE  Explained(flash'[c], c)
      <4>1. b \in Chip /\ c \in Cells /\ c[1] = b
        BY <1>1, ShapeFacts DEF TypeOK
      <4>2. b \notin {Block, Block + 1}
        BY <4>1 DEF NeighbourBlocks
      <4>3. Explained(flash[c], c)
        BY <1>1 DEF IInv, AheadInv, AfterErase, Inside
      <4> QED BY <2>2, <4>1, <4>2, <4>3
    <3>2. ASSUME NEW c \in DOMAIN before, c[1] # Block + 1 PROVE flash'[c] \in {before[c], Erased}
      <4>1. flash[c] \in {before[c], Erased}
        BY <1>1, <3>2 DEF IInv, AheadInv, AfterErase, Inside
      <4>2. c \in Cells /\ c[1] \notin {Block, Block + 1}
        BY <1>2, <2>5, <3>2, ShapeFacts DEF NeighbourBlocks
      <4> QED BY <2>2, <4>1, <4>2
    <3>3. \A c \in DOMAIN before : c[1] \in todo => Explained(before[c], c)
      BY <1>1 DEF IInv, AheadInv, Inside
    <3> QED BY <1>1, <1>6, <2>1, <3>1, <3>2, <3>3, SamePlan DEF AheadInv
  <2>7. BesideInv'
    <3>1. Block \in BlocksDiffering
      BY <1>1, <1>2 DEF IInv, PlanInv
    <3>2. ASSUME NEW c \in Cells \ DOMAIN before, c[1] \notin BlocksDiffering
          PROVE  flash'[c] = found[c]
      <4>1. flash[c] = found[c]
        BY <1>1, <3>2 DEF IInv, BesideInv, AfterErase, Inside
      <4>2. c[1] \in Chip /\ c[1] \notin {Block, Block + 1}
        BY <2>5, <3>1, <3>2, ShapeFacts DEF NeighbourBlocks
      <4> QED BY <2>2, <4>1, <4>2
    <3>3. ASSUME NEW c \in DOMAIN before, c[1] = Block - 1 PROVE flash'[c] = before[c]
      <4>1. flash[c] = before[c] /\ c \in Cells
        BY <1>1, <2>5, <3>3 DEF IInv, BesideInv
      <4>2. c[1] \notin {Block, Block + 1}
        BY <1>2, <3>3, ShapeFacts
      <4> QED BY <2>2, <4>1, <4>2
    <3>4. \A c \in DOMAIN before : c[1] \notin BlocksDiffering => before[c] = found[c]
      BY <1>1 DEF IInv, BesideInv, Inside
    <3> QED BY <1>1, <1>6, <2>1, <3>2, <3>3, <3>4, SamePlan DEF BesideInv, Inside, AfterErase
  <2> QED BY <2>1, <2>3, <2>4, <2>6, <2>7 DEF IInv, WholeInv
<1>7. CASE /\ flash' = landed
           /\ cell' = Sent
           /\ step' = IF cell + 1 = Size THEN "read back" ELSE "write"
           /\ UNCHANGED <<commit, resuming, wanted, todo, before, pastTheErase, outcome, owed, odd, faults>>
  BY <1>1, <1>5, <1>6, <1>7 DEF TypeOK
<1>8. CASE /\ Fault /\ odd' = TRUE
           /\ flash' \in {flash, [flash EXCEPT ![Sending] = Garbled]}
                           \cup (IF cell + 1 = Size /\ after \in Cells
                                   THEN {[landed EXCEPT ![after] = Garbled]} ELSE {})
           /\ cell' = Sent
           /\ step' = IF cell + 1 = Size THEN "read back" ELSE "write"
           /\ UNCHANGED <<commit, resuming, wanted, todo, before, pastTheErase, outcome, owed>>
  <2>1. faults' \in 0..MaxFaults /\ odd' \in BOOLEAN
    BY <1>1, <1>8, FaultTyped
  <2>2. flash' \in [Cells -> Values] /\ \A c \in Cells : c # Sending /\ c # after => flash'[c] = flash[c]
    BY <1>1, <1>5, <1>8, ValueFacts DEF TypeOK
  <2> QED BY <1>6, <1>8, <2>1, <2>2
<1>9. CASE Fault /\ UNCHANGED odd /\ flash' \in {flash, landed} /\ Fail("stopped")
  BY <1>1, <1>5, <1>9, FaultTyped, FailKeeps DEF TypeOK
<1> QED BY <1>7, <1>8, <1>9 DEF WriteTransfer

(* The block above is as its baseline says, the one below has been since   *)
(* the neighbours were compared, and what is ahead is explained again.     *)
LEMMA CheckAboveKeeps == ASSUME IInv, CheckAbove PROVE IInv'
<1>1. UNCHANGED <<flash, dump, file, journal, now, found, odd, faults>> /\ step = "above" /\ TypeOK
  BY DEF CheckAbove, disk, IInv
<1>2. CASE Fail("refused")
  BY <1>1, <1>2, FailKeeps DEF TypeOK
<1>3. CASE /\ \A c \in DOMAIN before : c[1] = Block + 1 => flash[c] = before[c]
           /\ todo' = todo \ {Block}
           /\ pastTheErase' = FALSE /\ before' = NoBaseline
           /\ step' = IF todo' = {} THEN "whole" ELSE "baseline"
           /\ UNCHANGED <<commit, resuming, wanted, cell, outcome, owed>>
  <2>1. todo # {} /\ Block \in todo /\ Block \in Chip /\ todo \subseteq BlocksDiffering
    BY <1>1, BlockFacts DEF IInv, PlanInv, TypeOK
  <2>2. step' \in {"whole", "baseline"} /\ (step' = "baseline" => todo' # {})
    BY <1>3
  <2>3. DOMAIN before = {c \in Cells : c[1] \in NeighbourBlocks(Block)}
    BY <1>1 DEF IInv, BaselineInv, Inside
  <2>4. \A c \in DOMAIN before : flash[c] = before[c]
    <3>1. \A c \in DOMAIN before : c[1] = Block - 1 => flash[c] = before[c]
      BY <1>1 DEF IInv, BesideInv
    <3>2. \A c \in DOMAIN before : c[1] \in {Block - 1, Block + 1}
      BY <2>3 DEF NeighbourBlocks
    <3> QED BY <1>3, <3>1, <3>2
  <2>5. TypeOK'
    <3>1. DOMAIN NoBaseline = {}
      BY DEF NoBaseline
    <3> QED BY <1>1, <1>3, <2>2, <3>1 DEF TypeOK, Steps
  <2>6. PlanInv' /\ SavedInv' /\ BaselineInv'
    BY <1>1, <1>3, <2>1, <2>2, SamePlan DEF IInv, PlanInv, SavedInv, BaselineInv, Inside
  <2>7. AheadInv'
    <3>1. ASSUME NEW b \in todo \ {Block}, NEW c \in CellsOf(b) PROVE Explained(flash[c], c)
      <4>1. c \in Cells /\ c[1] = b
        BY <1>1, ShapeFacts DEF TypeOK
      <4>2. CASE b \in NeighbourBlocks(Block)
        <5>1. c \in DOMAIN before
          BY <2>3, <4>1, <4>2
        <5> QED BY <1>1, <2>4, <4>1, <5>1 DEF IInv, AheadInv, Inside
      <4>3. CASE b \notin NeighbourBlocks(Block)
        BY <1>1, <4>3 DEF IInv, AheadInv, AfterErase, Inside
      <4> QED BY <4>2, <4>3
    <3> QED BY <1>1, <1>3, <2>2, <3>1, SamePlan DEF AheadInv, AfterErase, Inside
  <2>8. BesideInv'
    <3>1. ASSUME NEW c \in Cells, c[1] \notin BlocksDiffering PROVE flash[c] = found[c]
      <4>1. CASE c \in DOMAIN before
        BY <1>1, <2>4, <3>1, <4>1 DEF IInv, BesideInv, Inside
      <4>2. CASE c \notin DOMAIN before
        BY <1>1, <3>1, <4>2 DEF IInv, BesideInv, AfterErase, Inside
      <4> QED BY <4>1, <4>2
    <3> QED BY <1>1, <1>3, <2>2, <3>1, SamePlan DEF BesideInv, AfterErase, Inside
  <2> QED BY <2>2, <2>5, <2>6, <2>7, <2>8 DEF IInv, WholeInv
<1> QED BY <1>2, <1>3 DEF CheckAbove

(* The restart is reached only with the whole configuration read back.     *)
LEMMA ReadWholeKeeps == ASSUME IInv, ReadWhole PROVE IInv'
<1>1. /\ UNCHANGED <<flash, dump, file, now, found, odd, faults>> /\ step = "whole" /\ TypeOK
      /\ journal' \in {"clean", "stopped"}
  BY DEF ReadWhole, WholeRead, IInv, TypeOK
<1>2. CASE Fail("refused")
  BY <1>1, <1>2, FailKeeps DEF TypeOK
<1>3. CASE ContainerMatches /\ Goes("restart")
  <2>1. TypeOK'
    BY <1>1, <1>3, GoesTyped DEF TypeOK, Steps
  <2>2. UNCHANGED <<wanted, todo, before>> /\ step' = "restart"
    BY <1>3 DEF Goes
  <2>3. PlanInv' /\ SavedInv' /\ BesideInv' /\ WholeInv'
    BY <1>1, <1>3, <2>2, SamePlan
    DEF IInv, PlanInv, SavedInv, BesideInv, WholeInv, AfterErase, Inside
  <2> QED BY <2>1, <2>2, <2>3 DEF IInv, BaselineInv, AheadInv, AfterErase, Inside
<1> QED BY <1>2, <1>3 DEF ReadWhole, WholeRead

(* What ends a run, and what happens between two.                          *)
LEMMA OutsideKeeps ==
  ASSUME IInv, Restart \/ FreshDump \/ \E b \in Region : WrittenElsewhere(b)
  PROVE  IInv'
<1>1. CASE Restart
  <2>1. UNCHANGED <<flash, dump, file, journal, now, found, odd, faults>> /\ owed' = FALSE /\ TypeOK
        /\ EndRun("done")
    BY <1>1 DEF Restart, disk, IInv
  <2> QED BY <2>1, EndRunTyped, IdleKeeps DEF TypeOK
<1>2. CASE FreshDump
  <2>1. dump' \in [Held -> Values] /\ step' = "idle"
    BY <1>2, ShapeFacts DEF FreshDump, IInv, TypeOK, run
  <2>2. TypeOK'
    BY <1>2, <2>1 DEF FreshDump, IInv, TypeOK, run
  <2> QED BY <2>1, <2>2, IdleKeeps
<1>3. CASE \E b \in Region : WrittenElsewhere(b)
  <2>1. PICK b \in Region : WrittenElsewhere(b)
    BY <1>3
  <2>2. flash' \in [Cells -> Values] /\ step' = "idle"
    BY <2>1, ValueFacts DEF WrittenElsewhere, IInv, TypeOK, run
  <2>3. faults' \in 0..MaxFaults /\ odd' \in BOOLEAN
    BY <2>1, FaultTyped DEF WrittenElsewhere, IInv
  <2>4. TypeOK'
    BY <2>1, <2>2, <2>3 DEF WrittenElsewhere, IInv, TypeOK, run, disk
  <2> QED BY <2>2, <2>4, IdleKeeps
<1> QED BY <1>1, <1>2, <1>3

(* A remote and a dump that agree, and no run under way.                   *)
LEMMA InitHolds == Init => IInv
<1> SUFFICES ASSUME Init PROVE IInv
  OBVIOUS
<1>1. File(0, 0) \in Files /\ File(0, 1) \in Files /\ 0 \in 0..MaxFaults /\ 0 \in 0..MaxStamps
  BY BoundsAssumption DEF File, Files
<1>2. flash \in [Cells -> Values] /\ dump \in [Held -> Values] /\ found = flash
  BY <1>1, ValueFacts DEF Init
<1>3. DOMAIN before = {} /\ cell \in 0..(Size - 1)
  <2>1. DOMAIN NoBaseline = {}
    BY DEF NoBaseline
  <2> QED BY <2>1, SizeFacts DEF Init
<1>4. TypeOK
  BY <1>1, <1>2, <1>3 DEF Init, TypeOK, Steps
<1> QED BY <1>4 DEF Init, IInv, PlanInv, SavedInv, BaselineInv, AheadInv, BesideInv, WholeInv,
                    Inside, AfterErase

(* Every step of a run, and every step between runs, keeps the invariant.  *)
LEMMA StepKeeps == IInv /\ [Next]_vars => IInv'
<1> SUFFICES ASSUME IInv, [Next]_vars PROVE IInv'
  OBVIOUS
<1>1. CASE Next
  BY <1>1, StartRunKeeps, AttachKeeps, CompareKeeps, SaveKeeps, BaselineKeeps, EraseKeeps,
     ChecksKeep, WriteTransferKeeps, CheckAboveKeeps, ReadWholeKeeps, OutsideKeeps, StopsKeeps
  DEF Next
<1>2. CASE UNCHANGED vars
  <2>1. UNCHANGED <<flash, dump, file, journal, now, step, commit, resuming, wanted, todo, cell,
                    before, pastTheErase, outcome, found, owed, odd, faults>>
    BY <1>2 DEF vars, disk, run
  <2>2. TypeOK' /\ PlanInv' /\ SavedInv' /\ BaselineInv'
    <3>1. TypeOK'
      BY <2>1 DEF IInv, TypeOK
    <3>2. PlanInv' /\ SavedInv'
      BY <2>1, SamePlan DEF IInv, PlanInv, SavedInv
    <3>3. BaselineInv'
      BY <2>1, SamePlan DEF IInv, BaselineInv
    <3> QED BY <3>1, <3>2, <3>3
  <2>3. AheadInv'
    BY <2>1, SamePlan DEF IInv, AheadInv
  <2>4. BesideInv' /\ WholeInv'
    BY <2>1, SamePlan DEF IInv, BesideInv, WholeInv
  <2> QED BY <2>2, <2>3, <2>4 DEF IInv
<1> QED BY <1>1, <1>2
-----------------------------------------------------------------------------
(* The inductive invariant holds of every run after run.                   *)
THEOREM Invariance == Spec => []IInv
BY InitHolds, StepKeeps, PTL DEF Spec

(* Every variable keeps its type, whatever the flash does and wherever a   *)
(* run is killed.                                                          *)
THEOREM TypeCorrect == Spec => []TypeOK
<1>1. IInv => TypeOK
  BY DEF IInv
<1> QED BY <1>1, Invariance, PTL

(* What writeBlock erases is known: the comparison made before the first   *)
(* erase still stands at the last, because each block's neighbours are     *)
(* compared with baselines before the run goes on.                         *)
THEOREM ErasesOnlyWhatIsKnown == Spec => []ErasesWhatIsKnown
<1>1. IInv => ErasesWhatIsKnown
  <2> SUFFICES ASSUME IInv, step = "erase", NEW c \in CellsOf(Block)
               PROVE  flash[c] \in {dump[c], Target(c), Erased}
    BY DEF ErasesWhatIsKnown
  <2>1. Block \in todo
    BY BlockFacts DEF IInv, PlanInv, TypeOK
  <2> QED BY <2>1 DEF IInv, AheadInv, Explained
<1> QED BY <1>1, Invariance, PTL

(* write-config.ts restarts a remote only on the whole of the file that is *)
(* saved beside it.                                                        *)
THEOREM RestartsOnlyWhole == Spec => []RestartsWhole
<1>1. IInv => RestartsWhole
  BY DEF IInv, SavedInv, WholeInv, ContainerMatches, RestartsWhole
<1> QED BY <1>1, Invariance, PTL

(* A run that gets to the restart has left every block outside its plan as *)
(* it found it, whatever the erases and the writes did in between.         *)
THEOREM LeavesTheRest == Spec => []BesideThePlan
<1>1. IInv => BesideThePlan
  BY DEF IInv, BesideInv, BesideThePlan, AfterErase, Inside
<1> QED BY <1>1, Invariance, PTL
-----------------------------------------------------------------------------
(* A file's cells differ from another's of the same edit by their stamps.  *)
LEMMA FileCellFacts ==
  ASSUME NEW f \in Files, NEW c
  PROVE  /\ c \in StampCells => FileCell(f, c) = Value("stamp", f.stamp)
         /\ FileCell(f, c).kind = "stamp" => FileCell(f, c).of = f.stamp
         /\ \A g \in Files : g.edit = f.edit /\ c \notin StampCells => FileCell(g, c) = FileCell(f, c)
<1>1. CASE c \in StampCells
  BY <1>1, CellsAssumption DEF FileCell, Value
<1>2. CASE c \notin StampCells
  BY <1>2, CellsAssumption DEF FileCell, Value, Erased
<1> QED BY <1>1, <1>2

(* What the lab holds does not change while the flash, the dump and the    *)
(* file do not.                                                            *)
LEMMA SameLab == ASSUME UNCHANGED <<flash, dump, file>>
                 PROVE  (InLab' <=> InLab) /\ (AsOneFileLeft' <=> AsOneFileLeft)
BY DEF InLab, AsOneFileLeft, Laid

(* Only Save, StartRun and FreshDump change what a stamp is compared with. *)
LEMMA FreshKept ==
  ASSUME TypeOK, FreshInv, UNCHANGED <<dump, file, wanted, now>>,
         \A c \in Cells : flash'[c] \in {flash[c], Erased, Garbled, Other}
                         \/ (c \in Held /\ flash'[c] = Target(c))
  PROVE  FreshInv'
<1>1. Erased.kind # "stamp" /\ Garbled.kind # "stamp" /\ Other.kind # "stamp"
  BY DEF Erased, Garbled, Other, Value
<1>2. \A c \in Held : Target(c).kind = "stamp" => Target(c).of <= now
  BY FileCellFacts DEF TypeOK, FreshInv, Target, Laid
<1>3. \A c \in Cells : flash'[c].kind = "stamp" => flash'[c].of <= now
  BY <1>1, <1>2 DEF FreshInv
<1> QED BY <1>3 DEF FreshInv

(* A run that ends leaves the lab with what it had.                        *)
LEMMA EndKeepsLab ==
  ASSUME TypeOK, LabInv, UNCHANGED <<flash, dump, file, journal, now, odd>>, NEW how, EndRun(how)
  PROVE  LabInv'
<1>1. FreshInv'
  <2>1. wanted' = wanted /\ FreshInv /\ \A c \in Cells : flash'[c] = flash[c]
    BY DEF EndRun, LabInv
  <2> QED BY <2>1 DEF FreshInv
<1>2. StampedInv' /\ SentInv'
  BY DEF EndRun, StampedInv, SentInv
<1>3. RerunInv'
  BY SameLab DEF LabInv, RerunInv, EndRun, Inside
<1> QED BY <1>1, <1>2, <1>3 DEF LabInv

(* One block is erased or written and the others are left alone.           *)
LEMMA OneBlockWritten ==
  ASSUME TypeOK, InLab, AsOneFileLeft, UNCHANGED <<dump, file>>, NEW b \in Region,
         \A c \in Cells : c[1] # b => flash'[c] = flash[c],
         \A c \in CellsOf(b) : flash'[c] \in {Laid(file, c), Erased}
  PROVE  InLab' /\ AsOneFileLeft'
<1>1. \A c : Laid(file, c)' = Laid(file, c)
  BY DEF Laid
<1>2. InLab'
  <2> SUFFICES ASSUME NEW c \in Held PROVE flash'[c] \in {dump[c], Laid(file, c), Erased}
    BY <1>1 DEF InLab
  <2>1. c \in Cells /\ b \in Chip
    BY ShapeFacts
  <2>2. CASE c[1] = b
    BY <2>1, <2>2, ShapeFacts
  <2>3. CASE c[1] # b
    BY <2>1, <2>3 DEF InLab
  <2> QED BY <2>2, <2>3
<1>3. AsOneFileLeft'
  <2> SUFFICES ASSUME NEW x \in Region
               PROVE  \/ \A c \in CellsOf(x) : flash'[c] = dump[c]
                      \/ \A c \in CellsOf(x) : flash'[c] \in {Laid(file, c), Erased}
    BY <1>1 DEF AsOneFileLeft
  <2>1. x # b => \A c \in CellsOf(x) : flash'[c] = flash[c]
    BY ShapeFacts
  <2> QED BY <2>1 DEF AsOneFileLeft
<1> QED BY <1>2, <1>3

(* The stamp of a new run is on nothing the lab or the remote holds; a     *)
(* rerun takes the file as it is.                                          *)
LEMMA StartRunKeepsLab ==
  ASSUME IInv, LabInv, NEW commits \in BOOLEAN, NEW asIs \in BOOLEAN, StartRun(commits, asIs)
  PROVE  LabInv'
<1>1. /\ UNCHANGED <<flash, dump, file, todo, cell, odd>> /\ step = "idle" /\ TypeOK
      /\ step' = "attach" /\ resuming' = (journal = "stopped") /\ journal' = "clean"
  BY DEF StartRun, IInv
<1>2. now \in 0..MaxStamps /\ file \in Files /\ file.stamp <= now /\ file.stamp \in 0..MaxStamps
  BY <1>1 DEF TypeOK, LabInv, FreshInv, Files
<1>3. CASE asIs \/ resuming'
  <2>1. wanted' = file /\ now' = now
    BY <1>3 DEF StartRun
  <2>2. FreshInv' /\ StampedInv'
    BY <1>1, <2>1 DEF LabInv, FreshInv, StampedInv
  <2> QED BY <1>1, <2>2, SameLab DEF LabInv, SentInv, RerunInv, Inside
<1>4. CASE ~(asIs \/ resuming')
  <2>1. now' = now + 1 /\ wanted' = File(now', file.edit)
    BY <1>4 DEF StartRun
  <2>2. wanted'.stamp = now + 1 /\ wanted'.edit = file.edit
    BY <2>1 DEF File
  <2>3. \A v \in Values : v.kind = "stamp" /\ v.of <= now => v.of <= now' /\ v.of # now + 1
    BY <1>2, <2>1, BoundsAssumption DEF Values
  <2>4. FreshInv'
    <3>1. /\ \A c \in Cells : flash[c].kind = "stamp" => flash[c].of <= now'
          /\ \A c \in Held : dump[c].kind = "stamp" => dump[c].of <= now'
      BY <1>1, <2>3 DEF LabInv, FreshInv, TypeOK
    <3>2. file.stamp <= now' /\ wanted'.stamp <= now'
      BY <1>2, <2>1, <2>2, BoundsAssumption
    <3> QED BY <1>1, <3>1, <3>2 DEF FreshInv
  <2>5. \A c \in Held : dump[c] # Value("stamp", now + 1)
    <3>1. Value("stamp", now + 1).kind = "stamp" /\ Value("stamp", now + 1).of = now + 1
      BY DEF Value
    <3>2. \A c \in Held : dump[c] \in Values /\ (dump[c].kind = "stamp" => dump[c].of <= now)
      BY <1>1 DEF LabInv, FreshInv, TypeOK
    <3> QED BY <2>3, <3>1, <3>2
  <2>6. StampedInv'
    BY <1>1, <1>4, <2>2, <2>5 DEF StampedInv
  <2> QED BY <1>1, <1>4, <2>4, <2>6, SameLab DEF LabInv, SentInv, RerunInv, Inside
<1> QED BY <1>3, <1>4

(* The plan is every block that differs.                                   *)
LEMMA AttachKeepsLab == ASSUME IInv, LabInv, Attach PROVE LabInv'
<1>1. UNCHANGED <<flash, dump, file, journal, now, odd>> /\ step = "attach" /\ TypeOK
  BY DEF Attach, disk, IInv
<1>2. CASE Fail("refused") \/ Fail("nothing to write")
  BY <1>1, <1>2, EndKeepsLab DEF Fail
<1>3. CASE /\ BlocksDiffering # {}
           /\ step' = "compare" /\ todo' = BlocksDiffering
           /\ UNCHANGED <<commit, resuming, wanted, cell, before, pastTheErase, outcome, owed>>
  <2>1. BlocksDiffering' = BlocksDiffering
    BY <1>1, <1>3, SamePlan
  <2>2. FreshInv'
    BY <1>1, <1>3 DEF LabInv, FreshInv
  <2>3. StampedInv'
    BY <1>1, <1>3, <2>1 DEF LabInv, StampedInv
  <2>4. SentInv' /\ RerunInv'
    BY <1>1, <1>3, SameLab DEF LabInv, SentInv, RerunInv, Inside
  <2> QED BY <2>2, <2>3, <2>4 DEF LabInv
<1> QED BY <1>2, <1>3 DEF Attach

(* Every block of the plan is one the lab can account for as a whole.      *)
LEMMA CompareKeepsLab == ASSUME IInv, LabInv, Compare PROVE LabInv'
<1>1. UNCHANGED <<flash, dump, file, journal, now, odd>> /\ step = "compare" /\ TypeOK
  BY DEF Compare, disk, IInv
<1>2. CASE Fail("refused") \/ Fail("dry run")
  BY <1>1, <1>2, EndKeepsLab DEF Fail
<1>3. CASE Goes("save") /\ \A b \in todo : Known(b)
  <2>1. UNCHANGED <<wanted, todo, cell, resuming>> /\ step' = "save"
    BY <1>3 DEF Goes
  <2>2. \A b \in todo : Known(b)'
    BY <1>1, <1>3, <2>1, SamePlan DEF Known, Interrupted
  <2>3. FreshInv' /\ SentInv'
    BY <1>1, <2>1 DEF LabInv, FreshInv, SentInv
  <2>4. StampedInv'
    BY <1>1, <2>1, SamePlan DEF LabInv, StampedInv
  <2>5. RerunInv'
    BY <1>1, <2>1, <2>2, SameLab DEF LabInv, RerunInv, Inside
  <2> QED BY <2>3, <2>4, <2>5 DEF LabInv
<1> QED BY <1>2, <1>3 DEF Compare

(* The old file is nowhere outside the blocks that were compared: a block  *)
(* with a stamp differs from the dump, in one without the files agree.     *)
LEMMA SaveKeepsLab == ASSUME IInv, LabInv, Save PROVE LabInv'
<1>1. /\ UNCHANGED <<flash, dump, journal, now, odd>> /\ step = "save" /\ TypeOK
      /\ file' = wanted /\ UNCHANGED <<wanted, todo, cell, resuming>> /\ step' = "baseline"
  BY DEF Save, SavesWanted, Goes, IInv
<1>2. \A c : Laid(file, c)' = Target(c)
  BY <1>1 DEF Laid, Target
<1>3. ASSUME NEW b \in Region \ BlocksDiffering, NEW c \in CellsOf(b)
      PROVE  dump[c] = Target(c) /\ (~odd => flash[c] \in {Target(c), Erased})
  <2>1. c \in Held /\ c \in Cells
    BY ShapeFacts
  <2>2. dump[c] = Target(c)
    BY <1>3 DEF BlocksDiffering
  <2>3. CASE wanted = file
    BY <1>1, <2>1, <2>2, <2>3 DEF LabInv, RerunInv, InLab, Target
  <2>4. CASE wanted # file
    <3>1. wanted.edit = file.edit /\ dump[c] # Value("stamp", wanted.stamp)
      BY <1>1, <2>1, <2>4 DEF LabInv, StampedInv
    <3>2. c \notin StampCells
      BY <1>1, <2>2, <3>1, FileCellFacts, CellsAssumption DEF Target, Laid, TypeOK
    <3>3. Laid(file, c) = Target(c)
      BY <1>1, <3>1, <3>2, FileCellFacts DEF Target, Laid, TypeOK
    <3> QED BY <1>1, <2>1, <2>2, <3>3 DEF LabInv, RerunInv, InLab
  <2> QED BY <2>2, <2>3, <2>4
<1>4. \A b \in BlocksDiffering : Known(b) /\ b \in Region
  BY <1>1 DEF LabInv, RerunInv, StampedInv, BlocksDiffering
<1>5. ~odd => AsOneFileLeft'
  BY <1>1, <1>2, <1>3, <1>4 DEF AsOneFileLeft, Known, Interrupted
<1>6. ~odd => InLab'
  <2> SUFFICES ASSUME ~odd, NEW c \in Held PROVE flash[c] \in {dump[c], Target(c), Erased}
    BY <1>1, <1>2 DEF InLab
  <2>1. PICK b \in Region : c \in CellsOf(b)
    BY ShapeFacts
  <2>2. CASE b \in BlocksDiffering
    BY <1>4, <2>1, <2>2 DEF Known, Interrupted
  <2>3. CASE b \notin BlocksDiffering
    BY <1>3, <2>1, <2>3
  <2> QED BY <2>2, <2>3
<1>7. FreshInv' /\ StampedInv' /\ SentInv'
  BY <1>1 DEF LabInv, FreshInv, StampedInv, SentInv
<1> QED BY <1>1, <1>5, <1>6, <1>7 DEF LabInv, RerunInv

(* Reading the neighbours changes nothing the lab holds.                   *)
LEMMA BaselineKeepsLab == ASSUME IInv, LabInv, Baseline PROVE LabInv'
<1>1. UNCHANGED <<flash, dump, file, journal, now, odd>> /\ step = "baseline" /\ TypeOK
  BY DEF Baseline, disk, IInv
<1>2. CASE Fail("refused")
  BY <1>1, <1>2, EndKeepsLab DEF Fail
<1>3. CASE step' = "erase" /\ UNCHANGED <<resuming, wanted, todo, cell>>
  <2>1. FreshInv' /\ StampedInv' /\ SentInv'
    BY <1>1, <1>3 DEF LabInv, FreshInv, StampedInv, SentInv
  <2> QED BY <1>1, <1>3, <2>1, SameLab DEF LabInv, RerunInv, Inside
<1> QED BY <1>2, <1>3 DEF Baseline

(* A block erased as told is a block of the file, not yet written.         *)
LEMMA EraseKeepsLab == ASSUME IInv, LabInv, Erase PROVE LabInv'
<1>1. /\ UNCHANGED <<dump, file, now>> /\ step = "erase" /\ TypeOK /\ file = wanted
      /\ UNCHANGED <<resuming, wanted, todo>> /\ step' \in {"erased", "idle"} /\ cell' = 0
  BY DEF Erase, IInv, SavedInv, Inside, EndRun, LabInv, SentInv
<1>2. Block \in Region
  BY <1>1, BlockFacts DEF IInv, PlanInv, TypeOK
<1>3. \A c \in Cells : flash'[c] \in {flash[c], Erased}
  BY <1>1, ClearFacts DEF Erase
<1>4. FreshInv'
  <2>1. FreshInv /\ \A c \in Cells : flash'[c] \in {flash[c], Erased, Garbled, Other}
                                    \/ (c \in Held /\ flash'[c] = Target(c))
    BY <1>3 DEF LabInv
  <2> QED BY <1>1, <2>1, FreshKept
<1>5. StampedInv' /\ SentInv'
  BY <1>1 DEF StampedInv, SentInv
<1>6. odd' \/ (odd' = odd /\ (flash' = flash \/ Clear(CellsOf(Block))))
  BY DEF Erase
<1>7. ~odd => InLab /\ AsOneFileLeft
  BY <1>1 DEF LabInv, RerunInv, Inside
<1>8. CASE odd' = odd /\ flash' = flash
  BY <1>1, <1>4, <1>5, <1>7, <1>8, SameLab DEF LabInv, RerunInv
<1>9. CASE odd' = odd /\ Clear(CellsOf(Block))
  <2>1. /\ \A c \in Cells : c[1] # Block => flash'[c] = flash[c]
        /\ \A c \in CellsOf(Block) : flash'[c] \in {Laid(file, c), Erased}
    BY <1>2, <1>9, ShapeFacts DEF Clear
  <2>2. ~odd' => InLab' /\ AsOneFileLeft'
    BY <1>1, <1>2, <1>7, <1>9, <2>1, OneBlockWritten
  <2> QED BY <1>1, <1>4, <1>5, <2>2 DEF LabInv, RerunInv
<1>10. CASE odd'
  BY <1>1, <1>4, <1>5, <1>10 DEF LabInv, RerunInv
<1> QED BY <1>6, <1>8, <1>9, <1>10

(* A block found erased has nothing left to send over.                     *)
LEMMA ChecksKeepLab == ASSUME IInv, LabInv, CheckErased \/ CheckNeighbours \/ ReadBack PROVE LabInv'
<1>1. UNCHANGED <<flash, dump, file, journal, now, odd>> /\ TypeOK
  BY DEF CheckErased, CheckNeighbours, ReadBack, disk, IInv
<1>2. CASE Fail("refused")
  BY <1>1, <1>2, EndKeepsLab DEF Fail
<1>3. ASSUME NEW next \in {"neighbours", "write", "above"}, Goes(next),
             step \in {"erased", "neighbours", "read back"},
             step' \in {"neighbours", "write"} /\ ~odd =>
               \A c \in CellsOf(Block) : flash[c] = Erased
      PROVE  LabInv'
  <2>1. UNCHANGED <<resuming, wanted, todo, cell>> /\ step' = next /\ cell = 0
    BY <1>3 DEF Goes, LabInv, SentInv
  <2>2. FreshInv' /\ StampedInv'
    BY <1>1, <1>3, <2>1 DEF LabInv, FreshInv, StampedInv
  <2>3. SentInv'
    BY <1>1, <1>3, <2>1, SamePlan DEF SentInv
  <2>4. RerunInv'
    BY <1>1, <1>3, <2>1, SameLab DEF LabInv, RerunInv, Inside
  <2> QED BY <2>2, <2>3, <2>4 DEF LabInv
<1>4. CASE CheckErased
  BY <1>2, <1>3, <1>4 DEF CheckErased, Goes
<1>5. CASE CheckNeighbours
  <2>1. step = "neighbours" /\ (Fail("refused") \/ Goes("write"))
    BY <1>5 DEF CheckNeighbours
  <2>2. Block \in Chip /\ cell = 0
    BY <2>1, BlockFacts DEF IInv, PlanInv, TypeOK, LabInv, SentInv
  <2>3. \A c \in CellsOf(Block) : c[2] > 0
    BY SizeFacts DEF CellsOf
  <2>4. ~odd => \A c \in CellsOf(Block) : flash[c] = Erased
    BY <2>1, <2>2, <2>3 DEF LabInv, SentInv
  <2> QED BY <1>2, <1>3, <2>1, <2>4
<1>6. CASE ReadBack
  BY <1>2, <1>3, <1>6 DEF ReadBack, Goes
<1> QED BY <1>4, <1>5, <1>6

(* A transfer goes onto the cell after those already sent, which is erased.*)
LEMMA WriteTransferKeepsLab == ASSUME IInv, LabInv, WriteTransfer PROVE LabInv'
<1> DEFINE landed == [flash EXCEPT ![Sending] = Programmed(@, Target(Sending))]
           after  == <<Block + 1, 1>>
<1>1. /\ UNCHANGED <<dump, file, journal, now>> /\ step = "write" /\ TypeOK /\ file = wanted
      /\ UNCHANGED <<resuming, wanted, todo>>
  BY DEF WriteTransfer, disk, IInv, SavedInv, Inside, Fail, EndRun
<1>2. Block \in Region /\ Block \in Chip
  BY <1>1, BlockFacts DEF IInv, PlanInv, TypeOK
<1>3. cell \in 0..(Size - 1) /\ Sending \in Held /\ Sending \in Cells /\ Sending = <<Block, cell + 1>>
      /\ Sending[1] = Block /\ Sending[2] = cell + 1 /\ Sending \in CellsOf(Block)
  <2>1. cell \in 0..(Size - 1)
    BY <1>1 DEF TypeOK
  <2>2. cell + 1 \in 1..Size /\ cell + 1 > cell
    BY <2>1, SizeFacts
  <2> QED BY <1>2, <2>1, <2>2, ShapeFacts DEF Sending, Held, CellsOf
<1>4. /\ cell + 1 = Size => Sent = 0
      /\ cell + 1 # Size => Sent = cell + 1
  <2>1. cell + 1 # Size => cell + 1 \in 0..(Size - 1)
    BY <1>3, SizeFacts
  <2> QED BY <2>1, SizeFacts DEF Sent
<1>5. /\ step' = "write" => cell' = Sent /\ cell + 1 # Size
      /\ step' # "write" => cell' = 0 /\ step' \in {"idle", "read back"}
  BY <1>4 DEF WriteTransfer, Fail, EndRun
<1>6. \A c \in Cells : \/ flash'[c] \in {flash[c], Garbled}
                       \/ c = Sending /\ flash'[c] = Target(c)
  BY <1>1, <1>3 DEF WriteTransfer, Programmed, TypeOK
<1>7. FreshInv'
  <2>1. FreshInv /\ \A c \in Cells : flash'[c] \in {flash[c], Erased, Garbled, Other}
                                    \/ (c \in Held /\ flash'[c] = Target(c))
    BY <1>3, <1>6 DEF LabInv
  <2> QED BY <1>1, <2>1, FreshKept
<1>8. StampedInv'
  BY <1>5 DEF StampedInv
<1>9. CASE odd'
  BY <1>5, <1>7, <1>8, <1>9 DEF LabInv, SentInv, RerunInv
<1>10. CASE ~odd'
  <2>1. odd' = odd /\ flash' \in {flash, landed} /\ (step' = "write" => flash' = landed)
    BY <1>10 DEF WriteTransfer, Fail, EndRun
  <2>2. InLab /\ AsOneFileLeft
    BY <1>1, <1>10, <2>1 DEF LabInv, RerunInv, Inside
  <2>3. /\ \A c \in CellsOf(Block) : flash[c] \in {Target(c), Erased}
        /\ \A c \in CellsOf(Block) : c[2] > cell => flash[c] = Erased
    BY <1>1, <1>10, <2>1 DEF LabInv, SentInv
  <2>4. landed[Sending] = Target(Sending)
    BY <1>1, <1>3, <2>3 DEF Programmed, TypeOK
  <2>5. \A c \in Cells : c # Sending => landed[c] = flash[c]
    BY <1>1 DEF TypeOK
  <2>6. \A c \in CellsOf(Block) : flash'[c] \in {Target(c), Erased}
    BY <1>2, <2>1, <2>3, <2>4, <2>5, ShapeFacts
  <2>7. \A c \in Cells : c[1] # Block => flash'[c] = flash[c]
    BY <1>3, <2>1, <2>5
  <2>8. \A c : Target(c) = Laid(file, c)
    BY <1>1 DEF Target
  <2>9. InLab' /\ AsOneFileLeft'
    BY <1>1, <1>2, <2>2, <2>6, <2>7, <2>8, OneBlockWritten
  <2>10. SentInv'
    <3>1. ASSUME step' = "write", NEW c \in CellsOf(Block), c[2] > cell + 1
          PROVE  flash'[c] = Erased
      <4>1. c # Sending /\ c \in Cells /\ c[2] > cell
        <5>1. c[2] \in Nat
          BY SizeFacts DEF CellsOf
        <5> QED BY <1>2, <1>3, <3>1, <5>1, ShapeFacts
      <4> QED BY <2>1, <2>3, <2>5, <3>1, <4>1
    <3> QED BY <1>1, <1>4, <1>5, <2>6, <3>1, SamePlan DEF SentInv
  <2> QED BY <1>1, <1>5, <1>7, <1>8, <2>9, <2>10 DEF LabInv, RerunInv
<1> QED BY <1>9, <1>10

(* The next block starts with nothing sent of it.                          *)
LEMMA CheckAboveKeepsLab == ASSUME IInv, LabInv, CheckAbove PROVE LabInv'
<1>1. UNCHANGED <<flash, dump, file, journal, now, odd>> /\ step = "above" /\ TypeOK
  BY DEF CheckAbove, disk, IInv
<1>2. CASE Fail("refused")
  BY <1>1, <1>2, EndKeepsLab DEF Fail
<1>3. CASE step' \in {"whole", "baseline"} /\ UNCHANGED <<resuming, wanted, cell>>
  <2>1. FreshInv' /\ StampedInv' /\ SentInv'
    BY <1>1, <1>3 DEF LabInv, FreshInv, StampedInv, SentInv
  <2> QED BY <1>1, <1>3, <2>1, SameLab DEF LabInv, RerunInv, Inside
<1> QED BY <1>2, <1>3 DEF CheckAbove

(* With the whole configuration read back no rerun is asked for.           *)
LEMMA ReadWholeKeepsLab == ASSUME IInv, LabInv, ReadWhole PROVE LabInv'
<1>1. UNCHANGED <<flash, dump, file, now, odd>> /\ step = "whole" /\ TypeOK
  BY DEF ReadWhole, IInv
<1>2. CASE Fail("refused") /\ UNCHANGED journal
  BY <1>1, <1>2, EndKeepsLab DEF Fail
<1>3. CASE Goes("restart") /\ journal' = "clean"
  <2>1. UNCHANGED <<resuming, wanted, todo, cell>> /\ step' = "restart"
    BY <1>3 DEF Goes
  <2>2. FreshInv' /\ StampedInv' /\ SentInv'
    BY <1>1, <2>1 DEF LabInv, FreshInv, StampedInv, SentInv
  <2> QED BY <1>1, <1>3, <2>1, <2>2, SameLab DEF LabInv, RerunInv, Inside
<1> QED BY <1>2, <1>3 DEF ReadWhole, WholeRead

(* What ends a run, and what happens between two: a fresh dump holds all   *)
(* that is there, and other software's write is not accounted for.         *)
LEMMA OutsideKeepsLab ==
  ASSUME IInv, LabInv, Restart \/ Stops \/ FreshDump \/ \E b \in Region : WrittenElsewhere(b)
  PROVE  LabInv'
<1>1. CASE Restart \/ Stops
  BY <1>1, EndKeepsLab DEF Restart, Stops, Fail, disk, IInv
<1>2. CASE FreshDump
  <2>1. /\ UNCHANGED <<flash, file, journal, now, wanted, resuming, todo, cell, odd>>
        /\ step' = "idle" /\ cell' = 0
        /\ \A c \in Held : dump'[c] = flash[c]
    BY <1>2 DEF FreshDump, run, LabInv, SentInv
  <2>2. FreshInv'
    BY <2>1, ShapeFacts DEF LabInv, FreshInv
  <2>3. StampedInv' /\ SentInv'
    BY <2>1 DEF StampedInv, SentInv
  <2>4. InLab'
    BY <2>1 DEF InLab
  <2>5. AsOneFileLeft'
    <3>1. \A b \in Region : \A c \in CellsOf(b) : c \in Held
      BY ShapeFacts
    <3>2. \A b \in Region : \A c \in CellsOf(b) : flash'[c] = dump'[c]
      BY <2>1, <3>1
    <3> QED BY <3>2 DEF AsOneFileLeft
  <2> QED BY <2>1, <2>2, <2>3, <2>4, <2>5 DEF LabInv, RerunInv
<1>3. CASE \E b \in Region : WrittenElsewhere(b)
  <2>1. /\ UNCHANGED <<dump, file, journal, now, wanted, resuming, todo, cell>>
        /\ step' = "idle" /\ cell' = 0 /\ odd' = TRUE
        /\ \A c \in Cells : flash'[c] \in {flash[c], Other}
    BY <1>3 DEF WrittenElsewhere, run, disk, LabInv, SentInv
  <2>2. FreshInv'
    <3>1. FreshInv /\ \A c \in Cells : flash'[c] \in {flash[c], Erased, Garbled, Other}
                                    \/ (c \in Held /\ flash'[c] = Target(c))
      BY <2>1 DEF LabInv
    <3> QED BY <2>1, <3>1, FreshKept DEF IInv
  <2>3. StampedInv' /\ SentInv'
    BY <2>1 DEF StampedInv, SentInv
  <2> QED BY <2>1, <2>2, <2>3 DEF LabInv, RerunInv
<1> QED BY <1>1, <1>2, <1>3

(* The remote holds what the dump says.                                    *)
LEMMA LabInit == Init => LabInv
<1> SUFFICES ASSUME Init PROVE LabInv
  OBVIOUS
<1>1. /\ File(0, 0) \in Files /\ File(0, 0).stamp = 0 /\ File(0, 1).stamp = 0
      /\ File(0, 0).edit = 0 /\ File(0, 1).edit = 1
  BY BoundsAssumption DEF File, Files
<1>2. \A c : FileCell(File(0, 0), c).kind = "stamp" => FileCell(File(0, 0), c).of <= 0
  BY <1>1, FileCellFacts
<1>3. FreshInv
  BY <1>1, <1>2, ShapeFacts DEF Init, FreshInv
<1>4. \A c \in Held : flash[c] = dump[c]
  BY ShapeFacts DEF Init
<1>5. RerunInv
  <2>1. \A b \in Region : \A c \in CellsOf(b) : flash[c] = dump[c]
    BY <1>4, ShapeFacts
  <2> QED BY <1>4, <2>1 DEF Init, RerunInv, InLab, AsOneFileLeft
<1> QED BY <1>3, <1>5 DEF Init, LabInv, StampedInv, SentInv

(* Every step keeps what the lab holds, given the first invariant.         *)
LEMMA LabStep == IInv /\ LabInv /\ [Next]_vars => LabInv'
<1> SUFFICES ASSUME IInv, LabInv, [Next]_vars PROVE LabInv'
  OBVIOUS
<1>1. CASE Next
  BY <1>1, StartRunKeepsLab, AttachKeepsLab, CompareKeepsLab, SaveKeepsLab, BaselineKeepsLab,
     EraseKeepsLab, ChecksKeepLab, WriteTransferKeepsLab, CheckAboveKeepsLab, ReadWholeKeepsLab,
     OutsideKeepsLab
  DEF Next
<1>2. CASE UNCHANGED vars
  <2>1. UNCHANGED <<flash, dump, file, journal, now, step, resuming, wanted, todo, cell, odd>>
    BY <1>2 DEF vars, disk, run
  <2>2. FreshInv'
    BY <2>1 DEF LabInv, FreshInv
  <2>3. StampedInv' /\ SentInv'
    BY <2>1, SamePlan DEF LabInv, StampedInv, SentInv
  <2>4. \A b : Known(b)' <=> Known(b)
    BY <2>1, SamePlan DEF Known, Interrupted
  <2>5. RerunInv'
    BY <2>1, <2>4, SameLab DEF LabInv, RerunInv
  <2> QED BY <2>2, <2>3, <2>5 DEF LabInv
<1> QED BY <1>1, <1>2

(* While nothing but these runs wrote the remote and its flash did as      *)
(* told, write-config.ts never leaves on it what the lab does not have:    *)
(* the file is saved before the first erase, stamp and all.                *)
THEOREM NothingOutsideTheLab == Spec => []LabHoldsWhatIsThere
<1>1. LabInv => LabHoldsWhatIsThere
  BY DEF LabInv, RerunInv, InLab, LabHoldsWhatIsThere
<1> QED BY <1>1, Invariance, LabInit, LabStep, PTL DEF Spec

(* The rerun of a run that stopped past its erase is not refused for what  *)
(* that run left.                                                          *)
THEOREM RerunIsAccepted == Spec => []RerunAccepted
<1>1. IInv /\ LabInv => RerunAccepted
  <2> SUFFICES ASSUME IInv, LabInv, step = "compare", resuming, ~odd, NEW b \in todo PROVE Known(b)
    BY DEF RerunAccepted
  <2>1. wanted = file /\ AsOneFileLeft /\ b \in Region
    BY DEF IInv, TypeOK, LabInv, StampedInv, RerunInv
  <2> QED BY <2>1 DEF AsOneFileLeft, Known, Interrupted, Target
<1> QED BY <1>1, Invariance, LabInit, LabStep, PTL DEF Spec
=============================================================================
