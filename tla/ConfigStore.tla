----------------------------- MODULE ConfigStore -----------------------------
(***************************************************************************)
(* What the file write path promises about a remote, with no tool, cable or*)
(* flash in it: a remote holds a whole configuration or none; a run empties*)
(* it only of a configuration the lab can put back, then fills it only with*)
(* the one it was started to write, and changes it in no other way; and an *)
(* emptied remote does not stay so.                                        *)
(***************************************************************************)
CONSTANTS
  Configs,
  NoConfig

VARIABLES
  holds,   \* the whole configuration on the remote, NoConfig for none
  writes,  \* the configuration the run under way writes, NoConfig between runs
  lab      \* the configurations the lab has a copy of

Init == holds \in Configs /\ writes = NoConfig /\ lab \in SUBSET Configs

(* Somebody starts the tool on a configuration of the lab's.               *)
Begin ==
  /\ writes = NoConfig
  /\ writes' \in lab /\ UNCHANGED <<holds, lab>>

(* The run ends, whatever became of it.                                    *)
Finish ==
  /\ writes # NoConfig
  /\ writes' = NoConfig /\ UNCHANGED <<holds, lab>>

(* A write begins: the remote erases its file.                             *)
Empty ==
  /\ writes # NoConfig /\ holds \in lab
  /\ holds' = NoConfig /\ UNCHANGED <<writes, lab>>

(* A write's last packet arrives.                                          *)
Fill ==
  /\ holds = NoConfig
  /\ holds' \in lab /\ UNCHANGED lab

FillWithItsOwn ==
  /\ writes # NoConfig /\ Fill
  /\ holds' = writes /\ UNCHANGED writes

(* Between runs the owner's own software puts a configuration on the       *)
(* remote, or what it holds is read into the lab.                          *)
OwnerFills ==
  /\ writes = NoConfig
  /\ holds' \in Configs /\ UNCHANGED <<writes, lab>>

Learn ==
  /\ writes = NoConfig /\ holds # NoConfig
  /\ lab' = lab \cup {holds} /\ UNCHANGED <<holds, writes>>

Next == Begin \/ Finish \/ Empty \/ FillWithItsOwn \/ OwnerFills \/ Learn

Safety == Init /\ [][Next]_<<holds, writes, lab>>

(* A remote a write has emptied is not left so.                            *)
Refilled == WF_<<holds, lab>>(Fill)

Spec == Safety /\ Refilled
=============================================================================
