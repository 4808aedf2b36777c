------------------------------ MODULE FlashPipe ------------------------------
(***************************************************************************)
(* What a host meets at the other end of a classic remote's reports, as    *)
(* packages/usb/src/remote.ts relies on it: the remote answers in the order*)
(* it was asked, a READ_FLASH with a stream of numbered chunks and an      *)
(* acknowledgement, and what it sends arrives in a queue of the host's     *)
(* system that holds QueueDepth reports and drops the oldest beyond that.  *)
(* A chunk carries no address: `at', the place of the flash it came from,  *)
(* is what a reader of it cannot see.  Flash is counted in chunks.         *)
(***************************************************************************)
EXTENDS Integers, Sequences

CONSTANTS
  FlashSize,         \* chunks of flash
  QueueDepth,        \* reports the host's queue holds, about 31
  SequenceModulus    \* the values a chunk's sequence takes, 256

ASSUME PipeAssumption ==
  /\ FlashSize \in Nat \ {0} /\ QueueDepth \in Nat \ {0}
  /\ SequenceModulus \in Nat \ {0, 1}

Places    == 0..FlashSize - 1
Sequences == 0..SequenceModulus - 1
Reports   == [kind : {"version", "chunk", "finished"}, sequence : Sequences, at : Places]

VersionReply == [kind |-> "version", sequence |-> 0, at |-> 0]
Finished     == [kind |-> "finished", sequence |-> 0, at |-> 0]

(* The first chunk of a stream is number 1; the step of 0x11 visits every  *)
(* value of the byte once in 256, as a step of 1 does.                     *)
FirstSequence   == 1
NextSequence(s) == (s + 1) % SequenceModulus

Stream(from, count) ==
  Append([i \in 1..count |->
            [kind |-> "chunk", sequence |-> i % SequenceModulus, at |-> from + i - 1]],
         Finished)

Arriving(queue, report) ==
  Append(IF Len(queue) < QueueDepth THEN queue ELSE Tail(queue), report)
=============================================================================
