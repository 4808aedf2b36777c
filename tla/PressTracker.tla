----------------------------- MODULE PressTracker -----------------------------
(***************************************************************************)
(* Turning two polled bytes into key presses                               *)
(* (packages/keyreader/src/presses.ts): the code of the key held, zero when*)
(* none, and the last key pressed, which nothing clears.  Releases are left*)
(* out, which the page does nothing with.                                  *)
(***************************************************************************)
EXTENDS Naturals

CONSTANT Undefined

NoKey == 0

\* `awaiting' is the press reported from the held byte whose copy is still to
\* be seen (#awaitingCopy).
NewTracker == [held |-> Undefined, last |-> Undefined, awaiting |-> Undefined]

Watching(t) == t.held # Undefined   \* the first poll only seeds the tracker

\* Without the pairing of a late copy with its press.
IsCopyOfTheKeyHeld(t, held, last) == last = held

IsCopyOfAPress(t, held, last) == last = t.awaiting \/ last = held

\* A key pressed and let go between two polls: the copy moved to it and the
\* held byte never showed it.
PressedBetween(t, held, last) ==
  /\ Watching(t) /\ last # t.last /\ last # NoKey
  /\ ~IsCopyOfAPress(t, held, last)

HeldNow(t, held) == Watching(t) /\ held # t.held /\ held # NoKey

Update(t, held, last) ==
  LET matched == Watching(t) /\ last # t.last /\ IsCopyOfAPress(t, held, last) IN
  [held |-> held, last |-> last,
   awaiting |-> IF HeldNow(t, held)
                THEN IF last = held THEN Undefined ELSE held
                ELSE IF matched THEN Undefined ELSE t.awaiting]
=============================================================================
