------------------------------ MODULE KeyLearning ------------------------------
(***************************************************************************)
(* Learning a model's keys (packages/keyreader/src/session.ts, Learning):  *)
(* one key is asked at a time, in the order of the face, and each is       *)
(* pressed twice.  The presses noted and not recorded (misfits) go to the  *)
(* log alone and are left out.                                             *)
(***************************************************************************)
EXTENDS PressTracker, Sequences

CONSTANTS
  Face,       \* the keys learning asks for, in the order it asks for them
  Nobody      \* no key

Keys == {Face[i] : i \in DOMAIN Face}

ASSUME FaceAssumption ==
  /\ Face \in Seq(Keys) /\ Nobody \notin Keys
  /\ \A i, j \in DOMAIN Face : Face[i] = Face[j] => i = j

CONSTANTS Skipped, NotDetected, Unanswered

\* `first' is the first press of the key asked, waiting for the second; `again'
\* a key already answered that is asked again.
NewLearning == [answers |-> [k \in Keys |-> Unanswered], first |-> Undefined, again |-> Nobody]

Answered(l, k) == l.answers[k] # Unanswered

NextPlace(l) ==
  CHOOSE i \in 1..Len(Face) + 1 :
    /\ i <= Len(Face) => ~Answered(l, Face[i])
    /\ \A j \in 1..i - 1 : Answered(l, Face[j])

Asked(l) ==
  IF l.again # Nobody THEN l.again
  ELSE IF NextPlace(l) <= Len(Face) THEN Face[NextPlace(l)] ELSE Nobody

\* Only while keys are asked in their turn.
LearnedForAnotherInTurn(l, code) == l.again = Nobody /\ \E k \in Keys : l.answers[k] = code

LearnedForAnother(l, code) == \E k \in Keys \ {Asked(l)} : l.answers[k] = code

Answer(l, k, answer) ==
  [answers |-> [l.answers EXCEPT ![k] = answer],
   first   |-> Undefined,
   again   |-> IF l.again = k THEN Nobody ELSE l.again]

\* A press of the key asked is held, confirmed by the second, or dropped with
\* it; one that cannot be the key asked changes nothing.
Pressed(l, code) ==
  IF Asked(l) = Nobody \/ LearnedForAnother(l, code) THEN l
  ELSE IF l.first = Undefined THEN [l EXCEPT !.first = code]
  ELSE IF l.first # code THEN [l EXCEPT !.first = Undefined]
  ELSE Answer(l, Asked(l), code)

\* skip and unseen.
AnsweredWithout(l, answer) == IF Asked(l) = Nobody THEN l ELSE Answer(l, Asked(l), answer)

\* A first press is kept over a click on another key.
ReaskedKeepingFirst(l, k) == IF Answered(l, k) THEN [l EXCEPT !.again = k] ELSE l

Reasked(l, k) ==
  IF Answered(l, k) THEN [l EXCEPT !.first = Undefined, !.again = k] ELSE l

\* Back one key; while a key is answered again, only out of that.
Previous(l) ==
  IF l.again # Nobody THEN [l EXCEPT !.first = Undefined, !.again = Nobody]
  ELSE IF NextPlace(l) = 1 THEN [l EXCEPT !.first = Undefined]
  ELSE [l EXCEPT !.first = Undefined, !.answers[Face[NextPlace(l) - 1]] = Unanswered]
=============================================================================
