----------------------------- MODULE KeyPageProofs -----------------------------
(***************************************************************************)
(* Theorems about KeyPage, for any number of remotes, models, keys and     *)
(* codes, and of presses and clicks.                                       *)
(***************************************************************************)
EXTENDS KeyPage, TLAPS

USE FaceAssumption, RemotesAssumption, ModelsAssumption, CodesAssumption, BoundsAssumption

-----------------------------------------------------------------------------
(* Learning, by itself.                                                    *)

OneEach(l) ==
  \A k, other \in Keys :
    k # other /\ l.answers[k] \in Codes => l.answers[k] # l.answers[other]

(* What a press does to the learning: it answers the key asked with the    *)
(* code of both presses, or keeps every answer and the key asked.          *)
LEMMA PressedFacts ==
  ASSUME NEW l \in Learnings, NEW code \in Codes
  PROVE  LET n == Pressed(l, code) IN
         /\ n \in Learnings
         /\ OneEach(l) => OneEach(n)
         /\ n.first \in {Undefined, l.first, code}
         /\ n.first # Undefined => Asked(n) = Asked(l)
         /\ \A k \in Keys : n.answers[k] # l.answers[k] =>
              /\ k = Asked(l) /\ n.answers[k] = code
              /\ l.first = code /\ n.first = Undefined
         /\ \A k \in Keys : Answered(l, k) => Answered(n, k)
<1> DEFINE n == Pressed(l, code)
<1>1. CASE Asked(l) = Nobody \/ LearnedForAnother(l, code)
  <2>1. n = l
    BY <1>1 DEF Pressed
  <2> QED BY <2>1
<1>2. CASE ~(Asked(l) = Nobody \/ LearnedForAnother(l, code)) /\ l.first # code
  <2>1. n = [l EXCEPT !.first = IF l.first = Undefined THEN code ELSE Undefined]
    BY <1>2 DEF Pressed
  <2>2. n \in Learnings /\ n.answers = l.answers /\ n.again = l.again
        /\ n.first \in {Undefined, code}
    BY <2>1 DEF Learnings
  <2>3. Asked(n) = Asked(l) /\ \A k \in Keys : Answered(n, k) <=> Answered(l, k)
    BY <2>2 DEF Asked, NextPlace, Answered
  <2> QED BY <2>2, <2>3 DEF OneEach
<1>3. CASE ~(Asked(l) = Nobody \/ LearnedForAnother(l, code)) /\ l.first = code
  <2>1. n = Answer(l, Asked(l), code)
    BY <1>3 DEF Pressed
  <2>2. /\ n = [answers |-> [l.answers EXCEPT ![Asked(l)] = code], first |-> Undefined, again |-> n.again]
        /\ n.again \in {Nobody, l.again}
    BY <2>1 DEF Answer
  <2>3. n \in Learnings
    BY <2>2 DEF Learnings, Answers
  <2>4. \A k \in Keys : n.answers[k] = IF k = Asked(l) THEN code ELSE l.answers[k]
    BY <2>2 DEF Learnings
  <2>5. OneEach(l) => OneEach(n)
    <3>1. \A k \in Keys \ {Asked(l)} : l.answers[k] # code
      BY <1>3 DEF LearnedForAnother
    <3> QED BY <2>4, <3>1 DEF OneEach
  <2>6. \A k \in Keys : Answered(l, k) => Answered(n, k)
    BY <2>4 DEF Answered
  <2> QED BY <1>3, <2>2, <2>3, <2>4, <2>5, <2>6
<1> QED BY <1>1, <1>2, <1>3

(* What a click on the learning panel may make of the learning.            *)
Clicked(l) ==
  {AnsweredWithout(l, Skipped), AnsweredWithout(l, NotDetected), Previous(l)}
    \cup {Reasked(l, k) : k \in Keys}

(* A click changes nothing or drops a first press, and it gives no key a  *)
(* code it did not have.                                                  *)
LEMMA ClickedFacts ==
  ASSUME NEW l \in Learnings, NEW n \in Clicked(l)
  PROVE  /\ n \in Learnings
         /\ n = l \/ n.first = Undefined
         /\ \A k \in Keys : n.answers[k] \in Codes => n.answers[k] = l.answers[k]
         /\ OneEach(l) => OneEach(n)
<1> DEFINE Gives(b) == /\ b \in Learnings
                       /\ b = l \/ b.first = Undefined
                       /\ \A k \in Keys : b.answers[k] \in Codes => b.answers[k] = l.answers[k]
<1>1. ASSUME NEW a \in {Skipped, NotDetected}
      PROVE  Gives(AnsweredWithout(l, a))
  <2>1. CASE Asked(l) = Nobody
    BY <2>1 DEF AnsweredWithout
  <2>2. CASE Asked(l) # Nobody
    <3> DEFINE b == AnsweredWithout(l, a)
    <3>1. /\ b = [answers |-> [l.answers EXCEPT ![Asked(l)] = a], first |-> Undefined, again |-> b.again]
          /\ b.again \in {Nobody, l.again}
      BY <2>2 DEF AnsweredWithout, Answer
    <3> QED BY <3>1 DEF Learnings, Answers
  <2> QED BY <2>1, <2>2
<1>2. Gives(Previous(l))
  BY DEF Previous, Learnings, Answers
<1>3. ASSUME NEW k \in Keys PROVE Gives(Reasked(l, k))
  BY <1>3 DEF Reasked, Learnings
<1>5. Gives(n)
  <2> HIDE DEF Gives
  <2> QED BY <1>1, <1>2, <1>3 DEF Clicked
<1>6. OneEach(l) => OneEach(n)
  BY <1>5 DEF OneEach
<1> QED BY <1>5, <1>6

-----------------------------------------------------------------------------
(* The page.                                                               *)

(* A first press waiting for its second was heard while its key was asked. *)
HeardFirst ==
  \A r \in Remotes, m \in Models :
    work[r][m].learning.first # Undefined =>
      work[r][m].learning.first \in sinceAsked[r][m]

(* The work on the page is that of the remote seen last, the one that is   *)
(* connected if any is; presses wait to be heard only while one is.        *)
OwnPage ==
  /\ view = "work" => session # <<>>
  /\ view # "start" => seen # NoRemote
  /\ session # <<>> => session[1] = seen
  /\ unit # NoRemote => unit = seen
  /\ unheard # <<>> => unit # NoRemote

IInv == TypeOK /\ OneKeyPerCode /\ HeardFirst /\ OwnPage

(* What the properties say of one work, one remote's and model's.          *)
LEMMA PerWork ==
  OneKeyPerCode <=> \A r \in Remotes, m \in Models : OneEach(work[r][m].learning)
  BY DEF OneKeyPerCode, OneEach

(* The page starts with no work and no remote.                            *)
LEMMA InitKeeps == Init => IInv
<1> SUFFICES ASSUME Init PROVE IInv
  OBVIOUS
<1>1. NewLearning \in Learnings /\ NewWork \in Works
  BY DEF NewLearning, Learnings, NewWork, Works, Answers
<1>2. TypeOK
  BY <1>1 DEF Init, TypeOK, Modes
<1>3. \A r \in Remotes, m \in Models : work[r][m].learning = NewLearning
  BY DEF Init, NewWork
<1>4. OneKeyPerCode
  BY <1>3 DEF OneKeyPerCode, NewLearning
<1>5. HeardFirst
  BY <1>3 DEF HeardFirst, NewLearning
<1>6. OwnPage
  BY DEF Init, OwnPage
<1> QED BY <1>2, <1>4, <1>5, <1>6 DEF IInv

(* With the work as it was, only who is connected and what shows matters.  *)
LEMMA SameWork ==
  ASSUME IInv, TypeOK', OwnPage', UNCHANGED <<work, sinceAsked>>
  PROVE  IInv'
  BY DEF IInv, OneKeyPerCode, HeardFirst

(* A reconnect keeps the work on the page only when the remote is the one *)
(* seen last.                                                             *)
LEMMA ConnectKeeps == ASSUME IInv, NEW r \in Remotes, Connect(r) PROVE IInv'
<1>1. TypeOK'
  BY DEF IInv, TypeOK, Connect
<1>2. OwnPage'
  <2>1. session # <<>> /\ seen = NoRemote => FALSE
    BY DEF IInv, OwnPage, TypeOK
  <2> QED BY <2>1 DEF IInv, OwnPage, TypeOK, Connect, Arrival
<1> QED BY <1>1, <1>2, SameWork DEF Connect

(* The presses not heard go with the link.                                *)
LEMMA DisconnectKeeps == ASSUME IInv, Disconnect PROVE IInv'
<1>1. TypeOK'
  BY DEF IInv, TypeOK, Disconnect, visit, page
<1>2. OwnPage'
  BY DEF IInv, OwnPage, Disconnect, visit, page
<1> QED BY <1>1, <1>2, SameWork DEF Disconnect, visit

(* A press is made on the remote that is connected.                       *)
LEMMA PressKeeps == ASSUME IInv, NEW code \in Codes, Press(code) PROVE IInv'
<1>1. TypeOK'
  <2>1. presses' \in 0..MaxPresses /\ unheard' \in Seq(Codes)
    BY DEF IInv, TypeOK, Press
  <2> QED BY <2>1 DEF IInv, TypeOK, Press, visit, page
<1>2. OwnPage'
  BY DEF IInv, OwnPage, Press, visit, page
<1> QED BY <1>1, <1>2, SameWork DEF Press, visit

(* A click is counted.                                                    *)
LEMMA ClickTyped == ASSUME TypeOK, Click PROVE clicks' \in 0..MaxClicks /\ clicks' # clicks
  BY DEF TypeOK, Click

(* The work chosen is that of the remote seen last.                       *)
LEMMA ConfirmKeeps == ASSUME IInv, NEW m \in Models, Confirm(m) PROVE IInv'
<1>1. seen \in Remotes
  BY DEF IInv, TypeOK, OwnPage, Confirm
<1>2. TypeOK'
  <2>1. chosen' \in [Remotes -> Models \cup {NoModel}]
    BY <1>1 DEF IInv, TypeOK, Confirm
  <2>2. session' \in (Remotes \X Models) \cup {<<>>} /\ view' = "work" /\ mode' \in Modes
    BY <1>1 DEF IInv, TypeOK, Confirm, Modes
  <2> QED BY <2>1, <2>2, ClickTyped DEF IInv, TypeOK, Confirm
<1>3. OwnPage'
  BY <1>1 DEF IInv, OwnPage, Confirm
<1> QED BY <1>2, <1>3, SameWork DEF Confirm

(* Choosing again keeps the work as it is.                                *)
LEMMA ChangeKeeps == ASSUME IInv, Change PROVE IInv'
<1>1. TypeOK'
  BY ClickTyped DEF IInv, TypeOK, Change, visit
<1>2. OwnPage'
  BY DEF IInv, OwnPage, Change, visit
<1> QED BY <1>1, <1>2, SameWork DEF Change, visit

(* So does a change of step.                                              *)
LEMMA SetModeKeeps == ASSUME IInv, NEW s \in Modes, SetMode(s) PROVE IInv'
<1>1. TypeOK'
  BY ClickTyped DEF IInv, TypeOK, SetMode, visit
<1>2. OwnPage'
  BY DEF IInv, OwnPage, SetMode, visit
<1> QED BY <1>1, <1>2, SameWork DEF SetMode, visit

(* A step that changes one work and leaves the page alone.                 *)
LEMMA OneWorkKeeps ==
  ASSUME IInv, NEW r \in Remotes, NEW m \in Models, NEW w \in Works, NEW heard \in SUBSET Codes,
         work' = [work EXCEPT ![r][m] = w],
         sinceAsked' = [sinceAsked EXCEPT ![r][m] = heard],
         OneEach(w.learning),
         w.learning.first # Undefined => w.learning.first \in heard,
         unheard' \in Seq(Codes), unheard' # <<>> => unheard # <<>>,
         clicks' \in 0..MaxClicks, UNCHANGED <<unit, seen, chosen, page, presses>>
  PROVE  IInv'
<1>1. /\ work' \in [Remotes -> [Models -> Works]]
      /\ sinceAsked' \in [Remotes -> [Models -> SUBSET Codes]]
  BY DEF IInv, TypeOK
<1>2. \A q \in Remotes, x \in Models :
        /\ work'[q][x] = IF q = r /\ x = m THEN w ELSE work[q][x]
        /\ sinceAsked'[q][x] = IF q = r /\ x = m THEN heard ELSE sinceAsked[q][x]
  BY DEF IInv, TypeOK
<1>3. TypeOK'
  BY <1>1 DEF IInv, TypeOK, page
<1>4. OneKeyPerCode'
  <2>1. \A q \in Remotes, x \in Models : OneEach(work[q][x].learning)
    BY PerWork DEF IInv
  <2>2. \A q \in Remotes, x \in Models : OneEach(work'[q][x].learning)
    BY <1>2, <2>1
  <2> QED BY <2>2 DEF OneKeyPerCode, OneEach
<1>5. HeardFirst'
  BY <1>2 DEF IInv, HeardFirst
<1>6. OwnPage'
  BY DEF IInv, OwnPage, page
<1> QED BY <1>3, <1>4, <1>5, <1>6 DEF IInv

(* Where a press that is heard goes: to the work on the page, which is that*)
(* of the remote it was made on.                                           *)
LEMMA OnThePage ==
  ASSUME IInv, session # <<>>
  PROVE  /\ session[1] \in Remotes /\ session[2] \in Models /\ session[1] = seen
         /\ work[session[1]][session[2]] \in Works
         /\ OnPage \in Learnings
         /\ OneEach(OnPage)
         /\ sinceAsked[session[1]][session[2]] \in SUBSET Codes
         /\ OnPage.first # Undefined => OnPage.first \in sinceAsked[session[1]][session[2]]
<1>1. session[1] \in Remotes /\ session[2] \in Models /\ session[1] = seen
  BY DEF IInv, TypeOK, OwnPage
<1>2. work[session[1]][session[2]] \in Works /\ OnPage \in Learnings
  BY <1>1 DEF IInv, TypeOK, OnPage, Works
<1> QED BY <1>1, <1>2, PerWork DEF IInv, TypeOK, HeardFirst, OnPage

(* A press changes what is learned in step 2 alone.                       *)
LEMMA HeardFacts ==
  ASSUME NEW w \in Works, NEW code \in Codes, mode \in Modes
  PROVE  /\ Heard(w, code) \in Works
         /\ mode # "learn" => Heard(w, code).learning = w.learning
         /\ mode = "learn" => Heard(w, code).learning = Pressed(w.learning, code)
<1>1. w.learning \in Learnings
  BY DEF Works
<1>2. Pressed(w.learning, code) \in Learnings
  BY <1>1, PressedFacts
<1> QED BY <1>1, <1>2 DEF Heard, Works, Modes

(* What hearing a press does to the work on the page.                      *)
LEMMA HearChanges ==
  ASSUME IInv, NEW i \in DOMAIN unheard, Hear(i), ShowsWork
  PROVE  \E w \in Works, heard \in SUBSET Codes :
           /\ work' = [work EXCEPT ![session[1]][session[2]] = w]
           /\ sinceAsked' = [sinceAsked EXCEPT ![session[1]][session[2]] = heard]
           /\ mode = "learn" => w.learning = Pressed(OnPage, unheard[i])
           /\ mode # "learn" => w.learning = OnPage
           /\ heard = IF Asked(w.learning) # Asked(OnPage) THEN {}
                      ELSE IF mode = "learn"
                           THEN sinceAsked[session[1]][session[2]] \cup {unheard[i]}
                           ELSE sinceAsked[session[1]][session[2]]
<1> DEFINE r == session[1]
           m == session[2]
           w == Heard(work[r][m], unheard[i])
           heard == IF Asked(w.learning) # Asked(OnPage) THEN {}
                    ELSE IF mode = "learn" THEN sinceAsked[r][m] \cup {unheard[i]}
                         ELSE sinceAsked[r][m]
<1>1. /\ r \in Remotes /\ m \in Models /\ work[r][m] \in Works
      /\ sinceAsked[r][m] \in SUBSET Codes
  BY OnThePage DEF ShowsWork
<1>2. unheard[i] \in Codes /\ mode \in Modes
  BY DEF IInv, TypeOK
<1>3. /\ w \in Works
      /\ mode # "learn" => w.learning = OnPage
      /\ mode = "learn" => w.learning = Pressed(OnPage, unheard[i])
  BY <1>1, <1>2, HeardFacts DEF OnPage
<1>4. work' = [work EXCEPT ![r][m] = w]
  BY DEF Hear
<1>5. work'[r][m] = w
  BY <1>1, <1>4 DEF IInv, TypeOK
<1>6. sinceAsked' = [sinceAsked EXCEPT ![r][m] = heard]
  BY <1>1, <1>5 DEF Hear, OnPage, IInv, TypeOK
<1>7. heard \in SUBSET Codes
  BY <1>1, <1>2
<1> QED BY <1>3, <1>4, <1>6, <1>7

(* A press that is heard.                                                 *)
LEMMA HearKeeps == ASSUME IInv, NEW i \in DOMAIN unheard, Hear(i) PROVE IInv'
<1>1. /\ unheard[i] \in Codes
      /\ unheard' \in Seq(Codes) /\ (unheard' # <<>> => unheard # <<>>)
  <2>1. unheard \in Seq(Codes) /\ Len(unheard) \in Nat /\ i \in 1..Len(unheard)
    BY DEF IInv, TypeOK
  <2>2. SubSeq(unheard, i + 1, Len(unheard)) \in Seq(Codes)
    BY <2>1
  <2> QED BY <2>1, <2>2 DEF Hear
<1>2. CASE ShowsWork
  <2>1. PICK w \in Works, heard \in SUBSET Codes :
           /\ work' = [work EXCEPT ![session[1]][session[2]] = w]
           /\ sinceAsked' = [sinceAsked EXCEPT ![session[1]][session[2]] = heard]
           /\ mode = "learn" => w.learning = Pressed(OnPage, unheard[i])
           /\ mode # "learn" => w.learning = OnPage
           /\ heard = IF Asked(w.learning) # Asked(OnPage) THEN {}
                      ELSE IF mode = "learn"
                           THEN sinceAsked[session[1]][session[2]] \cup {unheard[i]}
                           ELSE sinceAsked[session[1]][session[2]]
    BY <1>2, HearChanges
  <2>2. OneEach(w.learning) /\ (w.learning.first # Undefined => w.learning.first \in heard)
    BY <1>1, <1>2, <2>1, OnThePage, PressedFacts DEF ShowsWork
  <2>3. session[1] \in Remotes /\ session[2] \in Models
    BY <1>2, OnThePage DEF ShowsWork
  <2>4. clicks' \in 0..MaxClicks /\ UNCHANGED <<unit, seen, chosen, page, presses>>
    BY DEF Hear, IInv, TypeOK
  <2> QED BY <1>1, <2>1, <2>2, <2>3, <2>4, OneWorkKeeps
<1>3. CASE ~ShowsWork
  <2>1. TypeOK'
    BY <1>1, <1>3 DEF IInv, TypeOK, Hear, page
  <2>2. OwnPage'
    BY <1>1 DEF IInv, OwnPage, Hear, page
  <2> QED BY <1>3, <2>1, <2>2, SameWork DEF Hear
<1> QED BY <1>2, <1>3

(* The learning panel's clicks, one work and what it becomes.              *)
LEMMA LearnChanges ==
  ASSUME IInv, NEW next \in Clicked(OnPage), Learn(next)
  PROVE  \E w \in Works, heard \in SUBSET Codes :
           /\ session # <<>>
           /\ work' = [work EXCEPT ![session[1]][session[2]] = w]
           /\ sinceAsked' = [sinceAsked EXCEPT ![session[1]][session[2]] = heard]
           /\ w.learning = next
           /\ heard = IF next = OnPage THEN sinceAsked[session[1]][session[2]] ELSE {}
<1>1. session # <<>>
  BY DEF IInv, OwnPage, Learn
<1> DEFINE w == [work[session[1]][session[2]] EXCEPT !.learning = next]
           heard == IF next = OnPage THEN sinceAsked[session[1]][session[2]] ELSE {}
<1>2. next \in Learnings
  BY <1>1, OnThePage, ClickedFacts
<1>3. w \in Works /\ w.learning = next
  BY <1>1, <1>2, OnThePage DEF Works
<1>4. heard \in SUBSET Codes
  BY <1>1, OnThePage
<1>5. /\ work' = [work EXCEPT ![session[1]][session[2]] = w]
      /\ sinceAsked' = [sinceAsked EXCEPT ![session[1]][session[2]] = heard]
  BY DEF Learn
<1> QED BY <1>1, <1>3, <1>4, <1>5

(* A click of the learning panel.                                         *)
LEMMA LearnKeeps == ASSUME IInv, NEW next \in Clicked(OnPage), Learn(next) PROVE IInv'
<1>1. PICK w \in Works, heard \in SUBSET Codes :
           /\ session # <<>>
           /\ work' = [work EXCEPT ![session[1]][session[2]] = w]
           /\ sinceAsked' = [sinceAsked EXCEPT ![session[1]][session[2]] = heard]
           /\ w.learning = next
           /\ heard = IF next = OnPage THEN sinceAsked[session[1]][session[2]] ELSE {}
  BY LearnChanges
<1>2. OneEach(w.learning) /\ (w.learning.first # Undefined => w.learning.first \in heard)
  BY <1>1, OnThePage, ClickedFacts
<1>3. session[1] \in Remotes /\ session[2] \in Models
  BY <1>1, OnThePage
<1>4. /\ clicks' \in 0..MaxClicks /\ UNCHANGED <<unit, seen, chosen, page, presses>>
      /\ unheard' \in Seq(Codes) /\ (unheard' # <<>> => unheard # <<>>)
  BY ClickTyped DEF Learn, IInv, TypeOK
<1> QED BY <1>1, <1>2, <1>3, <1>4, OneWorkKeeps

(* The four clicks of the learning panel.                                 *)
LEMMA LearnClicks ==
  ASSUME Skip \/ Unseen \/ Back \/ (\E k \in Keys : Reask(k))
  PROVE  \E next \in Clicked(OnPage) : Learn(next)
  BY DEF Skip, Unseen, Back, Reask, Clicked

(* Clearing step 1 leaves what is learned.                                *)
LEMMA ClearTestKeeps == ASSUME IInv, ClearTest PROVE IInv'
<1>1. session # <<>>
  BY DEF IInv, OwnPage, ClearTest
<1> DEFINE r == session[1]
           m == session[2]
           w == [work[r][m] EXCEPT !.tested = FALSE]
<1>2. /\ r \in Remotes /\ m \in Models /\ w \in Works /\ w.learning = OnPage
      /\ OneEach(OnPage) /\ sinceAsked[r][m] \in SUBSET Codes
      /\ OnPage.first # Undefined => OnPage.first \in sinceAsked[r][m]
  BY <1>1, OnThePage DEF Works, OnPage
<1>3. /\ work' = [work EXCEPT ![r][m] = w]
      /\ sinceAsked' = [sinceAsked EXCEPT ![r][m] = sinceAsked[r][m]]
  <2>1. work' = [work EXCEPT ![r][m] = w]
    BY DEF ClearTest
  <2>2. sinceAsked \in [Remotes -> [Models -> SUBSET Codes]] /\ sinceAsked' = sinceAsked
    BY DEF ClearTest, IInv, TypeOK
  <2> QED BY <1>2, <2>1, <2>2
<1>4. /\ clicks' \in 0..MaxClicks /\ UNCHANGED <<unit, seen, chosen, page, presses>>
      /\ unheard' \in Seq(Codes) /\ (unheard' # <<>> => unheard # <<>>)
  BY ClickTyped DEF ClearTest, IInv, TypeOK
<1> HIDE DEF w
<1> QED BY <1>2, <1>3, <1>4, OneWorkKeeps

(* Every step keeps the invariant.                                        *)
LEMMA StepKeeps == IInv /\ [Next]_vars => IInv'
<1> SUFFICES ASSUME IInv, [Next]_vars PROVE IInv'
  OBVIOUS
<1>1. CASE UNCHANGED vars
  BY <1>1 DEF vars, visit, page, IInv, TypeOK, OneKeyPerCode, HeardFirst, OwnPage
<1>2. CASE Link
  BY <1>2, ConnectKeeps, DisconnectKeeps, PressKeeps, HearKeeps DEF Link
<1>3. CASE Person
  BY <1>3, ConfirmKeeps, SetModeKeeps, ChangeKeeps, ClearTestKeeps, LearnClicks, LearnKeeps DEF Person
<1> QED BY <1>1, <1>2, <1>3 DEF Next

(* The inductive invariant.                                                *)
THEOREM Invariance == Spec => []IInv
  BY InitKeeps, StepKeeps, PTL DEF Spec

(* The page's state keeps its types.                                       *)
THEOREM TypeCorrect == Spec => []TypeOK
<1>1. IInv => TypeOK
  BY DEF IInv
<1> QED BY <1>1, Invariance, PTL

(* No code is learned for two keys of a map, in whatever order keys are    *)
(* learned, skipped, asked again and taken back.                           *)
THEOREM OneCodeOneKey == Spec => []OneKeyPerCode
<1>1. IInv => OneKeyPerCode
  BY DEF IInv
<1> QED BY <1>1, Invariance, PTL

-----------------------------------------------------------------------------
(* What a step does to the work.                                           *)

(* The work on the page is changed by a press that is heard, a click of the*)
(* learning panel or the clearing of step 1; no other step changes any.    *)
LEMMA WorkChanges ==
  ASSUME [Next]_vars
  PROVE  \/ UNCHANGED work
         \/ \E i \in DOMAIN unheard : Hear(i) /\ ShowsWork
         \/ \E next \in Clicked(OnPage) : Learn(next)
         \/ ClearTest
<1>1. CASE UNCHANGED vars
  BY <1>1 DEF vars, visit
<1>2. CASE Link
  <2>1. ASSUME NEW i \in DOMAIN unheard, Hear(i) PROVE UNCHANGED work \/ ShowsWork
    BY <2>1 DEF Hear
  <2> QED BY <1>2, <2>1 DEF Link, Connect, Disconnect, Press, visit
<1>3. CASE Person
  BY <1>3, LearnClicks DEF Person, Confirm, SetMode, Change, visit
<1> QED BY <1>1, <1>2, <1>3 DEF Next

(* The step LearnedFromTwoPresses allows.                                 *)
TwoPresses ==
  \A r \in Remotes, m \in Models, k \in Keys :
    LET before == work[r][m].learning
        after == work'[r][m].learning IN
    after.answers[k] # before.answers[k] /\ after.answers[k] \in Codes =>
      k = Asked(before) /\ after.answers[k] \in sinceAsked[r][m]

(* The work on the page changed to one that learns only what was pressed   *)
(* twice.                                                                  *)
LEMMA TwoPressesOnPage ==
  ASSUME IInv, session # <<>>, NEW w \in Works,
         work' = [work EXCEPT ![session[1]][session[2]] = w],
         \A k \in Keys :
           w.learning.answers[k] # OnPage.answers[k] /\ w.learning.answers[k] \in Codes =>
             k = Asked(OnPage) /\ w.learning.answers[k] \in sinceAsked[session[1]][session[2]]
  PROVE  TwoPresses
<1> DEFINE r == session[1]
           m == session[2]
<1>1. r \in Remotes /\ m \in Models /\ OnPage = work[r][m].learning
  BY OnThePage DEF OnPage
<1>2. \A q \in Remotes, x \in Models : work'[q][x] = IF q = r /\ x = m THEN w ELSE work[q][x]
  BY <1>1 DEF IInv, TypeOK
<1> QED BY <1>1, <1>2 DEF TwoPresses

(* Only a press heard in step 2 gives a key a code, and then the first    *)
(* press of it waited, which was heard while the key was asked.           *)
LEMMA TwoPressesStep == IInv /\ [Next]_vars => TwoPresses
<1> SUFFICES ASSUME IInv, [Next]_vars PROVE TwoPresses
  OBVIOUS
<1>1. CASE UNCHANGED work
  BY <1>1 DEF TwoPresses
<1>2. ASSUME NEW i \in DOMAIN unheard, Hear(i), ShowsWork PROVE TwoPresses
  <2>1. PICK w \in Works :
           /\ work' = [work EXCEPT ![session[1]][session[2]] = w]
           /\ mode = "learn" => w.learning = Pressed(OnPage, unheard[i])
           /\ mode # "learn" => w.learning = OnPage
    BY <1>2, HearChanges
  <2>2. unheard[i] \in Codes
    BY <1>2 DEF IInv, TypeOK
  <2>3. /\ session # <<>> /\ OnPage \in Learnings
        /\ OnPage.first # Undefined => OnPage.first \in sinceAsked[session[1]][session[2]]
    BY <1>2, OnThePage DEF ShowsWork
  <2>4. \A k \in Keys : w.learning.answers[k] # OnPage.answers[k] =>
          /\ k = Asked(OnPage)
          /\ w.learning.answers[k] = unheard[i] /\ OnPage.first = unheard[i]
    BY <2>1, <2>2, <2>3, PressedFacts
  <2>5. unheard[i] # Undefined
    BY <2>2
  <2> QED BY <2>1, <2>3, <2>4, <2>5, TwoPressesOnPage
<1>3. ASSUME NEW next \in Clicked(OnPage), Learn(next) PROVE TwoPresses
  <2>1. PICK w \in Works :
           /\ session # <<>>
           /\ work' = [work EXCEPT ![session[1]][session[2]] = w]
           /\ w.learning = next
    BY <1>3, LearnChanges
  <2>2. OnPage \in Learnings
    BY <2>1, OnThePage
  <2>3. \A k \in Keys : w.learning.answers[k] \in Codes => w.learning.answers[k] = OnPage.answers[k]
    BY <2>1, <2>2, ClickedFacts
  <2> QED BY <2>1, <2>2, <2>3, TwoPressesOnPage
<1>4. CASE ClearTest
  <2>1. session # <<>>
    BY <1>4 DEF IInv, OwnPage, ClearTest
  <2> DEFINE w == [work[session[1]][session[2]] EXCEPT !.tested = FALSE]
  <2>2. w \in Works /\ w.learning = OnPage
    BY <2>1, OnThePage DEF Works, OnPage
  <2>3. work' = [work EXCEPT ![session[1]][session[2]] = w]
    BY <1>4 DEF ClearTest
  <2> HIDE DEF w
  <2> QED BY <2>1, <2>2, <2>3, TwoPressesOnPage
<1> QED BY <1>1, <1>2, <1>3, <1>4, WorkChanges

(* A key is learned from two presses of its code that were heard while it  *)
(* was asked, with no click in between that changed what is learned        *)
(* (session.ts, Learning.press).                                           *)
THEOREM LearnedTwice == Spec => LearnedFromTwoPresses
<1>1. IInv /\ [Next]_vars => [TwoPresses]_vars
  BY TwoPressesStep
<1> QED BY <1>1, Invariance, PTL DEF Spec, LearnedFromTwoPresses, TwoPresses

(* The step WorkKeptApart allows.                                         *)
Apart ==
  \A r \in Remotes :
    work'[r] # work[r] =>
      /\ r = seen
      /\ \/ clicks' # clicks
         \/ /\ unit = r
            /\ \A m \in Models, k \in Keys :
                 Answered(work[r][m].learning, k) => Answered(work'[r][m].learning, k)

(* A press is heard on the remote connected, whose work is on the page.   *)
LEMMA ApartStep == IInv /\ [Next]_vars => Apart
<1> SUFFICES ASSUME IInv, [Next]_vars PROVE Apart
  OBVIOUS
<1>1. CASE UNCHANGED work
  BY <1>1 DEF Apart
<1>2. ASSUME NEW i \in DOMAIN unheard, Hear(i), ShowsWork PROVE Apart
  <2> DEFINE r == session[1]
             m == session[2]
  <2>1. PICK w \in Works :
           /\ work' = [work EXCEPT ![r][m] = w]
           /\ mode = "learn" => w.learning = Pressed(OnPage, unheard[i])
           /\ mode # "learn" => w.learning = OnPage
    BY <1>2, HearChanges
  <2>2. unheard[i] \in Codes /\ unheard # <<>>
    BY <1>2 DEF IInv, TypeOK
  <2>3. r \in Remotes /\ m \in Models /\ r = seen /\ OnPage \in Learnings /\ OnPage = work[r][m].learning
    BY <1>2, OnThePage DEF ShowsWork, OnPage
  <2>4. unit = r
    BY <2>2, <2>3 DEF IInv, OwnPage
  <2>5. \A q \in Remotes, x \in Models : work'[q][x] = IF q = r /\ x = m THEN w ELSE work[q][x]
    BY <2>1, <2>3 DEF IInv, TypeOK
  <2>6. \A k \in Keys : Answered(OnPage, k) => Answered(w.learning, k)
    BY <2>1, <2>2, <2>3, PressedFacts
  <2>7. \A q \in Remotes : q # r => work'[q] = work[q]
    BY <2>1, <2>3 DEF IInv, TypeOK
  <2> HIDE DEF r, m
  <2> QED BY <2>3, <2>4, <2>5, <2>6, <2>7 DEF Apart
<1>3. ASSUME session # <<>>, Click,
             NEW w, work' = [work EXCEPT ![session[1]][session[2]] = w]
      PROVE  Apart
  <2>1. session[1] = seen
    BY <1>3, OnThePage
  <2>2. \A q \in Remotes : q # session[1] => work'[q] = work[q]
    BY <1>3 DEF IInv, TypeOK
  <2>3. clicks' # clicks
    BY <1>3, ClickTyped DEF IInv
  <2> QED BY <2>1, <2>2, <2>3 DEF Apart
<1>4. ASSUME NEW next \in Clicked(OnPage), Learn(next) PROVE Apart
  <2>1. PICK w \in Works : session # <<>> /\ work' = [work EXCEPT ![session[1]][session[2]] = w]
    BY <1>4, LearnChanges
  <2> QED BY <1>3, <1>4, <2>1 DEF Learn
<1>5. CASE ClearTest
  <2>1. session # <<>>
    BY <1>5 DEF IInv, OwnPage, ClearTest
  <2>2. work' = [work EXCEPT ![session[1]][session[2]] =
                   [work[session[1]][session[2]] EXCEPT !.tested = FALSE]]
    BY <1>5 DEF ClearTest
  <2> QED BY <1>3, <1>5, <2>1, <2>2 DEF ClearTest
<1> QED BY <1>1, <1>2, <1>4, <1>5, WorkChanges

(* The work of a remote changes only while it is the one on the page; by a *)
(* press only when the press was made on it, and then no answer is lost    *)
(* (visit.ts; page.ts, start and onKey).                                   *)
THEOREM KeptApart == Spec => WorkKeptApart
<1>1. IInv /\ [Next]_vars => [Apart]_vars
  BY ApartStep
<1> QED BY <1>1, Invariance, PTL DEF Spec, WorkKeptApart, Apart
==============================================================================
