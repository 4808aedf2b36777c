-------------------------------- MODULE KeyPage --------------------------------
(***************************************************************************)
(* The key reader page between its link and the person                     *)
(* (packages/keyreader/src/page.ts and visit.ts): which remote it shows the*)
(* work of, where a press goes, and the work it keeps per remote and model *)
(* over lost connections.  Of the link it takes what KeyWatch promises: a  *)
(* press made while it watches is heard of once or not at all, in order.   *)
(***************************************************************************)
EXTENDS KeyLearning

CONSTANTS
  Remotes,      \* remotes as the page tells them apart: a name and a skin
  Models,       \* the models a person can choose
  Codes,        \* scan codes
  NoRemote, NoModel,
  MaxPresses, MaxClicks   \* bounds on one behaviour

ASSUME RemotesAssumption == NoRemote \notin Remotes
ASSUME ModelsAssumption  == NoModel \notin Models
ASSUME CodesAssumption ==
  /\ Codes \subseteq Nat \ {NoKey}
  /\ {Undefined, Skipped, NotDetected, Unanswered} \cap Codes = {}
  /\ Unanswered \notin {Skipped, NotDetected}
ASSUME BoundsAssumption == MaxPresses \in Nat /\ MaxClicks \in Nat

VARIABLES
  unit,       \* the remote that is connected
  unheard,    \* codes pressed on it that the page has not heard of
  seen,       \* the remote connected now or last (Visit.remote)
  chosen,     \* the model last worked on, per remote
  work,       \* the work, per remote and model
  session,    \* whose work is on the page: <<>>, or a remote and a model
  view,       \* "start", "choose" or "work": the section of the page that shows
  mode,       \* the step: "test", "learn" or "check"
  sinceAsked, \* codes heard, per work, since its key asked was last asked anew
  presses, clicks

visit == <<seen, chosen, work>>
page  == <<session, view, mode>>
vars  == <<unit, unheard, visit, page, sinceAsked, presses, clicks>>

Answers == Codes \cup {Skipped, NotDetected, Unanswered}
Learnings == [answers : [Keys -> Answers], first : Codes \cup {Undefined}, again : Keys \cup {Nobody}]

\* `tested' stands for the codes pressed in step 1, as far as the page looks at
\* them: whether there are any.  Those of step 3 are only counted and shown.
Works   == [learning : Learnings, tested : BOOLEAN]
NewWork == [learning |-> NewLearning, tested |-> FALSE]

Modes == {"test", "learn", "check"}

TypeOK ==
  /\ unit \in Remotes \cup {NoRemote} /\ unheard \in Seq(Codes)
  /\ seen \in Remotes \cup {NoRemote}
  /\ chosen \in [Remotes -> Models \cup {NoModel}]
  /\ work \in [Remotes -> [Models -> Works]]
  /\ session \in (Remotes \X Models) \cup {<<>>}
  /\ view \in {"start", "choose", "work"} /\ mode \in Modes
  /\ sinceAsked \in [Remotes -> [Models -> SUBSET Codes]]
  /\ presses \in 0..MaxPresses /\ clicks \in 0..MaxClicks

Init ==
  /\ unit = NoRemote /\ unheard = <<>>
  /\ seen = NoRemote /\ chosen = [r \in Remotes |-> NoModel]
  /\ work = [r \in Remotes |-> [m \in Models |-> NewWork]]
  /\ session = <<>> /\ view = "start" /\ mode = "test"
  /\ sinceAsked = [r \in Remotes |-> [m \in Models |-> {}]]
  /\ presses = 0 /\ clicks = 0

-----------------------------------------------------------------------------
(* The link, and the presses it reports. *)

\* Every remote after the first taken for the same.
ArrivalUnlooked(r) == IF seen = NoRemote THEN "first" ELSE "same"

Arrival(r) == IF seen = NoRemote THEN "first" ELSE IF seen = r THEN "same" ELSE "different"

\* A link has opened (start): the same remote carries on where the person was,
\* another starts on its own.
Connect(r) ==
  /\ unit = NoRemote
  /\ unit' = r /\ seen' = r
  /\ IF Arrival(r) = "same" /\ chosen[r] # NoModel /\ session # <<>>
       THEN UNCHANGED <<session, view>>
       ELSE /\ session' = IF Arrival(r) = "different" THEN <<>> ELSE session
            /\ view' = "choose"
  /\ UNCHANGED <<unheard, chosen, work, mode, sinceAsked, presses, clicks>>

\* The link ends, stopped or lost, and with it what it did not report.
Disconnect ==
  /\ unit # NoRemote
  /\ unit' = NoRemote /\ unheard' = <<>>
  /\ UNCHANGED <<visit, page, sinceAsked, presses, clicks>>

Press(code) ==
  /\ unit # NoRemote /\ presses < MaxPresses
  /\ presses' = presses + 1 /\ unheard' = Append(unheard, code)
  /\ UNCHANGED <<unit, visit, page, sinceAsked, clicks>>

ShowsWork == session # <<>> /\ view = "work"

\* onKey: a press goes to the step in force, if work is on the page.
Heard(w, code) ==
  CASE mode = "test"  -> [w EXCEPT !.tested = TRUE]
    [] mode = "learn" -> [w EXCEPT !.learning = Pressed(@, code)]
    [] mode = "check" -> w

Hear(i) ==
  /\ unheard' = SubSeq(unheard, i + 1, Len(unheard))
  /\ IF ShowsWork
       THEN LET r == session[1]  m == session[2] IN
            /\ work' = [work EXCEPT ![r][m] = Heard(@, unheard[i])]
            /\ sinceAsked' =
                 [sinceAsked EXCEPT ![r][m] =
                   IF Asked(work'[r][m].learning) # Asked(work[r][m].learning) THEN {}
                   ELSE IF mode = "learn" THEN @ \cup {unheard[i]} ELSE @]
       ELSE UNCHANGED <<work, sinceAsked>>
  /\ UNCHANGED <<unit, seen, chosen, page, presses, clicks>>

-----------------------------------------------------------------------------
(* The person's clicks. *)

Click == clicks < MaxClicks /\ clicks' = clicks + 1

Started(w) == \E k \in Keys : Answered(w.learning, k)

Confirm(m) ==
  /\ Click /\ view = "choose"
  /\ chosen' = [chosen EXCEPT ![seen] = m]
  /\ session' = <<seen, m>> /\ view' = "work"
  /\ mode' = IF ~work[seen][m].tested /\ ~Started(work[seen][m]) THEN "test" ELSE mode
  /\ UNCHANGED <<unit, unheard, seen, work, sinceAsked, presses>>

Change ==
  /\ Click /\ view = "work"
  /\ view' = "choose"
  /\ UNCHANGED <<unit, unheard, visit, session, mode, sinceAsked, presses>>

SetMode(s) ==
  /\ Click /\ view = "work"
  /\ mode' = s
  /\ UNCHANGED <<unit, unheard, visit, session, view, sinceAsked, presses>>

ClearTest ==
  /\ Click /\ view = "work" /\ mode = "test"
  /\ work' = [work EXCEPT ![session[1]][session[2]].tested = FALSE]
  /\ UNCHANGED <<unit, unheard, seen, chosen, page, sinceAsked, presses>>

\* The buttons of the learning panel, and a click on a key of the drawing.
OnPage == work[session[1]][session[2]].learning

Learn(next) ==
  /\ Click /\ view = "work" /\ mode = "learn"
  /\ work' = [work EXCEPT ![session[1]][session[2]].learning = next]
  /\ sinceAsked' = [sinceAsked EXCEPT ![session[1]][session[2]] = IF next = OnPage THEN @ ELSE {}]
  /\ UNCHANGED <<unit, unheard, seen, chosen, page, presses>>

Skip     == Learn(AnsweredWithout(OnPage, Skipped))
Unseen   == Learn(AnsweredWithout(OnPage, NotDetected))
Back     == Learn(Previous(OnPage))
Reask(k) == Learn(Reasked(OnPage, k))

-----------------------------------------------------------------------------
Link ==
  \/ \E r \in Remotes : Connect(r)
  \/ Disconnect
  \/ \E code \in Codes : Press(code)
  \/ \E i \in DOMAIN unheard : Hear(i)

Person ==
  \/ \E m \in Models : Confirm(m)
  \/ \E s \in Modes : SetMode(s)
  \/ \E k \in Keys : Reask(k)
  \/ Change \/ ClearTest \/ Skip \/ Unseen \/ Back

Next == Link \/ Person

Spec == Init /\ [][Next]_vars

-----------------------------------------------------------------------------
\* Each key raises its own code, so no code is learned for two keys of a map,
\* however keys were asked again, taken back or skipped in between (session.ts,
\* learnedFor).
OneKeyPerCode ==
  \A r \in Remotes, m \in Models : \A k, other \in Keys :
    LET answers == work[r][m].learning.answers IN
    k # other /\ answers[k] \in Codes => answers[k] # answers[other]

\* A key is learned from two presses of one code heard while it was asked, with
\* no answer given or taken by a click in between, so one slip is never learned, not over
\* a lost connection or a look at another model either (session.ts, Learning).
LearnedFromTwoPresses ==
  [][\A r \in Remotes, m \in Models, k \in Keys :
       LET before == work[r][m].learning
           after == work'[r][m].learning IN
       after.answers[k] # before.answers[k] /\ after.answers[k] \in Codes =>
         k = Asked(before) /\ after.answers[k] \in sinceAsked[r][m]]_vars

\* Work changes only on the page of the remote it belongs to, a press changes
\* only that of the remote it was made on, and nothing that happens to the link
\* takes an answer away (visit.ts).
WorkKeptApart ==
  [][\A r \in Remotes :
       work'[r] # work[r] =>
         /\ r = seen
         /\ \/ clicks' # clicks
            \/ /\ unit = r
               /\ \A m \in Models, k \in Keys :
                    Answered(work[r][m].learning, k) => Answered(work'[r][m].learning, k)]_vars
=============================================================================
