------------------------------ MODULE TouchSync ------------------------------
(***************************************************************************)
(* The answerer (packages/corpus/src/touchsync.ts): a program that drives a*)
(* Harmony Touch's sync down in place of Logitech's client, run after run  *)
(* against one remote.  It takes the remote's own changes up, starts the   *)
(* sync, and answers every request list until the remote queues an ending. *)
(*                                                                         *)
(* One request through the session is one step of both sides; the remote's *)
(* screens act between requests.  A request may fail before the remote     *)
(* acted on it or after, a write of answers may not be taken, the power    *)
(* source may change and a run may be killed.  Between runs the remote's   *)
(* owner changes documents on its screens.                                 *)
(***************************************************************************)
EXTENDS TouchEngine

CONSTANTS
  OwnBodies,     \* what a document changed on the remote may hold
  Raising,       \* those a document's own reader raises on (readerRaises)
  SetBodies,     \* what the documents of a set may hold
  SetDomains,    \* the documents a set may hold
  AccountBody,   \* what Logitech's account delivered
  MaxEmpty,      \* maxEmptyLists
  MaxHandOuts,   \* MAX_HAND_OUTS
  MaxChanges,    \* bound: changes by the owner in one behaviour
  MaxFaults      \* bound: faults in one behaviour

ASSUME OwnAssumption == Raising \subseteq OwnBodies /\ OwnBodies \subseteq Bodies
ASSUME SetAssumption == SetBodies \subseteq Bodies \ OwnBodies /\ AccountBody \in Bodies \ OwnBodies
ASSUME DomainAssumption == SetDomains \subseteq SUBSET Docs \ {{}}
ASSUME LimitAssumption == {MaxEmpty, MaxHandOuts} \subseteq Nat \ {0} /\ {MaxChanges, MaxFaults} \subseteq Nat

VARIABLES
  engine,    \* the remote
  step,      \* what the run does next: "unplugged" between runs, "done" when it has ended
  stage,     \* where the run stands, for what an abort would cost
  set,       \* the prepared set's entries, empty in `unchanged' mode
  list,      \* the request list in hand, with the body a put carries
  handedUp,  \* the keys the remote handed up in this run
  handOuts,  \* how often each address was handed out in this run
  empty,     \* empty lists in a row
  outcome,   \* how the run ended
  lab,       \* what the lab's folders hold of what was handed up
  changes, faults

run  == <<step, stage, set, list, handedUp, handOuts, empty, outcome, lab>>
vars == <<engine, run, changes, faults>>

(* A favourites document goes up under another address than it is asked    *)
(* for at; every other document has one.                                   *)
Addresses    == (Docs \cup {FINISHED.of, ABORT.of}) \X {"up", "down"}
AddressOf(q) == <<q.of, IF q.verb = "put" /\ q.of \in Favs THEN "up" ELSE "down">>
Handed(ask, body) == [ask |-> ask, body |-> body]

TypeOK ==
  /\ engine \in Engines
  /\ step \in {"unplugged", "provisioning", "hand over", "read", "answer", "write", "sync", "done"}
  /\ stage \in {"before", "hand over", "sync"}
  /\ DOMAIN set \subseteq Docs /\ \A d \in DOMAIN set : set[d] \in Files
  /\ list \in SUBSET [ask : Asks, body : Bodies \cup {NoBody}]
  /\ handedUp \subseteq Addresses
  /\ handOuts \in [Addresses -> 0..MaxHandOuts + 1]
  /\ empty \in 0..MaxEmpty
  /\ outcome \in {"none", "finished", "aborted", "refused"}
  /\ lab \in SUBSET (Docs \X Bodies)
  /\ changes \in 0..MaxChanges /\ faults \in 0..MaxFaults

Unchanged == <<>>   \* the set of a run in `unchanged' mode

(* A remote that the account filled, any of its documents missing.         *)
Init ==
  /\ \E held \in SUBSET Docs, usb \in BOOLEAN :
       engine = EngineOf([d \in Docs |-> IF d \in held
                            THEN File(AccountBody, Tag("account", AccountBody)) ELSE Missing], usb)
  /\ step = "unplugged" /\ stage = "before"
  /\ set = Unchanged /\ list = {} /\ handedUp = {}
  /\ handOuts = [a \in Addresses |-> 0] /\ empty = 0
  /\ outcome = "none" /\ lab = {}
  /\ changes = 0 /\ faults = 0

Fault == faults < MaxFaults /\ faults' = faults + 1

-----------------------------------------------------------------------------
(* Ending a run.                                                           *)

End(how) ==
  /\ step' = "done" /\ outcome' = how
  /\ list' = {} /\ empty' = 0

Refuse == End("refused") /\ UNCHANGED <<stage, handOuts>>

(* What a refusal says an abort would cost: a tag inside the hand over,    *)
(* nothing after it, and no advice before the remote was acted on.  Slip:  *)
(* nothing once what was handed up is in the lab.                          *)
AbortCostOnceKept ==
  CASE stage = "before"                        -> "no advice"
    [] stage = "hand over" /\ handedUp = {}    -> "a tag"
    [] OTHER                                   -> "nothing"

AbortCost == CASE stage = "before"    -> "no advice"
               [] stage = "hand over" -> "a tag"
               [] stage = "sync"      -> "nothing"

(* One request: it is answered, or the session throws, having reached the  *)
(* remote or not.                                                          *)
Answered(after) == engine' = after /\ UNCHANGED faults
Throws(after)   == Fault /\ engine' \in {engine, after} /\ Refuse

-----------------------------------------------------------------------------
(* The gate, and the requests before the lists.                            *)

(* refusalsBeforeASync: a set holds every core document.                   *)
GatePasses(s) == s = Unchanged \/ Core \subseteq DOMAIN s

(* A set's tag is one it states, the account's for a recorded set, or a    *)
(* digest of the body.                                                     *)
TagOf(body) == Tag(IF body = AccountBody THEN "account" ELSE "ours", body)
Sets == {Unchanged} \cup
        {[d \in held |-> File(b, TagOf(b))] : held \in SetDomains, b \in SetBodies}

StartRun(s) ==
  /\ step = "unplugged"
  /\ set' = s
  /\ IF GatePasses(s)
       THEN step' = "provisioning" /\ outcome' = "none"
       ELSE step' = "done" /\ outcome' = "refused"
  /\ UNCHANGED <<engine, stage, list, handedUp, handOuts, empty, lab, changes, faults>>

(* A remote that is not provisioned for a cable is refused.                *)
ReadProvisioning ==
  /\ step = "provisioning"
  /\ \/ /\ Answered(engine)
        /\ \/ /\ step' = "hand over" /\ stage' = "hand over"
              /\ UNCHANGED <<list, empty, outcome, handOuts>>
           \/ Refuse
     \/ Throws(engine)
  /\ UNCHANGED <<set, handedUp, lab, changes>>

AskForChanges ==
  /\ step = "hand over"
  /\ LET after == HandOver(engine) IN
       \/ /\ Answered(after)
          /\ step' = "read"
          /\ UNCHANGED <<stage, list, empty, outcome, handOuts>>
       \/ Throws(after)
  /\ UNCHANGED <<set, handedUp, lab, changes>>

(* A document is matched by its key, a favourites document by its kind.    *)
(* Slip: by the key alone.                                                 *)
UpKey(d)   == AddressOf([verb |-> "put", of |-> d])
DownKey(d) == <<d, "down">>

ClashesByKeyAlone == handedUp \cap {DownKey(d) : d \in DOMAIN set} # {}

Clashes ==
  \/ handedUp \cap {DownKey(d) : d \in DOMAIN set} # {}
  \/ \E d \in Favs : UpKey(d) \in handedUp /\ DOMAIN set \cap Favs # {}

(* A change the set would revert stops the run before the sync request.    *)
AskForSync ==
  /\ step = "sync"
  /\ IF Clashes
       THEN Refuse /\ UNCHANGED <<engine, faults>>
       ELSE LET after == StartSync(engine) IN
              \/ /\ Answered(after)
                 /\ IF SyncStatus(engine) = "202"
                      THEN Refuse
                      ELSE step' = "read" /\ UNCHANGED <<stage, list, empty, outcome, handOuts>>
              \/ Throws(after)
  /\ UNCHANGED <<set, handedUp, lab, changes>>

-----------------------------------------------------------------------------
(* The lists.                                                              *)

BodyHanded(ask) == IF ask.verb = "put" THEN engine.store[ask.of].body ELSE NoBody

(* Slip: empty lists are not counted.                                      *)
ReadEmptyListUncounted ==
  engine.queue = {} /\ UNCHANGED <<step, stage, list, empty, outcome, handOuts>>

TooOften(counts) == \E a \in Addresses : counts[a] > MaxHandOuts

ReadEmptyList ==
  /\ engine.queue = {}
  /\ IF empty + 1 >= MaxEmpty
       THEN Refuse
       ELSE empty' = empty + 1 /\ UNCHANGED <<step, stage, list, outcome, handOuts>>

ReadRequests ==
  LET counts == [a \in Addresses |->
                   handOuts[a] + IF \E q \in engine.queue : AddressOf(q) = a THEN 1 ELSE 0] IN
    /\ engine.queue # {}
    /\ handOuts' = counts
    /\ IF TooOften(counts)
         THEN End("refused") /\ UNCHANGED stage
         ELSE /\ step' = "answer" /\ empty' = 0
              /\ list' = {Handed(q, BodyHanded(q)) : q \in engine.queue}
              /\ UNCHANGED <<stage, outcome>>

ReadList ==
  /\ step = "read"
  /\ \/ Answered(engine) /\ (ReadEmptyList \/ ReadRequests)
     \/ Throws(engine)
  /\ UNCHANGED <<set, handedUp, lab, changes>>

(* answerOf, for a get: against the set, or 304 against the remote's tag.  *)
(* Slips: any tag is answered 304; a document with none is not refused.    *)
KeptCopy(ask) ==
  Answer(ask, "304", File(NoBody, IF ask.tag = NoTag THEN Tag("kept copy", NoBody) ELSE ask.tag))

Delivered(ask) ==
  IF ask.tag = set[ask.of].tag THEN KeptCopy(ask) ELSE Answer(ask, "200", set[ask.of])

AnswerOfGetByAnyTag(ask) ==
  CASE ask.of \in DOMAIN set /\ ask.tag = NoTag            -> Delivered(ask)
    [] ask.of \in Pictures \ DOMAIN set /\ ask.tag = NoTag -> Answer(ask, "404", Missing)
    [] OTHER                                               -> KeptCopy(ask)

AnswerOfGet(ask) ==
  CASE ask.of \in DOMAIN set                               -> Delivered(ask)
    [] ask.of \in Pictures \ DOMAIN set /\ ask.tag = NoTag -> Answer(ask, "404", Missing)
    [] OTHER                                               -> KeptCopy(ask)

RefusesPutsAlone(r) ==
  r.ask.verb = "put" /\ (stage = "sync" \/ (r.ask.of \in Core /\ r.body \in Raising))

RefusesToAnswer(r) ==
  CASE r.ask.verb = "put"  -> stage = "sync" \/ (r.ask.of \in Core /\ r.body \in Raising)
    [] r.ask.verb = "get"  -> \/ stage = "hand over"
                              \/ /\ r.ask.of \in Core \ DOMAIN set
                                 /\ set # Unchanged \/ r.ask.tag = NoTag
    [] r.ask.verb = "POST" -> FALSE

(* keepAndEcho: a put goes back as it came, under a tag of ours.           *)
AnswerOf(r) ==
  CASE r.ask.verb = "put"  -> Answer(r.ask, "200", File(r.body, Tag("ours", r.body)))
    [] r.ask.verb = "get"  -> AnswerOfGet(r.ask)
    [] r.ask.verb = "POST" -> Answer(r.ask, "200", Missing)

(* Each put is in the lab before its answer exists.  Slip: only core       *)
(* documents are.                                                          *)
KeptCoreOnly(puts) == {<<r.ask.of, r.body>> : r \in {x \in puts : x.ask.of \in Core}}
Kept(puts)         == {<<r.ask.of, r.body>> : r \in puts}

(* A refusal stops part way through the list: the puts before it have been *)
(* kept, and so has a put that is refused for what it holds.               *)
AnswerList ==
  /\ step = "answer"
  /\ LET puts == {r \in list : r.ask.verb = "put" /\ stage = "hand over"} IN
       \E kept \in SUBSET puts :
         /\ lab' = lab \cup Kept(kept)
         /\ handedUp' = handedUp \cup {UpKey(r.ask.of) : r \in kept}
         /\ IF \E r \in list : RefusesToAnswer(r)
              THEN /\ \E r \in list : RefusesToAnswer(r) /\ kept \cap {x \in list : RefusesToAnswer(x)}
                                                             = {r} \cap puts
                   /\ Refuse
              ELSE kept = puts /\ step' = "write" /\ UNCHANGED <<stage, list, empty, outcome, handOuts>>
  /\ UNCHANGED <<engine, set, changes, faults>>

(* After a write that was taken: the ending, if the list held one.  The    *)
(* hand over's goes on to the sync.                                        *)
Asked(ask) == \E r \in list : r.ask = ask

AfterList ==
  CASE Asked(ABORT)                          -> End("aborted") /\ UNCHANGED stage
    [] ~Asked(ABORT) /\ Asked(FINISHED)      ->
         IF stage = "sync"
           THEN End("finished") /\ UNCHANGED stage
           ELSE step' = "sync" /\ stage' = "sync" /\ list' = {} /\ empty' = 0 /\ UNCHANGED outcome
    [] OTHER                                 ->
         step' = "read" /\ list' = {} /\ UNCHANGED <<stage, empty, outcome>>

(* A reply that does not name the write is the listener's, still gathering:*)
(* the engine never saw the answers.                                       *)
NotTaken == Fault /\ UNCHANGED engine /\ Refuse

WriteAnswers ==
  /\ step = "write"
  /\ LET after == Respond(engine, {AnswerOf(r) : r \in list}) IN
       \/ Answered(after) /\ AfterList /\ UNCHANGED handOuts
       \/ NotTaken
       \/ Throws(after)
  /\ UNCHANGED <<set, handedUp, lab, changes>>

-----------------------------------------------------------------------------
(* The remote, its owner and the person at the computer.                   *)

ScreensAsk(content) ==
  /\ engine.usb /\ ~engine.failed /\ engine.running = "sync" /\ engine.queue = {}
  /\ Core \subseteq engine.got /\ content # {}
  /\ engine' = AskedFor(engine, content)
  /\ UNCHANGED <<run, changes, faults>>

ScreensCommit ==
  /\ engine.usb /\ ~engine.failed /\ engine.running # "none" /\ engine.queue = {}
  /\ engine.running = "sync" => engine.got = Docs
  /\ engine' = Committed(engine)
  /\ UNCHANGED <<run, changes, faults>>

ScreensAbort ==
  /\ engine.usb /\ engine.failed
  /\ engine' = Abandoned(engine)
  /\ UNCHANGED <<run, changes, faults>>

(* A change of power source during a sync fails it.                        *)
PowerChanges ==
  /\ Fault
  /\ engine' = IF engine.running = "sync"
                 THEN [engine EXCEPT !.usb = ~@, !.failed = TRUE, !.queue = {}]
                 ELSE [engine EXCEPT !.usb = ~@]
  /\ UNCHANGED <<run, changes>>

OwnerChanges(d, body) ==
  /\ step = "unplugged" /\ changes < MaxChanges
  /\ engine.store[d] # Missing
  /\ engine' = Changed(engine, d, body)
  /\ changes' = changes + 1
  /\ UNCHANGED <<run, faults>>

(* The process is gone, and with it everything a run keeps but its folder. *)
Gone ==
  /\ step' = "unplugged" /\ outcome' = "none" /\ stage' = "before"
  /\ set' = Unchanged /\ list' = {} /\ handedUp' = {} /\ empty' = 0
  /\ handOuts' = [a \in Addresses |-> 0]
  /\ UNCHANGED <<engine, lab, changes>>

KillRun == step \notin {"unplugged", "done"} /\ Fault /\ Gone

Unplug == step = "done" /\ Gone /\ UNCHANGED faults

(* The recovery: getconfighash answers 202 while a sync is marked running, *)
(* and then the abort is sent.                                             *)
Recover ==
  /\ step \in {"unplugged", "done"} /\ engine.running = "sync"
  /\ engine' = Abandoned(engine)
  /\ UNCHANGED <<run, changes, faults>>

Answerer == ReadProvisioning \/ AskForChanges \/ AskForSync \/ ReadList \/ AnswerList \/ WriteAnswers

Screens == (\E c \in SUBSET Content : ScreensAsk(c)) \/ ScreensCommit \/ ScreensAbort

Next ==
  \/ \E s \in Sets : StartRun(s)
  \/ Answerer
  \/ Screens
  \/ PowerChanges
  \/ \E d \in Core \cup Favs, b \in OwnBodies : OwnerChanges(d, b)
  \/ KillRun \/ Unplug \/ Recover

(* The answerer keeps going; nothing is assumed of the remote.             *)
Spec == Init /\ [][Next]_vars /\ WF_vars(Answerer)
-----------------------------------------------------------------------------
(* Properties.                                                             *)

(* What a document changed on the remote holds leaves the remote's store   *)
(* only when the lab has it, or when its owner changes it again: through   *)
(* kills, failures, recoveries and whatever set a later run writes, the    *)
(* hand over that keeps it comes first.                                    *)
NothingLost ==
  [][\A d \in Docs :
       LET was == engine.store[d].body IN
         was \in OwnBodies /\ engine'.store[d].body # was =>
           <<d, was>> \in lab \/ changes' # changes]_vars

(* What the remote handed up in a run, that run never overwrites: a set    *)
(* that also holds the document, or favourites of its kind, stops before   *)
(* the sync request.                                                       *)
HandedUpStays ==
  [][step # "unplugged" =>
       \A d \in Docs : UpKey(d) \in handedUp =>
         engine'.store[d].body = engine.store[d].body]_vars

(* A sync never commits a set that lacks a core document: one the remote   *)
(* has no file for is never answered 304, which would keep it missing.     *)
CommitsWhole ==
  [][engine.running = "sync" /\ engine'.running = "none" /\ engine'.queue = {FINISHED} /\ changes' = changes =>
       \A d \in Core : engine'.store[d].body # NoBody]_vars

(* While a sync of this run is on, what the engine has gathered of every   *)
(* document is what the run's set holds of it, or what the remote holds;   *)
(* so an answer of 304 never keeps another body than the one it stands for.*)
GatheredIsOurs ==
  engine.running = "sync" /\ stage = "sync" /\ step \in {"read", "answer", "write"} =>
    \A d \in engine.got \ Pictures :
      engine.aside[d].body =
        IF d \in DOMAIN set THEN set[d].body ELSE engine.store[d].body

(* A run that says it finished a set has put every core and favourites     *)
(* document of it on the remote.                                           *)
FinishedDelivers ==
  step = "done" /\ outcome = "finished" =>
    \A d \in DOMAIN set \ Pictures : engine.store[d].body = set[d].body

(* A run that handed something up and was refused after its hand over is   *)
(* right that an abort costs nothing: no change waits on the remote, and   *)
(* the tags of what it handed up have been committed.                      *)
AbortCostIsRight ==
  step = "done" /\ outcome = "refused" /\ AbortCost = "nothing" =>
    /\ engine.puts = {}
    /\ handedUp # {} => engine.running # "hand over"

(* The same of every run refused after its hand over.  The code does not   *)
(* keep this: the answers of an earlier run's hand over may still wait for *)
(* the screens to commit them, and with no change left to hand up the      *)
(* remote queues the finish at once.                                       *)
AbortCostsNothing ==
  step = "done" /\ outcome = "refused" /\ AbortCost = "nothing" =>
    engine.puts = {} /\ engine.running # "hand over"

(* Whatever the remote lists or fails to list, a run ends.                 *)
EveryRunEnds == step \notin {"unplugged", "done"} ~> step \in {"unplugged", "done"}
=============================================================================
