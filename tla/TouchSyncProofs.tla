--------------------------- MODULE TouchSyncProofs ---------------------------
(***************************************************************************)
(* Theorems about TouchSync, for any documents, bodies, sets and limits    *)
(* and any number of changes, runs and faults.                             *)
(***************************************************************************)
EXTENDS TouchSync, TLAPS

-----------------------------------------------------------------------------
(* What is true of the remote by itself, whichever run it is in.           *)

(* A tag is of the body it stands beside.                                  *)
Sound(file) == file.tag = NoTag \/ (file.tag.body = file.body /\ file.body \in Bodies)

FilesInv(e) == \A d \in Docs : Sound(e.store[d]) /\ Sound(e.aside[d])

(* The changes that wait are the owner's, and none waits where an ending of*)
(* the sync would drop it.                                                 *)
PutsInv(e) ==
  /\ e.running = "sync" \/ e.failed => e.puts = {}
  /\ \A d \in e.puts : d \in Core \cup Favs /\ e.store[d].body \in OwnBodies

QueueInv(e) ==
  /\ \A q \in e.queue : q.verb = "put" => q = Ask("put", q.of, NoTag) /\ q.of \in e.puts
  /\ FINISHED \in e.queue => e.queue = {FINISHED}

(* A hand over asks for what waits, and commits what is there.             *)
HandOverInv(e) ==
  e.running = "hand over" =>
    /\ \A d \in e.puts : Ask("put", d, NoTag) \in e.queue
    /\ \A q \in e.queue : q.verb # "get"
    /\ \A d \in Docs : e.aside[d].body = e.store[d].body

(* A sync asks with the tags of what is there; of the owner's bodies it    *)
(* gathers only those that are there, and of the core never nothing.       *)
SyncInv(e) ==
  e.running = "sync" =>
    /\ \A q \in e.queue : q.verb = "get" =>
         /\ q.of \in Core => q.tag = e.store[q.of].tag
         /\ q.of \in Favs => q.tag = NoTag
    /\ \A d \in Docs : e.aside[d].body \in OwnBodies => e.aside[d].body = e.store[d].body
    /\ \A d \in e.got \cap Core : e.aside[d].body # NoBody

EngineInv(e) ==
  e \in Engines /\ FilesInv(e) /\ PutsInv(e) /\ QueueInv(e) /\ HandOverInv(e) /\ SyncInv(e)

LEMMA EngineTyped ==
  ASSUME NEW e \in Engines
  PROVE  /\ e.store \in [Docs -> Files] /\ e.aside \in [Docs -> Files]
         /\ e.running \in {"none", "hand over", "sync"} /\ e.puts \subseteq Docs
         /\ e.queue \subseteq Asks /\ e.failed \in BOOLEAN /\ e.usb \in BOOLEAN /\ e.got \subseteq Docs
  BY DEF Engines

LEMMA Nobody ==
  /\ Missing \in Files /\ Missing.body = NoBody /\ Missing.tag = NoTag /\ Sound(Missing)
  /\ NoSet \in [Docs -> Files] /\ NoTag \in Tags /\ FINISHED \in Asks /\ ABORT \in Asks
  /\ FINISHED.verb = "POST" /\ ABORT.verb = "POST" /\ FINISHED # ABORT
  /\ NoBody \notin OwnBodies
  BY OwnAssumption, BodyAssumption
     DEF Missing, File, Files, Tags, NoTag, Tag, Sound, NoSet, Asks, FINISHED, ABORT, Ask

LEMMA AskFacts ==
  /\ \A d \in Docs, t \in Tags : Ask("get", d, t) \in Asks /\ Ask("put", d, t) \in Asks
  /\ \A v, d, t : Ask(v, d, t).verb = v /\ Ask(v, d, t).of = d /\ Ask(v, d, t).tag = t
  BY DEF Asks, Ask

(* The owner's change.                                                     *)
LEMMA ChangedKeeps ==
  ASSUME NEW e, EngineInv(e), NEW d \in Core \cup Favs, NEW body \in OwnBodies
  PROVE  /\ EngineInv(Changed(e, d, body))
         /\ Changed(e, d, body).puts = e.puts \cup {d}
         /\ Changed(e, d, body).running = "none" /\ Changed(e, d, body).queue = e.queue
         /\ Changed(e, d, body).store = [e.store EXCEPT ![d] = File(body, NoTag)]
<1> DEFINE after == Changed(e, d, body)
<1>1. /\ after.store = [e.store EXCEPT ![d] = File(body, NoTag)] /\ after.aside = NoSet
      /\ after.running = "none" /\ after.puts = e.puts \cup {d} /\ after.queue = e.queue
      /\ after.failed = FALSE /\ after.usb = e.usb /\ after.got = {}
      /\ after \in [store : {after.store}, aside : {after.aside}, running : {after.running},
                    puts : {after.puts}, queue : {after.queue}, failed : {after.failed},
                    usb : {after.usb}, got : {after.got}]
  BY DEF Changed, EngineInv, Engines
<1>2. d \in Docs /\ File(body, NoTag) \in Files /\ Sound(File(body, NoTag))
  BY OwnAssumption, Nobody DEF Docs, File, Files, Sound
<1>3. after \in Engines
  BY <1>2, Nobody, EngineTyped DEF Changed, EngineInv, Engines
<1> HIDE DEF after
<1>4. FilesInv(after)
  BY <1>1, <1>2, Nobody, EngineTyped DEF EngineInv, FilesInv, NoSet
<1>5. PutsInv(after)
  <2>1. after.puts = e.puts \cup {d} /\ ~(after.running = "sync" \/ after.failed)
    BY <1>1
  <2>2. \A x \in e.puts \cup {d} : after.store[x].body = IF x = d THEN body ELSE e.store[x].body
    <3>1. e.store \in [Docs -> Files] /\ e.puts \subseteq Docs
      BY EngineTyped DEF EngineInv
    <3>2. File(body, NoTag).body = body
      BY DEF File
    <3> QED BY <1>1, <1>2, <3>1, <3>2
  <2> QED BY <2>1, <2>2 DEF EngineInv, PutsInv
<1>6. QueueInv(after) /\ HandOverInv(after) /\ SyncInv(after)
  BY <1>1 DEF EngineInv, QueueInv, HandOverInv, SyncInv
<1> QED BY <1>1, <1>3, <1>4, <1>5, <1>6 DEF EngineInv, after

(* The hand over starts.                                                   *)
LEMMA HandOverFacts ==
  ASSUME NEW e, EngineInv(e)
  PROVE  LET after == HandOver(e) IN
         /\ EngineInv(after) /\ after.store = e.store /\ after.puts = e.puts
         /\ \/ e.puts = {} /\ after.running = e.running /\ after.queue = {FINISHED}
            \/ e.puts # {} /\ after.running = "hand over" /\ FINISHED \notin after.queue
<1> DEFINE after == HandOver(e)
<1>1. CASE e.puts = {}
  <2>1. /\ after.store = e.store /\ after.aside = e.aside /\ after.running = e.running
        /\ after.puts = {} /\ after.queue = {FINISHED} /\ after.failed = e.failed
        /\ after.usb = e.usb /\ after.got = e.got /\ after \in Engines
    BY <1>1, Nobody DEF HandOver, EngineInv, Engines
  <2> HIDE DEF after
  <2>2. FilesInv(after) /\ PutsInv(after) /\ QueueInv(after) /\ HandOverInv(after) /\ SyncInv(after)
    BY <2>1, Nobody DEF EngineInv, FilesInv, PutsInv, QueueInv, HandOverInv, SyncInv
  <2> QED BY <1>1, <2>1, <2>2 DEF EngineInv, after
<1>2. CASE e.puts # {}
  <2>1. /\ after.store = e.store /\ after.aside = e.store /\ after.running = "hand over"
        /\ after.puts = e.puts /\ after.queue = {Ask("put", d, NoTag) : d \in e.puts}
        /\ after.failed = e.failed /\ after.usb = e.usb /\ after.got = e.got
    BY <1>2 DEF HandOver, EngineInv, Engines
  <2>2. {Ask("put", d, NoTag) : d \in e.puts} \subseteq Asks
    <3> SUFFICES ASSUME NEW d \in e.puts PROVE Ask("put", d, NoTag) \in Asks
      OBVIOUS
    <3>1. d \in Docs
      BY EngineTyped DEF EngineInv
    <3> QED BY <3>1, AskFacts, Nobody
  <2>3. after \in Engines
    BY <1>2, <2>2, EngineTyped DEF EngineInv, Engines, HandOver
  <2> HIDE DEF after
  <2>4. FINISHED \notin after.queue
    <3>1. \A d \in e.puts : Ask("put", d, NoTag).verb = "put"
      BY AskFacts
    <3> QED BY <2>1, <3>1, Nobody
  <2>5. FilesInv(after) /\ PutsInv(after)
    BY <2>1 DEF EngineInv, FilesInv, PutsInv
  <2>6. QueueInv(after) /\ HandOverInv(after) /\ SyncInv(after)
    <3>1. \A q \in after.queue : q.verb = "put" /\ q = Ask("put", q.of, NoTag) /\ q.of \in e.puts
      <4> SUFFICES ASSUME NEW d \in e.puts
                   PROVE  LET q == Ask("put", d, NoTag) IN
                          q.verb = "put" /\ q = Ask("put", q.of, NoTag) /\ q.of \in e.puts
        BY <2>1
      <4> QED BY AskFacts
    <3> QED BY <2>1, <2>4, <3>1 DEF QueueInv, HandOverInv, SyncInv
  <2> QED BY <1>2, <2>1, <2>3, <2>4, <2>5, <2>6 DEF EngineInv, after
<1> QED BY <1>1, <1>2

(* The sync starts.                                                        *)
LEMMA StartSyncFacts ==
  ASSUME NEW e, EngineInv(e), e.running # "sync"
  PROVE  LET after == StartSync(e) IN
         /\ EngineInv(after) /\ after.store = e.store /\ after.puts = {}
         /\ after.running = "sync" /\ after.got = {} /\ FINISHED \notin after.queue
<1> DEFINE after == StartSync(e)
<1>1. /\ after.store = e.store /\ after.aside = NoSet /\ after.running = "sync"
      /\ after.puts = {} /\ after.queue = {Ask("get", d, e.store[d].tag) : d \in Core}
      /\ after.failed = FALSE /\ after.usb = e.usb /\ after.got = {}
  BY DEF StartSync, EngineInv, Engines
<1>2. \A d \in Core : Ask("get", d, e.store[d].tag) \in Asks
  <2> SUFFICES ASSUME NEW d \in Core PROVE Ask("get", d, e.store[d].tag) \in Asks
    OBVIOUS
  <2>1. e.store[d].tag \in Tags /\ d \in Docs
    BY EngineTyped DEF EngineInv, Docs, Files
  <2> QED BY <2>1, AskFacts
<1>3. after \in Engines
  <2>1. after.queue \subseteq Asks
    BY <1>1, <1>2
  <2> QED BY <1>1, <2>1, Nobody, EngineTyped DEF StartSync, EngineInv, Engines
<1> HIDE DEF after
<1>4. \A q \in after.queue : q.verb = "get" /\ q.of \in Core /\ q.tag = e.store[q.of].tag
  <2> SUFFICES ASSUME NEW d \in Core
               PROVE  LET q == Ask("get", d, e.store[d].tag) IN
                      q.verb = "get" /\ q.of \in Core /\ q.tag = e.store[q.of].tag
    BY <1>1
  <2> QED BY AskFacts
<1>5. FilesInv(after)
  BY <1>1, Nobody DEF EngineInv, FilesInv, NoSet
<1>6. FINISHED \notin after.queue
  BY <1>4, Nobody
<1>7. PutsInv(after) /\ QueueInv(after) /\ HandOverInv(after)
  BY <1>1, <1>4, <1>6 DEF PutsInv, QueueInv, HandOverInv
<1>8. SyncInv(after)
  <2>1. \A d \in Docs : after.aside[d].body \notin OwnBodies
    BY <1>1, Nobody DEF NoSet
  <2> QED BY <1>1, <1>4, <2>1, KindsAssumption DEF SyncInv
<1> QED BY <1>1, <1>3, <1>5, <1>6, <1>7, <1>8 DEF EngineInv, after

(* The abort.                                                              *)
LEMMA AbandonedFacts ==
  ASSUME NEW e, EngineInv(e)
  PROVE  LET after == Abandoned(e) IN
         /\ EngineInv(after) /\ after.store = e.store /\ after.puts = {}
         /\ after.running = "none" /\ after.queue = {ABORT} /\ FINISHED \notin after.queue
<1> DEFINE after == Abandoned(e)
<1>1. /\ after.store = e.store /\ after.aside = NoSet /\ after.running = "none"
      /\ after.puts = {} /\ after.queue = {ABORT} /\ after.failed = FALSE /\ after.got = {}
  BY DEF Abandoned, EngineInv, Engines
<1>2. after \in Engines
  BY Nobody, EngineTyped DEF Abandoned, EngineInv, Engines
<1> HIDE DEF after
<1>3. FilesInv(after)
  BY <1>1, Nobody DEF EngineInv, FilesInv, NoSet
<1>4. PutsInv(after) /\ QueueInv(after) /\ HandOverInv(after) /\ SyncInv(after)
  BY <1>1, Nobody DEF PutsInv, QueueInv, HandOverInv, SyncInv
<1> QED BY <1>1, <1>2, <1>3, <1>4, Nobody DEF EngineInv, after

(* The power source changes.                                               *)
PowerChanged(e) ==
  IF e.running = "sync" THEN [e EXCEPT !.usb = ~@, !.failed = TRUE, !.queue = {}]
                        ELSE [e EXCEPT !.usb = ~@]

LEMMA PowerChangedFacts ==
  ASSUME NEW e, EngineInv(e)
  PROVE  LET after == PowerChanged(e) IN
         /\ EngineInv(after) /\ after.store = e.store /\ after.puts = e.puts
         /\ after.aside = e.aside /\ after.running = e.running /\ after.got = e.got
         /\ after.queue \subseteq e.queue
<1> DEFINE after == PowerChanged(e)
<1>1. /\ after.store = e.store /\ after.aside = e.aside /\ after.running = e.running
      /\ after.puts = e.puts /\ after.got = e.got /\ after \in Engines
      /\ \/ e.running = "sync" /\ after.queue = {}
         \/ after.queue = e.queue /\ after.failed = e.failed
  BY DEF PowerChanged, EngineInv, Engines
<1> HIDE DEF after
<1>2. FilesInv(after)
  BY <1>1 DEF EngineInv, FilesInv
<1>3. PutsInv(after)
  BY <1>1 DEF EngineInv, PutsInv
<1>4. QueueInv(after) /\ HandOverInv(after) /\ SyncInv(after)
  BY <1>1 DEF EngineInv, QueueInv, HandOverInv, SyncInv
<1> QED BY <1>1, <1>2, <1>3, <1>4 DEF EngineInv, after

(* The screens ask for content.                                            *)
LEMMA AskedForFacts ==
  ASSUME NEW e, EngineInv(e), NEW content \in SUBSET Content, e.running = "sync"
  PROVE  LET after == AskedFor(e, content) IN
         /\ EngineInv(after) /\ after.store = e.store /\ after.puts = e.puts
         /\ after.running = "sync" /\ after.got = e.got /\ FINISHED \notin after.queue
         /\ \A d \in Docs \ Pictures : after.aside[d] = e.aside[d]
<1> DEFINE after == AskedFor(e, content)
           TagHeld(d) == IF d \in Pictures THEN e.store[d].tag ELSE NoTag
<1>0. /\ e.store \in [Docs -> Files] /\ e.aside \in [Docs -> Files]
      /\ content \subseteq Docs /\ content \cap Core = {}
  BY EngineTyped, KindsAssumption DEF EngineInv, Content, Docs
<1>1. /\ after.store = e.store /\ after.running = "sync" /\ after.puts = e.puts
      /\ after.queue = {Ask("get", d, TagHeld(d)) : d \in content}
      /\ after.aside = [d \in Docs |-> IF d \in content \cap Pictures THEN e.store[d] ELSE e.aside[d]]
      /\ after.failed = e.failed /\ after.usb = e.usb /\ after.got = e.got
  BY DEF AskedFor, EngineInv, Engines
<1>2. \A d \in content : Ask("get", d, TagHeld(d)) \in Asks
  <2> SUFFICES ASSUME NEW d \in content PROVE Ask("get", d, TagHeld(d)) \in Asks
    OBVIOUS
  <2>1. TagHeld(d) \in Tags /\ d \in Docs
    BY <1>0, Nobody DEF Files
  <2> QED BY <2>1, AskFacts
<1>3. after.aside \in [Docs -> Files] /\ after.queue \subseteq Asks
  BY <1>0, <1>1, <1>2
<1>4. after \in Engines
  BY <1>1, <1>3, EngineTyped DEF AskedFor, EngineInv, Engines
<1>5. \A q \in after.queue : /\ q.verb = "get" /\ q.of \in content
                             /\ q.of \in Favs => q.tag = NoTag
  <2> SUFFICES ASSUME NEW d \in content
               PROVE  LET q == Ask("get", d, TagHeld(d)) IN
                      /\ q.verb = "get" /\ q.of \in content
                      /\ q.of \in Favs => q.tag = NoTag
    BY <1>1
  <2>1. LET q == Ask("get", d, TagHeld(d)) IN q.verb = "get" /\ q.of = d /\ q.tag = TagHeld(d)
    BY AskFacts
  <2> QED BY <2>1, KindsAssumption
<1> HIDE DEF after
<1>6. FilesInv(after)
  BY <1>1 DEF EngineInv, FilesInv
<1>7. FINISHED \notin after.queue
  BY <1>5, Nobody
<1>8. PutsInv(after) /\ QueueInv(after) /\ HandOverInv(after)
  BY <1>1, <1>5, <1>7 DEF EngineInv, PutsInv, QueueInv, HandOverInv
<1>9. \A d \in Docs \ Pictures : after.aside[d] = e.aside[d]
  BY <1>1
<1>10. SyncInv(after)
  <2>1. \A d \in Docs : after.aside[d] \in {e.store[d], e.aside[d]}
    BY <1>1
  <2>2. \A d \in Core : d \in Docs \ Pictures
    BY KindsAssumption DEF Docs
  <2> QED BY <1>0, <1>1, <1>5, <1>9, <2>1, <2>2 DEF EngineInv, SyncInv
<1> QED BY <1>1, <1>4, <1>6, <1>7, <1>8, <1>9, <1>10 DEF EngineInv, after

(* The screens commit.                                                     *)
LEMMA CommittedFacts ==
  ASSUME NEW e, EngineInv(e), e.running # "none", e.queue = {}
  PROVE  LET after == Committed(e) IN
         /\ EngineInv(after) /\ after.store = e.aside /\ after.puts = {} /\ e.puts = {}
         /\ after.running = "none" /\ after.queue = {FINISHED}
<1> DEFINE after == Committed(e)
<1>0. e.puts = {}
  BY EngineTyped DEF EngineInv, PutsInv, HandOverInv
<1>1. /\ after.store = e.aside /\ after.aside = NoSet /\ after.running = "none"
      /\ after.puts = e.puts /\ after.queue = {FINISHED} /\ after.failed = e.failed
      /\ after.usb = e.usb /\ after.got = {}
  BY DEF Committed, EngineInv, Engines
<1>2. after \in Engines
  BY Nobody, EngineTyped DEF Committed, EngineInv, Engines
<1> HIDE DEF after
<1>3. FilesInv(after)
  BY <1>1, Nobody DEF EngineInv, FilesInv, NoSet
<1>4. PutsInv(after) /\ QueueInv(after) /\ HandOverInv(after) /\ SyncInv(after)
  BY <1>0, <1>1, Nobody DEF PutsInv, QueueInv, HandOverInv, SyncInv
<1> QED BY <1>0, <1>1, <1>2, <1>3, <1>4 DEF EngineInv, after

(* Answers to what was asked: a put is echoed; a get of a sync brings one  *)
(* of the owner's bodies only where it is, and for the core never nothing. *)
Proper(e, a) ==
  a.to.of \in Docs =>
    /\ Taken(e, a) \in Files /\ Sound(Taken(e, a))
    /\ a.to.verb = "put" => Taken(e, a).body = e.store[a.to.of].body
    /\ a.to.verb = "get" /\ e.running = "sync" =>
         /\ Taken(e, a).body \in OwnBodies => Taken(e, a).body = e.store[a.to.of].body
         /\ a.to.of \in Core => Taken(e, a).body # NoBody

Matched(e, answers) == {a \in answers : a.to \in e.queue}
Gets(matched) == {x \in matched : x.to.verb = "get"}
PutsOf(matched) == {x \in matched : x.to.verb = "put"}

LEMMA RespondFields ==
  ASSUME NEW e \in Engines, NEW answers
  PROVE  LET after == Respond(e, answers)
             matched == Matched(e, answers) IN
         /\ after.store = e.store /\ after.running = e.running /\ after.usb = e.usb
         /\ \/ /\ \E a \in matched : a.to.verb = "get" /\ Refused(e, a)
               /\ after.queue = {} /\ after.puts = {} /\ after.failed = TRUE
               /\ after.aside = e.aside /\ after.got = e.got /\ after \in Engines
            \/ /\ ~\E a \in matched : a.to.verb = "get" /\ Refused(e, a)
               /\ after.queue = e.queue \ {a.to : a \in matched} /\ after.failed = e.failed
               /\ after.puts = e.puts \ {a.to.of : a \in PutsOf(matched)}
               /\ after.got = e.got \cup {a.to.of : a \in Gets(matched)}
               /\ after.aside = [d \in Docs |-> IF \E a \in matched : a.to.of = d
                                    THEN Taken(e, CHOOSE a \in matched : a.to.of = d)
                                    ELSE e.aside[d]]
               /\ after.aside \in [Docs -> Files] /\ after.got \subseteq Docs => after \in Engines
<1> DEFINE matched == Matched(e, answers)
           after == Respond(e, answers)
<1>0. \A a : a \in matched <=> a \in answers /\ a.to \in e.queue
  BY DEF Matched
<1>1. matched = {a \in answers : a.to \in e.queue}
  BY DEF Matched
<1>2. CASE \E a \in matched : a.to.verb = "get" /\ Refused(e, a)
  <2>1. after = [e EXCEPT !.queue = {}, !.puts = {}, !.failed = TRUE]
    BY <1>1, <1>2 DEF Respond
  <2> HIDE DEF after
  <2>2. /\ after.store = e.store /\ after.running = e.running /\ after.usb = e.usb
        /\ after.queue = {} /\ after.puts = {} /\ after.failed = TRUE
        /\ after.aside = e.aside /\ after.got = e.got /\ after \in Engines
    BY <2>1 DEF Engines
  <2> QED BY <1>2, <2>2 DEF after
<1>3. CASE ~\E a \in matched : a.to.verb = "get" /\ Refused(e, a)
  <2> DEFINE queue == e.queue \ {a.to : a \in matched}
             puts  == e.puts \ {a.to.of : a \in PutsOf(matched)}
             got   == e.got \cup {a.to.of : a \in Gets(matched)}
             aside == [d \in Docs |-> IF \E a \in matched : a.to.of = d
                         THEN Taken(e, CHOOSE a \in matched : a.to.of = d) ELSE e.aside[d]]
  <2>1. after = [e EXCEPT !.queue = queue, !.puts = puts, !.got = got, !.aside = aside]
    <3>1. e.aside \in [Docs -> Files]
      BY EngineTyped
    <3> HIDE DEF matched
    <3> QED BY <1>1, <1>3, <3>1 DEF Respond, PutsOf, Gets
  <2> HIDE DEF queue, puts, got, aside, after, matched
  <2>2. /\ after.store = e.store /\ after.running = e.running /\ after.usb = e.usb
        /\ after.queue = queue /\ after.puts = puts /\ after.got = got
        /\ after.aside = aside /\ after.failed = e.failed
    BY <2>1 DEF Engines
  <2>3. queue \subseteq e.queue /\ puts \subseteq e.puts
    BY DEF queue, puts
  <2>4. aside \in [Docs -> Files] /\ got \subseteq Docs => after \in Engines
    BY <2>1, <2>3 DEF Engines
  <2> QED BY <1>3, <2>2, <2>4 DEF queue, puts, got, aside, after, matched
<1> QED BY <1>2, <1>3

(* What is aside for a document after answers: an answer's file, or as it  *)
(* was.                                                                    *)
LEMMA TakenAside ==
  ASSUME NEW e, NEW matched, NEW d \in Docs, NEW aside,
         aside = [x \in Docs |-> IF \E a \in matched : a.to.of = x
                    THEN Taken(e, CHOOSE a \in matched : a.to.of = x) ELSE e.aside[x]]
  PROVE  \/ \E a \in matched : a.to.of = d /\ aside[d] = Taken(e, a)
         \/ aside[d] = e.aside[d] /\ ~\E a \in matched : a.to.of = d
<1>1. aside[d] = IF \E a \in matched : a.to.of = d
                   THEN Taken(e, CHOOSE a \in matched : a.to.of = d) ELSE e.aside[d]
  OBVIOUS
<1>2. CASE \E a \in matched : a.to.of = d
  <2> DEFINE c == CHOOSE a \in matched : a.to.of = d
  <2>1. c \in matched /\ c.to.of = d
    BY <1>2
  <2>2. aside[d] = Taken(e, c)
    BY <1>1, <1>2
  <2> HIDE DEF c
  <2> QED BY <2>1, <2>2
<1>3. CASE ~\E a \in matched : a.to.of = d
  BY <1>1, <1>3
<1> QED BY <1>2, <1>3

LEMMA RespondKeeps ==
  ASSUME NEW e, EngineInv(e), NEW answers,
         \A a \in Matched(e, answers) : Proper(e, a)
  PROVE  EngineInv(Respond(e, answers))
<1> DEFINE matched == Matched(e, answers)
           after == Respond(e, answers)
<1>0. e \in Engines
  BY DEF EngineInv
<1>1. /\ after.store = e.store /\ after.running = e.running /\ after.usb = e.usb
      /\ \/ /\ \E a \in matched : a.to.verb = "get" /\ Refused(e, a)
            /\ after.queue = {} /\ after.puts = {} /\ after.failed = TRUE
            /\ after.aside = e.aside /\ after.got = e.got /\ after \in Engines
         \/ /\ ~\E a \in matched : a.to.verb = "get" /\ Refused(e, a)
            /\ after.queue = e.queue \ {a.to : a \in matched} /\ after.failed = e.failed
            /\ after.puts = e.puts \ {a.to.of : a \in PutsOf(matched)}
            /\ after.got = e.got \cup {a.to.of : a \in Gets(matched)}
            /\ after.aside = [d \in Docs |-> IF \E a \in matched : a.to.of = d
                                 THEN Taken(e, CHOOSE a \in matched : a.to.of = d)
                                 ELSE e.aside[d]]
            /\ after.aside \in [Docs -> Files] /\ after.got \subseteq Docs => after \in Engines
  BY <1>0, RespondFields
<1> HIDE DEF after
<1>2. CASE after.queue = {} /\ after.puts = {} /\ after.aside = e.aside /\ after.got = e.got /\ after \in Engines
  <2>1. FilesInv(after)
    BY <1>1, <1>2 DEF EngineInv, FilesInv
  <2>2. PutsInv(after)
    BY <1>2 DEF PutsInv
  <2>3. QueueInv(after)
    BY <1>2 DEF QueueInv
  <2>4. HandOverInv(after)
    BY <1>1, <1>2 DEF EngineInv, HandOverInv
  <2>5. SyncInv(after)
    <3> SUFFICES ASSUME e.running = "sync" PROVE SyncInv(after)
      BY <1>1 DEF SyncInv
    <3>1. /\ \A d \in Docs : e.aside[d].body \in OwnBodies => e.aside[d].body = e.store[d].body
          /\ \A d \in e.got \cap Core : e.aside[d].body # NoBody
      BY DEF EngineInv, SyncInv
    <3> QED BY <1>1, <1>2, <3>1 DEF SyncInv
  <2> QED BY <1>2, <2>1, <2>2, <2>3, <2>4, <2>5 DEF EngineInv, after
<1>3. CASE /\ after.queue = e.queue \ {a.to : a \in matched} /\ after.failed = e.failed
           /\ after.puts = e.puts \ {a.to.of : a \in PutsOf(matched)}
           /\ after.got = e.got \cup {a.to.of : a \in Gets(matched)}
           /\ after.aside = [d \in Docs |-> IF \E a \in matched : a.to.of = d
                                THEN Taken(e, CHOOSE a \in matched : a.to.of = d)
                                ELSE e.aside[d]]
           /\ after.aside \in [Docs -> Files] /\ after.got \subseteq Docs => after \in Engines
  <2>1. \A a \in matched : a.to \in e.queue /\ a.to \in Asks /\ Proper(e, a)
    BY EngineTyped DEF EngineInv, Matched
  <2> HIDE DEF matched
  <2>2. \A d \in Docs : \/ \E a \in matched : a.to.of = d /\ after.aside[d] = Taken(e, a)
                        \/ after.aside[d] = e.aside[d] /\ ~\E a \in matched : a.to.of = d
    <3> SUFFICES ASSUME NEW d \in Docs
                 PROVE  \/ \E a \in matched : a.to.of = d /\ after.aside[d] = Taken(e, a)
                        \/ after.aside[d] = e.aside[d] /\ ~\E a \in matched : a.to.of = d
      OBVIOUS
    <3> DEFINE aside == after.aside
    <3>1. aside = [x \in Docs |-> IF \E a \in matched : a.to.of = x
                    THEN Taken(e, CHOOSE a \in matched : a.to.of = x) ELSE e.aside[x]]
      BY <1>3
    <3> HIDE DEF aside
    <3>2. \/ \E a \in matched : a.to.of = d /\ aside[d] = Taken(e, a)
          \/ aside[d] = e.aside[d] /\ ~\E a \in matched : a.to.of = d
      BY <3>1, TakenAside
    <3> QED BY <3>2 DEF aside
  <2>3. \A a \in matched : a.to.verb \in {"get", "put"} => a.to.of \in Docs
    BY <2>1, Nobody DEF Asks
  <2>4. \A a \in matched : a.to.of \in Docs => a.to.verb \in {"get", "put"}
    BY <2>1, EndingAssumption DEF Asks
  <2>5. after \in Engines
    <3>1. after.aside \in [Docs -> Files]
      <4>1. \A d \in Docs : after.aside[d] \in Files
        <5> SUFFICES ASSUME NEW d \in Docs PROVE after.aside[d] \in Files
          OBVIOUS
        <5>1. ASSUME NEW a \in matched, a.to.of = d PROVE Taken(e, a) \in Files
          BY <2>1, <5>1 DEF Proper
        <5>2. e.aside[d] \in Files
          BY <1>0, EngineTyped
        <5> QED BY <2>2, <5>1, <5>2
      <4> QED BY <1>3, <4>1
    <3>2. after.got \subseteq Docs
      <4>1. {a.to.of : a \in Gets(matched)} \subseteq Docs
        BY <2>3 DEF Gets
      <4>2. e.got \subseteq Docs
        BY <1>0, EngineTyped
      <4> QED BY <1>3, <4>1, <4>2
    <3> QED BY <1>3, <3>1, <3>2
  <2>6. FilesInv(after)
    BY <1>1, <2>1, <2>2 DEF Proper, EngineInv, FilesInv
  <2>7. PutsInv(after)
    BY <1>1, <1>3 DEF EngineInv, PutsInv
  <2>8. QueueInv(after)
    <3>1. ASSUME NEW q \in after.queue, q.verb = "put"
          PROVE  q = Ask("put", q.of, NoTag) /\ q.of \in after.puts
      <4>1. q \in e.queue /\ q = Ask("put", q.of, NoTag) /\ q.of \in e.puts
        BY <1>3, <3>1 DEF EngineInv, QueueInv
      <4>2. ASSUME NEW a \in PutsOf(matched), a.to.of = q.of PROVE FALSE
        <5>1. a \in matched /\ a.to = Ask("put", a.to.of, NoTag)
          BY <2>1 DEF EngineInv, QueueInv, PutsOf
        <5> QED BY <1>3, <3>1, <4>1, <4>2, <5>1
      <4> QED BY <1>3, <4>1, <4>2
    <3>2. FINISHED \in after.queue => after.queue = {FINISHED}
      BY <1>3 DEF EngineInv, QueueInv
    <3> QED BY <3>1, <3>2 DEF QueueInv
  <2>9. HandOverInv(after)
    <3> SUFFICES ASSUME e.running = "hand over" PROVE HandOverInv(after)
      BY <1>1 DEF HandOverInv
    <3>1. ASSUME NEW d \in after.puts PROVE Ask("put", d, NoTag) \in after.queue
      <4>1. d \in e.puts /\ Ask("put", d, NoTag) \in e.queue
        BY <1>3 DEF EngineInv, HandOverInv
      <4>2. ASSUME NEW a \in matched, a.to = Ask("put", d, NoTag) PROVE FALSE
        <5>1. Ask("put", d, NoTag).verb = "put" /\ Ask("put", d, NoTag).of = d
          BY DEF Ask
        <5>2. a.to.verb = "put" /\ a.to.of = d
          BY <4>2, <5>1
        <5>3. a \in PutsOf(matched) /\ a.to.of = d
          BY <5>2 DEF PutsOf
        <5>4. d \in {x.to.of : x \in PutsOf(matched)}
          BY <5>3
        <5> QED BY <1>3, <3>1, <5>4
      <4>3. Ask("put", d, NoTag) \notin {a.to : a \in matched}
        BY <4>2
      <4> QED BY <1>3, <4>1, <4>3
    <3>2. \A q \in after.queue : q.verb # "get"
      BY <1>3 DEF EngineInv, HandOverInv
    <3>3. \A a \in matched : a.to.verb # "get"
      BY <2>1 DEF EngineInv, HandOverInv
    <3>4. \A d \in Docs : after.aside[d].body = after.store[d].body
      <4> SUFFICES ASSUME NEW d \in Docs PROVE after.aside[d].body = e.store[d].body
        BY <1>1
      <4>1. ASSUME NEW a \in matched, a.to.of = d PROVE Taken(e, a).body = e.store[d].body
        BY <2>1, <2>4, <3>3, <4>1 DEF Proper
      <4>2. e.aside[d].body = e.store[d].body
        BY DEF EngineInv, HandOverInv
      <4>3. CASE after.aside[d] = e.aside[d]
        BY <4>2, <4>3
      <4>4. CASE \E a \in matched : a.to.of = d /\ after.aside[d] = Taken(e, a)
        <5>1. PICK a \in matched : a.to.of = d /\ after.aside[d] = Taken(e, a)
          BY <4>4
        <5>2. Taken(e, a).body = e.store[d].body
          BY <4>1, <5>1
        <5> QED BY <5>1, <5>2
      <4> QED BY <2>2, <4>3, <4>4
    <3> QED BY <3>1, <3>2, <3>4 DEF HandOverInv
  <2>10. SyncInv(after)
    <3> SUFFICES ASSUME e.running = "sync" PROVE SyncInv(after)
      BY <1>1 DEF SyncInv
    <3>1. \A a \in matched : a.to.of \in Docs => a.to.verb = "get"
      BY <2>1, <2>4 DEF EngineInv, QueueInv, PutsInv
    <3>2. \A d \in Docs : after.aside[d].body \in OwnBodies => after.aside[d].body = after.store[d].body
      BY <1>1, <2>1, <2>2, <3>1 DEF Proper, EngineInv, SyncInv
    <3>3. ASSUME NEW d \in after.got \cap Core PROVE after.aside[d].body # NoBody
      <4>1. d \in Docs
        BY DEF Docs
      <4>2. CASE \E a \in matched : a.to.of = d /\ after.aside[d] = Taken(e, a)
        BY <2>1, <3>1, <4>1, <4>2 DEF Proper
      <4>3. CASE after.aside[d] = e.aside[d] /\ ~\E a \in matched : a.to.of = d
        <5>1. d \in e.got \cap Core
          BY <1>3, <4>3 DEF Gets
        <5> QED BY <4>3, <5>1 DEF EngineInv, SyncInv
      <4> QED BY <2>2, <4>1, <4>2, <4>3
    <3>4. \A q \in after.queue : q \in e.queue
      BY <1>3
    <3>5. \A q \in after.queue : q.verb = "get" =>
            /\ q.of \in Core => q.tag = after.store[q.of].tag
            /\ q.of \in Favs => q.tag = NoTag
      BY <1>1, <3>4 DEF EngineInv, SyncInv
    <3>6. \A d \in after.got \cap Core : after.aside[d].body # NoBody
      BY <3>3
    <3> QED BY <3>2, <3>5, <3>6 DEF SyncInv
  <2> QED BY <2>5, <2>6, <2>7, <2>8, <2>9, <2>10 DEF EngineInv, after
<1> QED BY <1>1, <1>2, <1>3 DEF after

-----------------------------------------------------------------------------
(* The inductive invariant.                                                *)

Busy == step \in {"read", "answer", "write"}

SetInv == \A d \in DOMAIN set : \E b \in SetBodies : set[d] = File(b, TagOf(b))

StepInv ==
  /\ step \in {"unplugged", "provisioning"} => stage = "before"
  /\ step = "hand over" => stage = "hand over"
  /\ step = "sync" => stage = "sync"
  /\ Busy => stage \in {"hand over", "sync"}
  /\ stage = "sync" /\ Busy => engine.running # "hand over"
  /\ step \notin {"answer", "write"} => list = {}
  /\ step \in {"unplugged", "provisioning", "hand over"} => handedUp = {}
  /\ step # "done" => \A a \in Addresses : handOuts[a] <= MaxHandOuts

(* The puts in hand are the owner's changes as they are, and no answer is  *)
(* written before they are in the lab.                                     *)
Puts == {r \in list : r.ask.verb = "put"}
HandingUp == handedUp # {} \/ Puts # {}

ListInv ==
  /\ Asked(FINISHED) => \A r \in list : r.ask = FINISHED
  /\ \A r \in Puts : /\ r.ask.of \in Core \cup Favs /\ r.body \in OwnBodies
                     /\ r.ask \in engine.queue => r.body = engine.store[r.ask.of].body
  /\ step = "write" => /\ \A r \in list : ~RefusesToAnswer(r)
                       /\ Kept(Puts) \subseteq lab

(* What the owner put in the store waits to go up or is in the lab.        *)
KeptInv ==
  \A d \in Docs : engine.store[d].body \in OwnBodies =>
    d \in engine.puts \/ <<d, engine.store[d].body>> \in lab

(* From the hand over's ending on, nothing waits, and what went up has been*)
(* committed.                                                              *)
Ends == FINISHED \in engine.queue \/ Asked(FINISHED)

CostInv ==
  stage = "sync" \/ (stage = "hand over" /\ Busy /\ Ends) =>
    engine.puts = {} /\ (HandingUp => engine.running # "hand over")

(* Once the run has handed something up, a sync that is on is its own.     *)
HandedUpInv ==
  /\ handedUp \subseteq {UpKey(d) : d \in Core \cup Favs}
  /\ HandingUp /\ engine.running = "sync" => stage = "sync" /\ step \in {"read", "answer", "write", "done"}

(* The run's own sync gathers what its set holds, else what is there.      *)
Ours == engine.running = "sync" /\ stage = "sync" /\ (Busy \/ (step = "done" /\ handedUp # {}))
Wanted(d) == IF d \in DOMAIN set THEN set[d].body ELSE engine.store[d].body

GatheredInv ==
  Ours => ~Clashes /\ \A d \in engine.got \ Pictures : engine.aside[d].body = Wanted(d)

(* The sync's ending is queued by the commit alone.                        *)
Delivery ==
  engine.running = "none" /\ \A d \in DOMAIN set \ Pictures : engine.store[d].body = set[d].body

DeliveryInv ==
  /\ stage = "sync" /\ Busy /\ Ends => Delivery
  /\ step = "done" /\ outcome = "finished" => Delivery

IInv ==
  /\ TypeOK /\ EngineInv(engine)
  /\ SetInv /\ StepInv /\ ListInv /\ KeptInv
  /\ CostInv /\ HandedUpInv /\ GatheredInv /\ DeliveryInv

LEMMA InitHolds == Init => IInv
<1> SUFFICES ASSUME Init PROVE IInv
  OBVIOUS
<1> PICK held \in SUBSET Docs, usb \in BOOLEAN :
      engine = EngineOf([d \in Docs |-> IF d \in held
                  THEN File(AccountBody, Tag("account", AccountBody)) ELSE Missing], usb)
  BY DEF Init
<1> DEFINE filled == File(AccountBody, Tag("account", AccountBody))
           store  == [d \in Docs |-> IF d \in held THEN filled ELSE Missing]
<1>1. engine = EngineOf(store, usb)
  OBVIOUS
<1>2. filled \in Files /\ Sound(filled) /\ filled.body = AccountBody
  BY SetAssumption DEF File, Tag, Files, Tags, Sound
<1> HIDE DEF filled
<1>3. /\ store \in [Docs -> Files] /\ \A d \in Docs : Sound(store[d])
      /\ \A d \in Docs : store[d].body \in {AccountBody, NoBody}
  BY <1>2, Nobody
<1> HIDE DEF store
<1>4. /\ engine.store = store /\ engine.aside = NoSet /\ engine.running = "none" /\ engine.puts = {}
      /\ engine.queue = {} /\ engine.failed = FALSE /\ engine.got = {}
  BY <1>1 DEF EngineOf
<1>5. engine \in Engines
  BY <1>1, <1>3, Nobody DEF EngineOf, Engines
<1>6. EngineInv(engine)
  <2>1. FilesInv(engine)
    BY <1>3, <1>4, Nobody DEF FilesInv, NoSet
  <2>2. PutsInv(engine) /\ QueueInv(engine) /\ HandOverInv(engine) /\ SyncInv(engine)
    BY <1>4 DEF PutsInv, QueueInv, HandOverInv, SyncInv
  <2> QED BY <1>5, <2>1, <2>2 DEF EngineInv
<1>7. /\ step = "unplugged" /\ stage = "before" /\ set = <<>> /\ list = {} /\ handedUp = {}
      /\ handOuts = [a \in Addresses |-> 0] /\ empty = 0 /\ outcome = "none" /\ lab = {}
      /\ changes = 0 /\ faults = 0
  BY DEF Init, Unchanged
<1>8. DOMAIN set = {}
  BY <1>7
<1>9. TypeOK
  BY <1>5, <1>7, <1>8, LimitAssumption DEF TypeOK
<1>10. SetInv /\ StepInv /\ ListInv
  BY <1>7, <1>8, LimitAssumption DEF SetInv, StepInv, ListInv, Busy, Puts, Asked
<1>11. KeptInv
  BY <1>3, <1>4, SetAssumption, Nobody DEF KeptInv
<1>12. CostInv /\ HandedUpInv /\ GatheredInv /\ DeliveryInv
  BY <1>7 DEF CostInv, HandedUpInv, GatheredInv, DeliveryInv, HandingUp, Puts, Ours, Busy
<1> QED BY <1>6, <1>9, <1>10, <1>11, <1>12 DEF IInv

-----------------------------------------------------------------------------
(* The answers to a list.                                                  *)

Answers == {AnswerOf(r) : r \in list}

LEMMA SetFacts ==
  ASSUME SetInv, NEW d \in DOMAIN set
  PROVE  /\ set[d] \in Files /\ Sound(set[d]) /\ set[d].tag # NoTag
         /\ set[d].tag.body = set[d].body /\ set[d].body \in Bodies \ OwnBodies
<1> PICK b \in SetBodies : set[d] = File(b, TagOf(b))
  BY DEF SetInv
<1>1. b \in Bodies \ OwnBodies /\ b # NoBody
  BY SetAssumption, BodyAssumption
<1>2. /\ TagOf(b) \in Tags /\ TagOf(b).body = b /\ TagOf(b) # NoTag
  <2>1. TagOf(b).body = b /\ NoTag.body = NoBody
    BY DEF TagOf, Tag, NoTag
  <2>2. TagOf(b) \in Tags
    BY <1>1 DEF TagOf, Tag, Tags
  <2> QED BY <1>1, <2>1, <2>2
<1>3. set[d].body = b /\ set[d].tag = TagOf(b)
  BY DEF File
<1> QED BY <1>1, <1>2, <1>3 DEF File, Files, Sound

LEMMA AnswerShape ==
  ASSUME NEW r
  PROVE  /\ r.ask.verb = "put" =>
              AnswerOf(r) = Answer(r.ask, "200", File(r.body, Tag("ours", r.body)))
         /\ r.ask.verb = "POST" => AnswerOf(r).to = r.ask
         /\ r.ask.verb = "get" =>
              /\ AnswerOf(r).to = r.ask
              /\ \/ /\ r.ask.of \in DOMAIN set /\ r.ask.tag = set[r.ask.of].tag
                    /\ AnswerOf(r).status = "304"
                 \/ /\ r.ask.of \in DOMAIN set /\ AnswerOf(r).status = "200"
                    /\ AnswerOf(r).file = set[r.ask.of]
                 \/ /\ r.ask.of \in Pictures \ DOMAIN set /\ AnswerOf(r).status = "404"
                 \/ /\ r.ask.of \notin DOMAIN set /\ AnswerOf(r).status = "304"
<1>1. \A file, s : /\ Answer(r.ask, s, file).to = r.ask /\ Answer(r.ask, s, file).status = s
                   /\ Answer(r.ask, s, file).file = file
  BY DEF Answer
<1>2. CASE r.ask.verb = "put"
  BY <1>2 DEF AnswerOf
<1>3. CASE r.ask.verb = "POST"
  BY <1>1, <1>3 DEF AnswerOf
<1>4. CASE r.ask.verb = "get"
  <2>1. AnswerOf(r) = AnswerOfGet(r.ask)
    BY <1>4 DEF AnswerOf
  <2>2. KeptCopy(r.ask).to = r.ask /\ KeptCopy(r.ask).status = "304"
    BY <1>1 DEF KeptCopy
  <2>3. CASE r.ask.of \in DOMAIN set
    <3>1. AnswerOf(r) = IF r.ask.tag = set[r.ask.of].tag THEN KeptCopy(r.ask)
                          ELSE Answer(r.ask, "200", set[r.ask.of])
      <4>1. AnswerOfGet(r.ask) = Delivered(r.ask)
        BY <2>3 DEF AnswerOfGet
      <4> QED BY <2>1, <4>1 DEF Delivered
    <3> QED BY <1>1, <1>4, <2>2, <2>3, <3>1
  <2>4. CASE r.ask.of \notin DOMAIN set /\ r.ask.of \in Pictures /\ r.ask.tag = NoTag
    <3>1. AnswerOf(r) = Answer(r.ask, "404", Missing)
      BY <2>1, <2>4 DEF AnswerOfGet
    <3> QED BY <1>1, <1>4, <2>4, <3>1
  <2>5. CASE r.ask.of \notin DOMAIN set /\ ~(r.ask.of \in Pictures /\ r.ask.tag = NoTag)
    <3>1. AnswerOf(r) = KeptCopy(r.ask)
      BY <2>1, <2>5 DEF AnswerOfGet
    <3> QED BY <1>4, <2>2, <2>5, <3>1
  <2> QED BY <2>3, <2>4, <2>5
<1> QED BY <1>2, <1>3, <1>4

(* What an answer to a get brings: what the set holds of the document, or  *)
(* what the remote does.                                                   *)
LEMMA GetBrings ==
  ASSUME IInv, step = "write", NEW r \in list, r.ask \in engine.queue,
         r.ask.verb = "get", r.ask.of \in Docs
  PROVE  LET brought == Taken(engine, AnswerOf(r)) IN
         /\ brought \in Files /\ Sound(brought)
         /\ engine.running = "sync" =>
              /\ brought.body \in OwnBodies => brought.body = engine.store[r.ask.of].body
              /\ r.ask.of \in Core => brought.body # NoBody
              /\ r.ask.of \notin Pictures => brought.body = Wanted(r.ask.of)
<1> DEFINE d == r.ask.of
           brought == Taken(engine, AnswerOf(r))
           held == engine.store[d]
<1>0. /\ engine \in Engines /\ SetInv /\ FilesInv(engine) /\ SyncInv(engine)
      /\ ~RefusesToAnswer(r)
  BY DEF IInv, EngineInv, ListInv
<1>1. /\ held \in Files /\ Sound(held) /\ engine.aside[d] \in Files /\ Sound(engine.aside[d])
  BY <1>0, EngineTyped DEF FilesInv
<1>2. ~(d \in Core \ DOMAIN set /\ (set # Unchanged \/ r.ask.tag = NoTag))
  BY <1>0 DEF RefusesToAnswer
<1>3. AnswerOf(r).to = r.ask
  BY AnswerShape
<1>4. CASE AnswerOf(r).status = "304" /\ d \notin DOMAIN set
  <2>1. brought = held
    BY <1>3, <1>4 DEF Taken
  <2>2. engine.running = "sync" /\ d \in Core => held.body # NoBody
    <3>1. d \in Core => r.ask.tag # NoTag
      BY <1>2, <1>4
    <3>2. engine.running = "sync" /\ d \in Core => r.ask.tag = held.tag
      BY <1>0 DEF SyncInv
    <3> QED BY <1>1, <3>1, <3>2, BodyAssumption DEF Sound
  <2> QED BY <1>1, <1>4, <2>1, <2>2 DEF Wanted
<1>5. CASE AnswerOf(r).status = "304" /\ d \in DOMAIN set /\ r.ask.tag = set[d].tag
  <2>1. brought = held
    BY <1>3, <1>5 DEF Taken
  <2>2. set[d].tag # NoTag /\ set[d].tag.body = set[d].body /\ set[d].body \in Bodies
    BY <1>0, <1>5, SetFacts
  <2>3. ASSUME engine.running = "sync", d \notin Pictures
        PROVE  held.body = set[d].body
    <3>1. d \in Core \/ d \in Favs
      BY <2>3 DEF Docs
    <3>2. d \notin Favs
      BY <1>0, <1>5, <2>2, <2>3 DEF SyncInv
    <3>3. r.ask.tag = held.tag
      BY <1>0, <2>3, <3>1, <3>2 DEF SyncInv
    <3> QED BY <1>1, <1>5, <2>2, <3>3 DEF Sound
  <2>4. d \in Core => d \notin Pictures
    BY KindsAssumption
  <2> QED BY <1>1, <1>5, <2>1, <2>2, <2>3, <2>4, BodyAssumption DEF Wanted
<1>6. CASE AnswerOf(r).status = "200" /\ d \in DOMAIN set /\ AnswerOf(r).file = set[d]
  <2>1. brought = set[d]
    BY <1>3, <1>6 DEF Taken
  <2>2. set[d] \in Files /\ Sound(set[d]) /\ set[d].body \in Bodies \ OwnBodies
    BY <1>0, <1>6, SetFacts
  <2> QED BY <1>6, <2>1, <2>2, BodyAssumption DEF Wanted
<1>7. CASE AnswerOf(r).status = "404" /\ d \in Pictures \ DOMAIN set
  <2>1. brought = engine.aside[d]
    BY <1>3, <1>7 DEF Taken
  <2>2. d \notin Core
    BY <1>7, KindsAssumption
  <2> QED BY <1>0, <1>1, <1>7, <2>1, <2>2 DEF SyncInv
<1> QED BY <1>4, <1>5, <1>6, <1>7, AnswerShape

(* A put in hand that the engine still asks for goes back as it came.      *)
LEMMA PutBrings ==
  ASSUME IInv, NEW r \in list, r.ask \in engine.queue, r.ask.verb = "put"
  PROVE  LET brought == Taken(engine, AnswerOf(r)) IN
         /\ brought \in Files /\ Sound(brought) /\ AnswerOf(r).to = r.ask
         /\ brought.body = engine.store[r.ask.of].body
<1>1. /\ r.ask.of \in Docs /\ r.body \in Bodies /\ r.body = engine.store[r.ask.of].body
  BY OwnAssumption DEF IInv, ListInv, Puts, Docs
<1> DEFINE echo == File(r.body, Tag("ours", r.body))
<1>2. echo \in Files /\ Sound(echo) /\ echo.body = r.body
  BY <1>1 DEF File, Files, Tag, Tags, Sound
<1>3. AnswerOf(r) = Answer(r.ask, "200", echo)
  BY AnswerShape
<1> HIDE DEF echo
<1>4. AnswerOf(r).to = r.ask /\ AnswerOf(r).status = "200" /\ AnswerOf(r).file = echo
  BY <1>3 DEF Answer
<1>5. Taken(engine, AnswerOf(r)) = echo
  BY <1>1, <1>4 DEF Taken
<1> QED BY <1>1, <1>2, <1>4, <1>5

LEMMA AnswersProper ==
  ASSUME IInv, step = "write"
  PROVE  /\ \A a \in Matched(engine, Answers) : Proper(engine, a)
         /\ \A a \in Matched(engine, Answers) : \E r \in list : a = AnswerOf(r) /\ a.to = r.ask
<1>1. \A r \in list : r.ask \in Asks
  BY DEF IInv, TypeOK
<1>2. \A q \in Asks : q.verb \in {"get", "put", "POST"} /\ (q.of \in Docs => q.verb # "POST")
  BY EndingAssumption DEF Asks, FINISHED, ABORT, Ask
<1> SUFFICES ASSUME NEW a \in Matched(engine, Answers)
             PROVE  Proper(engine, a) /\ \E r \in list : a = AnswerOf(r) /\ a.to = r.ask
  OBVIOUS
<1>3. PICK r \in list : a = AnswerOf(r)
  BY DEF Matched, Answers
<1>4. a.to = r.ask
  <2>1. r.ask.verb = "put" => AnswerOf(r).to = r.ask
    BY AnswerShape DEF Answer
  <2> QED BY <1>1, <1>2, <1>3, <2>1, AnswerShape
<1>5. r.ask \in engine.queue
  BY <1>4 DEF Matched
<1>6. Proper(engine, a)
  <2> SUFFICES ASSUME r.ask.of \in Docs PROVE Proper(engine, a)
    BY <1>4 DEF Proper
  <2>1. CASE r.ask.verb = "put"
    BY <1>3, <1>4, <1>5, <2>1, PutBrings DEF Proper
  <2>2. CASE r.ask.verb = "get"
    BY <1>3, <1>4, <1>5, <2>2, GetBrings DEF Proper
  <2> QED BY <1>1, <1>2, <2>1, <2>2
<1> QED BY <1>3, <1>4, <1>6

-----------------------------------------------------------------------------
(* Steps of many actions.                                                  *)

LEMMA Limits ==
  /\ MaxEmpty \in Nat \ {0} /\ MaxHandOuts \in Nat \ {0} /\ MaxChanges \in Nat /\ MaxFaults \in Nat
  /\ 0 \in 0..MaxEmpty /\ 0 \in 0..MaxHandOuts + 1 /\ 0 \in 0..MaxHandOuts
  BY LimitAssumption

LEMMA UpKeyFacts ==
  /\ \A d : UpKey(d) = <<d, IF d \in Favs THEN "up" ELSE "down">>
  /\ \A d \in Docs : UpKey(d) \in Addresses
<1>1. \A d : UpKey(d) = <<d, IF d \in Favs THEN "up" ELSE "down">>
  BY DEF UpKey, AddressOf
<1> QED BY <1>1 DEF Addresses

(* The run is refused.                                                     *)
LEMMA Refusal ==
  ASSUME IInv, End("refused"), stage' = stage, set' = set, changes' = changes,
         handOuts' \in [Addresses -> 0..MaxHandOuts + 1], faults' \in 0..MaxFaults,
         lab' \in SUBSET (Docs \X Bodies), handedUp' \subseteq {UpKey(d) : d \in Core \cup Favs},
         EngineInv(engine'), KeptInv',
         stage = "sync" => engine'.puts = {},
         handedUp' # {} =>
           \/ engine'.running = "none"
           \/ engine'.running = "hand over" /\ stage # "sync"
           \/ /\ engine'.running = "sync" /\ stage = "sync" /\ ~Clashes'
              /\ \A d \in engine'.got \ Pictures : engine'.aside[d].body = Wanted(d)'
  PROVE  IInv'
<1>1. step' = "done" /\ outcome' = "refused" /\ list' = {} /\ empty' = 0
  BY DEF End
<1>2. TypeOK'
  <2>1. handedUp' \subseteq Addresses
    BY UpKeyFacts DEF Docs
  <2>2. engine' \in Engines
    BY DEF EngineInv
  <2>3. list' \in SUBSET [ask : Asks, body : Bodies \cup {NoBody}]
    BY <1>1
  <2> QED BY <1>1, <2>1, <2>2, <2>3, Limits DEF IInv, TypeOK
<1>3. SetInv'
  BY DEF IInv, SetInv, TagOf
<1>4. StepInv'
  BY <1>1 DEF StepInv, Busy
<1>5. ListInv'
  BY <1>1 DEF ListInv, Puts, Asked
<1>6. ~Busy' /\ (HandingUp' <=> handedUp' # {})
  BY <1>1 DEF Busy, HandingUp, Puts
<1>7. CostInv'
  BY <1>6 DEF CostInv
<1>8. HandedUpInv'
  BY <1>1, <1>6 DEF HandedUpInv
<1>9. GatheredInv'
  BY <1>6 DEF GatheredInv, Ours
<1>10. DeliveryInv'
  BY <1>1, <1>6 DEF DeliveryInv
<1> QED BY <1>2, <1>3, <1>4, <1>5, <1>7, <1>8, <1>9, <1>10 DEF IInv

(* The same, when the remote is as it was, or holds the same and runs what *)
(* it ran.                                                                 *)
LEMMA RefusalOnly ==
  ASSUME IInv, Refuse, UNCHANGED <<set, handedUp, lab, changes>>, faults' \in 0..MaxFaults,
         step \notin {"unplugged", "done"},
         EngineInv(engine'), KeptInv',
         engine'.puts \subseteq engine.puts,
         \/ engine'.running = engine.running
         \/ engine'.running = "hand over" /\ stage # "sync",
         Busy /\ engine'.running = "sync" /\ stage = "sync" =>
           \A d \in engine'.got \ Pictures : engine'.aside[d].body = Wanted(d)'
  PROVE  IInv'
<1>1. End("refused") /\ stage' = stage /\ handOuts' = handOuts
  BY DEF Refuse
<1>2. /\ handOuts \in [Addresses -> 0..MaxHandOuts + 1] /\ lab \in SUBSET (Docs \X Bodies)
      /\ handedUp \subseteq {UpKey(d) : d \in Core \cup Favs}
  BY DEF IInv, TypeOK, HandedUpInv
<1>3. stage = "sync" => engine.puts = {} /\ (handedUp # {} => engine.running # "hand over")
  BY DEF IInv, CostInv, HandingUp
<1>4. handedUp # {} /\ engine.running = "sync" => stage = "sync" /\ Busy
  BY DEF IInv, HandedUpInv, HandingUp, Busy
<1>5. handedUp # {} /\ engine.running = "sync" => ~Clashes
  BY <1>4 DEF IInv, GatheredInv, Ours
<1>6. Clashes' = Clashes
  BY DEF Clashes
<1>7. engine.running \in {"none", "hand over", "sync"}
  BY EngineTyped DEF IInv, EngineInv
<1>8. handedUp # {} =>
        \/ engine'.running = "none"
        \/ engine'.running = "hand over" /\ stage # "sync"
        \/ /\ engine'.running = "sync" /\ stage = "sync" /\ ~Clashes'
           /\ \A d \in engine'.got \ Pictures : engine'.aside[d].body = Wanted(d)'
  BY <1>3, <1>4, <1>5, <1>6, <1>7
<1>9. stage = "sync" => engine'.puts = {}
  BY <1>3
<1> QED BY <1>1, <1>2, <1>8, <1>9, Refusal

(* The process is gone.                                                    *)
LEMMA GoneKeeps ==
  ASSUME IInv, Gone, faults' \in 0..MaxFaults
  PROVE  IInv'
<1>1. /\ step' = "unplugged" /\ outcome' = "none" /\ stage' = "before" /\ set' = <<>>
      /\ list' = {} /\ handedUp' = {} /\ empty' = 0 /\ handOuts' = [a \in Addresses |-> 0]
      /\ engine' = engine /\ lab' = lab /\ changes' = changes
  BY DEF Gone, Unchanged
<1>2. DOMAIN set' = {}
  BY <1>1
<1>3. TypeOK'
  <2>1. handOuts' \in [Addresses -> 0..MaxHandOuts + 1]
    BY <1>1, Limits
  <2>2. list' \in SUBSET [ask : Asks, body : Bodies \cup {NoBody}]
    BY <1>1
  <2> QED BY <1>1, <1>2, <2>1, <2>2, Limits DEF IInv, TypeOK
<1>4. EngineInv(engine)' /\ KeptInv'
  BY <1>1 DEF IInv, KeptInv
<1>5. SetInv' /\ StepInv' /\ ListInv'
  BY <1>1, <1>2, LimitAssumption DEF SetInv, StepInv, ListInv, Busy, Puts, Asked
<1>6. CostInv' /\ HandedUpInv' /\ GatheredInv' /\ DeliveryInv'
  BY <1>1 DEF CostInv, HandedUpInv, GatheredInv, DeliveryInv, HandingUp, Puts, Ours, Busy
<1> QED BY <1>3, <1>4, <1>5, <1>6 DEF IInv

(* The remote moves by itself, and its store and what waits stay.          *)
LEMMA QuietKeeps ==
  ASSUME IInv, UNCHANGED run, changes' = changes, faults' \in 0..MaxFaults,
         EngineInv(engine'), engine'.store = engine.store, engine'.puts = engine.puts,
         engine'.running \in {engine.running, "none"},
         FINISHED \in engine'.queue => FINISHED \in engine.queue,
         \A q \in engine'.queue : q.verb = "put" => q \in engine.queue,
         engine'.running = "sync" => /\ engine'.got = engine.got
                                     /\ \A d \in Docs \ Pictures : engine'.aside[d] = engine.aside[d]
  PROVE  IInv'
<1>0. /\ step' = step /\ stage' = stage /\ set' = set /\ list' = list /\ handedUp' = handedUp
      /\ handOuts' = handOuts /\ empty' = empty /\ outcome' = outcome /\ lab' = lab
  BY DEF run
<1>1. TypeOK'
  BY <1>0 DEF IInv, TypeOK, EngineInv
<1>2. SetInv'
  BY <1>0 DEF IInv, SetInv, TagOf
<1>3. StepInv'
  BY <1>0 DEF IInv, StepInv, Busy
<1>4. /\ Asked(FINISHED)' = Asked(FINISHED) /\ Puts' = Puts /\ (Ends' => Ends)
      /\ HandingUp' = HandingUp /\ Busy' = Busy /\ Clashes' = Clashes
  BY <1>0 DEF Asked, Puts, Ends, HandingUp, Busy, Clashes
<1>5. ListInv'
  <2>1. ASSUME NEW r \in Puts, r.ask \in engine'.queue PROVE r.body = engine.store[r.ask.of].body
    <3>1. r.ask.verb = "put"
      BY DEF Puts
    <3>2. r.ask \in engine.queue
      BY <2>1, <3>1
    <3> QED BY <3>2 DEF IInv, ListInv
  <2>2. \A r : RefusesToAnswer(r)' = RefusesToAnswer(r)
    BY <1>0 DEF RefusesToAnswer
  <2>3. Kept(Puts)' = Kept(Puts)
    BY <1>4 DEF Kept
  <2> QED BY <1>0, <1>4, <2>1, <2>2, <2>3 DEF IInv, ListInv
<1>6. KeptInv'
  BY <1>0 DEF IInv, KeptInv
<1>7. CostInv'
  BY <1>0, <1>4 DEF IInv, CostInv
<1>8. HandedUpInv'
  BY <1>0, <1>4 DEF IInv, HandedUpInv
<1>9. GatheredInv'
  <2> SUFFICES ASSUME Ours' PROVE GatheredInv'
    BY DEF GatheredInv
  <2>1. engine'.running = "sync" /\ engine.running = "sync" /\ Ours
    BY <1>0, <1>4 DEF Ours
  <2>2. \A d \in Docs : Wanted(d)' = Wanted(d)
    BY <1>0 DEF Wanted
  <2>3. engine.got \subseteq Docs
    BY EngineTyped DEF IInv, EngineInv
  <2> QED BY <1>4, <2>1, <2>2, <2>3 DEF IInv, GatheredInv
<1>10. DeliveryInv'
  <2>1. Delivery => Delivery'
    BY <1>0 DEF Delivery
  <2> QED BY <1>0, <1>4, <2>1 DEF IInv, DeliveryInv
<1> QED BY <1>1, <1>2, <1>3, <1>5, <1>6, <1>7, <1>8, <1>9, <1>10 DEF IInv

-----------------------------------------------------------------------------
(* The remote, its owner and the person at the computer.                   *)

LEMMA FaultTyped == ASSUME TypeOK, Fault \/ UNCHANGED faults PROVE faults' \in 0..MaxFaults
<1>1. faults \in 0..MaxFaults /\ MaxFaults \in Nat
  BY Limits DEF TypeOK
<1> QED BY <1>1 DEF Fault

LEMMA ScreensAskKeeps ==
  ASSUME IInv, NEW content \in SUBSET Content, ScreensAsk(content)
  PROVE  IInv'
<1>1. /\ engine.running = "sync" /\ engine' = AskedFor(engine, content) /\ UNCHANGED run
      /\ changes' = changes /\ faults' = faults
  BY DEF ScreensAsk
<1>2. /\ EngineInv(engine') /\ engine'.store = engine.store /\ engine'.puts = engine.puts
      /\ engine'.running = "sync" /\ engine'.got = engine.got /\ FINISHED \notin engine'.queue
      /\ \A d \in Docs \ Pictures : engine'.aside[d] = engine.aside[d]
  BY <1>1, AskedForFacts DEF IInv
<1>3. \A q \in engine'.queue : q.verb # "put"
  BY <1>2 DEF EngineInv, QueueInv, PutsInv
<1>4. faults' \in 0..MaxFaults
  BY <1>1, FaultTyped DEF IInv
<1> QED BY <1>1, <1>2, <1>3, <1>4, QuietKeeps

(* The abort of a sync that is on or has failed: nothing waits.            *)
LEMMA AbandonedKeeps ==
  ASSUME IInv, engine' = Abandoned(engine), UNCHANGED run, UNCHANGED <<changes, faults>>,
         engine.running = "sync" \/ engine.failed
  PROVE  IInv'
<1>1. /\ EngineInv(engine') /\ engine'.store = engine.store /\ engine'.puts = {}
      /\ engine'.running = "none" /\ engine'.queue = {ABORT} /\ FINISHED \notin engine'.queue
  BY AbandonedFacts DEF IInv
<1>2. engine.puts = {}
  BY DEF IInv, EngineInv, PutsInv
<1>3. \A q \in engine'.queue : q.verb # "put"
  BY <1>1, Nobody
<1>4. faults' \in 0..MaxFaults
  BY FaultTyped DEF IInv
<1> QED BY <1>1, <1>2, <1>3, <1>4, QuietKeeps

LEMMA PowerChangesKeeps ==
  ASSUME IInv, PowerChanges
  PROVE  IInv'
<1>1. engine' = PowerChanged(engine) /\ UNCHANGED run /\ changes' = changes
  BY DEF PowerChanges, PowerChanged
<1>2. /\ EngineInv(engine') /\ engine'.store = engine.store /\ engine'.puts = engine.puts
      /\ engine'.aside = engine.aside /\ engine'.running = engine.running
      /\ engine'.got = engine.got /\ engine'.queue \subseteq engine.queue
  BY <1>1, PowerChangedFacts DEF IInv
<1>3. faults' \in 0..MaxFaults
  BY FaultTyped DEF IInv, PowerChanges
<1> QED BY <1>1, <1>2, <1>3, QuietKeeps

(* A commit brings in only what the run's set holds or what was there.     *)
LEMMA CommitBrings ==
  ASSUME IInv, ScreensCommit
  PROVE  /\ EngineInv(engine') /\ engine'.puts = {} /\ engine.puts = {}
         /\ engine'.running = "none" /\ engine'.queue = {FINISHED} /\ engine'.store = engine.aside
         /\ UNCHANGED <<run, changes, faults>>
         /\ \A d \in Docs : \/ engine'.store[d].body = engine.store[d].body
                            \/ engine'.store[d].body \notin OwnBodies /\ engine.running = "sync"
         /\ Ours => ~Clashes /\ \A d \in Docs \ Pictures : engine'.store[d].body = Wanted(d)
<1>1. /\ engine.running # "none" /\ engine.queue = {} /\ engine' = Committed(engine)
      /\ engine.running = "sync" => engine.got = Docs
      /\ UNCHANGED <<run, changes, faults>>
  BY DEF ScreensCommit
<1>2. /\ EngineInv(engine') /\ engine'.store = engine.aside /\ engine'.puts = {} /\ engine.puts = {}
      /\ engine'.running = "none" /\ engine'.queue = {FINISHED}
  BY <1>1, CommittedFacts DEF IInv
<1>3. engine.running \in {"none", "hand over", "sync"}
  BY EngineTyped DEF IInv, EngineInv
<1>4. \A d \in Docs : \/ engine'.store[d].body = engine.store[d].body
                      \/ engine'.store[d].body \notin OwnBodies /\ engine.running = "sync"
  BY <1>1, <1>2, <1>3 DEF IInv, EngineInv, HandOverInv, SyncInv
<1>5. Ours => ~Clashes /\ \A d \in Docs \ Pictures : engine'.store[d].body = Wanted(d)
  BY <1>1, <1>2 DEF IInv, GatheredInv, Ours
<1> QED BY <1>1, <1>2, <1>4, <1>5

LEMMA ScreensCommitKeeps ==
  ASSUME IInv, ScreensCommit
  PROVE  IInv'
<1>1. /\ EngineInv(engine') /\ engine'.puts = {} /\ engine.puts = {}
      /\ engine'.running = "none" /\ engine'.queue = {FINISHED}
      /\ UNCHANGED <<run, changes, faults>>
      /\ \A d \in Docs : \/ engine'.store[d].body = engine.store[d].body
                         \/ engine'.store[d].body \notin OwnBodies
      /\ Ours => \A d \in Docs \ Pictures : engine'.store[d].body = Wanted(d)
  BY CommitBrings
<1>2. /\ step' = step /\ stage' = stage /\ set' = set /\ list' = list /\ handedUp' = handedUp
      /\ handOuts' = handOuts /\ empty' = empty /\ outcome' = outcome /\ lab' = lab
      /\ changes' = changes /\ faults' = faults
  BY <1>1 DEF run
<1>3. TypeOK'
  BY <1>1, <1>2 DEF IInv, TypeOK, EngineInv
<1>4. SetInv'
  BY <1>2 DEF IInv, SetInv, TagOf
<1>5. StepInv'
  BY <1>1, <1>2 DEF IInv, StepInv, Busy
<1>6. /\ Asked(FINISHED)' = Asked(FINISHED) /\ Puts' = Puts
      /\ HandingUp' = HandingUp /\ Busy' = Busy
  BY <1>2 DEF Asked, Puts, HandingUp, Busy
<1>7. ListInv'
  <2>1. \A r \in Puts : r.ask \notin engine'.queue
    BY <1>1, Nobody DEF Puts
  <2>2. \A r : RefusesToAnswer(r)' = RefusesToAnswer(r)
    BY <1>2 DEF RefusesToAnswer
  <2>3. Kept(Puts)' = Kept(Puts)
    BY <1>6 DEF Kept
  <2> QED BY <1>2, <1>6, <2>1, <2>2, <2>3 DEF IInv, ListInv
<1>8. KeptInv'
  BY <1>1, <1>2 DEF IInv, KeptInv
<1>9. CostInv' /\ HandedUpInv' /\ GatheredInv'
  <2>1. CostInv'
    BY <1>1 DEF CostInv
  <2>2. HandedUpInv'
    BY <1>1, <1>2 DEF IInv, HandedUpInv
  <2>3. GatheredInv'
    BY <1>1 DEF GatheredInv, Ours
  <2> QED BY <2>1, <2>2, <2>3
<1>10. DeliveryInv'
  <2>1. engine.running \in {"hand over", "sync"}
    BY EngineTyped DEF IInv, EngineInv, ScreensCommit
  <2>2. ~(step = "done" /\ outcome = "finished")
    BY <2>1 DEF IInv, DeliveryInv, Delivery
  <2>3. ASSUME stage = "sync", Busy PROVE Delivery'
    <3>1. engine.running = "sync" /\ Ours
      BY <2>1, <2>3 DEF IInv, StepInv, Ours
    <3>2. DOMAIN set \subseteq Docs
      BY DEF IInv, TypeOK
    <3>3. \A d \in DOMAIN set \ Pictures : engine'.store[d].body = set[d].body
      BY <1>1, <3>1, <3>2 DEF Wanted
    <3> QED BY <1>1, <1>2, <3>3 DEF Delivery
  <2> QED BY <1>2, <1>6, <2>2, <2>3 DEF DeliveryInv
<1> QED BY <1>1, <1>3, <1>4, <1>5, <1>7, <1>8, <1>9, <1>10 DEF IInv

LEMMA OwnerChangesKeeps ==
  ASSUME IInv, NEW d \in Core \cup Favs, NEW body \in OwnBodies, OwnerChanges(d, body)
  PROVE  IInv'
<1>1. /\ step = "unplugged" /\ changes < MaxChanges /\ engine' = Changed(engine, d, body)
      /\ changes' = changes + 1 /\ UNCHANGED run /\ faults' = faults
  BY DEF OwnerChanges
<1>2. /\ EngineInv(engine') /\ engine'.puts = engine.puts \cup {d}
      /\ engine'.running = "none" /\ engine'.queue = engine.queue
      /\ engine'.store = [engine.store EXCEPT ![d] = File(body, NoTag)]
  BY <1>1, ChangedKeeps DEF IInv
<1>3. /\ step' = step /\ stage' = stage /\ set' = set /\ list' = list /\ handedUp' = handedUp
      /\ handOuts' = handOuts /\ empty' = empty /\ outcome' = outcome /\ lab' = lab
  BY <1>1 DEF run
<1>4. stage = "before" /\ list = {} /\ handedUp = {}
  BY <1>1 DEF IInv, StepInv
<1>5. TypeOK'
  <2>1. changes \in 0..MaxChanges /\ MaxChanges \in Nat
    BY Limits DEF IInv, TypeOK
  <2>2. changes' \in 0..MaxChanges
    BY <1>1, <2>1
  <2> QED BY <1>1, <1>2, <1>3, <2>2 DEF IInv, TypeOK, EngineInv
<1>6. SetInv'
  BY <1>3 DEF IInv, SetInv, TagOf
<1>7. StepInv' /\ ListInv'
  BY <1>1, <1>3, <1>4 DEF IInv, StepInv, ListInv, Busy, Puts, Asked
<1>8. KeptInv'
  <2>1. engine.store \in [Docs -> Files]
    BY EngineTyped DEF IInv, EngineInv
  <2>2. \A x \in Docs : x # d => engine'.store[x] = engine.store[x]
    BY <1>2, <2>1
  <2> QED BY <1>2, <1>3, <2>2 DEF IInv, KeptInv
<1>9. CostInv' /\ HandedUpInv' /\ GatheredInv' /\ DeliveryInv'
  BY <1>1, <1>2, <1>3, <1>4
     DEF CostInv, HandedUpInv, GatheredInv, DeliveryInv, HandingUp, Puts, Ours, Busy
<1> QED BY <1>2, <1>5, <1>6, <1>7, <1>8, <1>9 DEF IInv

-----------------------------------------------------------------------------
(* The run: its start and the requests before the lists.                   *)

LEMMA SetsFacts ==
  ASSUME NEW s \in Sets
  PROVE  /\ DOMAIN s \subseteq Docs
         /\ \A d \in DOMAIN s : s[d] \in Files /\ \E b \in SetBodies : s[d] = File(b, TagOf(b))
<1>1. CASE s = Unchanged
  <2>1. DOMAIN s = {}
    BY <1>1 DEF Unchanged
  <2> QED BY <2>1
<1>2. CASE s \in {[d \in held |-> File(b, TagOf(b))] : held \in SetDomains, b \in SetBodies}
  <2>1. PICK held \in SetDomains, b \in SetBodies : s = [d \in held |-> File(b, TagOf(b))]
    BY <1>2
  <2>2. held \subseteq Docs /\ DOMAIN s = held /\ \A d \in held : s[d] = File(b, TagOf(b))
    BY <2>1, DomainAssumption
  <2>3. File(b, TagOf(b)) \in Files
    BY SetAssumption DEF File, Files, TagOf, Tag, Tags
  <2> QED BY <2>2, <2>3
<1> QED BY <1>1, <1>2 DEF Sets

LEMMA StartRunKeeps ==
  ASSUME IInv, NEW s \in Sets, StartRun(s)
  PROVE  IInv'
<1>1. /\ step = "unplugged" /\ set' = s
      /\ step' \in {"provisioning", "done"} /\ outcome' \in {"none", "refused"}
      /\ UNCHANGED <<engine, stage, list, handedUp, handOuts, empty, lab, changes, faults>>
  BY DEF StartRun
<1>2. stage = "before" /\ list = {} /\ handedUp = {} /\ \A a \in Addresses : handOuts[a] <= MaxHandOuts
  BY <1>1 DEF IInv, StepInv
<1>3. TypeOK' /\ SetInv'
  <2>1. TypeOK'
    BY <1>1, SetsFacts DEF IInv, TypeOK
  <2>2. SetInv'
    BY <1>1, SetsFacts DEF SetInv, TagOf
  <2> QED BY <2>1, <2>2
<1>4. EngineInv(engine') /\ KeptInv'
  BY <1>1 DEF IInv, KeptInv
<1>5. StepInv' /\ ListInv'
  BY <1>1, <1>2 DEF StepInv, ListInv, Busy, Puts, Asked
<1>6. CostInv' /\ HandedUpInv' /\ GatheredInv' /\ DeliveryInv'
  BY <1>1, <1>2 DEF CostInv, HandedUpInv, GatheredInv, DeliveryInv, HandingUp, Puts, Ours, Busy
<1> QED BY <1>3, <1>4, <1>5, <1>6 DEF IInv

(* A throw that left the remote alone.                                     *)
LEMMA RefusalAtRest ==
  ASSUME IInv, Refuse, UNCHANGED <<engine, set, handedUp, lab, changes>>, faults' \in 0..MaxFaults,
         step \notin {"unplugged", "done"}
  PROVE  IInv'
<1>1. EngineInv(engine') /\ KeptInv'
  BY DEF IInv, KeptInv
<1>2. stage' = stage
  BY DEF Refuse
<1>3. ASSUME Busy, engine'.running = "sync", stage = "sync"
      PROVE  \A d \in engine'.got \ Pictures : engine'.aside[d].body = Wanted(d)'
  <2>1. Ours
    BY <1>3 DEF Ours
  <2>2. \A d : Wanted(d)' = Wanted(d)
    BY DEF Wanted
  <2> QED BY <2>1, <2>2 DEF IInv, GatheredInv
<1> QED BY <1>1, <1>3, RefusalOnly

LEMMA ReadProvisioningKeeps ==
  ASSUME IInv, ReadProvisioning
  PROVE  IInv'
<1>1. step = "provisioning" /\ UNCHANGED <<set, handedUp, lab, changes>>
  BY DEF ReadProvisioning
<1>2. engine' = engine /\ faults' \in 0..MaxFaults
  BY FaultTyped DEF ReadProvisioning, Answered, Throws, IInv
<1>3. CASE Refuse
  BY <1>1, <1>2, <1>3, RefusalAtRest
<1>4. CASE step' = "hand over" /\ stage' = "hand over" /\ UNCHANGED <<list, empty, outcome, handOuts>>
  <2>1. list = {} /\ handedUp = {} /\ \A a \in Addresses : handOuts[a] <= MaxHandOuts
    BY <1>1 DEF IInv, StepInv
  <2>2. TypeOK'
    BY <1>1, <1>2, <1>4 DEF IInv, TypeOK
  <2>3. EngineInv(engine') /\ KeptInv' /\ SetInv'
    BY <1>1, <1>2 DEF IInv, KeptInv, SetInv, TagOf
  <2>4. StepInv' /\ ListInv'
    BY <1>1, <1>4, <2>1 DEF StepInv, ListInv, Busy, Puts, Asked
  <2>5. CostInv' /\ HandedUpInv' /\ GatheredInv' /\ DeliveryInv'
    BY <1>1, <1>4, <2>1
       DEF CostInv, HandedUpInv, GatheredInv, DeliveryInv, HandingUp, Puts, Ours, Busy
  <2> QED BY <2>2, <2>3, <2>4, <2>5 DEF IInv
<1> QED BY <1>3, <1>4 DEF ReadProvisioning, Throws

LEMMA AskForChangesKeeps ==
  ASSUME IInv, AskForChanges
  PROVE  IInv'
<1> DEFINE after == HandOver(engine)
<1>1. step = "hand over" /\ UNCHANGED <<set, handedUp, lab, changes>>
  BY DEF AskForChanges
<1>2. stage = "hand over" /\ list = {} /\ handedUp = {} /\ \A a \in Addresses : handOuts[a] <= MaxHandOuts
  BY <1>1 DEF IInv, StepInv
<1>3. /\ EngineInv(after) /\ after.store = engine.store /\ after.puts = engine.puts
      /\ \/ engine.puts = {} /\ after.running = engine.running
         \/ engine.puts # {} /\ after.running = "hand over" /\ FINISHED \notin after.queue
  BY HandOverFacts DEF IInv
<1>4. faults' \in 0..MaxFaults
  BY FaultTyped DEF AskForChanges, Answered, Throws, IInv
<1> HIDE DEF after
<1>5. CASE Throws(after)
  <2>1. Refuse /\ engine' \in {engine, after}
    BY <1>5 DEF Throws
  <2>2. CASE engine' = engine
    BY <1>1, <1>4, <2>1, <2>2, RefusalAtRest
  <2>3. CASE engine' = after
    <3>1. KeptInv' /\ EngineInv(engine')
      BY <1>1, <1>3, <2>3 DEF IInv, KeptInv
    <3>2. ~Busy
      BY <1>1 DEF Busy
    <3> QED BY <1>1, <1>2, <1>3, <1>4, <2>1, <2>3, <3>1, <3>2, RefusalOnly
  <2> QED BY <2>1, <2>2, <2>3
<1>6. CASE Answered(after) /\ step' = "read" /\ UNCHANGED <<stage, list, empty, outcome, handOuts>>
  <2>1. engine' = after
    BY <1>6 DEF Answered
  <2>2. TypeOK'
    BY <1>1, <1>3, <1>4, <1>6, <2>1 DEF IInv, TypeOK, EngineInv
  <2>3. EngineInv(engine') /\ KeptInv' /\ SetInv'
    BY <1>1, <1>3, <2>1 DEF IInv, KeptInv, SetInv, TagOf
  <2>4. StepInv' /\ ListInv'
    BY <1>1, <1>2, <1>6 DEF StepInv, ListInv, Busy, Puts, Asked
  <2>5. ~HandingUp' /\ (Ends' => FINISHED \in after.queue)
    BY <1>1, <1>2, <1>6, <2>1 DEF HandingUp, Puts, Ends, Asked
  <2>6. CostInv'
    BY <1>2, <1>3, <1>6, <2>1, <2>5 DEF CostInv
  <2>7. HandedUpInv' /\ GatheredInv' /\ DeliveryInv'
    BY <1>1, <1>2, <1>6, <2>5 DEF HandedUpInv, GatheredInv, DeliveryInv, Ours
  <2> QED BY <2>2, <2>3, <2>4, <2>6, <2>7 DEF IInv
<1> QED BY <1>5, <1>6 DEF AskForChanges, after

LEMMA AskForSyncKeeps ==
  ASSUME IInv, AskForSync
  PROVE  IInv'
<1> DEFINE after == StartSync(engine)
<1>1. step = "sync" /\ UNCHANGED <<set, handedUp, lab, changes>>
  BY DEF AskForSync
<1>2. /\ stage = "sync" /\ list = {} /\ engine.puts = {} /\ ~Busy
      /\ \A a \in Addresses : handOuts[a] <= MaxHandOuts
  BY <1>1 DEF IInv, StepInv, CostInv, Busy
<1>3. faults' \in 0..MaxFaults
  BY FaultTyped DEF AskForSync, Answered, Throws, IInv
<1>4. CASE Refuse /\ engine' = engine
  BY <1>1, <1>3, <1>4, RefusalAtRest
<1>5. CASE engine.running = "sync"
  <2>1. after = engine /\ SyncStatus(engine) = "202"
    BY <1>5 DEF StartSync, SyncStatus
  <2>2. Refuse /\ engine' = engine
    BY <2>1 DEF AskForSync, Answered, Throws
  <2> QED BY <1>4, <2>2
<1>6. CASE engine.running # "sync" /\ ~Clashes /\ engine' = after
  <2>1. /\ EngineInv(after) /\ after.store = engine.store /\ after.puts = {}
        /\ after.running = "sync" /\ after.got = {} /\ FINISHED \notin after.queue
    BY <1>6, StartSyncFacts DEF IInv
  <2> HIDE DEF after
  <2>2. EngineInv(engine') /\ KeptInv' /\ SetInv'
    BY <1>1, <1>2, <1>6, <2>1 DEF IInv, KeptInv, SetInv, TagOf
  <2>3. Clashes' = Clashes
    BY <1>1 DEF Clashes
  <2>4. CASE Refuse
    <3>1. End("refused") /\ stage' = stage /\ handOuts' = handOuts
      BY <2>4 DEF Refuse
    <3>2. /\ handOuts \in [Addresses -> 0..MaxHandOuts + 1] /\ lab \in SUBSET (Docs \X Bodies)
          /\ handedUp \subseteq {UpKey(d) : d \in Core \cup Favs}
      BY DEF IInv, TypeOK, HandedUpInv
    <3> QED BY <1>1, <1>2, <1>3, <1>6, <2>1, <2>2, <2>3, <3>1, <3>2, Refusal
  <2>5. CASE step' = "read" /\ UNCHANGED <<stage, list, empty, outcome, handOuts>>
    <3>1. TypeOK'
      BY <1>1, <1>3, <1>6, <2>1, <2>5 DEF IInv, TypeOK, EngineInv
    <3>2. StepInv' /\ ListInv'
      BY <1>2, <1>6, <2>1, <2>5 DEF StepInv, ListInv, Busy, Puts, Asked
    <3>3. ~Ends'
      BY <1>2, <1>6, <2>1, <2>5 DEF Ends, Asked
    <3>4. CostInv' /\ DeliveryInv'
      BY <1>6, <2>1, <2>5, <3>3 DEF CostInv, DeliveryInv
    <3>5. HandedUpInv'
      BY <1>1, <1>2, <2>5 DEF IInv, HandedUpInv
    <3>6. GatheredInv'
      BY <1>6, <2>1, <2>3 DEF GatheredInv
    <3> QED BY <2>2, <3>1, <3>2, <3>4, <3>5, <3>6 DEF IInv
  <2>6. Refuse \/ (step' = "read" /\ UNCHANGED <<stage, list, empty, outcome, handOuts>>)
    BY <1>6 DEF AskForSync, SyncStatus, Throws
  <2> QED BY <2>4, <2>5, <2>6
<1>7. \/ Refuse /\ engine' = engine
      \/ ~Clashes /\ engine' = after
  BY DEF AskForSync, Answered, Throws
<1> QED BY <1>4, <1>5, <1>6, <1>7

-----------------------------------------------------------------------------
(* The lists.                                                              *)

LEMMA ReadListKeeps ==
  ASSUME IInv, ReadList
  PROVE  IInv'
<1>1. step = "read" /\ UNCHANGED <<set, handedUp, lab, changes>>
  BY DEF ReadList
<1>2. engine' = engine /\ faults' \in 0..MaxFaults
  BY FaultTyped DEF ReadList, Answered, Throws, IInv
<1>3. /\ list = {} /\ Busy /\ stage \in {"hand over", "sync"}
      /\ \A a \in Addresses : handOuts[a] <= MaxHandOuts
  BY <1>1 DEF IInv, StepInv, Busy
<1>4. EngineInv(engine') /\ KeptInv' /\ SetInv' /\ Clashes' = Clashes
  BY <1>1, <1>2 DEF IInv, KeptInv, SetInv, TagOf, Clashes
<1>5. /\ engine \in Engines /\ QueueInv(engine) /\ PutsInv(engine) /\ engine.queue \subseteq Asks
  BY EngineTyped DEF IInv, EngineInv
<1>6. CASE Refuse
  BY <1>1, <1>2, <1>6, RefusalAtRest
<1>7. CASE /\ empty' = empty + 1 /\ empty + 1 < MaxEmpty
           /\ UNCHANGED <<step, stage, list, outcome, handOuts>>
  <2>1. TypeOK'
    <3>1. empty \in 0..MaxEmpty /\ MaxEmpty \in Nat
      BY Limits DEF IInv, TypeOK
    <3>2. empty' \in 0..MaxEmpty
      BY <1>7, <3>1
    <3> QED BY <1>1, <1>2, <1>7, <3>2 DEF IInv, TypeOK
  <2>2. StepInv' /\ ListInv'
    BY <1>1, <1>2, <1>3, <1>7 DEF IInv, StepInv, ListInv, Busy, Puts, Asked
  <2>3. CostInv' /\ HandedUpInv' /\ GatheredInv' /\ DeliveryInv'
    <3>1. CostInv'
      BY <1>1, <1>2, <1>7 DEF IInv, CostInv, Busy, HandingUp, Ends, Asked, Puts
    <3>2. HandedUpInv'
      BY <1>1, <1>2, <1>7 DEF IInv, HandedUpInv, HandingUp, Puts
    <3>3. GatheredInv'
      BY <1>1, <1>2, <1>4, <1>7 DEF IInv, GatheredInv, Ours, Busy, Wanted
    <3>4. DeliveryInv'
      BY <1>1, <1>2, <1>7 DEF IInv, DeliveryInv, Delivery, Busy, Ends, Asked
    <3> QED BY <3>1, <3>2, <3>3, <3>4
  <2> QED BY <1>4, <2>1, <2>2, <2>3 DEF IInv
<1>8. CASE ReadRequests
  <2> DEFINE counts == [a \in Addresses |->
               handOuts[a] + IF \E q \in engine.queue : AddressOf(q) = a THEN 1 ELSE 0]
  <2>1. counts \in [Addresses -> 0..MaxHandOuts + 1]
    <3>1. handOuts \in [Addresses -> 0..MaxHandOuts + 1] /\ MaxHandOuts \in Nat
      BY Limits DEF IInv, TypeOK
    <3>2. \A a \in Addresses : counts[a] \in 0..MaxHandOuts + 1
      <4> SUFFICES ASSUME NEW a \in Addresses PROVE counts[a] \in 0..MaxHandOuts + 1
        OBVIOUS
      <4>1. handOuts[a] \in 0..MaxHandOuts
        <5>1. handOuts[a] \in 0..MaxHandOuts + 1 /\ handOuts[a] <= MaxHandOuts
          BY <1>3, <3>1
        <5> QED BY <3>1, <5>1
      <4>2. counts[a] = handOuts[a] + 1 \/ counts[a] = handOuts[a] + 0
        OBVIOUS
      <4> HIDE DEF counts
      <4> QED BY <3>1, <4>1, <4>2
    <3> QED BY <3>2
  <2>2. handOuts' = counts
    BY <1>8 DEF ReadRequests
  <2> HIDE DEF counts
  <2>3. CASE End("refused") /\ UNCHANGED stage
    <3>1. /\ lab \in SUBSET (Docs \X Bodies)
          /\ handedUp \subseteq {UpKey(d) : d \in Core \cup Favs}
      BY DEF IInv, TypeOK, HandedUpInv
    <3>2. stage = "sync" => engine.puts = {} /\ engine.running # "hand over"
      BY <1>3 DEF IInv, CostInv, StepInv
    <3>3. handedUp # {} /\ engine.running = "sync" => stage = "sync" /\ ~Clashes
      BY <1>3 DEF IInv, HandedUpInv, HandingUp, GatheredInv, Ours
    <3>4. engine.running = "sync" /\ stage = "sync" =>
            \A d \in engine.got \ Pictures : engine.aside[d].body = Wanted(d)'
      BY <1>1, <1>2, <1>3 DEF IInv, GatheredInv, Ours, Wanted
    <3>5. engine.running \in {"none", "hand over", "sync"}
      BY <1>5, EngineTyped
    <3>6. handedUp # {} =>
            \/ engine.running = "none"
            \/ engine.running = "hand over" /\ stage # "sync"
            \/ /\ engine.running = "sync" /\ stage = "sync" /\ ~Clashes'
               /\ \A d \in engine.got \ Pictures : engine.aside[d].body = Wanted(d)'
      BY <1>4, <3>2, <3>3, <3>4, <3>5
    <3> QED BY <1>1, <1>2, <1>4, <2>1, <2>2, <2>3, <3>1, <3>2, <3>6, Refusal
  <2>4. CASE /\ ~TooOften(counts) /\ step' = "answer" /\ empty' = 0
             /\ list' = {Handed(q, BodyHanded(q)) : q \in engine.queue}
             /\ UNCHANGED <<stage, outcome>>
    <3>1. \A r \in list' : /\ r.ask \in engine.queue
                           /\ r.body = IF r.ask.verb = "put" THEN engine.store[r.ask.of].body ELSE NoBody
      BY <2>4 DEF Handed, BodyHanded
    <3>2. \A r \in Puts' : /\ r.ask.of \in engine.puts /\ r.ask.of \in Core \cup Favs
                           /\ r.body \in OwnBodies /\ r.body = engine.store[r.ask.of].body
      BY <1>5, <3>1 DEF Puts, QueueInv, PutsInv
    <3>3. list' \in SUBSET [ask : Asks, body : Bodies \cup {NoBody}]
      <4> SUFFICES ASSUME NEW q \in engine.queue
                   PROVE  Handed(q, BodyHanded(q)) \in [ask : Asks, body : Bodies \cup {NoBody}]
        BY <2>4
      <4>1. BodyHanded(q) \in Bodies \cup {NoBody}
        BY <1>5, OwnAssumption DEF BodyHanded, QueueInv, PutsInv
      <4> QED BY <1>5, <4>1 DEF Handed
    <3>4. TypeOK'
      BY <1>1, <1>2, <2>1, <2>2, <2>4, <3>3, Limits DEF IInv, TypeOK
    <3>5. StepInv'
      <4>1. \A a \in Addresses : counts[a] <= MaxHandOuts
        BY <2>1, <2>4, Limits DEF TooOften
      <4> QED BY <1>1, <1>2, <1>3, <2>2, <2>4, <4>1 DEF IInv, StepInv, Busy
    <3>6. Asked(FINISHED)' => FINISHED \in engine.queue /\ engine.queue = {FINISHED} /\ Puts' = {}
      <4>1. Asked(FINISHED)' => FINISHED \in engine.queue
        BY <3>1 DEF Asked
      <4>2. FINISHED \in engine.queue => engine.queue = {FINISHED}
        BY <1>5 DEF QueueInv
      <4>3. engine.queue = {FINISHED} => Puts' = {}
        BY <3>1, Nobody DEF Puts
      <4> QED BY <4>1, <4>2, <4>3
    <3>7. ListInv'
      <4>1. Asked(FINISHED)' => \A r \in list' : r.ask = FINISHED
        BY <3>1, <3>6
      <4> QED BY <1>2, <2>4, <3>2, <4>1 DEF ListInv
    <3>8. Ends' => Ends /\ Puts' = {}
      <4>1. FINISHED \in engine.queue => Puts' = {}
        BY <1>5, <3>1, Nobody DEF QueueInv, Puts
      <4> QED BY <1>2, <3>6, <4>1 DEF Ends
    <3>9. Busy' /\ (HandingUp' <=> handedUp # {} \/ Puts' # {})
      BY <1>1, <2>4 DEF Busy, HandingUp
    <3>10. Puts' # {} => engine.puts # {} /\ stage # "sync" /\ engine.running # "sync"
      <4>1. Puts' # {} => engine.puts # {}
        BY <3>2
      <4> QED BY <1>5, <4>1 DEF IInv, CostInv, PutsInv
    <3>11. CostInv'
      BY <1>1, <1>2, <1>3, <2>4, <3>8, <3>9, <3>10 DEF IInv, CostInv, HandingUp
    <3>12. HandedUpInv'
      BY <1>1, <1>2, <1>3, <2>4, <3>9, <3>10 DEF IInv, HandedUpInv, HandingUp
    <3>13. GatheredInv'
      BY <1>1, <1>2, <1>3, <1>4, <2>4 DEF IInv, GatheredInv, Ours, Wanted
    <3>14. DeliveryInv'
      BY <1>1, <1>2, <1>3, <2>4, <3>8 DEF IInv, DeliveryInv, Delivery
    <3> QED BY <1>4, <3>4, <3>5, <3>7, <3>11, <3>12, <3>13, <3>14 DEF IInv
  <2> QED BY <1>8, <2>3, <2>4 DEF ReadRequests, counts
<1>9. CASE ReadEmptyList
  <2>1. empty \in 0..MaxEmpty /\ MaxEmpty \in Nat
    BY Limits DEF IInv, TypeOK
  <2> QED BY <1>6, <1>7, <1>9, <2>1 DEF ReadEmptyList
<1> QED BY <1>6, <1>8, <1>9 DEF ReadList, Throws

(* Which puts were kept when a refusal stopped the list the model leaves   *)
(* open; they are among those in hand.                                     *)
LEMMA AnswerListKeeps ==
  ASSUME IInv, AnswerList
  PROVE  IInv'
<1>1. step = "answer" /\ UNCHANGED <<engine, set, changes, faults>>
  BY DEF AnswerList
<1> DEFINE puts == {r \in list : r.ask.verb = "put" /\ stage = "hand over"}
<1>2. PICK kept \in SUBSET puts :
         /\ lab' = lab \cup Kept(kept)
         /\ handedUp' = handedUp \cup {UpKey(r.ask.of) : r \in kept}
         /\ \/ Refuse
            \/ /\ ~\E r \in list : RefusesToAnswer(r)
               /\ kept = puts /\ step' = "write" /\ UNCHANGED <<stage, list, empty, outcome, handOuts>>
  BY DEF AnswerList
<1>3. kept \subseteq Puts /\ (stage = "sync" => kept = {})
  BY DEF Puts
<1>4. Busy /\ stage \in {"hand over", "sync"}
  BY <1>1 DEF IInv, StepInv, Busy
<1>5. \A r \in Puts : r.ask.of \in Core \cup Favs /\ r.body \in OwnBodies
  BY DEF IInv, ListInv
<1>6. lab' \in SUBSET (Docs \X Bodies)
  <2>1. Kept(kept) \subseteq Docs \X Bodies
    <3>1. \A r \in kept : r.ask.of \in Docs /\ r.body \in Bodies
      BY <1>3, <1>5, OwnAssumption DEF Docs
    <3>2. \A r \in kept : <<r.ask.of, r.body>> \in Docs \X Bodies
      BY <3>1
    <3> QED BY <3>2 DEF Kept
  <2>2. lab \in SUBSET (Docs \X Bodies)
    BY DEF IInv, TypeOK
  <2> QED BY <1>2, <2>1, <2>2
<1>7. handedUp' \subseteq {UpKey(d) : d \in Core \cup Favs}
  BY <1>2, <1>3, <1>5 DEF IInv, HandedUpInv
<1>8. handedUp' # {} => HandingUp
  BY <1>2, <1>3 DEF HandingUp
<1>9. stage = "sync" => handedUp' = handedUp
  BY <1>2, <1>3
<1>10. EngineInv(engine') /\ SetInv' /\ KeptInv'
  <2>1. lab \subseteq lab'
    BY <1>2
  <2> QED BY <1>1, <2>1 DEF IInv, KeptInv, SetInv, TagOf
<1>11. stage = "sync" => Clashes' = Clashes
  BY <1>1, <1>9 DEF Clashes
<1>12. \A d : Wanted(d)' = Wanted(d)
  BY <1>1 DEF Wanted
<1>13. CASE Refuse
  <2>1. End("refused") /\ stage' = stage /\ handOuts' = handOuts
    BY <1>13 DEF Refuse
  <2>2. handOuts \in [Addresses -> 0..MaxHandOuts + 1] /\ faults \in 0..MaxFaults
    BY DEF IInv, TypeOK
  <2>3. stage = "sync" => engine.puts = {} /\ engine.running # "hand over"
    BY <1>4 DEF IInv, CostInv, StepInv
  <2>4. HandingUp /\ engine.running = "sync" => stage = "sync" /\ ~Clashes
    BY <1>4 DEF IInv, HandedUpInv, GatheredInv, Ours
  <2>5. engine.running = "sync" /\ stage = "sync" =>
          \A d \in engine.got \ Pictures : engine.aside[d].body = Wanted(d)'
    BY <1>4, <1>12 DEF IInv, GatheredInv, Ours
  <2>6. engine.running \in {"none", "hand over", "sync"}
    BY EngineTyped DEF IInv, EngineInv
  <2>7. handedUp' # {} =>
          \/ engine'.running = "none"
          \/ engine'.running = "hand over" /\ stage # "sync"
          \/ /\ engine'.running = "sync" /\ stage = "sync" /\ ~Clashes'
             /\ \A d \in engine'.got \ Pictures : engine'.aside[d].body = Wanted(d)'
    BY <1>1, <1>8, <1>11, <2>3, <2>4, <2>5, <2>6
  <2> QED BY <1>1, <1>6, <1>7, <1>10, <2>1, <2>2, <2>3, <2>7, Refusal
<1>14. CASE /\ ~\E r \in list : RefusesToAnswer(r)
            /\ kept = puts /\ step' = "write" /\ UNCHANGED <<stage, list, empty, outcome, handOuts>>
  <2>1. TypeOK'
    <3>1. handedUp' \subseteq Addresses
      BY <1>7, UpKeyFacts DEF Docs
    <3> QED BY <1>1, <1>6, <1>14, <3>1 DEF IInv, TypeOK
  <2>2. StepInv'
    BY <1>1, <1>14 DEF IInv, StepInv, Busy
  <2>3. Puts' = Puts /\ Asked(FINISHED)' = Asked(FINISHED) /\ Ends' = Ends /\ Busy'
    BY <1>1, <1>14 DEF Puts, Asked, Ends, Busy
  <2>4. HandingUp' => HandingUp
    BY <1>8, <2>3 DEF HandingUp
  <2>5. ListInv'
    <3>1. kept = Puts
      <4>1. stage = "sync" => Puts = {}
        BY <1>14 DEF Puts, RefusesToAnswer
      <4> QED BY <1>3, <1>4, <1>14, <4>1 DEF Puts
    <3>2. Kept(Puts)' \subseteq lab'
      BY <1>2, <2>3, <3>1 DEF Kept
    <3>3. \A r \in list' : ~RefusesToAnswer(r)'
      BY <1>1, <1>14 DEF RefusesToAnswer
    <3> QED BY <1>1, <1>14, <2>3, <3>2, <3>3 DEF IInv, ListInv
  <2>6. CostInv'
    BY <1>1, <1>4, <1>14, <2>3, <2>4 DEF IInv, CostInv
  <2>7. HandedUpInv'
    BY <1>1, <1>7, <1>14, <2>4 DEF IInv, HandedUpInv
  <2>8. GatheredInv'
    BY <1>1, <1>4, <1>11, <1>12, <1>14 DEF IInv, GatheredInv, Ours
  <2>9. DeliveryInv'
    BY <1>1, <1>4, <1>14, <2>3 DEF IInv, DeliveryInv, Delivery
  <2> QED BY <1>10, <2>1, <2>2, <2>5, <2>6, <2>7, <2>8, <2>9 DEF IInv
<1> QED BY <1>2, <1>13, <1>14

(* What the answers do to the remote: an answered put is in the lab, and an*)
(* answered get brings what the run's sync should.                         *)
LEMMA AnsweredFacts ==
  ASSUME IInv, step = "write"
  PROVE  LET after == Respond(engine, Answers) IN
         /\ EngineInv(after) /\ after.store = engine.store /\ after.running = engine.running
         /\ after.puts \subseteq engine.puts /\ after.queue \subseteq engine.queue
         /\ \A d \in engine.puts \ after.puts : <<d, engine.store[d].body>> \in lab
         /\ Ours => \A d \in after.got \ Pictures : after.aside[d].body = Wanted(d)
<1> DEFINE after == Respond(engine, Answers)
           matched == Matched(engine, Answers)
<1>1. /\ engine \in Engines /\ EngineInv(engine)
      /\ \A r \in list : r.ask \in Asks /\ ~RefusesToAnswer(r)
      /\ Kept(Puts) \subseteq lab
  BY DEF IInv, ListInv, TypeOK, EngineInv
<1>2. /\ \A a \in matched : Proper(engine, a)
      /\ \A a \in matched : \E r \in list : a = AnswerOf(r) /\ a.to = r.ask
  BY AnswersProper
<1>3. EngineInv(after)
  BY <1>1, <1>2, RespondKeeps
<1>4. /\ after.store = engine.store /\ after.running = engine.running
      /\ \/ /\ \E a \in matched : a.to.verb = "get" /\ Refused(engine, a)
            /\ after.queue = {} /\ after.puts = {}
            /\ after.aside = engine.aside /\ after.got = engine.got
         \/ /\ after.queue = engine.queue \ {a.to : a \in matched}
            /\ after.puts = engine.puts \ {a.to.of : a \in PutsOf(matched)}
            /\ after.got = engine.got \cup {a.to.of : a \in Gets(matched)}
            /\ after.aside = [d \in Docs |-> IF \E a \in matched : a.to.of = d
                                 THEN Taken(engine, CHOOSE a \in matched : a.to.of = d)
                                 ELSE engine.aside[d]]
  BY <1>1, RespondFields
<1>5. \A a \in matched : a.to \in engine.queue
  BY DEF Matched
<1>6. Ours => \A d \in engine.got \ Pictures : engine.aside[d].body = Wanted(d)
  BY DEF IInv, GatheredInv
<1> HIDE DEF after, matched
<1>7. CASE /\ \E a \in matched : a.to.verb = "get" /\ Refused(engine, a)
           /\ after.queue = {} /\ after.puts = {}
           /\ after.aside = engine.aside /\ after.got = engine.got
  <2>1. PICK r \in list : r.ask.verb = "get"
    BY <1>2, <1>7
  <2>2. stage # "hand over"
    BY <1>1, <2>1 DEF RefusesToAnswer
  <2>3. stage = "sync"
    BY <2>2 DEF IInv, StepInv, Busy
  <2>4. engine.puts = {}
    BY <2>3 DEF IInv, CostInv
  <2> QED BY <1>3, <1>4, <1>6, <1>7, <2>4 DEF after
<1>8. CASE /\ after.queue = engine.queue \ {a.to : a \in matched}
           /\ after.puts = engine.puts \ {a.to.of : a \in PutsOf(matched)}
           /\ after.got = engine.got \cup {a.to.of : a \in Gets(matched)}
           /\ after.aside = [d \in Docs |-> IF \E a \in matched : a.to.of = d
                                THEN Taken(engine, CHOOSE a \in matched : a.to.of = d)
                                ELSE engine.aside[d]]
  <2>1. ASSUME NEW d \in engine.puts \ after.puts PROVE <<d, engine.store[d].body>> \in lab
    <3>1. PICK a \in PutsOf(matched) : a.to.of = d
      BY <1>8
    <3>2. a \in matched /\ a.to.verb = "put"
      BY DEF PutsOf
    <3>3. PICK r \in list : a.to = r.ask
      BY <1>2, <3>2
    <3>4. r \in Puts /\ r.ask.of = d /\ r.body = engine.store[d].body
      BY <1>5, <3>1, <3>2, <3>3 DEF IInv, ListInv, Puts
    <3> QED BY <1>1, <3>4 DEF Kept
  <2>2. ASSUME Ours, NEW d \in after.got \ Pictures PROVE after.aside[d].body = Wanted(d)
    <3>1. d \in Docs /\ engine.running = "sync"
      BY <1>3, <2>2, EngineTyped DEF EngineInv, Ours
    <3> DEFINE aside == after.aside
    <3>2. aside = [x \in Docs |-> IF \E a \in matched : a.to.of = x
                    THEN Taken(engine, CHOOSE a \in matched : a.to.of = x) ELSE engine.aside[x]]
      BY <1>8
    <3> HIDE DEF aside
    <3>3. \/ \E a \in matched : a.to.of = d /\ aside[d] = Taken(engine, a)
          \/ aside[d] = engine.aside[d] /\ ~\E a \in matched : a.to.of = d
      BY <3>1, <3>2, TakenAside
    <3>4. CASE aside[d] = engine.aside[d] /\ ~\E a \in matched : a.to.of = d
      <4>1. d \in engine.got
        BY <1>8, <2>2, <3>4 DEF Gets
      <4> QED BY <1>6, <2>2, <3>4, <4>1 DEF aside
    <3>5. CASE \E a \in matched : a.to.of = d /\ aside[d] = Taken(engine, a)
      <4>1. PICK a \in matched : a.to.of = d /\ aside[d] = Taken(engine, a)
        BY <3>5
      <4>2. PICK r \in list : a = AnswerOf(r) /\ a.to = r.ask
        BY <1>2
      <4>3. r.ask \in engine.queue /\ r.ask.of = d
        BY <1>5, <4>1, <4>2
      <4>4. r.ask.verb = "get"
        <5>1. r.ask.verb # "put"
          BY <1>1, <3>1, <4>3 DEF EngineInv, QueueInv, PutsInv
        <5>2. r.ask \notin {FINISHED, ABORT}
          BY <3>1, <4>3, EndingAssumption
        <5>3. r.ask \in Asks
          BY <1>1
        <5> QED BY <5>1, <5>2, <5>3 DEF Asks
      <4>5. Taken(engine, AnswerOf(r)).body = Wanted(d)
        BY <2>2, <3>1, <4>3, <4>4, GetBrings
      <4> QED BY <4>1, <4>2, <4>5 DEF aside
    <3> QED BY <3>3, <3>4, <3>5
  <2> QED BY <1>3, <1>4, <1>8, <2>1, <2>2 DEF after
<1> QED BY <1>4, <1>7, <1>8

LEMMA WriteAnswersKeeps ==
  ASSUME IInv, WriteAnswers
  PROVE  IInv'
<1> DEFINE after == Respond(engine, Answers)
<1>1. step = "write" /\ UNCHANGED <<set, handedUp, lab, changes>>
  BY DEF WriteAnswers
<1>2. /\ EngineInv(after) /\ after.store = engine.store /\ after.running = engine.running
      /\ after.puts \subseteq engine.puts /\ after.queue \subseteq engine.queue
      /\ \A d \in engine.puts \ after.puts : <<d, engine.store[d].body>> \in lab
      /\ Ours => \A d \in after.got \ Pictures : after.aside[d].body = Wanted(d)
  BY <1>1, AnsweredFacts
<1>3. faults' \in 0..MaxFaults
  BY FaultTyped DEF WriteAnswers, Answered, Throws, NotTaken, IInv
<1>4. \/ Answered(after) /\ AfterList /\ UNCHANGED handOuts
      \/ Refuse /\ engine' \in {engine, after}
  BY DEF WriteAnswers, NotTaken, Throws, Answers
<1> HIDE DEF after
<1>5. Busy /\ stage \in {"hand over", "sync"} /\ \A a \in Addresses : handOuts[a] <= MaxHandOuts
  BY <1>1 DEF IInv, StepInv, Busy
<1>6. \A d : Wanted(d)' = IF d \in DOMAIN set THEN set[d].body ELSE engine'.store[d].body
  BY <1>1 DEF Wanted
<1>7. SetInv' /\ Clashes' = Clashes
  BY <1>1 DEF IInv, SetInv, TagOf, Clashes
<1>8. CASE Refuse /\ engine' = engine
  BY <1>1, <1>3, <1>8, RefusalAtRest
<1>9. CASE engine' = after
  <2>1. EngineInv(engine') /\ KeptInv'
    BY <1>1, <1>2, <1>9 DEF IInv, KeptInv
  <2>2. \A d : Wanted(d)' = Wanted(d)
    BY <1>2, <1>6, <1>9 DEF Wanted
  <2>3. CASE Refuse
    <3>1. Busy /\ engine'.running = "sync" /\ stage = "sync" =>
            \A d \in engine'.got \ Pictures : engine'.aside[d].body = Wanted(d)'
      BY <1>2, <1>9, <2>2 DEF Ours
    <3> QED BY <1>1, <1>2, <1>3, <1>9, <2>1, <2>3, <3>1, RefusalOnly
  <2>4. CASE AfterList /\ UNCHANGED handOuts
    <3>1. /\ list' = {} /\ empty' \in {empty, 0} /\ ~Asked(FINISHED)'
          /\ \/ step' = "done" /\ outcome' = "aborted" /\ stage' = stage
             \/ /\ step' = "done" /\ outcome' = "finished" /\ stage' = stage
                /\ stage = "sync" /\ Asked(FINISHED)
             \/ /\ step' = "sync" /\ stage' = "sync" /\ outcome' = outcome
                /\ stage = "hand over" /\ Asked(FINISHED)
             \/ step' = "read" /\ stage' = stage /\ outcome' = outcome
      <4>1. list' = {} /\ empty' \in {empty, 0}
        <5>1. CASE Asked(ABORT)
          BY <2>4, <5>1 DEF AfterList, End
        <5>2. CASE ~Asked(ABORT) /\ Asked(FINISHED)
          BY <2>4, <5>2 DEF AfterList, End
        <5>3. CASE ~Asked(ABORT) /\ ~Asked(FINISHED)
          BY <2>4, <5>3 DEF AfterList
        <5> QED BY <5>1, <5>2, <5>3
      <4>2. ~Asked(FINISHED)'
        BY <4>1 DEF Asked
      <4>3. \/ step' = "done" /\ outcome' = "aborted" /\ stage' = stage
            \/ /\ step' = "done" /\ outcome' = "finished" /\ stage' = stage
               /\ stage = "sync" /\ Asked(FINISHED)
            \/ /\ step' = "sync" /\ stage' = "sync" /\ outcome' = outcome
               /\ stage = "hand over" /\ Asked(FINISHED)
            \/ step' = "read" /\ stage' = stage /\ outcome' = outcome
        BY <1>5, <2>4 DEF AfterList, End
      <4> QED BY <4>1, <4>2, <4>3
    <3>2. TypeOK'
      <4>1. list' \in SUBSET [ask : Asks, body : Bodies \cup {NoBody}]
        BY <3>1
      <4>2. engine' \in Engines
        BY <2>1 DEF EngineInv
      <4> QED BY <1>1, <1>3, <2>4, <3>1, <4>1, <4>2, Limits DEF IInv, TypeOK
    <3>3. ListInv' /\ (HandingUp' => HandingUp) /\ (Ends' => Ends)
      <4>1. Puts' = {}
        BY <3>1 DEF Puts
      <4>2. ListInv'
        BY <3>1, <4>1 DEF ListInv
      <4>3. Ends' => Ends
        BY <1>2, <1>9, <3>1 DEF Ends
      <4> QED BY <1>1, <4>1, <4>2, <4>3 DEF HandingUp
    <3>4. StepInv'
      <4>1. stage = "sync" => engine'.running # "hand over"
        BY <1>2, <1>5, <1>9 DEF IInv, StepInv
      <4> QED BY <1>5, <2>4, <3>1, <4>1 DEF StepInv, Busy
    <3>5. CostInv'
      <4>1. stage = "sync" \/ Ends => engine.puts = {} /\ (HandingUp => engine.running # "hand over")
        BY <1>5 DEF IInv, CostInv
      <4>2. stage' = "sync" \/ (stage' = "hand over" /\ Busy' /\ Ends') => stage = "sync" \/ Ends
        BY <3>1, <3>3 DEF Ends
      <4> QED BY <1>2, <1>9, <3>3, <4>1, <4>2 DEF CostInv
    <3>6. HandedUpInv'
      <4>1. handedUp' \subseteq {UpKey(d) : d \in Core \cup Favs}
        BY <1>1 DEF IInv, HandedUpInv
      <4>2. HandingUp' /\ engine'.running = "sync" => stage = "sync"
        BY <1>2, <1>9, <3>3 DEF IInv, HandedUpInv
      <4> QED BY <3>1, <4>1, <4>2 DEF HandedUpInv
    <3>7. GatheredInv'
      <4>1. Ours' => Ours
        BY <1>2, <1>5, <1>9, <3>1 DEF Ours, Busy
      <4> QED BY <1>2, <1>7, <1>9, <2>2, <4>1 DEF IInv, GatheredInv
    <3>8. DeliveryInv'
      <4>1. stage = "sync" /\ Ends => Delivery
        BY <1>5 DEF IInv, DeliveryInv
      <4>2. Delivery => Delivery'
        BY <1>1, <1>2, <1>9 DEF Delivery
      <4>3. stage' = "sync" /\ Busy' => stage = "sync"
        BY <3>1 DEF Busy
      <4>4. step' = "done" /\ outcome' = "finished" => stage = "sync" /\ Ends
        BY <3>1 DEF Ends
      <4> QED BY <3>3, <4>1, <4>2, <4>3, <4>4 DEF DeliveryInv
    <3> QED BY <1>7, <2>1, <3>2, <3>3, <3>4, <3>5, <3>6, <3>7, <3>8 DEF IInv
  <2> QED BY <1>4, <1>8, <2>3, <2>4
<1> QED BY <1>4, <1>8, <1>9 DEF Answered

-----------------------------------------------------------------------------
(* The theorems.                                                           *)

LEMMA StepKeeps == ASSUME IInv, [Next]_vars PROVE IInv'
<1>1. ASSUME NEW s \in Sets, StartRun(s) PROVE IInv'
  BY <1>1, StartRunKeeps
<1>2. ASSUME Answerer PROVE IInv'
  BY <1>2, ReadProvisioningKeeps, AskForChangesKeeps, AskForSyncKeeps, ReadListKeeps,
     AnswerListKeeps, WriteAnswersKeeps DEF Answerer
<1>3. ASSUME Screens PROVE IInv'
  <2>1. ASSUME NEW c \in SUBSET Content, ScreensAsk(c) PROVE IInv'
    BY <2>1, ScreensAskKeeps
  <2>2. ASSUME ScreensCommit PROVE IInv'
    BY <2>2, ScreensCommitKeeps
  <2>3. ASSUME ScreensAbort PROVE IInv'
    BY <2>3, AbandonedKeeps DEF ScreensAbort
  <2> QED BY <1>3, <2>1, <2>2, <2>3 DEF Screens
<1>4. ASSUME PowerChanges PROVE IInv'
  BY <1>4, PowerChangesKeeps
<1>5. ASSUME NEW d \in Core \cup Favs, NEW b \in OwnBodies, OwnerChanges(d, b) PROVE IInv'
  BY <1>5, OwnerChangesKeeps
<1>6. ASSUME KillRun \/ Unplug PROVE IInv'
  <2>1. Gone /\ faults' \in 0..MaxFaults
    BY <1>6, FaultTyped DEF KillRun, Unplug, IInv
  <2> QED BY <2>1, GoneKeeps
<1>7. ASSUME Recover PROVE IInv'
  BY <1>7, AbandonedKeeps DEF Recover
<1>8. ASSUME UNCHANGED vars PROVE IInv'
  <2>1. UNCHANGED run /\ engine' = engine /\ changes' = changes /\ faults' = faults
    BY <1>8 DEF vars
  <2>2. faults' \in 0..MaxFaults /\ EngineInv(engine')
    BY <2>1, FaultTyped DEF IInv
  <2> QED BY <2>1, <2>2, QuietKeeps
<1> QED BY <1>1, <1>2, <1>3, <1>4, <1>5, <1>6, <1>7, <1>8 DEF Next

LEMMA Invariance == Spec => []IInv
<1>1. Init => IInv
  BY InitHolds
<1>2. IInv /\ [Next]_vars => IInv'
  BY StepKeeps
<1> QED BY <1>1, <1>2, PTL DEF Spec

(* Every state of a run, whatever failed in it and in those before it, is  *)
(* one the types of the model describe.                                    *)
THEOREM TypeCorrect == Spec => []TypeOK
<1>1. IInv => TypeOK
  BY DEF IInv
<1> QED BY <1>1, Invariance, PTL

(* A run's sync gathers what the run's set holds of a document, or what the*)
(* remote holds: an answer of 304 stands for the body it is taken for      *)
(* (answerOf).                                                             *)
THEOREM GathersOurs == Spec => []GatheredIsOurs
<1>1. IInv => GatheredIsOurs
  BY DEF IInv, GatheredInv, GatheredIsOurs, Ours, Busy, Wanted
<1> QED BY <1>1, Invariance, PTL

(* A run that says it finished has put its set's documents on the remote.  *)
THEOREM FinishedMeansDelivered == Spec => []FinishedDelivers
<1>1. IInv => FinishedDelivers
  BY DEF IInv, DeliveryInv, Delivery, FinishedDelivers
<1> QED BY <1>1, Invariance, PTL

(* A refusal after the hand over is right that an abort costs nothing.     *)
THEOREM AbortCostIsWhatItSays == Spec => []AbortCostIsRight
<1>1. ASSUME IInv PROVE AbortCostIsRight
  <2>1. AbortCost = "nothing" => stage = "sync"
    BY <1>1 DEF IInv, TypeOK, AbortCost
  <2> QED BY <1>1, <2>1 DEF IInv, CostInv, HandingUp, AbortCostIsRight
<1> QED BY <1>1, Invariance, PTL

(* The store changes at the screens' commit and at the owner's hand, and   *)
(* nowhere else; so does a sync end, an abort apart.                       *)
StoreStays ==
  /\ engine'.store = engine.store
  /\ engine'.running = "none" => engine.running = "none" \/ engine'.queue = {ABORT}

LEMMA StoreSteps ==
  ASSUME IInv, [Next]_vars
  PROVE  StoreStays \/ ScreensCommit \/ (step = "unplugged" /\ changes' # changes)
<1>1. ASSUME NEW s \in Sets, StartRun(s) PROVE StoreStays
  BY <1>1 DEF StartRun, StoreStays
<1>2. ASSUME Answerer PROVE StoreStays
  <2>1. CASE ReadProvisioning \/ ReadList \/ AnswerList
    BY <2>1 DEF ReadProvisioning, ReadList, AnswerList, Answered, Throws, StoreStays
  <2>2. CASE AskForChanges
    <3>1. /\ HandOver(engine).store = engine.store
          /\ HandOver(engine).running \in {engine.running, "hand over"}
      BY HandOverFacts DEF IInv
    <3> QED BY <2>2, <3>1 DEF AskForChanges, Answered, Throws, StoreStays
  <2>3. CASE AskForSync
    <3>1. engine.running = "sync" => StartSync(engine) = engine
      BY DEF StartSync
    <3>2. /\ StartSync(engine).store = engine.store
          /\ StartSync(engine).running \in {engine.running, "sync"}
      BY <3>1, StartSyncFacts DEF IInv
    <3> QED BY <2>3, <3>2 DEF AskForSync, Answered, Throws, StoreStays
  <2>4. CASE WriteAnswers
    <3>1. /\ Respond(engine, Answers).store = engine.store
          /\ Respond(engine, Answers).running = engine.running
      BY <2>4, AnsweredFacts DEF WriteAnswers
    <3> QED BY <2>4, <3>1 DEF WriteAnswers, NotTaken, Answered, Throws, Answers, StoreStays
  <2> QED BY <1>2, <2>1, <2>2, <2>3, <2>4 DEF Answerer
<1>3. ASSUME NEW c \in SUBSET Content, ScreensAsk(c) PROVE StoreStays
  <2>1. engine.running = "sync" /\ engine' = AskedFor(engine, c)
    BY <1>3 DEF ScreensAsk
  <2> QED BY <2>1, AskedForFacts DEF IInv, StoreStays
<1>4. ASSUME ScreensAbort \/ Recover PROVE StoreStays
  <2>1. engine' = Abandoned(engine)
    BY <1>4 DEF ScreensAbort, Recover
  <2> QED BY <2>1, AbandonedFacts DEF IInv, StoreStays
<1>5. ASSUME PowerChanges PROVE StoreStays
  <2>1. engine' = PowerChanged(engine)
    BY <1>5 DEF PowerChanges, PowerChanged
  <2> QED BY <2>1, PowerChangedFacts DEF IInv, StoreStays
<1>6. ASSUME NEW d \in Core \cup Favs, NEW b \in OwnBodies, OwnerChanges(d, b)
      PROVE  step = "unplugged" /\ changes' # changes
  <2>1. step = "unplugged" /\ changes' = changes + 1
    BY <1>6 DEF OwnerChanges
  <2>2. changes \in 0..MaxChanges
    BY DEF IInv, TypeOK
  <2> QED BY <2>1, <2>2
<1>7. ASSUME KillRun \/ Unplug \/ UNCHANGED vars PROVE StoreStays
  BY <1>7 DEF KillRun, Unplug, Gone, vars, StoreStays
<1> QED BY <1>1, <1>2, <1>3, <1>4, <1>5, <1>6, <1>7 DEF Next, Screens

(* A change made on the remote's own screens leaves its store only once the*)
(* lab has it, or at its owner's hand: through kills, faults, recoveries   *)
(* and whatever set a later run writes, the hand over comes first.         *)
THEOREM ChangesReachTheLab == Spec => NothingLost
<1>1. ASSUME IInv, [Next]_vars
      PROVE  [\A d \in Docs :
                LET was == engine.store[d].body IN
                  was \in OwnBodies /\ engine'.store[d].body # was =>
                    <<d, was>> \in lab \/ changes' # changes]_vars
  <2> SUFFICES ASSUME NEW d \in Docs, engine.store[d].body \in OwnBodies,
                      engine'.store[d].body # engine.store[d].body
               PROVE  <<d, engine.store[d].body>> \in lab \/ changes' # changes
    OBVIOUS
  <2>1. CASE ScreensCommit
    <3>1. engine.puts = {}
      BY <1>1, <2>1, CommitBrings
    <3> QED BY <1>1, <3>1 DEF IInv, KeptInv
  <2> QED BY <1>1, <2>1, StoreSteps DEF StoreStays
<1> QED BY <1>1, Invariance, PTL DEF Spec, NothingLost

(* What the remote handed up in a run, that run never overwrites           *)
(* (refusalsBeforeASync's clash).                                          *)
THEOREM HandedUpIsNotOverwritten == Spec => HandedUpStays
<1>1. ASSUME IInv, [Next]_vars
      PROVE  [step # "unplugged" =>
                \A d \in Docs : UpKey(d) \in handedUp =>
                  engine'.store[d].body = engine.store[d].body]_vars
  <2> SUFFICES ASSUME step # "unplugged", NEW d \in Docs, UpKey(d) \in handedUp
               PROVE  engine'.store[d].body = engine.store[d].body
    OBVIOUS
  <2>1. CASE ScreensCommit
    <3>1. CASE engine.running # "sync"
      BY <1>1, <2>1, <3>1, CommitBrings
    <3>2. CASE engine.running = "sync"
      <4>1. Ours
        BY <1>1, <3>2 DEF IInv, HandedUpInv, HandingUp, Ours, Busy
      <4>2. ~Clashes /\ \A x \in Docs \ Pictures : engine'.store[x].body = Wanted(x)
        BY <1>1, <2>1, <4>1, CommitBrings
      <4>3. d \in Core \cup Favs
        BY <1>1, UpKeyFacts DEF IInv, HandedUpInv
      <4>4. d \notin DOMAIN set
        <5>1. CASE d \in Favs
          BY <4>2, <5>1 DEF Clashes
        <5>2. CASE d \notin Favs
          <6>1. UpKey(d) = DownKey(d)
            BY <5>2, UpKeyFacts DEF DownKey
          <6> QED BY <4>2, <6>1 DEF Clashes
        <5> QED BY <5>1, <5>2
      <4>5. d \notin Pictures
        BY <4>3, KindsAssumption
      <4> QED BY <4>2, <4>4, <4>5 DEF Wanted
    <3> QED BY <3>1, <3>2
  <2> QED BY <1>1, <2>1, StoreSteps DEF StoreStays
<1> QED BY <1>1, Invariance, PTL DEF Spec, HandedUpStays

(* A sync never commits a set that lacks a core document (answerOf refuses *)
(* a get of one the set lacks and the remote has no file for).             *)
THEOREM CommitsAreWhole == Spec => CommitsWhole
<1>1. ASSUME IInv, [Next]_vars
      PROVE  [engine.running = "sync" /\ engine'.running = "none" /\ engine'.queue = {FINISHED}
                /\ changes' = changes =>
                \A d \in Core : engine'.store[d].body # NoBody]_vars
  <2> SUFFICES ASSUME engine.running = "sync", engine'.running = "none",
                      engine'.queue = {FINISHED}, changes' = changes, NEW d \in Core
               PROVE  engine'.store[d].body # NoBody
    OBVIOUS
  <2>1. CASE ScreensCommit
    <3>1. engine.got = Docs /\ engine'.store = engine.aside
      BY <1>1, <2>1, CommitBrings DEF ScreensCommit
    <3>2. d \in Docs
      BY DEF Docs
    <3> QED BY <1>1, <3>1, <3>2 DEF IInv, EngineInv, SyncInv
  <2>2. ~StoreStays
    BY Nobody DEF StoreStays
  <2> QED BY <1>1, <2>1, <2>2, StoreSteps
<1> QED BY <1>1, Invariance, PTL DEF Spec, CommitsWhole
=============================================================================
