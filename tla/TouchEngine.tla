----------------------------- MODULE TouchEngine -----------------------------
(***************************************************************************)
(* The engine and the screens of a Harmony Touch, as far as the answerer   *)
(* of packages/corpus/src/touchsync.ts meets them.  Their code is not in   *)
(* the repository: this is what the answerer, its pretend remote           *)
(* (packages/corpus/test/touch-sync-run.ts) and the pages they cite rely   *)
(* on.  The module holds no state of its own: each operator gives the      *)
(* engine after one request, one answer or one step of the screens.        *)
(***************************************************************************)
EXTENDS Naturals, FiniteSets

CONSTANTS
  Core,       \* the configuration documents, six on a remote
  Favs,       \* the favourites documents the screens ask for
  Pictures,   \* the pictures they ask for
  Bodies,     \* what a document may hold
  NoBody      \* stands for a document the remote holds no file for

Docs    == Core \cup Favs \cup Pictures
Content == Favs \cup Pictures     \* asked for by the screens, after the core is in

ASSUME KindsAssumption ==
  Core \cap Favs = {} /\ Core \cap Pictures = {} /\ Favs \cap Pictures = {}
ASSUME BodyAssumption == NoBody \notin Bodies

(* A tag says whose it is and of which body; a request may carry none.     *)
Tag(by, body) == [by |-> by, body |-> body]
NoTag   == Tag("nobody", NoBody)
Tags    == [by : {"account", "ours", "kept copy", "nobody"}, body : Bodies \cup {NoBody}]

File(body, tag) == [body |-> body, tag |-> tag]
Missing == File(NoBody, NoTag)
Files   == [body : Bodies \cup {NoBody}, tag : Tags]
NoSet   == [d \in Docs |-> Missing]

(* What the engine asks the computer for.  `of' is a document, or an       *)
(* ending; the tag of a get is that of the copy it holds.                  *)
Ask(verb, of, tag) == [verb |-> verb, of |-> of, tag |-> tag]
FINISHED == Ask("POST", "proxy://Finished", NoTag)
ABORT    == Ask("POST", "proxy://Abort", NoTag)
Asks     == [verb : {"get", "put"}, of : Docs, tag : Tags] \cup {FINISHED, ABORT}

(* The address of an ending is no document's.                              *)
ASSUME EndingAssumption == {FINISHED.of, ABORT.of} \cap Docs = {}

(* The engine: the set it runs from, the set it is gathering, whether a    *)
(* hand over or a sync is marked running, the documents changed on its     *)
(* screens and not yet handed up, the request queue, whether the sync has  *)
(* failed, whether the screens take part (only on USB power), and what has *)
(* been answered in this sync.                                             *)
Engines == [store : [Docs -> Files], aside : [Docs -> Files],
            running : {"none", "hand over", "sync"}, puts : SUBSET Docs,
            queue : SUBSET Asks, failed : BOOLEAN, usb : BOOLEAN, got : SUBSET Docs]

EngineOf(store, usb) ==
  [store |-> store, aside |-> NoSet, running |-> "none", puts |-> {}, queue |-> {},
   failed |-> FALSE, usb |-> usb, got |-> {}]

(* A change made on the remote's own screens: saved with no tag, queued to *)
(* go up, and whatever was being gathered is given up.                     *)
Changed(e, d, body) ==
  [e EXCEPT !.store[d] = File(body, NoTag), !.puts = @ \cup {d},
            !.aside = NoSet, !.running = "none", !.failed = FALSE, !.got = {}]

(* setup.syncRemoteChanges: gets and endings left in the queue are dropped; *)
(* with no change waiting the finish is queued, else the changes are.      *)
HandOver(e) ==
  IF e.puts = {}
    THEN [e EXCEPT !.queue = {FINISHED}]
    ELSE [e EXCEPT !.queue = {Ask("put", d, NoTag) : d \in e.puts},
                   !.aside = e.store, !.running = "hand over"]

(* setup.sync: refused with 202 while one is marked running; otherwise the *)
(* queue is emptied, the changes still waiting to go up included, and each *)
(* core document is asked for with the tag of the copy held.               *)
SyncStatus(e) == IF e.running = "sync" THEN "202" ELSE "200"
StartSync(e) ==
  IF e.running = "sync" THEN e
    ELSE [e EXCEPT !.queue = {Ask("get", d, e.store[d].tag) : d \in Core},
                   !.puts = {}, !.aside = NoSet, !.running = "sync", !.failed = FALSE,
                   !.got = {}]

(* proxy.response.  An answer is [to, status, file], `to' being the ask it *)
(* names; one to nothing asked is dropped, and a refused one empties the   *)
(* queue and fails the sync.  A 304 copies the file the engine holds, and   *)
(* nothing when it holds none.                                             *)
Answer(to, status, file) == [to |-> to, status |-> status, file |-> file]

Taken(e, a) ==
  IF a.to.of \notin Docs THEN Missing
    ELSE CASE a.status = "200" -> a.file
           [] a.status = "304" -> e.store[a.to.of]
           [] OTHER            -> e.aside[a.to.of]

Refused(e, a) ==
  \/ a.to.of \in Core /\ a.status \notin {"200", "304"}
  \/ a.to.of \in Favs /\ (a.status \notin {"200", "304"} \/ a.file.tag = NoTag)

Respond(e, answers) ==
  LET matched == {a \in answers : a.to \in e.queue} IN
    IF \E a \in matched : a.to.verb = "get" /\ Refused(e, a)
      THEN [e EXCEPT !.queue = {}, !.puts = {}, !.failed = TRUE]
      ELSE [e EXCEPT
             !.queue = @ \ {a.to : a \in matched},
             !.puts  = @ \ {a.to.of : a \in {x \in matched : x.to.verb = "put"}},
             !.got   = @ \cup {a.to.of : a \in {x \in matched : x.to.verb = "get"}},
             !.aside = [d \in Docs |->
               IF \E a \in matched : a.to.of = d
                 THEN Taken(e, CHOOSE a \in matched : a.to.of = d) ELSE @[d]]]

(* proxy.abort: what was being gathered goes, and every waiting request.   *)
Abandoned(e) ==
  [e EXCEPT !.aside = NoSet, !.running = "none", !.failed = FALSE, !.puts = {},
            !.queue = {ABORT}, !.got = {}]

(* The screens, on USB power only.  After the core they ask for content:   *)
(* favourites always with no tag, pictures with the tag of the copy held,  *)
(* which is carried over first.  When they have asked for what they want   *)
(* they commit, and only then is the finish queued.                        *)
AskedFor(e, content) ==
  [e EXCEPT !.queue = {Ask("get", d, IF d \in Pictures THEN e.store[d].tag ELSE NoTag) :
                         d \in content},
            !.aside = [d \in Docs |-> IF d \in content \cap Pictures THEN e.store[d] ELSE @[d]]]

Committed(e) ==
  [e EXCEPT !.store = e.aside, !.aside = NoSet, !.running = "none", !.queue = {FINISHED},
            !.got = {}]
=============================================================================
