--------------------------- MODULE ActivityEngine ---------------------------
(***************************************************************************)
(* What a Harmony Touch's engine sends, and when, for a person pressing    *)
(* things on it: TouchEngine of packages/codec/src/harmony-touch/engine.ts.*)
(* An engine is a record: what it believes of every state of every device, *)
(* which activity runs, the lists it has still to send, and a clock.       *)
(*                                                                         *)
(* Every list of a press is built before the first of them is sent, which  *)
(* the code does in turn: sending changes no belief, so the lists come out *)
(* the same.  Of the documents' features the padding of a channel number,  *)
(* its prefix lists and the punctuation in it are left out.                *)
(***************************************************************************)
EXTENDS Integers, Sequences, SequencesExt

CONSTANTS
  Devices, Keys,            \* and the commands each device has
  InterKey, InterDevice,    \* each device's delays
  ByHand, AlwaysOn, KeptOn, \* how devices are powered
  States,                   \* each device's states, by name
  Online, AppDelay,         \* inputs that are an app, and their devices' delay
  Activities, Act,          \* an activity's lists
  Lamp,                     \* how long the lamp is on for a code
  Threshold,                \* a wait under this is none
  Idle,                     \* BETWEEN_STEPS_MS, longer than any wait
  Reach,                    \* no delay between devices, and no wait stated for one, is longer
  NoDevice, NoActivity, NoKey

ASSUME EngineAssumption ==
  /\ Idle \in Nat /\ Lamp \in Nat /\ Threshold \in Nat \ {0} /\ Reach \in 0..Idle
  /\ InterKey \in [Devices -> 0..Idle] /\ InterDevice \in [Devices -> 0..Reach]
  /\ NoDevice \notin Devices /\ NoActivity \notin Activities
  /\ {ByHand, AlwaysOn, KeptOn} \subseteq SUBSET Devices

Larger(a, b)  == IF a > b THEN a ELSE b
Smaller(a, b) == IF a < b THEN a ELSE b
Positive(n)   == Larger(n, 0)

-----------------------------------------------------------------------------
(* Building a list.  What is still to build is a list of steps, each with  *)
(* its device and the delay of the state whose list it came from (0 for    *)
(* none); what is built is the entries, and the belief.                    *)

Of(d, steps, own) == [i \in DOMAIN steps |-> [d |-> d, step |-> steps[i], own |-> own]]
Entry(d, key, delay, hold) ==
  [d |-> d, key |-> key, delay |-> delay, hold |-> hold, unordered |-> FALSE]

(* The place of a value; the last one's where it is not found.             *)
PlaceOf(values, value) ==
  IF \E i \in DOMAIN values : values[i] = value
  THEN CHOOSE i \in DOMAIN values : values[i] = value /\ \A j \in 1..i - 1 : values[j] # value
  ELSE Len(values)

Times(n, steps) == FlattenSeq([i \in 1..n |-> steps])

(* The shorter way round a stepping state's values.                        *)
Turns(s, from, to) ==
  LET n == Len(s.values)
      forward == IF to > from THEN to - from ELSE n - from + to
      back    == IF to > from THEN from + n - to ELSE from - to
  IN  IF back < forward /\ s.previous # <<>> THEN Times(back, s.previous)
                                             ELSE Times(forward, s.next)

Raise(ms)           == [do |-> "raise", ms |-> ms]
Believe(id, value)  == [do |-> "believe", state |-> id, value |-> value]

(* toState: what a state asked for a value puts on the list.               *)
PowerOnReset(d, s, value) == IF value = "On" THEN Of(d, s.powerOnReset, 0) ELSE <<>>

AskedFor(d, id, value, held) ==
  LET s     == States[d][id]
      own   == IF value \notin {"On", "Off"} THEN s.delay ELSE 0
      delay == IF value = "Off" THEN 0 ELSE s.delay
      Around(steps) == Of(d, s.start \o steps \o s.finish, own) \o Of(d, <<Raise(delay)>>, 0)
      now   == Of(d, <<Believe(id, value)>>, 0)
  IN  CASE id = "Power" /\ (d \in ByHand \/ (d \in AlwaysOn /\ value = "Off")) -> <<>>
        [] s.stepping ->
             IF s.values[held.place] = value THEN <<>>
             ELSE Around(Turns(s, held.place, PlaceOf(s.values, value)))
                  \o Of(d, s.reset, delay) \o PowerOnReset(d, s, value) \o now
        [] ~s.stepping /\ value \in DOMAIN s.set -> Around(s.set[value]) \o now
        [] ~s.stepping /\ value \notin DOMAIN s.set ->
             IF value \in DOMAIN s.change /\ held.current # value
             THEN Around(s.change[value]) \o PowerOnReset(d, s, value) \o now
             ELSE IF value \in {"On", "Off"} THEN now ELSE <<>>

HasState(d, id, value) ==
  id \in DOMAIN States[d] /\ \E i \in DOMAIN States[d][id].values : States[d][id].values[i] = value

Believing(held, d, id, value) ==
  LET s == States[d][id] IN
  IF s.stepping THEN [held EXCEPT ![d][id].place = PlaceOf(s.values, value)]
                ELSE [held EXCEPT ![d][id].current = value]

(* A channel is its digits, between the tuning's own lists.                *)
Digits(d, number) ==
  LET digits == [i \in DOMAIN number |-> [do |-> "press", key |-> number[i], hold |-> 0]] IN
  IF "ChannelTune" \in DOMAIN States[d]
  THEN States[d]["ChannelTune"].start \o digits \o States[d]["ChannelTune"].finish
  ELSE digits

Raised(list, ms) ==
  IF list = <<>> THEN list ELSE [list EXCEPT ![Len(list)].delay = Larger(@, ms)]

(* A build: the list so far and how much of it is power commands, what is  *)
(* believed, the list of the end steps, and the lists done with, each with *)
(* how it is sent.                                                         *)
Building(held) == [list |-> <<>>, left |-> 0, held |-> held, leaving |-> <<>>, todo |-> <<>>]

BelievedOnTwice(held, d) ==                     \* slip: both signs of being on asked for
  "Power" \in DOMAIN States[d] /\ held[d]["Power"].place # 1 /\ held[d]["Power"].current # "Off"
BelievedOn(held, d) ==
  "Power" \in DOMAIN States[d] /\ (held[d]["Power"].place # 1 \/ held[d]["Power"].current # "Off")

Power(value) == [do |-> "set", state |-> "Power", value |-> value]
Turned(ds, value) == [i \in DOMAIN ds |-> [d |-> ds[i], step |-> Power(value), own |-> 0]]

(* Every device believed on, in an order the engine does not fix.          *)
OffTheRest(b, order) ==
  Turned(SelectSeq(order, LAMBDA d : BelievedOn(b.held, d)), "Off")
  \o Of(NoDevice, <<[do |-> "unorder", from |-> Len(b.list)]>>, 0)

Unordered(list, from) ==
  IF Len(list) - from <= 1 THEN list
  ELSE [i \in DOMAIN list |-> IF i > from THEN [list[i] EXCEPT !.unordered = TRUE] ELSE list[i]]

(* An input that is an app takes the device's delay for apps after the last*)
(* of what is on the list for it.                                          *)
AppWait(list, x) ==
  LET mine == {i \in DOMAIN list : list[i].d = x.d} IN
  IF <<x.d, x.step.value>> \in Online /\ mine # {}
  THEN [list EXCEPT ![CHOOSE i \in mine : \A j \in mine : j <= i].delay = AppDelay[x.d]]
  ELSE list

Listed(b, how, list) ==
  [b EXCEPT !.todo = IF list = <<>> THEN @ ELSE Append(@, [how |-> how, list |-> list, left |-> b.left])]

(* The steps a step stands for, and what one that stands for itself does.  *)
Steps(b, x, s) ==
  CASE s.do = "set" /\ HasState(x.d, s.state, s.value) -> AskedFor(x.d, s.state, s.value, b.held[x.d][s.state])
    [] s.do = "channel" -> Of(x.d, Digits(x.d, s.number), 0)
    [] s.do = "off the rest" -> OffTheRest(b, s.order)
    [] OTHER -> <<>>

Step(b, x, s) ==
  CASE s.do = "wait" -> [b EXCEPT !.list = Append(@, Entry(x.d, NoKey, s.ms, 0))]
    [] s.do = "press" /\ x.d # NoDevice /\ s.key \in Keys[x.d] ->
         [b EXCEPT !.list = Append(@, Entry(x.d, s.key, Larger(InterKey[x.d], x.own), s.hold))]
    [] s.do = "raise" -> [b EXCEPT !.list = Raised(@, s.ms)]
    [] s.do = "believe" \/ (s.do = "force" /\ x.d # NoDevice /\ HasState(x.d, s.state, s.value)) ->
         [b EXCEPT !.held = Believing(@, x.d, s.state, s.value)]
    [] s.do = "swap"    -> [b EXCEPT !.list = b.leaving, !.leaving = b.list]
    [] s.do = "unorder" -> [b EXCEPT !.list = Unordered(@, s.from)]
    [] s.do = "left"    -> Listed(b, "in order", b.leaving)
    [] s.do = "powered" -> [b EXCEPT !.left = Len(b.list)]
    [] s.do = "app"     -> [b EXCEPT !.list = AppWait(@, s.input)]
    [] s.do = "list"    -> [Listed(b, s.how, b.list) EXCEPT !.list = <<>>, !.left = 0]
    [] OTHER -> b

Stands(x) == x.step.do = "off the rest" \/ (x.step.do \in {"set", "channel"} /\ x.d # NoDevice)

RECURSIVE Built(_, _)
Built(todo, b) ==
  IF todo = <<>> THEN b
  ELSE LET x == Head(todo) IN
       IF Stands(x) THEN Built(Steps(b, x, x.step) \o Tail(todo), b)
                    ELSE Built(Tail(todo), Step(b, x, x.step))

-----------------------------------------------------------------------------
(* An activity started, or Off, as one build: its lists, in the order they *)
(* are sent.                                                               *)

IsPowerOff(step) == step.do = "set" /\ step.state = "Power" /\ step.value = "Off"

(* The old activity's power offs are added for what the new one neither    *)
(* powers nor keeps on; its other end steps are a list of their own.       *)
DroppedUnused(d, to) ==                         \* slip: kept on between activities forgotten
  to = NoActivity \/ \A i \in DOMAIN Act[to].powerOn : Act[to].powerOn[i] # d
Dropped(d, to) == to = NoActivity \/ \A i \in DOMAIN Act[to].powerOn : Act[to].powerOn[i] # d /\ d \notin KeptOn

Then(do) == <<[d |-> NoDevice, step |-> [do |-> do], own |-> 0]>>
List(how) == <<[d |-> NoDevice, step |-> [do |-> "list", how |-> how], own |-> 0]>>

Leaving(xs, to) ==
  FlattenSeq([i \in DOMAIN xs |->
    IF ~IsPowerOff(xs[i].step) THEN Then("swap") \o <<xs[i]>> \o Then("swap")
    ELSE IF Dropped(xs[i].d, to) THEN <<xs[i]>> ELSE <<>>])

Inputs_(xs) ==
  [i \in DOMAIN xs |-> [d |-> NoDevice, step |-> [do |-> "app", input |-> xs[i]], own |-> 0]] \o xs

Tuning(a, number) ==
  IF number = <<>> THEN <<>>
  ELSE <<[d |-> Act[a].tuner, step |-> [do |-> "channel", number |-> number], own |-> 0]>> \o List("in order")

NoLists == [powerOn |-> <<>>, inputs |-> <<>>, enter |-> <<>>, leave |-> <<>>, channel |-> <<>>]
ListsOf(a) == IF a = NoActivity THEN NoLists ELSE Act[a]

Starting(from, to, number, order) ==
  LET new == ListsOf(to) IN
  Turned(new.powerOn, "On")
  \o Leaving(ListsOf(from).leave, to)
  \o (IF to = NoActivity
      THEN <<[d |-> NoDevice, step |-> [do |-> "off the rest", order |-> order], own |-> 0]>> ELSE <<>>)
  \o Then("left") \o Then("powered") \o Inputs_(new.inputs) \o List("schedule")
  \o new.enter \o List("in order")
  \o Tuning(to, IF number # <<>> THEN number ELSE new.channel)

-----------------------------------------------------------------------------
(* The engine.  Its clock is only ever read as a difference, so a device's *)
(* last send is kept as how long ago it was, no longer than matters.       *)

AtLoad == [last |-> NoDevice, ago |-> [d \in Devices |-> Reach],
           wait |-> [d \in Devices |-> 0], running |-> NoActivity, todo |-> <<>>,
           held |-> [d \in Devices |-> [id \in DOMAIN States[d] |-> [current |-> "Off", place |-> 1]]]]

Passing(e, ms) ==
  [e EXCEPT !.ago = [d \in Devices |-> Smaller(@[d] + ms, Larger(Reach, e.wait[d]))]]

(* At rest, and past every wait there was.                                 *)
Rested(e) == [e EXCEPT !.todo = <<>>, !.ago = AtLoad.ago, !.wait = AtLoad.wait]

(* What is asked of it is built on what it believes; a favourite goes to   *)
(* the running activity's tuner, or starts its own.                        *)
Asked(e, xs, to) ==
  LET b == Built(xs, Building(e.held)) IN [e EXCEPT !.held = b.held, !.todo = b.todo, !.running = to]

Starts(e, to, number, order) ==
  Asked(e, IF number # <<>> /\ e.running = to THEN Tuning(to, number)
                                             ELSE Starting(e.running, to, number, order), to)

(* A key goes out on its own, whatever the waits; one with a long press    *)
(* starts its device's wait, one without does not.                         *)
Press(e, d, key, long) ==
  [e EXCEPT !.todo = <<[how |-> IF long THEN "key" ELSE "silent",
                        list |-> <<Entry(d, key, InterKey[d], 0)>>, left |-> 0]>>]

(* Nor does a key's sequence ask for a state: its commands and waits are   *)
(* one list, each command behind its device's wait, whatever is running.   *)
KeySequence(e, steps) == Asked(e, steps \o List("in order"), e.running)

(* waitFor.                                                                *)
LeftOf(e, d) ==
  IF e.last = NoDevice THEN 0
  ELSE IF e.last = d THEN Positive(e.wait[d] - e.ago[d])
  ELSE Larger(Positive(InterDevice[d] - e.ago[e.last]), Positive(e.wait[d] - e.ago[d]))
WaitToTheLast(e, d) == LeftOf(e, d)             \* slip: no threshold under the wait
WaitBetween(e, d) ==                            \* slip: the device's own wait forgotten
  IF e.last \in {d, NoDevice} THEN LeftOf(e, d) ELSE Positive(InterDevice[d] - e.ago[e.last])
WaitFor(e, d) == LET w == LeftOf(e, d) IN IF w < Threshold THEN 0 ELSE w

(* A turn of the engine: what it is after it, what it sent, how long the   *)
(* turn took, and how far into it the code began.  The clock is a sum of   *)
(* fractions: a sleep may come out a grain short, and one under the        *)
(* threshold may not move it at all.                                       *)
Turn(e, out, lead, took) == [e |-> e, out |-> out, lead |-> lead, took |-> took]

Slept(ms, o) == o.late + (IF ms < Threshold THEN 0 ELSE ms - o.short)

Sent(e, d, delay) == [e EXCEPT !.last = d, !.ago[d] = 0, !.wait[d] = delay]

(* One entry, ms later; a wait of a device's is sent as nothing.           *)
Fired(e, x, ms, o) ==
  LET s == Passing(e, ms)
      lamp == o.before + Larger(x.hold, Lamp) + o.after
  IN  IF x.key = NoKey
      THEN Turn(Sent(s, x.d, IF s.last = x.d THEN Positive(x.delay - s.ago[x.d]) ELSE x.delay), <<>>, ms, ms)
      ELSE Turn(Sent(Passing(s, lamp), x.d, x.delay), <<x>>, ms + o.before, ms + lamp)

(* A press on its own: nothing waits for it if it is silent.               *)
Tapped(e, x, o) ==
  LET f == Fired(e, x, 0, o) IN
  IF Head(e.todo).how = "silent" THEN [f EXCEPT !.e = Passing(e, f.took)] ELSE f

Without(turn, i) ==
  LET t == Head(turn.e.todo)  list == RemoveAt(t.list, i) IN
  [turn EXCEPT !.e.todo = IF list = <<>> THEN Tail(@)
                          ELSE <<[t EXCEPT !.list = list, !.left = Positive(@ - 1)]>> \o Tail(@)]

(* sendInOrder: every entry behind its device's wait.                      *)
SendInOrder(e, o) ==
  LET x == Head(Head(e.todo).list)
      w == IF x.d = NoDevice THEN x.delay ELSE WaitFor(e, x.d)
      s == IF w > 0 THEN Slept(w, o) ELSE 0
  IN  Without(IF x.d = NoDevice THEN Turn(Passing(e, s), <<>>, s, s) ELSE Fired(e, x, s, o), 1)

(* schedule: in order while power commands are left; after them the first  *)
(* entry whose device is not waiting; else the shortest wait is slept.     *)
InTurn(list, left) == IF left > 0 THEN {1} ELSE DOMAIN list

Schedule(e, o) ==
  LET t     == Head(e.todo)
      waits == [i \in InTurn(t.list, t.left) |-> WaitFor(e, t.list[i].d)]
      next  == CHOOSE i \in DOMAIN waits :
                 \A j \in DOMAIN waits : waits[i] < waits[j] \/ (waits[i] = waits[j] /\ i <= j)
      slept == Slept(waits[next], o)
  IN  IF waits[next] = 0 THEN Without(Fired(e, t.list[next], 0, o), next)
      ELSE Turn(Passing(e, slept), <<>>, slept, slept)

(* The engine's next turn, at some overhead.                               *)
Goes(e, o) ==
  LET how == Head(e.todo).how IN
  CASE how = "in order" -> SendInOrder(e, o)
    [] how = "schedule" -> Schedule(e, o)
    [] OTHER -> Without(Tapped(e, Head(Head(e.todo).list), o), 1)

(* All of them at one overhead: the engine after them, and every code with *)
(* how long after the one before it; since is how long ago that one was.   *)
RECURSIVE RunOut(_, _, _, _)
RunOut(e, o, since, sends) ==
  IF e.todo = <<>> THEN [e |-> e, sends |-> sends]
  ELSE LET t == Goes(e, o) IN
       IF t.out = <<>> THEN RunOut(t.e, o, since + t.took, sends)
       ELSE RunOut(t.e, o, t.took - t.lead, Append(sends, [code |-> t.out[1], pause |-> since + t.lead]))
=============================================================================
