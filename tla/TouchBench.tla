----------------------------- MODULE TouchBench -----------------------------
(***************************************************************************)
(* A Harmony Touch tested at the bench against what its documents predict. *)
(* The test is derived by touchTest and walk of packages/bench/src/        *)
(* touchbench.ts, which run the engine of ActivityEngine at both ends of   *)
(* its timing band; the remote is that engine at overheads of its own,     *)
(* different at every send; the infrared monitor tells its repeats from its*)
(* presses (irmonitor.ts), and irsession.ts judges a step's presses.       *)
(*                                                                         *)
(* Before the test anything may have been started on the remote.  The      *)
(* devices are external: one is switched and takes an input as its codes   *)
(* say, and takes no input while it is still coming on.                    *)
(***************************************************************************)
EXTENDS ActivityEngine, Functions

CONSTANTS
  Orders,          \* orders of the devices Off may take
  Low, High,       \* the overheads at the ends of the band
  Overheads,       \* those a send or a sleep may meet
  Slack, HeldSlack, Grid,          \* PAUSE_SLACK_MS, HELD_CODE_SLACK_MS, 50 ms
  RepeatWindow,    \* REPEAT_WINDOW_US
  Effect,          \* what each device's commands do to it
  Inputs, WarmUp,  \* how many inputs a device has, and how long it takes to come on
  Favourites,      \* channels of an activity's
  KeyPresses,      \* keys: the device, the command, whether there is a long press
  KeySequences,    \* keys with a sequence on them: its commands and waits
  MaxBefore        \* bound: starts before the test

ASSUME BenchAssumption ==
  /\ WarmUp \in [Devices -> 0..Idle] /\ Inputs \in [Devices -> Nat \ {0}]
  /\ {Low, High} \subseteq Overheads
  /\ \A o \in Overheads : o \in [before : Nat, after : Nat, late : Nat, short : {0, 1}]

VARIABLES
  remote,      \* the Touch's engine
  model,       \* the engine the test is derived by, at rest between two steps
  real,        \* the devices: on or off, the input, how long ago they came on
  phase,       \* "before" the test, in a "step" of it, or "between" two
  expect,      \* what the step expects
  heard,       \* how far what was heard is judged
  paces,       \* what overheads the turns of this press met
  before       \* how many starts there were before the test

vars == <<remote, model, real, phase, expect, heard, paces, before>>

AtRest == remote.todo = <<>>

Nothing == [want |-> 1, found |-> 0, since |-> 0, ok |-> TRUE, last |-> <<>>, quiet |-> 0]

Init ==
  /\ remote = AtLoad /\ model = AtLoad
  /\ real = [d \in Devices |-> [on |-> FALSE, input |-> 1, age |-> WarmUp[d]]]
  /\ phase = "before" /\ expect = <<>> /\ heard = Nothing /\ paces = {} /\ before = 0

-----------------------------------------------------------------------------
(* What a person presses, on an engine.                                    *)

Actions ==
  [do : {"start"}, activity : Activities \cup {NoActivity}]
  \cup [do : {"favourite"}, activity : DOMAIN Favourites]
  \cup [do : {"key"}, press : KeyPresses]
  \cup [do : {"sequence"}, steps : KeySequences]

Pressed(e, a, order) ==
  CASE a.do = "key"       -> Press(e, a.press.d, a.press.key, a.press.long)
    [] a.do = "sequence"  -> KeySequence(e, a.steps)
    [] a.do = "start"     -> Starts(e, a.activity, <<>>, order)
    [] a.do = "favourite" -> Starts(e, a.activity, Favourites[a.activity], order)

-----------------------------------------------------------------------------
(* touchTest: what a step is expected to send, from the two ends.          *)

CodeOf(x)  == <<x.d, x.key>>
Same(sends, i) == i > 1 /\ CodeOf(sends[i - 1].code) = CodeOf(sends[i].code)

Predictable(lo, hi) ==
  /\ Len(lo) = Len(hi) /\ \A i \in DOMAIN lo : CodeOf(lo[i].code) = CodeOf(hi[i].code)
  /\ Cardinality({i \in DOMAIN lo : lo[i].code.unordered}) <= 1

Down(t) == Positive((t \div Grid) * Grid)
Up(t)   == ((t + Grid - 1) \div Grid) * Grid

Held(lo, i) == i > 1 /\ lo[i - 1].code.hold > 0
MostOf(lo, hi, i) ==
  Up(Larger(lo[i].pause, hi[i].pause) + Slack + (IF Held(lo, i) THEN HeldSlack ELSE 0))
MostOfLow(lo, hi, i) ==                         \* slip: the far end of the band left out
  Up(lo[i].pause + (IF Held(lo, i) THEN HeldSlack ELSE 0))
Most(lo, hi, i)  == MostOf(lo, hi, i)
Least(lo, hi, i) == Down(Smaller(lo[i].pause, hi[i].pause) - Slack)

(* The same code again straight after is one expectation heard that often. *)
Expected(lo, hi) ==
  LET opening == SelectSeq([i \in DOMAIN lo |-> i], LAMBDA i : ~Same(lo, i))
      upto(n) == IF n = Len(opening) THEN Len(lo) ELSE opening[n + 1] - 1
  IN  [n \in DOMAIN opening |->
        LET i == opening[n] IN
        [code |-> CodeOf(lo[i].code), times |-> upto(n) - i + 1,
         paced |-> i > 1, least |-> Least(lo, hi, i), most |-> Most(lo, hi, i)]]

-----------------------------------------------------------------------------
(* The monitor and the judge, code by code as they come.                   *)

(* A code again within the window of silence is the press before it, held. *)
IsPress(h, x) ==
  \/ h.last = <<>> \/ CodeOf(h.last[1]) # CodeOf(x)
  \/ h.quiet - Larger(h.last[1].hold, Lamp) > RepeatWindow

Elapsed(h, ms) == [h EXCEPT !.since = @ + ms, !.quiet = @ + ms]

(* judge: each expectation is looked for behind the last one's presses.    *)
Judge(h, x) ==
  LET want == expect[h.want]
      fits == IsPress(h, x) /\ h.want <= Len(expect) /\ want.code = CodeOf(x)
      paced == h.found = 0 /\ want.paced
      all  == h.found + 1 = want.times
      next == [h EXCEPT !.last = <<x>>, !.quiet = 0]
  IN  IF ~fits THEN next
      ELSE [next EXCEPT !.since = 0,
                        !.ok = @ /\ (paced => want.least <= h.since /\ h.since <= want.most),
                        !.want = IF all THEN @ + 1 ELSE @, !.found = IF all THEN 0 ELSE @ + 1]

Heard(h, t) ==
  IF expect = <<>> THEN h
  ELSE IF t.out = <<>> THEN Elapsed(h, t.took)
  ELSE Elapsed(Judge(Elapsed(h, t.lead), t.out[1]), t.took - t.lead)

-----------------------------------------------------------------------------
(* The devices.                                                            *)

Takes(r, d, effect) ==
  LET warm == r.age = WarmUp[d]
      comes == [on |-> TRUE, input |-> 1, age |-> 0]
  IN CASE effect.do = "on" /\ ~r.on              -> comes
       [] effect.do = "off"                      -> [r EXCEPT !.on = FALSE]
       [] effect.do = "toggle"                   -> IF r.on THEN [r EXCEPT !.on = FALSE] ELSE comes
       [] effect.do = "next" /\ r.on /\ warm     -> [r EXCEPT !.input = (@ % Inputs[d]) + 1]
       [] effect.do = "back" /\ r.on /\ warm     -> [r EXCEPT !.input = IF @ = 1 THEN Inputs[d] ELSE @ - 1]
       [] effect.do = "input" /\ r.on /\ warm    -> [r EXCEPT !.input = effect.to]
       [] OTHER                                  -> r

Aged(devices, ms) == [d \in Devices |-> [devices[d] EXCEPT !.age = Smaller(@ + ms, WarmUp[d])]]

Hears(devices, t) ==
  IF t.out = <<>> THEN Aged(devices, t.took)
  ELSE LET x == t.out[1] IN
       Aged([Aged(devices, t.lead) EXCEPT ![x.d] = Takes(@, x.d, Effect[x.d][x.key])], t.took - t.lead)

-----------------------------------------------------------------------------
Waited(pause) == /\ real' = Aged(real, pause)

(* Whatever was started before the test, at whatever pace.                 *)
Before(a, order, pause) ==
  /\ before' = before + 1
  /\ remote' = Pressed(Passing(remote, pause), a, order) /\ Waited(pause) /\ paces' = {}
  /\ UNCHANGED <<model, phase, expect, heard>>

(* The first step is Off, and is not judged.                               *)
BeginTest(order, pause) ==
  /\ remote' = Starts(Passing(remote, pause), NoActivity, <<>>, order) /\ Waited(pause)
  /\ phase' = "step" /\ expect' = <<>> /\ heard' = Nothing /\ paces' = {}
  /\ UNCHANGED <<model, before>>

(* Every other is derived and judged.  The engine it is derived by is idle *)
(* past every wait before it, and comes to rest.                           *)
TestStep(a, order) ==
  \E asked \in {Pressed(model, a, order)} :
    \E lo \in {RunOut(asked, Low, 0, <<>>)}, hi \in {RunOut(asked, High, 0, <<>>)} :
      /\ Predictable(lo.sends, hi.sends)
      /\ remote' = Pressed(remote, a, order)
      /\ model' = Rested(lo.e)
      /\ expect' = Expected(lo.sends, hi.sends) /\ heard' = Nothing /\ phase' = "step"
      /\ UNCHANGED <<real, paces, before>>

(* The person waits for the codes to stop, and longer, before the next.    *)
StepDone ==
  /\ phase = "step" /\ AtRest /\ phase' = "between"
  /\ remote' = Rested(remote)
  /\ Waited(Idle) /\ expect' = <<>> /\ heard' = Nothing /\ paces' = {}
  /\ UNCHANGED <<model, before>>

(* A turn, at any overhead; what is heard is judged while it is an even one*)
Pace(o) == [o EXCEPT !.short = 0]
Uneven  == {Pace(o) : o \in Overheads}

Engine ==
  /\ ~AtRest
  /\ \E o \in Overheads : \E t \in {Goes(remote, o)} :
       /\ remote' = t.e /\ real' = Hears(real, t)
       /\ paces' = IF paces \subseteq {Pace(o)} THEN {Pace(o)} ELSE Uneven
       /\ heard' = IF paces' = Uneven THEN Nothing ELSE Heard(heard, t)
  /\ UNCHANGED <<model, phase, expect, before>>

Next ==
  \/ phase = "before" /\ AtRest /\ before < MaxBefore
     /\ \E a \in Actions, order \in Orders, pause \in {0, Idle} :
          a.do \in {"start", "favourite"} /\ Before(a, order, pause)
  \/ phase = "before" /\ AtRest /\ \E order \in Orders, pause \in {0, Idle} : BeginTest(order, pause)
  \/ phase = "between" /\ \E a \in Actions, order \in Orders : TestStep(a, order)
  \/ StepDone \/ Engine

Spec == Init /\ [][Next]_vars

-----------------------------------------------------------------------------
Powered(a) == IF a = NoActivity THEN {} ELSE Range(Act[a].powerOn)

(* A press ends with the equipment as the activity asks: every device of it*)
(* on, and on the input it selects, a code sent to one that is still coming*)
(* on being lost on it.  The engine hears nothing back: it rests on the    *)
(* beliefs, the waits and the order of a start's lists.                    *)
StartedIsReal ==
  AtRest /\ remote.running # NoActivity =>
    /\ \A d \in Powered(remote.running) \ ByHand : real[d].on
    /\ \A x \in Range(Act[remote.running].inputs) :
         real[x.d].input = PlaceOf(States[x.d]["Input"].values, x.step.value)

(* Off leaves off every device the remote can switch off, whatever ran     *)
(* before, those an activity before the last one left on too.              *)
OffLeavesOff ==
  AtRest /\ remote.running = NoActivity => \A d \in Devices \ (AlwaysOn \cup ByHand) : ~real[d].on

(* A switch from one activity to another that powers anything never turns  *)
(* off, on the way, what the new one uses or what is kept on in between.   *)
SwitchKeepsOn ==
  [][\A d \in Devices :
       real[d].on /\ Powered(remote'.running) # {} /\ d \in Powered(remote'.running) \cup KeptOn
         => real'[d].on]_vars

(* A test derived at the two ends of the timing band passes on a remote    *)
(* whose sends and sleeps all have one overhead, anywhere in the band: the *)
(* codes come in the same order, and between the same two times.           *)
PassesAsPredicted ==
  phase = "step" /\ AtRest /\ paces # Uneven => heard.ok /\ heard.want > Len(expect)

(* No turn of the engine leaves it where it was, however the clock rounds: *)
(* it sends, drops a wait, or sleeps for a time that does pass.            *)
EveryTurnMoves ==
  ~AtRest => \A o \in Overheads : LET t == Goes(remote, o) IN t.took > 0 \/ t.e.todo # remote.todo
=============================================================================
