---------------------------- MODULE MCTouchBench ----------------------------
(***************************************************************************)
(* TouchBench on a television with a code for each power and input, an     *)
(* amplifier that is kept on between activities and holds its power codes, *)
(* a box with one code for its power and one that steps through its inputs,*)
(* and a stick that takes longer to come on for an app; times are in       *)
(* milliseconds, a grain of the clock one of them.                         *)
(***************************************************************************)
EXTENDS TouchBench, TLC

CONSTANTS tv, amp, box, stick, watch, play, listen

MCDevices    == {tv, amp, box, stick}
MCActivities == {watch, play, listen}
MCOrders     == {<<tv, amp, box, stick>>, <<stick, box, amp, tv>>}

press(k)     == [do |-> "press", key |-> k, hold |-> 0]
held(k, ms)  == [do |-> "press", key |-> k, hold |-> ms]
on(d, s)     == [d |-> d, step |-> s, own |-> 0]
input(d, v)  == on(d, [do |-> "set", state |-> "Input", value |-> v])
wait(d, ms)  == on(d, [do |-> "wait", ms |-> ms])
Off(d)       == on(d, Power("Off"))

Plain == [stepping |-> FALSE, delay |-> 0, values |-> <<"Off", "On">>,
          set |-> [v \in {} |-> <<>>], change |-> [v \in {} |-> <<>>],
          start |-> <<>>, finish |-> <<>>, next |-> <<>>, previous |-> <<>>,
          reset |-> <<>>, powerOnReset |-> <<>>]
Discrete(delay, hold) ==
  [Plain EXCEPT !.delay = delay, !.change = [v \in {"Off", "On"} |-> <<held(v, hold)>>]]
Chosen(delay, values) ==
  [Plain EXCEPT !.delay = delay, !.values = values, !.set = [v \in Range(values) |-> <<press(v)>>]]
Stepping(delay, values, next) ==
  [Plain EXCEPT !.delay = delay, !.values = values, !.stepping = TRUE, !.next = <<press(next)>>]

MCStates ==
  tv    :> ( "Power" :> Discrete(10000, 0)
          @@ "Input" :> [Chosen(1000, <<"1", "2">>) EXCEPT !.start = <<press("source")>>])
  @@
  amp   :> ( "Power" :> Discrete(3500, 500) @@ "Input" :> Chosen(500, <<"1", "2">>))
  @@
  box   :> ( "Power" :> [Stepping(1500, <<"Off", "On">>, "power") EXCEPT
                           !.powerOnReset = <<[do |-> "force", state |-> "Input", value |-> "1"]>>]
          @@ "Input" :> [Stepping(300, <<"1", "2", "3", "4">>, "next") EXCEPT !.previous = <<press("back")>>])
  @@
  stick :> ( "Power" :> Discrete(2000, 0) @@ "Input" :> Chosen(0, <<"1", "2">>))

MCKeys == tv    :> {"Off", "On", "1", "2", "source"}
       @@ amp   :> {"Off", "On", "1", "2", "mute"}
       @@ box   :> {"power", "next", "back", "info", "7"}
       @@ stick :> {"Off", "On", "1", "2"}

Effect_(do, to) == [do |-> do, to |-> to]
codes == "Off" :> Effect_("off", 0) @@ "On" :> Effect_("on", 0)
         @@ "1" :> Effect_("input", 1) @@ "2" :> Effect_("input", 2)
MCEffect ==
      tv    :> (codes @@ "source" :> Effect_("none", 0))
   @@ amp   :> (codes @@ "mute" :> Effect_("none", 0))
   @@ box   :> ("power" :> Effect_("toggle", 0) @@ "next" :> Effect_("next", 0)
                @@ "back" :> Effect_("back", 0)
                @@ "info" :> Effect_("none", 0) @@ "7" :> Effect_("none", 0))
   @@ stick :> codes

MCAct ==
  watch  :> [powerOn |-> <<tv, box>>, inputs |-> <<input(tv, "1"), input(box, "3")>>,
             enter |-> <<on(box, press("info")), wait(NoDevice, 2000), on(box, press("7"))>>,
             leave |-> <<on(box, press("info")), Off(tv), Off(box)>>, tuner |-> box, channel |-> <<>>]
  @@
  play   :> [powerOn |-> <<amp, stick, tv>>, inputs |-> <<input(tv, "2"), input(amp, "2"), input(stick, "2")>>,
             enter |-> <<wait(tv, 1500)>>, leave |-> <<Off(tv), Off(stick), Off(amp)>>,
             tuner |-> tv, channel |-> <<>>]
  @@
  listen :> [powerOn |-> <<amp, box>>, inputs |-> <<input(amp, "1"), input(box, "4")>>,
             enter |-> <<>>, leave |-> <<on(amp, press("mute")), Off(amp), Off(box)>>, tuner |-> box,
             channel |-> <<"7">>]

MCInterKey    == tv :> 250 @@ amp :> 300 @@ box :> 250 @@ stick :> 100
MCInterDevice == tv :> 500 @@ amp :> 500 @@ box :> 500 @@ stick :> 400
MCAppDelay    == [d \in MCDevices |-> 6000]
MCOnline      == {<<stick, "2">>}
MCInputs      == tv :> 2 @@ amp :> 2 @@ box :> 4 @@ stick :> 2
MCWarmUp      == tv :> 9000 @@ amp :> 3000 @@ box :> 1400 @@ stick :> 5500
MCFavourites  == watch :> <<"7", "7">>
MCKeyPresses  == {[d |-> box, key |-> "7", long |-> TRUE], [d |-> amp, key |-> "mute", long |-> FALSE]}
MCKeySequences == {<<on(box, press("info")), on(box, press("info")), wait(NoDevice, 1000), on(amp, press("mute"))>>}

Over(b, a, l, s) == [before |-> b, after |-> a, late |-> l, short |-> s]
MCLow  == Over(0, 0, 0, 0)
MCHigh == Over(60, 90, 60, 0)
MCOverheads == {MCLow, MCHigh, Over(0, 0, 0, 1), Over(30, 45, 30, 0)}
=============================================================================
