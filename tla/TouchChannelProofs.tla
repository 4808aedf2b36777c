-------------------------- MODULE TouchChannelProofs --------------------------
(***************************************************************************)
(* Proofs about TouchCable and TouchChannel, for any requests, lengths,    *)
(* chunks, answers, asks and faults: what the listener acts on, that host  *)
(* and remote stay in lockstep while a request runs, and that a reply to an*)
(* earlier one is never taken for its own.                                 *)
(***************************************************************************)
EXTENDS TouchChannel, SequenceTheorems, TLAPS

(* One sequence after another; of one, of many and of one more.            *)
IsJoined(j, s, t) ==
  /\ Len(j) = Len(s) + Len(t)
  /\ \A i \in 1..Len(s) : j[i] = s[i]
  /\ \A i \in 1..Len(t) : j[Len(s) + i] = t[i]

LEMMA Joined ==
  ASSUME NEW S, NEW s \in Seq(S), NEW t \in Seq(S)
  PROVE  s \o t \in Seq(S) /\ IsJoined(s \o t, s, t)
<1>1. s \o t \in Seq(S)
  OBVIOUS
<1>2. /\ Len(s \o t) = Len(s) + Len(t)
      /\ \A i \in 1..Len(s) : (s \o t)[i] = s[i]
      /\ \A i \in 1..Len(t) : (s \o t)[Len(s) + i] = t[i]
  OBVIOUS
<1> QED BY <1>1, <1>2, Zenon DEF IsJoined

LEMMA ThreeParts ==
  ASSUME NEW S, NEW a \in Seq(S), NEW d \in Seq(S), NEW e \in Seq(S),
         Len(a) = 1, Len(e) = 1, NEW b \in Seq(S), IsJoined(b, a, d), NEW q \in Seq(S), IsJoined(q, b, e)
  PROVE  /\ Len(q) = Len(d) + 2
         /\ q[1] = a[1] /\ q[Len(d) + 2] = e[1] /\ \A i \in 1..Len(d) : q[i + 1] = d[i]
<1>1. Len(b) = Len(d) + 1 /\ b[1] = a[1] /\ \A i \in 1..Len(d) : b[1 + i] = d[i]
  BY DEF IsJoined
<1>2. Len(q) = Len(b) + 1 /\ q[Len(b) + 1] = e[1] /\ \A i \in 1..Len(b) : q[i] = b[i]
  BY DEF IsJoined
<1>3. ASSUME NEW i \in 1..Len(d) PROVE q[i + 1] = d[i]
  <2>1. 1 + i = i + 1 /\ i + 1 \in 1..Len(b)
    BY <1>1
  <2> QED BY <1>1, <1>2, <2>1
<1>4. Len(b) + 1 = Len(d) + 2 /\ 1 \in 1..Len(b)
  BY <1>1
<1>5. Len(q) = Len(d) + 2 /\ q[1] = a[1] /\ q[Len(d) + 2] = e[1]
  BY <1>1, <1>2, <1>4
<1> QED BY <1>3, <1>5

USE RequestsAssumption, PacketsAssumption

-----------------------------------------------------------------------------
(* Text.                                                                   *)

Pieces == [of : Requests \cup {NoRequest}, at : Nat]

(* s is the first k packets of t; s is where t begins.                     *)
IsFirst(s, t, k) == Len(s) = k /\ k <= Len(t) /\ \A i \in 1..k : s[i] = t[i]
Begins(s, t)     == IsFirst(s, t, Len(s))

(* A line's text is of as many packets as the line, in order.              *)
LEMMA TextFacts ==
  ASSUME NEW r \in Requests
  PROVE  /\ Packets[r] \in Nat \ {0} /\ Text(r) \in Texts /\ Len(Text(r)) = Packets[r]
         /\ \A i \in 1..Packets[r] : Text(r)[i] = Packet(r, i)
         /\ <<Announcement(r)>> \in Texts /\ Len(<<Announcement(r)>>) = 1
         /\ <<Announcement(r)>>[1] = Packet(r, 0)
         /\ \A i \in Nat : Packet(r, i) \in Pieces /\ Packet(r, i).of = r /\ Packet(r, i).at = i
<1>1. Packets[r] \in Nat \ {0}
  OBVIOUS
<1>2. \A i \in Nat : Packet(r, i) \in Pieces /\ Packet(r, i).of = r /\ Packet(r, i).at = i
  BY DEF Packet, Pieces
<1>3. Texts = Seq(Pieces)
  BY DEF Texts, Pieces
<1>4. Text(r) \in Seq(Pieces) /\ Len(Text(r)) = Packets[r] /\ \A i \in 1..Packets[r] : Text(r)[i] = Packet(r, i)
  BY <1>1, <1>2 DEF Text
<1>5. <<Announcement(r)>> \in Seq(Pieces) /\ Len(<<Announcement(r)>>) = 1 /\ <<Announcement(r)>>[1] = Packet(r, 0)
  BY <1>2 DEF Announcement
<1> QED BY <1>1, <1>2, <1>3, <1>4, <1>5

-----------------------------------------------------------------------------
(* The remote, whoever is connected to it.                                 *)

(* A number that is set is a line's length, and part of the line is held.  *)
Gathers(rem) ==
  rem.announced > 0 =>
    \E w \in Answering : rem.announced = Packets[w] /\ Len(rem.held) < Packets[w] /\ Begins(rem.held, Text(w))

(* What a chunk has carried so far: of an announcement, of a line of its   *)
(* own, or of one that goes on from what is held.                          *)
Carries(rem, text, r) ==
  \/ r \in Answering /\ Begins(text, <<Announcement(r)>>)
  \/ r \notin Answering /\ Begins(text, Text(r))
  \/ r \in Answering /\ rem.announced = Packets[r] /\ Begins(rem.held \o text, Text(r))

Counts(rem) == rem.due > 0 => \E r \in Requests : Carries(rem, rem.text, r)

IsWhole(text) == (\E j \in DOMAIN text : text[j].of \in Answering) => \E r \in Answering : text = Text(r)

ActedWhole(rem) == \A i \in DOMAIN rem.acted : IsWhole(rem.acted[i])

RemoteInv(rem) == Gathers(rem) /\ Counts(rem) /\ ActedWhole(rem)

(* Acting on one more text, a whole one if it is a write of answers.       *)
LEMMA OneMore ==
  ASSUME NEW rem \in Remotes, NEW out, NEW text \in Texts,
         ActedWhole(rem), IsWhole(text), out.acted = Append(rem.acted, text)
  PROVE  ActedWhole(out)
<1>1. rem.acted \in Seq(Texts)
  BY DEF Remotes
<1>2. DOMAIN out.acted = 1..Len(rem.acted) + 1
  BY <1>1
<1>3. \A i \in 1..Len(rem.acted) : i \in DOMAIN rem.acted /\ out.acted[i] = rem.acted[i]
  BY <1>1
<1>4. out.acted[Len(rem.acted) + 1] = text
  BY <1>1
<1>5. ASSUME NEW i \in DOMAIN out.acted PROVE IsWhole(out.acted[i])
  <2>1. CASE i \in 1..Len(rem.acted)
    BY <1>3, <2>1 DEF ActedWhole
  <2>2. CASE i = Len(rem.acted) + 1
    BY <1>4, <2>2
  <2> QED BY <1>1, <1>2, <2>1, <2>2
<1> QED BY <1>5 DEF ActedWhole

(* What the listener makes of a text, told by its announcements.           *)
Announcing(text) == {i \in DOMAIN text : text[i].at = 0 /\ text[i].of # NoRequest}
Number(rem, text) == IF NamesAnotherRequest(text) THEN 0 ELSE rem.announced

LEMMA ListenCases ==
  ASSUME NEW rem \in Remotes, NEW text \in Texts
  PROVE  /\ Announcing(text) # {} =>
              \E i \in Announcing(text) :
                Listen(rem, text) = [rem EXCEPT !.announced = Packets[text[i].of], !.held = <<>>]
         /\ Announcing(text) = {} /\ Number(rem, text) = 0 =>
              Listen(rem, text) = [rem EXCEPT !.announced = 0, !.acted = Append(rem.acted, text)]
         /\ Announcing(text) = {} /\ Number(rem, text) > 0 /\ Len(rem.held \o text) < Number(rem, text) =>
              Listen(rem, text) = [rem EXCEPT !.held = rem.held \o text]
         /\ Announcing(text) = {} /\ Number(rem, text) > 0 /\ Len(rem.held \o text) >= Number(rem, text) =>
              Listen(rem, text) = [rem EXCEPT !.announced = 0, !.held = <<>>,
                                              !.acted = Append(rem.acted, rem.held \o text)]
<1> DEFINE A == Announcing(text)
           n == Number(rem, text)
           g == rem.held \o text
           i == CHOOSE k \in A : TRUE
<1>1. n \in Nat /\ Len(g) \in Nat
  BY DEF Number, Remotes, Texts
<1>2. Listen(rem, text) =
        CASE A # {} -> [rem EXCEPT !.announced = AnnouncementFor(text[i].of), !.held = <<>>]
          [] A = {} /\ n = 0 -> [rem EXCEPT !.announced = 0, !.acted = Append(@, text)]
          [] A = {} /\ n > 0 /\ Len(g) < n -> [rem EXCEPT !.held = g]
          [] A = {} /\ n > 0 /\ Len(g) >= n ->
               [rem EXCEPT !.announced = 0, !.held = <<>>, !.acted = Append(@, g)]
  BY DEF Listen, Announcing, Number
<1>3. A # {} => i \in A
  OBVIOUS
<1> HIDE DEF A, n, g, i
<1>4. A # {} => Listen(rem, text) = [rem EXCEPT !.announced = AnnouncementFor(text[i].of), !.held = <<>>]
  BY <1>2
<1>5. A = {} /\ n = 0 => Listen(rem, text) = [rem EXCEPT !.announced = 0, !.acted = Append(rem.acted, text)]
  BY <1>2
<1>6. A = {} /\ n > 0 /\ Len(g) < n => Listen(rem, text) = [rem EXCEPT !.held = g]
  BY <1>1, <1>2
<1>7. A = {} /\ n > 0 /\ Len(g) >= n =>
        Listen(rem, text) = [rem EXCEPT !.announced = 0, !.held = <<>>, !.acted = Append(rem.acted, g)]
  BY <1>1, <1>2
<1> USE DEF A, n, g, i
<1>8. A # {} => \E k \in A : Listen(rem, text) = [rem EXCEPT !.announced = Packets[text[k].of], !.held = <<>>]
  BY <1>3, <1>4 DEF AnnouncementFor
<1> HIDE DEF A, n, g, i
<1> QED BY <1>5, <1>6, <1>7, <1>8 DEF A, n, g

(* The listener keeps the number, what is held and what was acted on; the  *)
(* rest of the remote is as it was.                                        *)
SameButListener(out, rem) ==
  /\ out.open = rem.open /\ out.line = rem.line /\ out.written = rem.written
  /\ out.due = rem.due /\ out.done = rem.done /\ out.last = rem.last /\ out.text = rem.text

LEMMA Relistened ==
  ASSUME NEW rem \in Remotes, NEW n \in Nat, NEW held \in Texts, NEW acted \in Seq(Texts), NEW out,
         \/ out = [rem EXCEPT !.announced = n, !.held = held, !.acted = acted]
         \/ out = [rem EXCEPT !.announced = n, !.held = held]
         \/ out = [rem EXCEPT !.announced = n, !.acted = acted]
         \/ out = [rem EXCEPT !.held = held]
  PROVE  out \in Remotes /\ SameButListener(out, rem)
<1>1. CASE out = [rem EXCEPT !.announced = n, !.held = held, !.acted = acted]
  BY <1>1 DEF Remotes, SameButListener
<1>2. CASE out = [rem EXCEPT !.announced = n, !.held = held]
  BY <1>2 DEF Remotes, SameButListener
<1>3. CASE out = [rem EXCEPT !.announced = n, !.acted = acted]
  BY <1>3 DEF Remotes, SameButListener
<1>4. CASE out = [rem EXCEPT !.held = held]
  BY <1>4 DEF Remotes, SameButListener
<1> QED BY <1>1, <1>2, <1>3, <1>4

LEMMA ListenTyped ==
  ASSUME NEW rem \in Remotes, NEW text \in Texts
  PROVE  Listen(rem, text) \in Remotes /\ SameButListener(Listen(rem, text), rem)
<1> DEFINE out == Listen(rem, text)
           n == Number(rem, text)
           g == rem.held \o text
<1>1. /\ g \in Texts /\ <<>> \in Texts /\ Append(rem.acted, text) \in Seq(Texts)
      /\ Append(rem.acted, g) \in Seq(Texts) /\ n \in Nat /\ Len(g) \in Nat
      /\ rem.held \in Texts /\ rem.acted \in Seq(Texts)
  BY DEF Texts, Remotes, Number
<1>2. \A i \in Announcing(text) : Packets[text[i].of] \in Nat
  <2>1. ASSUME NEW i \in Announcing(text) PROVE text[i].of \in Requests
    <3>1. text \in Seq(Pieces) /\ i \in DOMAIN text /\ text[i].of # NoRequest
      BY DEF Announcing, Texts, Pieces
    <3>2. text[i] \in Pieces
      BY <3>1
    <3> QED BY <3>1, <3>2 DEF Pieces
  <2> QED BY <2>1
<1> HIDE DEF g, n
<1>3. CASE Announcing(text) # {}
  <2>1. PICK i \in Announcing(text) : out = [rem EXCEPT !.announced = Packets[text[i].of], !.held = <<>>]
    BY <1>3, ListenCases
  <2> QED BY <1>1, <1>2, <2>1, Relistened
<1>4. CASE Announcing(text) = {} /\ n = 0
  <2>1. out = [rem EXCEPT !.announced = 0, !.acted = Append(rem.acted, text)]
    BY <1>4, ListenCases DEF n
  <2> QED BY <1>1, <2>1, Relistened
<1>5. CASE Announcing(text) = {} /\ n > 0 /\ Len(g) < n
  <2>1. out = [rem EXCEPT !.held = g]
    BY <1>5, ListenCases DEF n, g
  <2> QED BY <1>1, <2>1, Relistened
<1>6. CASE Announcing(text) = {} /\ n > 0 /\ Len(g) >= n
  <2>1. out = [rem EXCEPT !.announced = 0, !.held = <<>>, !.acted = Append(rem.acted, g)]
    BY <1>6, ListenCases DEF n, g
  <2> QED BY <1>1, <2>1, Relistened
<1> QED BY <1>1, <1>3, <1>4, <1>5, <1>6

(* An announcement sets its number, and nothing is held of its line yet.   *)
LEMMA ListenToAnnouncement ==
  ASSUME NEW rem \in Remotes, NEW r \in Answering, NEW text \in Texts,
         Len(text) = 1, text[1] = Packet(r, 0)
  PROVE  LET out == Listen(rem, text)
         IN  out.announced = Packets[r] /\ out.held = <<>> /\ out.acted = rem.acted
<1>1. r \in Requests /\ text[1].at = 0 /\ text[1].of = r /\ r # NoRequest
  BY DEF Packet
<1>2. DOMAIN text = {1}
  BY DEF Texts
<1>3. Announcing(text) = {1}
  BY <1>1, <1>2 DEF Announcing
<1>4. Listen(rem, text) = [rem EXCEPT !.announced = Packets[r], !.held = <<>>]
  <2>1. PICK i \in Announcing(text) :
          Listen(rem, text) = [rem EXCEPT !.announced = Packets[text[i].of], !.held = <<>>]
    BY <1>3, ListenCases
  <2>2. i = 1
    BY <1>3, <2>1
  <2> QED BY <1>1, <2>1, <2>2
<1> QED BY <1>4 DEF Remotes

(* The start of a line that was not announced is a line of its own.        *)
LEMMA ListenToLine ==
  ASSUME NEW rem \in Remotes, NEW r \in Requests \ Answering, NEW text \in Texts,
         Len(text) > 0, Begins(text, Text(r))
  PROVE  LET out == Listen(rem, text)
         IN  out.announced = 0 /\ out.acted = Append(rem.acted, text)
<1>1. DOMAIN text = 1..Len(text) /\ Len(text) \in Nat
  BY DEF Texts
<1>2. \A i \in DOMAIN text : text[i].of = r /\ text[i].at = i
  <2>1. ASSUME NEW i \in DOMAIN text PROVE text[i] = Packet(r, i)
    <3>1. i \in 1..Len(text) /\ Len(text) <= Len(Text(r)) /\ text[i] = Text(r)[i]
      BY <1>1, <2>1 DEF Begins, IsFirst
    <3>2. Len(Text(r)) = Packets[r] /\ \A k \in 1..Packets[r] : Text(r)[k] = Packet(r, k)
      BY TextFacts
    <3>3. i \in 1..Packets[r]
      BY <1>1, <3>1, <3>2
    <3> QED BY <3>1, <3>2, <3>3
  <2> QED BY <2>1 DEF Packet
<1>3. 1 \in DOMAIN text
  BY <1>1
<1>4. NamesAnotherRequest(text)
  BY <1>2, <1>3 DEF NamesAnotherRequest
<1>5. Announcing(text) = {}
  BY <1>1, <1>2 DEF Announcing
<1>6. Listen(rem, text) = [rem EXCEPT !.announced = 0, !.acted = Append(rem.acted, text)]
  BY <1>4, <1>5, ListenCases DEF Number
<1> QED BY <1>6 DEF Remotes

(* A text that goes on from what is held is held, or acted on once the     *)
(* number is reached, which is the whole line.                             *)
LEMMA ListenToAnswers ==
  ASSUME NEW rem \in Remotes, NEW r \in Answering, NEW text \in Texts,
         rem.announced = Packets[r], Begins(rem.held \o text, Text(r))
  PROVE  LET out == Listen(rem, text)
         IN  /\ Len(rem.held) + Len(text) < Packets[r] =>
                  out.announced = Packets[r] /\ out.held = rem.held \o text /\ out.acted = rem.acted
             /\ Len(rem.held) + Len(text) >= Packets[r] =>
                  /\ out.announced = 0 /\ out.held = <<>> /\ out.acted = Append(rem.acted, Text(r))
                  /\ rem.held \o text = Text(r)
<1> DEFINE g == rem.held \o text
<1>1. /\ rem.held \in Seq(Pieces) /\ text \in Seq(Pieces) /\ g \in Seq(Pieces)
      /\ Text(r) \in Seq(Pieces) /\ Len(Text(r)) = Packets[r] /\ r \in Requests /\ Packets[r] \in Nat \ {0}
  <2>1. rem.held \in Seq(Pieces) /\ text \in Seq(Pieces)
    BY DEF Remotes, Texts, Pieces
  <2>2. Text(r) \in Texts /\ Len(Text(r)) = Packets[r] /\ r \in Requests /\ Packets[r] \in Nat \ {0}
    BY TextFacts
  <2> QED BY <2>1, <2>2 DEF Texts, Pieces
<1>2. /\ Len(g) = Len(rem.held) + Len(text) /\ Len(rem.held) \in Nat /\ Len(text) \in Nat
      /\ \A i \in 1..Len(text) : text[i] = g[Len(rem.held) + i]
      /\ DOMAIN text = 1..Len(text)
  BY <1>1
<1>3. Len(g) <= Packets[r] /\ \A i \in 1..Len(g) : g[i] = Packet(r, i)
  <2>1. Len(g) <= Packets[r] /\ \A i \in 1..Len(g) : g[i] = Text(r)[i]
    BY <1>1 DEF Begins, IsFirst
  <2>2. ASSUME NEW i \in 1..Len(g) PROVE Text(r)[i] = Packet(r, i)
    <3>1. i \in 1..Packets[r]
      BY <1>1, <2>1
    <3> QED BY <3>1, TextFacts
  <2> QED BY <2>1, <2>2
<1>4. \A i \in DOMAIN text : text[i] = Packet(r, Len(rem.held) + i)
  <2>1. ASSUME NEW i \in DOMAIN text PROVE Len(rem.held) + i \in 1..Len(g)
    BY <1>2
  <2> QED BY <1>2, <1>3, <2>1
<1>5. \A i \in DOMAIN text : text[i].of = r /\ text[i].at # 0
  <2>1. ASSUME NEW i \in DOMAIN text PROVE Len(rem.held) + i \in Nat /\ Len(rem.held) + i # 0
    BY <1>2
  <2> QED BY <1>4, <2>1 DEF Packet
<1>6. Announcing(text) = {} /\ ~NamesAnotherRequest(text)
  BY <1>5 DEF Announcing, NamesAnotherRequest
<1>7. Number(rem, text) = Packets[r]
  BY <1>6 DEF Number
<1> HIDE DEF g
<1>8. CASE Len(g) < Packets[r]
  <2>1. Listen(rem, text) = [rem EXCEPT !.held = rem.held \o text]
    <3>1. Number(rem, text) > 0 /\ Len(rem.held \o text) < Number(rem, text)
      BY <1>1, <1>7, <1>8 DEF g
    <3> QED BY <1>6, <3>1, ListenCases
  <2> QED BY <1>1, <1>2, <1>8, <2>1 DEF Remotes
<1>9. CASE Len(g) >= Packets[r]
  <2>1. Listen(rem, text) = [rem EXCEPT !.announced = 0, !.held = <<>>, !.acted = Append(rem.acted, rem.held \o text)]
    <3>1. Number(rem, text) > 0 /\ Len(rem.held \o text) >= Number(rem, text)
      BY <1>1, <1>7, <1>9 DEF g
    <3> QED BY <1>6, <3>1, ListenCases
  <2>2. Len(g) = Packets[r]
    BY <1>1, <1>2, <1>3, <1>9
  <2>3. g = Text(r)
    <3>1. \A i \in 1..Len(g) : g[i] = Text(r)[i]
      <4>1. \A i \in 1..Packets[r] : Text(r)[i] = Packet(r, i)
        BY TextFacts
      <4> QED BY <1>3, <2>2, <4>1
    <3> QED BY <1>1, <2>2, <3>1, SeqEqual
  <2>4. rem.held \o text = Text(r)
    BY <2>3 DEF g
  <2> QED BY <1>1, <1>2, <2>1, <2>2, <2>4 DEF Remotes
<1> QED BY <1>1, <1>2, <1>8, <1>9

(* Nothing goes on from nothing.                                           *)
LEMMA ListenToNothing ==
  ASSUME NEW rem \in Remotes, Gathers(rem)
  PROVE  LET out == Listen(rem, <<>>)
         IN  /\ rem.announced = 0 => out.announced = 0 /\ out.acted = Append(rem.acted, <<>>)
             /\ rem.announced > 0 =>
                  out.announced = rem.announced /\ out.held = rem.held /\ out.acted = rem.acted
<1>1. /\ <<>> \in Texts /\ Announcing(<<>>) = {} /\ ~NamesAnotherRequest(<<>>)
      /\ rem.held \o <<>> = rem.held /\ rem.announced \in Nat /\ Len(rem.held) \in Nat
  BY DEF Texts, Announcing, NamesAnotherRequest, Remotes
<1>2. Number(rem, <<>>) = rem.announced
  BY <1>1 DEF Number
<1>3. CASE rem.announced = 0
  <2>1. Listen(rem, <<>>) = [rem EXCEPT !.announced = 0, !.acted = Append(rem.acted, <<>>)]
    BY <1>1, <1>2, <1>3, ListenCases
  <2>2. Listen(rem, <<>>).announced = 0 /\ Listen(rem, <<>>).acted = Append(rem.acted, <<>>)
    BY <2>1 DEF Remotes
  <2> QED BY <1>3, <2>2
<1>4. CASE rem.announced > 0
  <2>1. Len(rem.held) < rem.announced
    BY <1>4 DEF Gathers
  <2>2. Listen(rem, <<>>) = [rem EXCEPT !.held = rem.held \o <<>>]
    BY <1>1, <1>2, <1>4, <2>1, ListenCases
  <2> QED BY <1>1, <1>4, <2>2 DEF Remotes
<1> QED BY <1>1, <1>3, <1>4

(* What a chunk carries, listened to, leaves the listener gathering towards*)
(* a line it holds the start of, and is acted on whole if it is answers.   *)
LEMMA ListenKeeps ==
  ASSUME NEW rem \in Remotes, NEW text \in Texts, NEW r \in Requests,
         Gathers(rem), ActedWhole(rem), Carries(rem, text, r)
  PROVE  LET out == Listen(rem, text)
         IN  /\ Gathers(out) /\ ActedWhole(out)
             /\ \/ out.acted = rem.acted
                \/ \E x \in Texts : out.acted = Append(rem.acted, x) /\ Begins(x, Text(r))
<1> DEFINE out == Listen(rem, text)
<1>1. /\ Len(text) \in Nat /\ text \in Seq(Pieces) /\ DOMAIN text = 1..Len(text)
      /\ Packets[r] \in Nat \ {0} /\ Text(r) \in Texts /\ Len(Text(r)) = Packets[r]
      /\ \A i \in 1..Packets[r] : Text(r)[i] = Packet(r, i)
  <2>1. text \in Seq(Pieces)
    BY DEF Texts, Pieces
  <2>2. /\ Packets[r] \in Nat \ {0} /\ Text(r) \in Texts /\ Len(Text(r)) = Packets[r]
        /\ \A i \in 1..Packets[r] : Text(r)[i] = Packet(r, i)
    BY TextFacts
  <2> QED BY <2>1, <2>2
<1>2. CASE text = <<>>
  <2>1. CASE rem.announced = 0
    <3>1. out.announced = 0 /\ out.acted = Append(rem.acted, <<>>)
      BY <1>2, <2>1, ListenToNothing
    <3>2. <<>> \in Texts /\ IsWhole(<<>>)
      BY DEF IsWhole, Texts
    <3>3. Begins(<<>>, Text(r))
      BY <1>1 DEF Begins, IsFirst
    <3>4. ActedWhole(out)
      BY <3>1, <3>2, OneMore
    <3> QED BY <3>1, <3>2, <3>3, <3>4 DEF Gathers
  <2>2. CASE rem.announced > 0
    <3>1. out.announced = rem.announced /\ out.held = rem.held /\ out.acted = rem.acted
      BY <1>2, <2>2, ListenToNothing
    <3> QED BY <3>1 DEF Gathers, ActedWhole
  <2>3. rem.announced \in Nat
    BY DEF Remotes
  <2> QED BY <2>1, <2>2, <2>3
<1>3. CASE text # <<>> /\ r \in Answering /\ Begins(text, <<Announcement(r)>>)
  <2>1. Len(text) = 1 /\ text[1] = Packet(r, 0)
    <3>1. Len(<<Announcement(r)>>) = 1 /\ <<Announcement(r)>>[1] = Packet(r, 0)
      BY TextFacts
    <3>2. Len(text) <= 1 /\ \A i \in 1..Len(text) : text[i] = <<Announcement(r)>>[i]
      BY <1>3, <3>1 DEF Begins, IsFirst
    <3>3. Len(text) # 0
      BY <1>1, <1>3
    <3> QED BY <1>1, <3>1, <3>2, <3>3
  <2>2. out.announced = Packets[r] /\ out.held = <<>> /\ out.acted = rem.acted
    BY <1>3, <2>1, ListenToAnnouncement
  <2>3. Len(<<>>) = 0 /\ Begins(<<>>, Text(r))
    BY <1>1 DEF Begins, IsFirst
  <2>4. Gathers(out)
    BY <1>1, <1>3, <2>2, <2>3 DEF Gathers
  <2> QED BY <2>2, <2>4 DEF ActedWhole
<1>4. CASE text # <<>> /\ r \notin Answering /\ Begins(text, Text(r))
  <2>1. Len(text) > 0
    BY <1>1, <1>4
  <2>2. out.announced = 0 /\ out.acted = Append(rem.acted, text)
    BY <1>4, <2>1, ListenToLine
  <2>3. \A i \in DOMAIN text : text[i] = Packet(r, i)
    BY <1>1, <1>4 DEF Begins, IsFirst
  <2>4. IsWhole(text)
    BY <1>4, <2>3 DEF IsWhole, Packet
  <2>5. ActedWhole(out)
    BY <2>2, <2>4, OneMore
  <2> QED BY <1>4, <2>2, <2>5 DEF Gathers
<1>5. CASE r \in Answering /\ rem.announced = Packets[r] /\ Begins(rem.held \o text, Text(r))
  <2>1. rem.held \in Texts /\ Len(rem.held) \in Nat /\ Len(rem.held \o text) = Len(rem.held) + Len(text)
    BY <1>1 DEF Remotes, Texts
  <2>2. CASE Len(rem.held) + Len(text) < Packets[r]
    <3>1. out.announced = Packets[r] /\ out.held = rem.held \o text /\ out.acted = rem.acted
      BY <1>5, <2>2, ListenToAnswers
    <3>2. Gathers(out)
      BY <1>5, <2>1, <2>2, <3>1 DEF Gathers
    <3> QED BY <3>1, <3>2 DEF ActedWhole
  <2>3. CASE Len(rem.held) + Len(text) >= Packets[r]
    <3>1. out.announced = 0 /\ out.acted = Append(rem.acted, Text(r))
      BY <1>5, <2>3, ListenToAnswers
    <3>2. IsWhole(Text(r))
      BY <1>5 DEF IsWhole
    <3>3. ActedWhole(out)
      BY <1>1, <3>1, <3>2, OneMore
    <3>4. Begins(Text(r), Text(r))
      BY <1>1 DEF Begins, IsFirst
    <3> QED BY <1>1, <3>1, <3>3, <3>4 DEF Gathers
  <2> QED BY <1>1, <2>1, <2>2, <2>3
<1> QED BY <1>2, <1>3, <1>4, <1>5 DEF Carries

-----------------------------------------------------------------------------
(* A report.                                                               *)

IsReport(r) ==
  /\ r.seq \in Nat
  /\ r.cmd = "packet" => r.arg \in Pieces
  /\ r.cmd = "chunk"  => r.arg \in Nat \ {0}

(* Part way through a chunk a report is counted; a ping carries nothing.   *)
Counted(rem, r) ==
  [rem EXCEPT !.due = rem.due - 1, !.text = rem.text \o AsText(r), !.line = rem.line \o AsText(r),
              !.done = rem.done \/ r.cmd = "done",
              !.last = IF r.cmd = "done" THEN rem.last ELSE FirstByte(r)]

LEMMA AsTextFacts ==
  ASSUME NEW r, IsReport(r)
  PROVE  /\ AsText(r) \in Texts
         /\ r.cmd = "packet" => AsText(r) = <<r.arg>>
         /\ r.cmd \in {"ping", "done"} => AsText(r) = <<>>
<1>1. Junk \in Pieces
  BY DEF Junk, Packet, Pieces
<1>2. CASE r.cmd = "packet"
  <2>1. AsText(r) = <<r.arg>>
    BY <1>2 DEF AsText
  <2> QED BY <1>2, <2>1 DEF IsReport, Texts, Pieces
<1>3. CASE r.cmd \in {"ping", "done"}
  <2>1. AsText(r) = <<>>
    BY <1>3 DEF AsText
  <2> QED BY <1>3, <2>1 DEF Texts
<1>4. CASE r.cmd \notin {"packet", "ping", "done"}
  <2>1. AsText(r) = <<Junk>>
    BY <1>4 DEF AsText
  <2> QED BY <1>1, <1>4, <2>1 DEF Texts, Pieces
<1> QED BY <1>2, <1>3, <1>4

LEMMA CountedFacts ==
  ASSUME NEW rem \in Remotes, rem.due > 0, NEW r, IsReport(r)
  PROVE  LET c == Counted(rem, r)
         IN  /\ c \in Remotes /\ c.due = rem.due - 1 /\ c.text = rem.text \o AsText(r)
             /\ c.line = rem.line \o AsText(r) /\ c.done = (rem.done \/ r.cmd = "done")
             /\ c.open = rem.open /\ c.written = rem.written
             /\ c.announced = rem.announced /\ c.held = rem.held /\ c.acted = rem.acted
             /\ After(rem, r) = IF rem.due = 1 THEN Listen(c, c.text) ELSE c
<1> DEFINE c == Counted(rem, r)
<1>1. /\ rem.text \o AsText(r) \in Texts /\ rem.line \o AsText(r) \in Texts
      /\ FirstByte(r) \in Nat /\ rem.last \in Nat /\ rem.due - 1 \in Nat
  <2>1. rem.text \in Texts /\ rem.line \in Texts /\ rem.last \in Nat /\ rem.due \in Nat
    BY DEF Remotes
  <2>2. AsText(r) \in Texts
    BY AsTextFacts
  <2>3. rem.text \o AsText(r) \in Texts /\ rem.line \o AsText(r) \in Texts
    BY <2>1, <2>2 DEF Texts
  <2> QED BY <2>1, <2>3 DEF FirstByte, REPLY_ERROR, IsReport
<1>2. /\ c.due = rem.due - 1 /\ c.text = rem.text \o AsText(r)
      /\ c.line = rem.line \o AsText(r)
      /\ c.open = rem.open /\ c.written = rem.written
      /\ c.announced = rem.announced /\ c.held = rem.held /\ c.acted = rem.acted
  BY DEF Counted, Remotes
<1>3. c.done = (rem.done \/ r.cmd = "done")
  BY DEF Counted, Remotes
<1>4. c \in Remotes
  <2>1. (rem.done \/ r.cmd = "done") \in BOOLEAN
    BY DEF Remotes
  <2>2. (IF r.cmd = "done" THEN rem.last ELSE FirstByte(r)) \in Nat
    BY <1>1
  <2> QED BY <1>1, <2>1, <2>2 DEF Counted, Remotes
<1>5. After(rem, r) = TakePacket(rem, r)
  <2>1. rem.due \in Nat
    BY DEF Remotes
  <2>2. rem.due # 0
    BY <2>1
  <2> QED BY <2>2, Zenon DEF After
<1>6. TakePacket(rem, r) = IF rem.due = 1 THEN Listen(c, c.text) ELSE c
  BY <1>2 DEF TakePacket, Counted
<1> QED BY <1>2, <1>3, <1>4, <1>5, <1>6

(* A ping counted as the last packet of somebody's chunk.                  *)
LEMMA PingIsCounted ==
  ASSUME NEW rem \in Remotes, RemoteInv(rem), rem.due > 0, NEW r, IsReport(r), r.cmd = "ping"
  PROVE  LET out == After(rem, r)
         IN  /\ out \in Remotes /\ out.due = rem.due - 1 /\ RemoteInv(out)
             /\ \/ out.acted = rem.acted
                \/ \E x \in Texts, q \in Requests : out.acted = Append(rem.acted, x) /\ Begins(x, Text(q))
<1> DEFINE c == Counted(rem, r)
           out == After(rem, r)
<1>1. /\ c \in Remotes /\ c.due = rem.due - 1 /\ c.text = rem.text \o AsText(r)
      /\ c.announced = rem.announced /\ c.held = rem.held /\ c.acted = rem.acted
      /\ out = IF rem.due = 1 THEN Listen(c, c.text) ELSE c
  BY CountedFacts
<1>2. c.text = rem.text
  <2>1. AsText(r) = <<>>
    BY AsTextFacts
  <2> QED BY <1>1, <2>1 DEF Remotes, Texts
<1> HIDE DEF c, out
<1>3. PICK q \in Requests : Carries(rem, rem.text, q)
  BY DEF RemoteInv, Counts
<1>4. Gathers(c) /\ ActedWhole(c) /\ Carries(c, c.text, q)
  BY <1>1, <1>2, <1>3 DEF RemoteInv, Gathers, ActedWhole, Carries
<1>5. CASE rem.due = 1
  <2>1. out = Listen(c, c.text)
    BY <1>1, <1>5
  <2>2. c.text \in Texts
    BY <1>1 DEF Remotes
  <2>3. out \in Remotes /\ out.due = c.due
    BY <1>1, <2>1, <2>2, ListenTyped DEF SameButListener
  <2>4. /\ Gathers(out) /\ ActedWhole(out)
        /\ \/ out.acted = c.acted
           \/ \E x \in Texts : out.acted = Append(c.acted, x) /\ Begins(x, Text(q))
    BY <1>1, <1>4, <2>1, <2>2, ListenKeeps
  <2>5. out.due = 0
    BY <1>1, <1>5, <2>3
  <2> QED BY <1>1, <1>5, <2>3, <2>4, <2>5 DEF RemoteInv, Counts, out
<1>6. CASE rem.due # 1
  <2>1. out = c
    BY <1>1, <1>6
  <2>2. RemoteInv(c)
    BY <1>4 DEF RemoteInv, Counts
  <2> QED BY <1>1, <2>1, <2>2 DEF out
<1> QED BY <1>5, <1>6

(* A report to a remote that is not counting.                              *)
IsAtRest(out, rem, r) ==
  /\ out.announced = rem.announced /\ out.held = rem.held /\ out.acted = rem.acted
  /\ out.due = IF r.cmd = "chunk" THEN r.arg - 1 ELSE 0
  /\ r.cmd = "open for writing" => out.open = "W" /\ out.line = <<>>
  /\ r.cmd = "chunk" => /\ out.text = <<>> /\ out.done = FALSE
                        /\ out.open = rem.open /\ out.line = rem.line
  /\ out.open = "W" => rem.open = "W" \/ r.cmd = "open for writing"
  /\ r.cmd = "close" => out.open # "W"
  /\ out.written = IF r.cmd = "close" /\ rem.open = "W" THEN rem.line ELSE rem.written

LEMMA AtRest ==
  ASSUME NEW rem \in Remotes, rem.due = 0, NEW r, IsReport(r), NEW out, out = After(rem, r)
  PROVE  out \in Remotes /\ IsAtRest(out, rem, r)
<1>0. <<>> \in Texts /\ ~(rem.due > 0)
  BY DEF Texts
<1>1. CASE r.cmd = "open for writing"
  <2>1. out = [rem EXCEPT !.open = "W", !.line = <<>>]
    BY <1>0, <1>1, Zenon DEF After
  <2> QED BY <1>0, <1>1, <2>1 DEF Remotes, IsAtRest
<1>2. CASE r.cmd = "open for reading"
  <2>1. out = [rem EXCEPT !.open = "R"]
    BY <1>0, <1>2, Zenon DEF After
  <2> QED BY <1>2, <2>1 DEF Remotes, IsAtRest
<1>3. CASE r.cmd = "chunk"
  <2>1. out = [rem EXCEPT !.due = r.arg - 1, !.done = FALSE, !.last = 0, !.text = <<>>]
    BY <1>3 DEF After
  <2>2. r.arg - 1 \in Nat
    BY <1>3 DEF IsReport
  <2> QED BY <1>0, <1>3, <2>1, <2>2 DEF Remotes, IsAtRest
<1>4. CASE r.cmd = "close"
  <2>1. out = [rem EXCEPT !.open = "none", !.written = IF rem.open = "W" THEN rem.line ELSE rem.written]
    BY <1>4 DEF After
  <2> QED BY <1>4, <2>1 DEF Remotes, IsAtRest
<1>5. CASE r.cmd \notin {"open for writing", "open for reading", "chunk", "close"}
  <2>1. out = rem
    BY <1>0, <1>5, Zenon DEF After
  <2> QED BY <1>5, <2>1 DEF Remotes, IsAtRest
<1> QED BY <1>1, <1>2, <1>3, <1>4, <1>5

(* It leaves the listener alone, and a chunk that starts has carried       *)
(* nothing yet.                                                            *)
LEMMA AtRestKeeps ==
  ASSUME NEW rem \in Remotes, rem.due = 0, RemoteInv(rem), NEW r, IsReport(r),
         r.cmd = "chunk" => Requests # {}
  PROVE  RemoteInv(After(rem, r))
<1> DEFINE out == After(rem, r)
<1>1. /\ out.announced = rem.announced /\ out.held = rem.held /\ out.acted = rem.acted
      /\ out.due = IF r.cmd = "chunk" THEN r.arg - 1 ELSE 0
      /\ r.cmd = "chunk" => out.text = <<>>
  <2>1. IsAtRest(out, rem, r)
    BY AtRest
  <2> QED BY <2>1 DEF IsAtRest
<1> HIDE DEF out
<1>2. Gathers(out) /\ ActedWhole(out)
  BY <1>1 DEF RemoteInv, Gathers, ActedWhole
<1>3. ASSUME out.due > 0 PROVE \E q \in Requests : Carries(out, out.text, q)
  <2>1. r.cmd = "chunk"
    BY <1>1, <1>3
  <2>2. PICK q \in Requests : TRUE
    BY <2>1
  <2>3. Len(out.text) = 0
    BY <1>1, <2>1
  <2>4. Len(Text(q)) \in Nat /\ Len(<<Announcement(q)>>) = 1
    BY TextFacts
  <2>5. Begins(out.text, Text(q)) /\ Begins(out.text, <<Announcement(q)>>)
    BY <2>3, <2>4 DEF Begins, IsFirst
  <2> QED BY <2>5 DEF Carries
<1> QED BY <1>2, <1>3 DEF RemoteInv, Counts, out

-----------------------------------------------------------------------------
(* What is on the link.                                                    *)

NoWrite(q) == \A i \in 1..Len(q) : q[i].cmd # "write"

(* Part way through a chunk the remote says nothing; at its end, one thing.*)
LEMMA AnswersInChunk ==
  ASSUME NEW rem \in Remotes, rem.due > 0, NEW r, IsReport(r)
  PROVE  /\ rem.due > 1 => Answers(rem, r) = <<>>
         /\ rem.due = 1 => \E n \in Nat : Answers(rem, r) = <<Reply("write", n)>>
<1>1. CASE rem.due > 1
  <2>1. rem.due # 1 /\ rem.due # 0
    BY <1>1
  <2> QED BY <1>1, <2>1, Zenon DEF Answers
<1>2. CASE rem.due = 1
  <2>1. ~(rem.due > 1)
    BY <1>2
  <2>2. Answers(rem, r) = <<Reply("write", IF After(rem, r).done THEN DONE_REPLY ELSE After(rem, r).last)>>
    BY <1>2, <2>1, Zenon DEF Answers
  <2>3. After(rem, r) \in Remotes
    <3> DEFINE c == Counted(rem, r)
    <3>1. c \in Remotes /\ After(rem, r) = Listen(c, c.text)
      BY <1>2, CountedFacts
    <3>2. c.text \in Texts
      BY <3>1 DEF Remotes
    <3> QED BY <3>1, <3>2, ListenTyped
  <2>4. (IF After(rem, r).done THEN DONE_REPLY ELSE After(rem, r).last) \in Nat
    BY <2>3 DEF Remotes, DONE_REPLY
  <2> QED BY <1>2, <2>2, <2>4
<1>3. rem.due \in Nat
  BY DEF Remotes
<1> QED BY <1>1, <1>2, <1>3

(* The size of an answer is a number, and the answer to a line is its own. *)
LEMMA SizeFacts ==
  ASSUME NEW text \in Texts
  PROVE  /\ SizeOfAnswer(text) \in Nat
         /\ \A r \in Requests : text = Text(r) => SizeOfAnswer(text) = AnswerSize[r]
<1>1. ASSUME NEW r \in Requests, text = Text(r) PROVE SizeOfAnswer(text) = AnswerSize[r]
  <2>1. Packets[r] \in Nat \ {0} /\ \A i \in 1..Packets[r] : Text(r)[i] = Packet(r, i)
    BY TextFacts
  <2>2. text[1] = Packet(r, 1)
    BY <1>1, <2>1
  <2>3. text[1].of = r
    BY <2>2 DEF Packet
  <2> QED BY <1>1, <2>3 DEF SizeOfAnswer
<1>2. CASE \E r \in Requests : text = Text(r)
  BY <1>1, <1>2
<1>3. CASE ~\E r \in Requests : text = Text(r)
  BY <1>3 DEF SizeOfAnswer
<1> QED BY <1>1, <1>2, <1>3

(* The stream that follows a read: the read's own reply, the answer packet *)
(* by packet, and the terminator.                                          *)
Total(rem) == SizeOfAnswer(rem.written) + 2

OfAnswer(rem, p, x) ==
  /\ p = 1 => x.cmd = "read"
  /\ p > 1 /\ p < Total(rem) => x = DataOf(rem.written, p - 1)
  /\ p = Total(rem) => x.cmd = "end"

LEMMA StreamFacts ==
  ASSUME NEW rem \in Remotes, rem.due = 0, NEW r, IsReport(r), r.cmd = "read"
  PROVE  LET q == Answers(rem, r)
         IN  /\ q \in Seq(Replies) /\ Len(q) = Total(rem) /\ Total(rem) \in Nat
             /\ \A i \in 1..Len(q) : OfAnswer(rem, i, q[i]) /\ q[i].cmd # "write"
<1> DEFINE n == SizeOfAnswer(rem.written)
           d == [i \in 1..n |-> DataOf(rem.written, i)]
           a == <<Reply("read", r.seq)>>
           e == <<Reply("end", 0)>>
           q == a \o d \o e
<1>1. n \in Nat /\ rem.written \in Texts
  BY SizeFacts DEF Remotes
<1>2. Answers(rem, r) = q
  <2>1. ~(rem.due > 1) /\ rem.due # 1
    OBVIOUS
  <2> QED BY <2>1, Zenon DEF Answers
<1>3. /\ Reply("read", r.seq) \in Replies /\ Reply("end", 0) \in Replies
      /\ \A i \in 1..n : DataOf(rem.written, i) \in Replies
  BY <1>1 DEF Reply, DataOf, Replies, IsReport, Texts
<1>4. a \in Seq(Replies) /\ d \in Seq(Replies) /\ e \in Seq(Replies) /\ Len(a) = 1 /\ Len(d) = n /\ Len(e) = 1
  BY <1>1, <1>3
<1>5. a[1].cmd = "read" /\ e[1].cmd = "end" /\ \A i \in 1..n : d[i] = DataOf(rem.written, i)
  BY DEF Reply
<1> HIDE DEF a, d, e, n
<1> HIDE DEF q
<1>6. /\ q \in Seq(Replies) /\ Len(q) = n + 2
      /\ q[1] = a[1] /\ q[n + 2] = e[1] /\ \A i \in 1..n : q[i + 1] = d[i]
  <2>1. a \o d \in Seq(Replies) /\ IsJoined(a \o d, a, d)
    BY <1>4, Joined, Zenon
  <2>2. q \in Seq(Replies) /\ IsJoined(q, a \o d, e)
    BY <1>4, <2>1, Joined, Zenon DEF q
  <2>3. /\ q \in Seq(Replies) /\ Len(q) = Len(d) + 2
        /\ q[1] = a[1] /\ q[Len(d) + 2] = e[1] /\ \A i \in 1..Len(d) : q[i + 1] = d[i]
    <3> HIDE DEF q
    <3>1. PICK b \in Seq(Replies) : IsJoined(b, a, d) /\ IsJoined(q, b, e)
      BY <2>1, <2>2
    <3>3. Len(q) = Len(d) + 2
      BY <1>4, <3>1, <2>2, ThreeParts
    <3>4. q[1] = a[1] /\ q[Len(d) + 2] = e[1]
      BY <1>4, <3>1, <2>2, ThreeParts
    <3>5. \A i \in 1..Len(d) : q[i + 1] = d[i]
      BY <1>4, <3>1, <2>2, ThreeParts
    <3> QED BY <2>2, <3>3, <3>4, <3>5
  <2> QED BY <1>4, <2>3
<1>7. Total(rem) = n + 2
  BY DEF Total, n
<1>8. ASSUME NEW i \in 1..Len(q) PROVE OfAnswer(rem, i, q[i]) /\ q[i].cmd # "write"
  <2>1. CASE i = 1
    BY <1>1, <1>5, <1>6, <1>7, <2>1 DEF OfAnswer
  <2>2. CASE i = n + 2
    BY <1>1, <1>5, <1>6, <1>7, <2>2 DEF OfAnswer
  <2>3. CASE i # 1 /\ i # n + 2
    <3>1. i - 1 \in 1..n /\ (i - 1) + 1 = i
      BY <1>1, <1>6, <2>3
    <3>2. q[i] = DataOf(rem.written, i - 1)
      BY <1>5, <1>6, <3>1
    <3>3. q[i].cmd = "data"
      BY <3>2 DEF DataOf
    <3> QED BY <1>7, <2>3, <3>2, <3>3 DEF OfAnswer
  <2> QED BY <2>1, <2>2, <2>3
<1> QED BY <1>1, <1>2, <1>6, <1>7, <1>8

(* What a remote that is not counting answers.                             *)
LEMMA AnswersAtRest ==
  ASSUME NEW rem \in Remotes, rem.due = 0, NEW r, IsReport(r), NEW q, q = Answers(rem, r)
  PROVE  /\ q \in Seq(Replies) /\ NoWrite(q)
         /\ r.cmd \in {"ping", "open for writing", "open for reading", "close"} =>
              Len(q) = 1
         /\ r.cmd = "open for reading" => q[1].size = SizeOfAnswer(rem.written)
         /\ r.cmd \in {"chunk", "packet", "done"} => q = <<>>
<1>1. ~(rem.due > 1) /\ rem.due # 1
  OBVIOUS
<1>2. SizeOfAnswer(rem.written) \in Nat /\ <<>> \in Texts /\ r.seq \in Nat
  <2>1. rem.written \in Texts
    BY DEF Remotes
  <2>2. SizeOfAnswer(rem.written) \in Nat
    BY <2>1, SizeFacts
  <2> QED BY <2>2 DEF Texts, IsReport
<1>3. CASE r.cmd \in {"ping", "close"}
  <2>1. q = <<Reply(r.cmd, r.seq)>>
    <3>1. CASE r.cmd = "ping"
      BY <1>1, <3>1, Zenon DEF Answers
    <3>2. CASE r.cmd = "close"
      BY <1>1, <3>2, Zenon DEF Answers
    <3> QED BY <1>3, <3>1, <3>2
  <2>2. Reply(r.cmd, r.seq) \in Replies /\ Reply(r.cmd, r.seq).cmd # "write"
    BY <1>2, <1>3 DEF Reply, Replies
  <2>3. q \in Seq(Replies) /\ Len(q) = 1 /\ q[1] = Reply(r.cmd, r.seq)
    BY <2>1, <2>2
  <2>4. NoWrite(q)
    BY <2>2, <2>3 DEF NoWrite
  <2> QED BY <1>3, <2>3, <2>4
<1>4. CASE r.cmd \in {"open for writing", "open for reading"}
  <2>1. PICK n \in Nat : /\ q = <<Opened(r.seq, n)>>
                         /\ r.cmd = "open for reading" => n = SizeOfAnswer(rem.written)
    <3>1. CASE r.cmd = "open for writing"
      <4>1. q = <<Opened(r.seq, 0)>>
        BY <1>1, <3>1, Zenon DEF Answers
      <4>2. r.cmd # "open for reading" /\ 0 \in Nat
        BY <3>1
      <4> QED BY <4>1, <4>2, Zenon
    <3>2. CASE r.cmd = "open for reading"
      <4>1. q = <<Opened(r.seq, SizeOfAnswer(rem.written))>>
        BY <1>1, <3>2, Zenon DEF Answers
      <4> QED BY <1>2, <3>2, <4>1
    <3> QED BY <1>4, <3>1, <3>2
  <2>2. Opened(r.seq, n) \in Replies /\ Opened(r.seq, n).cmd # "write" /\ Opened(r.seq, n).size = n
    BY <1>2 DEF Opened, Replies
  <2>3. <<Opened(r.seq, n)>> \in Seq(Replies) /\ Len(<<Opened(r.seq, n)>>) = 1
        /\ <<Opened(r.seq, n)>>[1] = Opened(r.seq, n)
    BY <2>2
  <2>5. Len(q) = 1 /\ q[1] = Opened(r.seq, n)
    BY <2>1, <2>3
  <2>4. NoWrite(q)
    BY <2>2, <2>5 DEF NoWrite
  <2> QED BY <1>4, <2>1, <2>2, <2>3, <2>4
<1>5. CASE r.cmd = "read"
  BY <1>5, StreamFacts DEF NoWrite
<1>6. CASE r.cmd \notin {"ping", "close", "open for writing", "open for reading", "read"}
  <2>1. q = <<>>
    BY <1>1, <1>6, Zenon DEF Answers
  <2>2. q \in Seq(Replies) /\ Len(q) = 0
    BY <2>1
  <2>3. NoWrite(q)
    BY <2>2 DEF NoWrite
  <2> QED BY <1>6, <2>1, <2>2, <2>3
<1> QED BY <1>3, <1>4, <1>5, <1>6

-----------------------------------------------------------------------------
(* The line in hand.                                                       *)

LEMMA LineFacts ==
  ASSUME asked \in Requests, announcing \in BOOLEAN
  PROVE  /\ Line \in Texts /\ Len(Line) \in Nat \ {0} /\ \A i \in 1..Len(Line) : Line[i] \in Pieces
         /\ announcing => Line = <<Announcement(asked)>> /\ Len(Line) = 1
         /\ ~announcing => Line = Text(asked) /\ Len(Line) = Packets[asked]
         /\ ~announcing /\ asked \notin Answering => Len(Line) <= PacketsPerChunk
<1>1. /\ Packets[asked] \in Nat \ {0} /\ Text(asked) \in Texts /\ Len(Text(asked)) = Packets[asked]
      /\ <<Announcement(asked)>> \in Texts /\ Len(<<Announcement(asked)>>) = 1
  BY TextFacts
<1>2. ASSUME NEW t \in Texts, NEW i \in 1..Len(t) PROVE t[i] \in Pieces
  <2>1. t \in Seq(Pieces)
    BY DEF Texts, Pieces
  <2> QED BY <2>1
<1>3. asked \notin Answering => Packets[asked] <= PacketsPerChunk
  BY LineAssumption
<1>4. announcing => Line = <<Announcement(asked)>>
  BY DEF Line
<1>5. ~announcing => Line = Text(asked)
  BY DEF Line
<1> HIDE DEF Line
<1>6. announcing => Line \in Texts /\ Len(Line) = 1
  BY <1>1, <1>4, Zenon
<1>7. ~announcing => Line \in Texts /\ Len(Line) = Packets[asked]
  BY <1>1, <1>5, Zenon
<1>8. Line \in Texts
  BY <1>6, <1>7, Zenon
<1>9. \A i \in 1..Len(Line) : Line[i] \in Pieces
  BY <1>2, <1>8, Zenon
<1>10. Len(Line) \in Nat \ {0}
  <2>1. Packets[asked] \in Nat \ {0} /\ 1 \in Nat \ {0}
    OBVIOUS
  <2>2. Len(Line) = 1 \/ Len(Line) = Packets[asked]
    BY <1>6, <1>7, Zenon
  <2> QED BY <2>1, <2>2
<1>11. ~announcing /\ asked \notin Answering => Len(Line) <= PacketsPerChunk
  BY <1>3, <1>7
<1> QED BY <1>4, <1>5, <1>6, <1>7, <1>8, <1>9, <1>10, <1>11, Zenon

(* Where the chunk that starts after b packets ends, and that its last     *)
(* packet is the one after which the session stops sending.                *)
ChunkEnd(b) == IF Len(Line) - b < PacketsPerChunk THEN Len(Line) ELSE b + PacketsPerChunk

LEMMA Multiples ==
  ASSUME NEW P \in Nat \ {0}, NEW b \in Nat, NEW s \in Nat, b % P = 0, b < s, s <= b + P
  PROVE  s % P = 0 <=> s = b + P
<1> DEFINE k == b \div P
           m == s \div P
<1>1. k \in Int /\ m \in Int /\ b = P * k + (b % P) /\ s = P * m + (s % P) /\ s % P \in 0..P - 1
  OBVIOUS
<1> HIDE DEF k, m
<1>2. ASSUME s % P = 0 PROVE s = b + P
  <2>1. b = P * k /\ s = P * m
    BY <1>1, <1>2
  <2>2. k < m
    BY <1>1, <2>1
  <2>3. m <= k + 1
    BY <1>1, <2>1
  <2> QED BY <1>1, <2>1, <2>2, <2>3
<1>3. ASSUME s = b + P PROVE s % P = 0
  <2>1. s % P = P * ((k + 1) - m) /\ (k + 1) - m \in Int
    BY <1>1, <1>3
  <2>2. CASE (k + 1) - m >= 1
    <3>1. P * ((k + 1) - m) >= P
      BY <2>1, <2>2
    <3> QED BY <1>1, <2>1, <3>1
  <2>3. CASE (k + 1) - m <= -1
    <3>1. P * ((k + 1) - m) < 0
      BY <2>1, <2>3
    <3> QED BY <1>1, <2>1, <3>1
  <2>4. CASE (k + 1) - m = 0
    BY <2>1, <2>4
  <2> QED BY <2>1, <2>2, <2>3, <2>4
<1> QED BY <1>2, <1>3

LEMMA ChunkEnds ==
  ASSUME asked \in Requests, announcing \in BOOLEAN,
         NEW b \in Nat, NEW s \in Nat, b % PacketsPerChunk = 0, b <= s, s < ChunkEnd(b)
  PROVE  /\ ChunkEnd(b) \in Nat /\ ChunkEnd(b) <= Len(Line)
         /\ EndsAChunk(s + 1) <=> s + 1 = ChunkEnd(b)
<1> DEFINE n == Len(Line)
           P == PacketsPerChunk
<1>1. n \in Nat \ {0} /\ P \in Nat \ {0}
  BY LineFacts
<1>2. ChunkEnd(b) = (IF n - b < P THEN n ELSE b + P)
  BY DEF ChunkEnd
<1>3. EndsAChunk(s + 1) <=> (s + 1 = n \/ (s + 1) % P = 0)
  BY DEF EndsAChunk
<1> HIDE DEF n, P
<1>4. ChunkEnd(b) \in Nat /\ ChunkEnd(b) <= n /\ s + 1 <= b + P
  BY <1>1, <1>2
<1>5. (s + 1) % P = 0 <=> s + 1 = b + P
  <2>1. s + 1 \in Nat /\ b < s + 1 /\ b % P = 0
    BY DEF P
  <2> QED BY <1>1, <1>4, <2>1, Multiples
<1>6. EndsAChunk(s + 1) <=> s + 1 = ChunkEnd(b)
  <2>1. CASE n - b < P
    BY <1>1, <1>2, <1>3, <1>5, <2>1
  <2>2. CASE ~(n - b < P)
    BY <1>1, <1>2, <1>3, <1>4, <1>5, <2>2
  <2> QED BY <2>1, <2>2
<1> QED BY <1>4, <1>6 DEF n

-----------------------------------------------------------------------------
(* A chunk in hand: packets b + 1 to e of the line, what was before them   *)
(* held if it is answers.                                                  *)
InHand(rem, b, e) ==
  /\ b \in Nat /\ e \in Nat /\ b <= e /\ e <= Len(Line)
  /\ Len(rem.text) = e - b /\ \A i \in 1..Len(rem.text) : rem.text[i] = Line[b + i]
  /\ announcing \/ asked \notin Answering => b = 0
  /\ ~announcing /\ asked \in Answering => rem.announced = Packets[asked] /\ IsFirst(rem.held, Text(asked), b)

LEMMA InHandCarries ==
  ASSUME asked \in Requests, announcing \in BOOLEAN, announcing => asked \in Answering,
         NEW rem \in Remotes, NEW b, NEW e, InHand(rem, b, e)
  PROVE  Carries(rem, rem.text, asked)
<1>1. CASE announcing
  <2>1. Line = <<Announcement(asked)>>
    BY <1>1, LineFacts
  <2>2. Begins(rem.text, Line)
    <3>1. b = 0 /\ \A i \in 1..Len(rem.text) : 0 + i = i
      BY <1>1 DEF InHand
    <3>2. Len(Line) \in Nat
      BY LineFacts
    <3> HIDE DEF Line
    <3> QED BY <1>1, <3>1, <3>2 DEF InHand, Begins, IsFirst
  <2> QED BY <1>1, <2>1, <2>2 DEF Carries
<1>2. CASE ~announcing /\ asked \notin Answering
  <2>1. Line = Text(asked)
    BY <1>2, LineFacts
  <2>2. Begins(rem.text, Line)
    <3>1. b = 0 /\ \A i \in 1..Len(rem.text) : 0 + i = i
      BY <1>2 DEF InHand
    <3>2. Len(Line) \in Nat
      BY LineFacts
    <3> HIDE DEF Line
    <3> QED BY <1>2, <3>1, <3>2 DEF InHand, Begins, IsFirst
  <2> QED BY <1>2, <2>1, <2>2 DEF Carries
<1>3. CASE ~announcing /\ asked \in Answering
  <2> DEFINE g == rem.held \o rem.text
  <2>1. Line = Text(asked) /\ Len(Line) \in Nat
    BY <1>3, LineFacts
  <2>2. /\ Len(g) = Len(rem.held) + Len(rem.text)
        /\ \A i \in 1..Len(rem.held) : g[i] = rem.held[i]
        /\ \A i \in 1..Len(rem.text) : g[Len(rem.held) + i] = rem.text[i]
    <3>1. rem.held \in Seq(Pieces) /\ rem.text \in Seq(Pieces)
      BY DEF Remotes, Texts, Pieces
    <3>2. IsJoined(g, rem.held, rem.text)
      BY <3>1, Joined, Zenon
    <3> HIDE DEF g
    <3> QED BY <3>2 DEF IsJoined
  <2> HIDE DEF g, Line
  <2>3. /\ Len(rem.held) = b /\ b \in Nat /\ e \in Nat /\ Len(rem.text) = e - b /\ b <= e /\ e <= Len(Line)
        /\ \A i \in 1..b : rem.held[i] = Line[i]
        /\ \A i \in 1..Len(rem.text) : rem.text[i] = Line[b + i]
    BY <1>3, <2>1 DEF InHand, IsFirst
  <2>4. ASSUME NEW i \in 1..Len(g) PROVE g[i] = Line[i]
    <3>1. CASE i <= b
      BY <2>2, <2>3, <3>1
    <3>2. CASE i > b
      <4>1. i - b \in 1..Len(rem.text) /\ b + (i - b) = i
        BY <2>2, <2>3, <3>2
      <4>2. g[b + (i - b)] = rem.text[i - b]
        BY <2>2, <2>3, <4>1, Zenon
      <4>3. rem.text[i - b] = Line[b + (i - b)]
        BY <2>3, <4>1, Zenon
      <4> QED BY <4>1, <4>2, <4>3
    <3> QED BY <2>3, <3>1, <3>2
  <2>5. Len(g) <= Len(Line)
    BY <2>2, <2>3
  <2>6. Begins(g, Text(asked))
    BY <2>1, <2>4, <2>5 DEF Begins, IsFirst
  <2> QED BY <1>3, <2>6 DEF Carries, InHand, g
<1> QED BY <1>1, <1>2, <1>3

(* What the listener makes of it: the number of an announcement is set,    *)
(* answers are held, a line that is whole is acted on.                     *)
Heard(out, acted, e) ==
  /\ announcing => out.announced = Packets[asked] /\ out.held = <<>> /\ out.acted = acted
  /\ ~announcing /\ e < Len(Line) =>
       out.announced = Packets[asked] /\ IsFirst(out.held, Text(asked), e) /\ out.acted = acted
  /\ ~announcing /\ e = Len(Line) => out.acted = Append(acted, Text(asked))

LEMMA ChunkListened ==
  ASSUME asked \in Requests, announcing \in BOOLEAN, announcing => asked \in Answering,
         NEW rem \in Remotes, NEW b, NEW e, InHand(rem, b, e), b < e,
         asked \notin Answering => e = Len(Line)
  PROVE  Heard(Listen(rem, rem.text), rem.acted, e)
<1> DEFINE out == Listen(rem, rem.text)
<1>0. /\ rem.text \in Texts /\ rem.held \in Texts /\ rem.acted \in Seq(Texts)
      /\ Carries(rem, rem.text, asked)
      /\ b \in Nat /\ e \in Nat /\ Len(rem.text) = e - b /\ e <= Len(Line)
  BY InHandCarries DEF Remotes, InHand
<1>1. CASE announcing
  <2>1. Line = <<Announcement(asked)>> /\ Len(Line) = 1 /\ <<Announcement(asked)>>[1] = Packet(asked, 0)
    BY <1>1, LineFacts, TextFacts
  <2>2. b = 0 /\ e = 1 /\ Len(rem.text) = 1
    BY <1>0, <1>1, <2>1 DEF InHand
  <2>3. rem.text[1] = Line[b + 1]
    BY <2>2 DEF InHand
  <2>4. rem.text[1] = Packet(asked, 0)
    BY <2>1, <2>2, <2>3
  <2>5. out.announced = Packets[asked] /\ out.held = <<>> /\ out.acted = rem.acted
    BY <1>0, <1>1, <2>2, <2>4, ListenToAnnouncement
  <2> QED BY <1>1, <2>5 DEF Heard
<1>2. CASE ~announcing /\ asked \notin Answering
  <2>1. Line = Text(asked) /\ Len(Line) \in Nat \ {0} /\ Text(asked) \in Texts
    BY <1>2, LineFacts
  <2>2. b = 0 /\ e = Len(Line) /\ Len(rem.text) = Len(Text(asked)) /\ Len(rem.text) > 0
    BY <1>0, <1>2, <2>1 DEF InHand
  <2>3. \A i \in 1..Len(rem.text) : rem.text[i] = Text(asked)[i]
    <3>1. \A i \in 1..Len(rem.text) : b + i = i
      BY <2>2
    <3> QED BY <2>1, <3>1, Zenon DEF InHand
  <2>4. rem.text = Text(asked)
    BY <1>0, <2>1, <2>2, <2>3, SeqEqual DEF Texts
  <2>5. Begins(rem.text, Text(asked))
    BY <2>2, <2>3, <1>0 DEF Begins, IsFirst
  <2>6. out.acted = Append(rem.acted, rem.text)
    BY <1>0, <1>2, <2>2, <2>5, ListenToLine
  <2> QED BY <1>2, <2>2, <2>4, <2>6 DEF Heard
<1>3. CASE ~announcing /\ asked \in Answering
  <2>1. Line = Text(asked) /\ Len(Line) = Packets[asked] /\ Packets[asked] \in Nat \ {0}
    BY <1>3, LineFacts
  <2>2. /\ rem.announced = Packets[asked] /\ IsFirst(rem.held, Text(asked), b) /\ Len(rem.held) = b
        /\ \A i \in 1..Len(rem.text) : rem.text[i] = Text(asked)[b + i]
    BY <1>3, <2>1 DEF InHand, IsFirst
  <2>3. Begins(rem.held \o rem.text, Text(asked))
    <3>1. ~Begins(rem.text, <<Announcement(asked)>>)
      <4>1. 1 \in 1..Len(rem.text) /\ b + 1 \in 1..Packets[asked]
        BY <1>0, <2>1
      <4>2. rem.text[1] = Packet(asked, b + 1)
        <5>1. rem.text[1] = Text(asked)[b + 1]
          BY <2>2, <4>1, Zenon
        <5>2. Text(asked)[b + 1] = Packet(asked, b + 1)
          BY <4>1, TextFacts, Zenon
        <5> QED BY <5>1, <5>2
      <4>3. <<Announcement(asked)>>[1] = Packet(asked, 0) /\ Packet(asked, 0).at = 0
        BY TextFacts DEF Packet
      <4>4. Packet(asked, b + 1).at = b + 1
        BY DEF Packet
      <4> QED BY <1>0, <4>1, <4>2, <4>3, <4>4 DEF Begins, IsFirst
    <3> QED BY <1>0, <1>3, <3>1 DEF Carries
  <2>4. /\ b + Len(rem.text) < Packets[asked] =>
             out.announced = Packets[asked] /\ out.held = rem.held \o rem.text /\ out.acted = rem.acted
        /\ b + Len(rem.text) >= Packets[asked] => out.acted = Append(rem.acted, Text(asked))
    BY <1>0, <1>3, <2>2, <2>3, ListenToAnswers
  <2> HIDE DEF out
  <2>5. b + Len(rem.text) = e
    BY <1>0
  <2>6. CASE e < Len(Line)
    <3>1. out.announced = Packets[asked] /\ out.held = rem.held \o rem.text /\ out.acted = rem.acted
      BY <2>1, <2>4, <2>5, <2>6
    <3>2. Len(rem.held \o rem.text) = e
      <4>1. Len(rem.held \o rem.text) = Len(rem.held) + Len(rem.text)
        <5>1. rem.held \in Seq(Pieces) /\ rem.text \in Seq(Pieces)
          BY <1>0 DEF Texts, Pieces
        <5>2. IsJoined(rem.held \o rem.text, rem.held, rem.text)
          BY <5>1, Joined, Zenon
        <5> QED BY <5>2, Zenon DEF IsJoined
      <4> QED BY <2>2, <2>5, <4>1
    <3>3. IsFirst(out.held, Text(asked), e)
      BY <2>3, <3>1, <3>2 DEF Begins
    <3> QED BY <1>3, <2>6, <3>1, <3>3 DEF Heard, out
  <2>7. CASE e = Len(Line)
    <3>1. out.acted = Append(rem.acted, Text(asked))
      BY <2>1, <2>4, <2>5, <2>7
    <3> QED BY <1>0, <1>3, <2>1, <2>7, <3>1 DEF Heard, out
  <2>8. e < Len(Line) \/ e = Len(Line)
    BY <1>0, <2>1
  <2> QED BY <2>6, <2>7, <2>8
<1> QED BY <1>1, <1>2, <1>3

-----------------------------------------------------------------------------
(* The invariant.  Lockstep: what the phase, the replies and the remote's  *)
(* counting are at each step of a request.                                 *)

Idle      == phase = "idle"
AtWriting == step \in {"chunk", "packet", "done", "written"} \/ (step = "close" /\ ~awaiting)
Reading   == (step = "close" /\ awaiting) \/ step \in ReadSteps
Unsent    == step = "ready" \/ (step = "open for writing" /\ ~awaiting)

PhaseInv ==
  /\ (step = "open for writing" /\ awaiting) \/ step \in {"chunk", "packet", "done", "written"} => ~Idle
  /\ step \in {"ready", "off", "chunk", "packet", "done"} => ~awaiting
  /\ step \in {"written", "data"} => awaiting

(* A remote left counting is left so by a request that threw, and the guard*)
(* lets no request start on it.                                            *)
DueInv ==
  /\ remote.due > 0 /\ ~Running => result = "threw"
  /\ Unsent /\ Idle => remote.due = 0
  /\ step = "open for writing" /\ awaiting => remote.due = 0
  /\ step \in {"chunk", "written", "close"} \cup ReadSteps => remote.due = 0

(* The remote has what was sent of the line, and of the chunk it counts.   *)
Start == sent - Len(remote.text)

InChunkInv ==
  /\ Start \in Nat /\ InHand(remote, Start, sent) /\ Start % PacketsPerChunk = 0 /\ ~remote.done
  /\ step = "packet" =>
       /\ sent < ChunkEnd(Start)
       /\ remote.due = ChunkEnd(Start) - sent + (IF ChunkEnd(Start) = Len(Line) /\ DonePacket THEN 1 ELSE 0)
  /\ step = "done" => sent = Len(Line) /\ Start < sent /\ DonePacket /\ remote.due = 1

ChunkInv ==
  /\ Running => asked \in Requests
  /\ announcing => asked \in Answering
  /\ step = "open for writing" => sent = 0
  /\ step = "open for writing" /\ awaiting => remote.open = "W" /\ remote.line = <<>>
  /\ AtWriting => remote.open = "W" /\ IsFirst(remote.line, Line, sent)
  /\ step = "chunk" => sent < Len(Line) /\ sent % PacketsPerChunk = 0 /\ (asked \in Answering \/ sent = 0)
  /\ step \in {"packet", "done"} => InChunkInv
  /\ step = "written" =>
       sent = Len(Line) \/ (asked \in Answering /\ sent < Len(Line) /\ sent % PacketsPerChunk = 0)
  /\ step = "close" => sent = Len(Line)

(* From an announcement to the last chunk of its line the number is set,   *)
(* and what is held is what the chunks before carried.                     *)
Announced ==
  \/ announcing /\ (step = "written" \/ step = "close" \/ step \in ReadSteps)
  \/ ~announcing /\ asked \in Answering /\ step \in {"open for writing", "chunk"}
  \/ ~announcing /\ asked \in Answering /\ step = "written" /\ sent < Len(Line)

AnnouncedInv ==
  Announced =>
    /\ remote.announced = Packets[asked]
    /\ IsFirst(remote.held, Text(asked), IF announcing THEN 0 ELSE sent)

(* No reply to a write command is left when another is waited for, and the *)
(* answer that is read is the one the remote has.                          *)
Came == Total(remote) - Len(replies)

LinkInv ==
  /\ step = "ping" => IF awaiting THEN Len(replies) <= 1 ELSE replies = <<>>
  /\ step = "ping" /\ awaiting /\ replies # <<>> /\ replies[1].cmd = "ping" => remote.due = 0
  /\ Unsent /\ Idle => NoWrite(replies)
  /\ step = "open for writing" /\ awaiting => NoWrite(replies)
  /\ step \in {"chunk", "packet", "done", "close"} \cup ReadSteps => NoWrite(replies)
  /\ step = "written" => \A i \in 1..Len(replies) - 1 : replies[i].cmd # "write"
  /\ step \in {"close", "open for reading", "read"} /\ ~awaiting => replies = <<>>
  /\ step \in {"close", "open for reading"} /\ awaiting => Len(replies) <= 1
  /\ step = "open for reading" /\ awaiting =>
       \A i \in 1..Len(replies) : replies[i].size = SizeOfAnswer(remote.written)
  /\ step \in {"read", "data"} /\ awaiting =>
       Len(replies) <= Total(remote) /\ \A i \in 1..Len(replies) : OfAnswer(remote, Came + i, replies[i])

(* Packet by packet of it, unless one was lost.                            *)
GotFirst(n) == Len(got) = n /\ \A i \in 1..n : got[i] = <<remote.written, i>>

AnswerInv ==
  /\ Reading => remote.written = Line /\ remote.open # "W"
  /\ step \in WriteSteps \cup {"open for reading", "read"} => got = <<>>
  /\ step \in WriteSteps \cup {"open for reading", "read", "data"} => ~failed
  /\ step \in {"read", "data"} => size = SizeOfAnswer(remote.written)
  /\ step = "data" => /\ Came >= 1 /\ Len(got) < Came
                      /\ Len(got) = Came - 1 => GotFirst(Came - 1)
  /\ step = "close after reading" /\ ~failed => GotFirst(SizeOfAnswer(remote.written))

(* A request that reads its answer was acted on, once.                     *)
Acted == ~announcing /\ (step = "close" \/ step \in ReadSteps \/ (step = "written" /\ sent = Len(Line)))

ActedInv ==
  /\ Running => Len(remote.acted) = before + (IF Acted THEN 1 ELSE 0)
  /\ Running /\ Acted => Last(remote.acted) = Text(asked)
  /\ Running => result = "none"
  /\ AnswersOwn

IInv == /\ TypeOK /\ RemoteInv(remote) /\ PhaseInv /\ DueInv /\ ChunkInv
        /\ AnnouncedInv /\ LinkInv /\ AnswerInv /\ ActedInv

-----------------------------------------------------------------------------
(* Replies that come and go.                                               *)

LEMMA MoreReplies ==
  ASSUME NEW q \in Seq(Replies), NEW more \in Seq(Replies)
  PROVE  /\ q \o more \in Seq(Replies) /\ Len(q \o more) = Len(q) + Len(more)
         /\ q = <<>> => q \o more = more
         /\ more = <<>> => q \o more = q
         /\ NoWrite(q) /\ NoWrite(more) => NoWrite(q \o more)
         /\ NoWrite(q) /\ Len(more) = 1 => \A i \in 1..Len(q \o more) - 1 : (q \o more)[i].cmd # "write"
<1>1. q \o more \in Seq(Replies) /\ IsJoined(q \o more, q, more)
  BY Joined, Zenon
<1>2. (q = <<>> => q \o more = more) /\ (more = <<>> => q \o more = q)
  OBVIOUS
<1> DEFINE j == q \o more
<1> HIDE DEF j
<1>3. /\ Len(j) = Len(q) + Len(more)
      /\ \A i \in 1..Len(q) : j[i] = q[i]
      /\ \A i \in 1..Len(more) : j[Len(q) + i] = more[i]
  BY <1>1 DEF IsJoined, j
<1>4. ASSUME NoWrite(q), NoWrite(more) PROVE NoWrite(j)
  <2>1. ASSUME NEW i \in 1..Len(j) PROVE j[i].cmd # "write"
    <3>1. CASE i \in 1..Len(q)
      BY <1>3, <1>4, <3>1 DEF NoWrite
    <3>2. CASE i \notin 1..Len(q)
      <4>1. i - Len(q) \in 1..Len(more) /\ Len(q) + (i - Len(q)) = i
        BY <1>3, <3>2
      <4>2. j[Len(q) + (i - Len(q))] = more[i - Len(q)]
        BY <1>3, <4>1, Zenon
      <4> QED BY <1>4, <4>1, <4>2 DEF NoWrite
    <3> QED BY <3>1, <3>2
  <2> QED BY <2>1 DEF NoWrite
<1>5. ASSUME NoWrite(q), Len(more) = 1, NEW i \in 1..Len(j) - 1 PROVE j[i].cmd # "write"
  BY <1>3, <1>5 DEF NoWrite
<1> QED BY <1>1, <1>2, <1>3, <1>4, <1>5 DEF j

LEMMA OneRead ==
  ASSUME NEW q \in Seq(Replies), q # <<>>
  PROVE  /\ Head(q) = q[1] /\ Head(q) \in Replies /\ Tail(q) \in Seq(Replies)
         /\ Len(q) >= 1 /\ Len(Tail(q)) = Len(q) - 1
         /\ \A i \in 1..Len(Tail(q)) : Tail(q)[i] = q[i + 1]
         /\ NoWrite(q) => NoWrite(Tail(q))
         /\ Len(q) <= 1 => Tail(q) = <<>>
<1>1. /\ Head(q) = q[1] /\ Head(q) \in Replies /\ Tail(q) \in Seq(Replies)
      /\ Len(q) >= 1 /\ Len(Tail(q)) = Len(q) - 1
  OBVIOUS
<1>2. \A i \in 1..Len(Tail(q)) : Tail(q)[i] = q[i + 1]
  OBVIOUS
<1>3. Len(q) <= 1 => Tail(q) = <<>>
  BY <1>1
<1>4. NoWrite(q) => NoWrite(Tail(q))
  <2>1. \A i \in 1..Len(Tail(q)) : i + 1 \in 1..Len(q)
    BY <1>1
  <2> QED BY <1>2, <2>1, Zenon DEF NoWrite
<1> QED BY <1>1, <1>2, <1>3, <1>4

(* A step that leaves the request alone leaves its line.                   *)
LEMMA SameLine ==
  ASSUME asked' = asked, announcing' = announcing
  PROVE  /\ Line' = Line /\ DonePacket' = DonePacket /\ \A b \in Nat : ChunkEnd(b)' = ChunkEnd(b)
         /\ Text(asked)' = Text(asked)
<1>1. Line' = Line /\ DonePacket' = DonePacket
  BY DEF Line, DonePacket, Text, Announcement
<1>2. \A b \in Nat : ChunkEnd(b)' = ChunkEnd(b)
  BY <1>1 DEF ChunkEnd
<1> QED BY <1>1, <1>2 DEF Text

-----------------------------------------------------------------------------
(* The report a step sends.                                                *)

LEMMA ReportFacts ==
  ASSUME TypeOK, ChunkInv, step \in Sends
  PROVE  /\ IsReport(ReportNow)
         /\ ReportNow.cmd = (IF step = "close after reading" THEN "close" ELSE step)
         /\ step = "chunk" => ReportNow.arg = ChunkCount /\ ChunkCount - 1 \in Nat
         /\ step = "packet" => ReportNow.arg = Line[sent + 1]
<1>1. seq \in Nat /\ SequenceModulus \in Nat /\ sent \in Nat /\ asked \in Requests \cup {NoRequest} /\ announcing \in BOOLEAN
  BY DEF TypeOK
<1>2. OpenWriteSequence \in Nat /\ OpenReadSequence \in Nat
  BY DEF OpenWriteSequence, OpenReadSequence
<1>3. LastSequence \in Nat
  BY <1>1 DEF LastSequence
<1>4. CASE step = "chunk"
  <2>1. ReportNow = Report("chunk", seq, ChunkCount)
    BY <1>4, Zenon DEF ReportNow
  <2>2. asked \in Requests
    BY <1>4 DEF ChunkInv, Running, WriteSteps
  <2>3. Len(Line) \in Nat /\ sent < Len(Line)
    BY <1>1, <1>4, <2>2, LineFacts DEF ChunkInv
  <2> HIDE DEF Line
  <2>4. InChunk \in Nat
    BY <1>1, <2>3 DEF InChunk
  <2>5. ChunkCount - 1 \in Nat /\ ChunkCount \in Nat \ {0}
    BY <2>4 DEF ChunkCount
  <2> QED BY <1>1, <1>4, <2>1, <2>5 DEF IsReport, Report
<1>5. CASE step = "packet"
  <2>1. ReportNow = Report("packet", seq, Line[sent + 1])
    BY <1>5, Zenon DEF ReportNow
  <2>2. asked \in Requests
    BY <1>5 DEF ChunkInv, Running, WriteSteps
  <2>3. Len(Line) \in Nat /\ \A i \in 1..Len(Line) : Line[i] \in Pieces
    BY <1>1, <2>2, LineFacts
  <2>4. sent < Len(Line)
    <3>1. Start \in Nat /\ Start <= sent /\ Start % PacketsPerChunk = 0 /\ sent < ChunkEnd(Start)
      BY <1>5 DEF ChunkInv, InChunkInv, InHand
    <3>2. ChunkEnd(Start) \in Nat /\ ChunkEnd(Start) <= Len(Line)
      BY <1>1, <2>2, <3>1, ChunkEnds
    <3> QED BY <1>1, <2>3, <3>1, <3>2
  <2>5. sent + 1 \in 1..Len(Line)
    BY <1>1, <2>3, <2>4
  <2>6. Line[sent + 1] \in Pieces
    BY <2>3, <2>5
  <2> QED BY <1>1, <1>5, <2>1, <2>6 DEF IsReport, Report
<1>6. CASE step \notin {"chunk", "packet"}
  <2>1. PICK n \in Nat : ReportNow = Report(IF step = "close after reading" THEN "close" ELSE step, n, 0)
    <3>1. CASE step = "ping"
      BY <3>1 DEF ReportNow
    <3>2. CASE step = "open for writing"
      BY <1>2, <3>2 DEF ReportNow
    <3>3. CASE step = "done"
      BY <3>3 DEF ReportNow
    <3>4. CASE step = "open for reading"
      BY <1>2, <3>4 DEF ReportNow
    <3>5. CASE step = "read"
      BY <1>3, <3>5 DEF ReportNow
    <3>6. CASE step \in {"close", "close after reading"}
      BY <1>1, <3>6 DEF ReportNow
    <3> QED BY <1>6, <3>1, <3>2, <3>3, <3>4, <3>5, <3>6 DEF Sends
  <2> QED BY <1>6, <2>1 DEF IsReport, Report, Sends
<1> QED BY <1>4, <1>5, <1>6

-----------------------------------------------------------------------------
(* What it does to the remote, and what the remote answers.                *)

LEMMA PingArrives ==
  ASSUME IInv, step = "ping", NEW out, out = After(remote, ReportNow), NEW a, a = Answers(remote, ReportNow)
  PROVE  /\ out \in Remotes /\ RemoteInv(out) /\ a \in Seq(Replies) /\ Len(a) <= 1
         /\ out.due > 0 => remote.due > 0
         /\ a # <<>> /\ a[1].cmd = "ping" => out.due = 0
         /\ \/ out.acted = remote.acted
            \/ /\ remote.due > 0
               /\ \E x \in Texts, q \in Requests : out.acted = Append(remote.acted, x) /\ Begins(x, Text(q))
<1>1. TypeOK /\ ChunkInv /\ RemoteInv(remote) /\ remote \in Remotes /\ remote.due \in Nat
  BY DEF IInv, TypeOK, Remotes
<1>2. IsReport(ReportNow) /\ ReportNow.cmd = "ping"
  BY <1>1, ReportFacts DEF Sends
<1>3. CASE remote.due > 0
  <2>1. /\ out \in Remotes /\ out.due = remote.due - 1 /\ RemoteInv(out)
        /\ \/ out.acted = remote.acted
           \/ \E x \in Texts, q \in Requests : out.acted = Append(remote.acted, x) /\ Begins(x, Text(q))
    BY <1>1, <1>2, <1>3, PingIsCounted
  <2>2. a = <<>> \/ \E n \in Nat : a = <<Reply("write", n)>>
    <3>1. remote.due > 1 \/ remote.due = 1
      BY <1>1, <1>3
    <3> QED BY <1>1, <1>2, <1>3, <3>1, AnswersInChunk
  <2>3. a \in Seq(Replies) /\ Len(a) <= 1 /\ (a # <<>> => a[1].cmd # "ping")
    <3>1. CASE a = <<>>
      BY <3>1
    <3>2. ASSUME NEW n \in Nat, a = <<Reply("write", n)>> PROVE a \in Seq(Replies) /\ Len(a) <= 1 /\ a[1].cmd # "ping"
      <4>1. Reply("write", n) \in Replies /\ Reply("write", n).cmd = "write"
        BY DEF Reply, Replies, Texts
      <4> QED BY <3>2, <4>1
    <3> QED BY <2>2, <3>1, <3>2
  <2> QED BY <1>1, <1>3, <2>1, <2>3
<1>4. CASE remote.due = 0
  <2>0. out \in Remotes /\ IsAtRest(out, remote, ReportNow)
    BY <1>1, <1>2, <1>4, AtRest
  <2>1. out \in Remotes /\ out.acted = remote.acted /\ out.due = 0
    BY <1>2, <2>0 DEF IsAtRest
  <2>2. RemoteInv(out)
    BY <1>1, <1>2, <1>4, AtRestKeeps
  <2>3. a \in Seq(Replies) /\ Len(a) = 1
    BY <1>1, <1>2, <1>4, AnswersAtRest
  <2> QED BY <2>1, <2>2, <2>3
<1> QED BY <1>1, <1>3, <1>4

LEMMA CommandArrives ==
  ASSUME IInv, step \in Sends \ {"ping", "packet", "done"}, remote.due = 0,
         NEW out, out = After(remote, ReportNow), NEW a, a = Answers(remote, ReportNow)
  PROVE  /\ out \in Remotes /\ RemoteInv(out) /\ a \in Seq(Replies) /\ NoWrite(a)
         /\ out.announced = remote.announced /\ out.held = remote.held /\ out.acted = remote.acted
         /\ out.due = (IF step = "chunk" THEN ChunkCount - 1 ELSE 0)
         /\ step = "open for writing" => out.open = "W" /\ out.line = <<>>
         /\ step = "chunk" => /\ out.text = <<>> /\ ~out.done /\ a = <<>>
                              /\ out.open = remote.open /\ out.line = remote.line
         /\ step # "open for writing" /\ out.open = "W" => remote.open = "W"
         /\ step \in {"close", "close after reading"} => out.open # "W"
         /\ step \notin {"close", "close after reading"} => out.written = remote.written
         /\ step \in {"close", "close after reading"} =>
              out.written = IF remote.open = "W" THEN remote.line ELSE remote.written
         /\ step \in {"open for writing", "open for reading", "close", "close after reading"} => Len(a) = 1
         /\ step = "open for reading" => a[1].size = SizeOfAnswer(remote.written)
         /\ step = "read" => Len(a) = Total(remote) /\ \A i \in 1..Len(a) : OfAnswer(remote, i, a[i])
<1>1. TypeOK /\ ChunkInv /\ RemoteInv(remote) /\ remote \in Remotes
  BY DEF IInv, TypeOK
<1>2. /\ IsReport(ReportNow) /\ ReportNow.cmd = (IF step = "close after reading" THEN "close" ELSE step)
      /\ step = "chunk" => ReportNow.arg = ChunkCount
  BY <1>1, ReportFacts
<1> DEFINE r == ReportNow
<1> HIDE DEF r
<1>3. IsReport(r) /\ out = After(remote, r) /\ a = Answers(remote, r)
  BY <1>2 DEF r
<1>4. /\ out \in Remotes
      /\ out.announced = remote.announced /\ out.held = remote.held /\ out.acted = remote.acted
      /\ out.due = IF r.cmd = "chunk" THEN r.arg - 1 ELSE 0
      /\ r.cmd = "open for writing" => out.open = "W" /\ out.line = <<>>
      /\ r.cmd = "chunk" => /\ out.text = <<>> /\ ~out.done
                            /\ out.open = remote.open /\ out.line = remote.line
      /\ out.open = "W" => remote.open = "W" \/ r.cmd = "open for writing"
      /\ r.cmd = "close" => out.open # "W"
      /\ out.written = IF r.cmd = "close" /\ remote.open = "W" THEN remote.line ELSE remote.written
  <2>1. out \in Remotes /\ IsAtRest(out, remote, r)
    BY <1>1, <1>3, AtRest
  <2>2. r.cmd = "chunk" => out.done = FALSE
    BY <2>1, Zenon DEF IsAtRest
  <2> QED BY <2>1, <2>2 DEF IsAtRest
<1>5. RemoteInv(out)
  <2>1. r.cmd = "chunk" => Requests # {}
    BY <1>1, <1>2 DEF ChunkInv, Running, WriteSteps, r
  <2> QED BY <1>1, <1>3, <2>1, AtRestKeeps
<1>6. /\ a \in Seq(Replies) /\ NoWrite(a)
      /\ r.cmd \in {"ping", "open for writing", "open for reading", "close"} => Len(a) = 1
      /\ r.cmd = "open for reading" => a[1].size = SizeOfAnswer(remote.written)
      /\ r.cmd \in {"chunk", "packet", "done"} => a = <<>>
  BY <1>1, <1>3, AnswersAtRest
<1>7. r.cmd = "read" => Len(a) = Total(remote) /\ \A i \in 1..Len(a) : OfAnswer(remote, i, a[i])
  BY <1>1, <1>3, StreamFacts
<1>8. /\ r.cmd = (IF step = "close after reading" THEN "close" ELSE step)
      /\ step = "chunk" => r.arg = ChunkCount
  BY <1>2 DEF r
<1> QED BY <1>4, <1>5, <1>6, <1>7, <1>8 DEF Sends

(* A packet of the line is counted, and the last one of a chunk heard      *)
(* unless the chunk ends in a done packet.                                 *)
LEMMA PacketArrives ==
  ASSUME IInv, step = "packet", NEW out, out = After(remote, ReportNow), NEW a, a = Answers(remote, ReportNow)
  PROVE  /\ out \in Remotes /\ RemoteInv(out) /\ a \in Seq(Replies) /\ out.written = remote.written
         /\ sent + 1 <= Len(Line) /\ out.open = "W" /\ IsFirst(out.line, Line, sent + 1)
         /\ ~EndsAChunk(sent + 1) \/ (sent + 1 = Len(Line) /\ DonePacket) =>
              /\ InHand(out, Start, sent + 1) /\ ~out.done /\ a = <<>> /\ out.acted = remote.acted
              /\ out.due = ChunkEnd(Start) - (sent + 1) + (IF ChunkEnd(Start) = Len(Line) /\ DonePacket THEN 1 ELSE 0)
              /\ IF EndsAChunk(sent + 1) THEN out.due = 1 ELSE sent + 1 < ChunkEnd(Start)
         /\ EndsAChunk(sent + 1) /\ ~(sent + 1 = Len(Line) /\ DonePacket) =>
              /\ out.due = 0 /\ Len(a) = 1 /\ Heard(out, remote.acted, sent + 1)
              /\ sent + 1 = Len(Line) \/ (asked \in Answering /\ (sent + 1) % PacketsPerChunk = 0)
<1> DEFINE r == ReportNow
           b == Start
           e == sent + 1
           c == Counted(remote, r)
<1>1. /\ remote \in Remotes /\ RemoteInv(remote) /\ sent \in Nat
      /\ asked \in Requests /\ announcing \in BOOLEAN /\ (announcing => asked \in Answering)
      /\ remote.open = "W" /\ IsFirst(remote.line, Line, sent)
      /\ remote.text \in Texts /\ remote.line \in Texts /\ remote.acted \in Seq(Texts)
  BY DEF IInv, TypeOK, ChunkInv, AtWriting, Running, WriteSteps, Remotes
<1>2. /\ b \in Nat /\ b = sent - Len(remote.text) /\ Len(remote.text) \in Nat
      /\ InHand(remote, b, sent) /\ b % PacketsPerChunk = 0 /\ ~remote.done /\ sent < ChunkEnd(b)
      /\ remote.due = ChunkEnd(b) - sent + (IF ChunkEnd(b) = Len(Line) /\ DonePacket THEN 1 ELSE 0)
  <2>1. /\ Start \in Nat /\ InHand(remote, Start, sent) /\ Start % PacketsPerChunk = 0 /\ ~remote.done
        /\ sent < ChunkEnd(Start)
        /\ remote.due = ChunkEnd(Start) - sent + (IF ChunkEnd(Start) = Len(Line) /\ DonePacket THEN 1 ELSE 0)
    BY DEF IInv, ChunkInv, InChunkInv
  <2>2. Start = sent - Len(remote.text)
    BY DEF Start
  <2>3. Len(remote.text) \in Nat
    BY <1>1 DEF Texts
  <2> QED BY <2>1, <2>2, <2>3, Zenon
<1>3. IsReport(r) /\ r.cmd = "packet" /\ r.arg = Line[e]
  <2>1. TypeOK /\ ChunkInv
    BY DEF IInv
  <2> QED BY <2>1, ReportFacts DEF Sends
<1>4. /\ Line \in Texts /\ Len(Line) \in Nat \ {0} /\ ChunkEnd(b) \in Nat /\ ChunkEnd(b) <= Len(Line)
      /\ EndsAChunk(e) <=> e = ChunkEnd(b)
      /\ announcing => Len(Line) = 1
      /\ ~announcing /\ asked \notin Answering => Len(Line) <= PacketsPerChunk
  <2>1. b <= sent
    BY <1>2 DEF InHand
  <2>2. ChunkEnd(b) \in Nat /\ ChunkEnd(b) <= Len(Line) /\ (EndsAChunk(e) <=> e = ChunkEnd(b))
    BY <1>1, <1>2, <2>1, ChunkEnds
  <2> QED BY <1>1, <2>2, LineFacts
<1> HIDE DEF r, b, c
<1>5. e \in Nat /\ e <= Len(Line) /\ b < e /\ e <= ChunkEnd(b) /\ remote.due > 0 /\ remote.due \in Nat
  <2>1. b <= sent
    BY <1>2 DEF InHand
  <2> QED BY <1>1, <1>2, <1>4, <2>1
<1>6. AsText(r) = <<Line[e]>> /\ Line[e] \in Pieces
  <2>1. Line[e] \in Pieces
    BY <1>3 DEF IsReport
  <2> QED BY <1>3, <2>1, AsTextFacts
<1>7. /\ c \in Remotes /\ c.due = remote.due - 1 /\ c.text = remote.text \o AsText(r)
      /\ c.line = remote.line \o AsText(r) /\ c.done = (remote.done \/ r.cmd = "done")
      /\ c.open = remote.open /\ c.written = remote.written
      /\ c.announced = remote.announced /\ c.held = remote.held /\ c.acted = remote.acted
      /\ After(remote, r) = IF remote.due = 1 THEN Listen(c, c.text) ELSE c
  BY <1>1, <1>3, <1>5, CountedFacts DEF c
<1>8. IsJoined(c.text, remote.text, <<Line[e]>>) /\ IsJoined(c.line, remote.line, <<Line[e]>>)
  <2>1. remote.text \in Seq(Pieces) /\ remote.line \in Seq(Pieces)
    BY <1>1 DEF Texts, Pieces
  <2>2. <<Line[e]>> \in Seq(Pieces)
    BY <1>6
  <2>3. c.text = remote.text \o <<Line[e]>> /\ c.line = remote.line \o <<Line[e]>>
    BY <1>6, <1>7
  <2>4. IsJoined(remote.text \o <<Line[e]>>, remote.text, <<Line[e]>>)
    BY <2>1, <2>2, Joined, Zenon
  <2>5. IsJoined(remote.line \o <<Line[e]>>, remote.line, <<Line[e]>>)
    BY <2>1, <2>2, Joined, Zenon
  <2> QED BY <2>3, <2>4, <2>5, Zenon
<1>9. Len(<<Line[e]>>) = 1 /\ <<Line[e]>>[1] = Line[e]
  OBVIOUS
<1> DEFINE x == <<Line[e]>>
<1> HIDE DEF x, Line
<1>10. IsFirst(c.line, Line, e)
  <2>1. Len(remote.line) = sent /\ \A i \in 1..sent : remote.line[i] = Line[i]
    BY <1>1 DEF IsFirst
  <2>2. /\ Len(c.line) = sent + 1 /\ \A i \in 1..sent : c.line[i] = remote.line[i]
        /\ c.line[sent + 1] = Line[e]
    <3>1. /\ Len(c.line) = Len(remote.line) + Len(x) /\ \A i \in 1..Len(remote.line) : c.line[i] = remote.line[i]
          /\ \A i \in 1..Len(x) : c.line[Len(remote.line) + i] = x[i]
      BY <1>8 DEF IsJoined, x
    <3>2. Len(x) = 1 /\ x[1] = Line[e]
      BY <1>9 DEF x
    <3> QED BY <1>1, <2>1, <3>1, <3>2
  <2>3. \A i \in 1..e : i \in 1..sent \/ i = e
    BY <1>1
  <2>4. \A i \in 1..e : c.line[i] = Line[i]
    BY <2>1, <2>2, <2>3, Zenon
  <2> QED BY <1>5, <2>2, <2>4, Zenon DEF IsFirst
<1>11. InHand(c, b, e)
  <2>1. /\ b <= sent /\ Len(remote.text) = sent - b /\ \A i \in 1..Len(remote.text) : remote.text[i] = Line[b + i]
        /\ announcing \/ asked \notin Answering => b = 0
        /\ ~announcing /\ asked \in Answering => remote.announced = Packets[asked] /\ IsFirst(remote.held, Text(asked), b)
    BY <1>2 DEF InHand
  <2>2. /\ Len(c.text) = Len(remote.text) + 1 /\ \A i \in 1..Len(remote.text) : c.text[i] = remote.text[i]
        /\ c.text[Len(remote.text) + 1] = Line[e]
    <3>1. /\ Len(c.text) = Len(remote.text) + Len(x) /\ \A i \in 1..Len(remote.text) : c.text[i] = remote.text[i]
          /\ \A i \in 1..Len(x) : c.text[Len(remote.text) + i] = x[i]
      BY <1>8 DEF IsJoined, x
    <3>2. Len(x) = 1 /\ x[1] = Line[e]
      BY <1>9 DEF x
    <3> QED BY <3>1, <3>2
  <2>3. Len(c.text) = e - b /\ Len(remote.text) + 1 = e - b /\ b + (e - b) = e
    <3>1. Len(c.text) = (sent - b) + 1
      BY <2>1, <2>2, Zenon
    <3>2. sent \in Nat /\ b \in Nat /\ Len(remote.text) = sent - b /\ e = sent + 1
      BY <1>1, <1>2, <2>1, Zenon
    <3> QED BY <3>1, <3>2
  <2>4. ASSUME NEW i \in 1..Len(c.text) PROVE c.text[i] = Line[b + i]
    <3>1. CASE i = e - b
      BY <2>2, <2>3, <3>1
    <3>2. CASE i # e - b
      <4>1. i \in 1..Len(remote.text)
        <5>1. i \in 1..e - b /\ Len(remote.text) + 1 = e - b /\ Len(remote.text) \in Nat
          BY <1>2, <2>3, Zenon
        <5> QED BY <3>2, <5>1
      <4> QED BY <2>1, <2>2, <4>1
    <3> QED BY <3>1, <3>2
  <2>5. b \in Nat /\ e \in Nat /\ b <= e /\ e <= Len(Line)
    BY <1>2, <1>5
  <2> QED BY <1>7, <2>1, <2>3, <2>4, <2>5, Zenon DEF InHand
<1>12. ~c.done
  BY <1>2, <1>3, <1>7
<1>13. RemoteInv(c) /\ Carries(c, c.text, asked)
  <2>1. Carries(c, c.text, asked)
    BY <1>1, <1>7, <1>11, InHandCarries
  <2>2. Gathers(c) /\ ActedWhole(c)
    BY <1>1, <1>7 DEF RemoteInv, Gathers, ActedWhole
  <2> QED BY <1>1, <2>1, <2>2 DEF RemoteInv, Counts
<1>14. out = After(remote, r) /\ a = Answers(remote, r)
  BY DEF r
<1>15. CASE remote.due > 1
  <2>1. out = c /\ a = <<>>
    BY <1>1, <1>3, <1>5, <1>7, <1>14, <1>15, AnswersInChunk
  <2>2. ~EndsAChunk(e) \/ (e = Len(Line) /\ DonePacket)
    BY <1>1, <1>2, <1>4, <1>5, <1>15
  <2>3. out.due = ChunkEnd(b) - e + (IF ChunkEnd(b) = Len(Line) /\ DonePacket THEN 1 ELSE 0)
    BY <1>1, <1>2, <1>4, <1>7, <2>1
  <2>4. IF EndsAChunk(e) THEN out.due = 1 ELSE e < ChunkEnd(b)
    BY <1>1, <1>4, <1>5, <2>2, <2>3
  <2>5. a \in Seq(Replies)
    BY <2>1
  <2>6. /\ out \in Remotes /\ RemoteInv(out) /\ out.written = remote.written
        /\ out.open = "W" /\ IsFirst(out.line, Line, e) /\ InHand(out, b, e) /\ ~out.done
        /\ out.acted = remote.acted
    BY <1>1, <1>7, <1>10, <1>11, <1>12, <1>13, <2>1, Zenon
  <2> QED BY <1>5, <2>1, <2>2, <2>3, <2>4, <2>5, <2>6, Zenon DEF b
<1>16. CASE remote.due = 1
  <2>1. out = Listen(c, c.text)
    BY <1>7, <1>14, <1>16
  <2>2. EndsAChunk(e) /\ ~(e = Len(Line) /\ DonePacket) /\ e = ChunkEnd(b)
    BY <1>1, <1>2, <1>4, <1>5, <1>16
  <2>3. e = Len(Line) \/ (asked \in Answering /\ e % PacketsPerChunk = 0)
    <3>1. asked \notin Answering => b = 0 /\ Len(Line) <= PacketsPerChunk
      BY <1>1, <1>2, <1>4 DEF InHand
    <3>2. ASSUME asked \notin Answering PROVE e = Len(Line)
      BY <1>4, <2>2, <3>1, <3>2 DEF ChunkEnd
    <3> QED BY <2>2, <3>2 DEF EndsAChunk
  <2>4. asked \notin Answering => e = Len(Line)
    BY <2>3
  <2>5. Heard(out, c.acted, e)
    BY <1>1, <1>5, <1>7, <1>11, <2>1, <2>4, ChunkListened
  <2>6. c.text \in Texts
    BY <1>7 DEF Remotes
  <2>7. out \in Remotes /\ SameButListener(out, c)
    BY <1>7, <2>1, <2>6, ListenTyped
  <2>8. Gathers(out) /\ ActedWhole(out)
    BY <1>1, <1>7, <1>13, <2>1, <2>6, ListenKeeps DEF RemoteInv
  <2>9. out.due = 0 /\ out.open = "W" /\ out.line = c.line /\ out.written = remote.written
    BY <1>1, <1>7, <1>16, <2>7 DEF SameButListener
  <2>10. RemoteInv(out)
    BY <2>8, <2>9 DEF RemoteInv, Counts
  <2>11. PICK n \in Nat : a = <<Reply("write", n)>>
    BY <1>1, <1>3, <1>5, <1>14, <1>16, AnswersInChunk
  <2>12. a \in Seq(Replies) /\ Len(a) = 1
    <3>1. Reply("write", n) \in Replies
      BY DEF Reply, Replies, Texts
    <3> QED BY <2>11, <3>1
  <2>13. out.due = 0 /\ Len(a) = 1 /\ Heard(out, remote.acted, e)
    BY <1>7, <2>5, <2>9, <2>12
  <2> QED BY <1>5, <1>10, <2>2, <2>3, <2>7, <2>9, <2>10, <2>12, <2>13
<1> QED BY <1>5, <1>15, <1>16

(* The done packet of a line of answers ends its last chunk.               *)
LEMMA DoneArrives ==
  ASSUME IInv, step = "done", NEW out, out = After(remote, ReportNow), NEW a, a = Answers(remote, ReportNow)
  PROVE  /\ out \in Remotes /\ RemoteInv(out) /\ a \in Seq(Replies) /\ out.written = remote.written
         /\ out.open = "W" /\ IsFirst(out.line, Line, sent)
         /\ out.due = 0 /\ Len(a) = 1 /\ sent = Len(Line) /\ Heard(out, remote.acted, sent)
<1> DEFINE r == ReportNow
           b == Start
           c == Counted(remote, r)
<1>1. /\ remote \in Remotes /\ RemoteInv(remote) /\ sent \in Nat
      /\ asked \in Requests /\ announcing \in BOOLEAN /\ (announcing => asked \in Answering)
      /\ remote.open = "W" /\ IsFirst(remote.line, Line, sent)
      /\ remote.text \in Texts /\ remote.line \in Texts
  BY DEF IInv, TypeOK, ChunkInv, AtWriting, Running, WriteSteps, Remotes
<1>2. /\ Start \in Nat /\ InHand(remote, Start, sent) /\ Start < sent
      /\ sent = Len(Line) /\ DonePacket /\ remote.due = 1
  BY DEF IInv, ChunkInv, InChunkInv
<1>3. IsReport(r) /\ r.cmd = "done"
  <2>1. TypeOK /\ ChunkInv
    BY DEF IInv
  <2> QED BY <2>1, ReportFacts DEF Sends
<1> HIDE DEF r, b, c
<1>4. AsText(r) = <<>>
  BY <1>3, AsTextFacts
<1>5. /\ c \in Remotes /\ c.due = remote.due - 1 /\ c.text = remote.text \o AsText(r)
      /\ c.line = remote.line \o AsText(r)
      /\ c.open = remote.open /\ c.written = remote.written
      /\ c.announced = remote.announced /\ c.held = remote.held /\ c.acted = remote.acted
      /\ After(remote, r) = IF remote.due = 1 THEN Listen(c, c.text) ELSE c
  <2>1. remote.due > 0
    BY <1>2
  <2> QED BY <1>1, <1>3, <2>1, CountedFacts DEF c
<1>6. c.text = remote.text /\ c.line = remote.line
  BY <1>1, <1>4, <1>5 DEF Texts
<1>7. InHand(c, Start, sent)
  <2>1. c.text = remote.text /\ c.announced = remote.announced /\ c.held = remote.held
    BY <1>5, <1>6
  <2> HIDE DEF Line
  <2> QED BY <1>2, <2>1 DEF InHand
<1>8. Carries(c, c.text, asked) /\ Gathers(c) /\ ActedWhole(c)
  <2>1. Carries(c, c.text, asked)
    BY <1>1, <1>5, <1>7, InHandCarries
  <2>2. Gathers(c) /\ ActedWhole(c)
    BY <1>1, <1>5 DEF RemoteInv, Gathers, ActedWhole
  <2> QED BY <2>1, <2>2
<1>9. out = Listen(c, c.text)
  BY <1>2, <1>5 DEF r
<1>10. Heard(out, remote.acted, sent)
  <2>1. asked \in Answering
    BY <1>2 DEF DonePacket
  <2>2. Heard(out, c.acted, sent)
    BY <1>1, <1>2, <1>5, <1>7, <1>9, <2>1, ChunkListened
  <2> QED BY <1>5, <2>2
<1>11. c.text \in Texts
  BY <1>5 DEF Remotes
<1>12. out \in Remotes /\ SameButListener(out, c)
  BY <1>5, <1>9, <1>11, ListenTyped
<1>13. Gathers(out) /\ ActedWhole(out)
  BY <1>1, <1>5, <1>8, <1>9, <1>11, ListenKeeps
<1>14. out.due = 0 /\ out.open = "W" /\ out.line = remote.line /\ out.written = remote.written
  BY <1>1, <1>2, <1>5, <1>6, <1>12 DEF SameButListener
<1>15. RemoteInv(out)
  BY <1>13, <1>14 DEF RemoteInv, Counts
<1>16. a \in Seq(Replies) /\ Len(a) = 1
  <2>1. remote.due > 0 /\ a = Answers(remote, r)
    BY <1>2 DEF r
  <2>2. PICK n \in Nat : a = <<Reply("write", n)>>
    BY <1>1, <1>2, <1>3, <2>1, AnswersInChunk
  <2>3. Reply("write", n) \in Replies
    BY DEF Reply, Replies, Texts
  <2> QED BY <2>2, <2>3
<1> QED BY <1>1, <1>2, <1>10, <1>12, <1>14, <1>15, <1>16, Zenon

-----------------------------------------------------------------------------
(* A step that throws keeps the invariant.                                 *)

LEMMA ThrowKeeps ==
  ASSUME IInv, Throw, step = "ping" \/ Running, phase' = phase, faults' \in 0..MaxFaults,
         remote' \in Remotes, RemoteInv(remote'), replies' \in Seq(Replies),
         step = "ping" => /\ remote'.due > 0 => remote.due > 0
                          /\ remote.due = 0 => remote'.acted = remote.acted,
         step \in {"read", "data"} =>
           /\ remote'.due = 0 /\ NoWrite(replies')
           /\ remote'.written = remote.written /\ (remote'.open = "W" => remote.open = "W")
           /\ remote'.announced = remote.announced /\ remote'.held = remote.held /\ remote'.acted = remote.acted,
         Running /\ step \notin {"read", "data"} /\ Idle => remote'.due = 0 /\ NoWrite(replies')
  PROVE  IInv'
<1>1. /\ TypeOK /\ PhaseInv /\ DueInv /\ ChunkInv /\ AnnouncedInv /\ LinkInv /\ AnswerInv /\ ActedInv
      /\ awaiting' = FALSE /\ asked' = asked /\ announcing' = announcing /\ before' = before /\ asks' = asks
      /\ seq' = seq /\ sent' = sent /\ size' = size /\ got' = got
  BY DEF IInv, Throw, Unasked
<1>2. Line' = Line /\ DonePacket' = DonePacket /\ Text(asked)' = Text(asked)
  BY <1>1, SameLine
<1>3. RemoteInv(remote)'
  OBVIOUS
<1>4. CASE step = "ping"
  <2>1. step' = "off" /\ result' = result /\ failed' = failed
    <3>1. step' = "off" /\ UNCHANGED <<result, failed>>
      <4>1. step \notin {"read", "data"} /\ step \notin (WriteSteps \cup ReadSteps) \ {"read", "data"}
        BY <1>4 DEF WriteSteps, ReadSteps
      <4> QED BY <1>4, <4>1 DEF Throw
    <3> QED BY <3>1
  <2>2. TypeOK'
    BY <1>1, <2>1 DEF TypeOK, Steps
  <2>3. PhaseInv' /\ LinkInv' /\ AnswerInv' /\ AnnouncedInv'
    BY <1>1, <2>1 DEF PhaseInv, LinkInv, AnswerInv, AnnouncedInv, Unsent, Reading, Announced, WriteSteps, ReadSteps
  <2>4. DueInv'
    BY <1>1, <1>4, <2>1 DEF DueInv, Unsent, Running, WriteSteps, ReadSteps
  <2>5. ChunkInv'
    BY <1>1, <2>1 DEF ChunkInv, AtWriting, Running, WriteSteps, ReadSteps
  <2>6. ActedInv'
    <3>1. ~Running'
      BY <2>1 DEF Running, WriteSteps, ReadSteps
    <3>2. AnswersOwn'
      <4>1. CASE result = "answered"
        <5>1. remote.due = 0
          <6>1. ~(remote.due > 0)
            BY <1>1, <1>4, <4>1 DEF DueInv, Running, WriteSteps, ReadSteps
          <6>2. remote.due \in Nat
            BY <1>1 DEF TypeOK, Remotes
          <6> QED BY <6>1, <6>2
        <5>2. remote'.acted = remote.acted
          BY <1>4, <5>1
        <5> QED BY <1>1, <1>2, <2>1, <5>2 DEF ActedInv, AnswersOwn
      <4>2. CASE result # "answered"
        BY <2>1, <4>2 DEF AnswersOwn
      <4> QED BY <4>1, <4>2
    <3> QED BY <3>1, <3>2 DEF ActedInv
  <2> QED BY <1>3, <2>2, <2>3, <2>4, <2>5, <2>6 DEF IInv
<1>5. CASE step \in {"read", "data"}
  <2>1. step' = "close after reading" /\ failed' = TRUE /\ result' = result
    BY <1>5 DEF Throw
  <2>2. TypeOK'
    BY <1>1, <2>1 DEF TypeOK, Steps, ReadSteps
  <2>3. PhaseInv'
    BY <1>1, <2>1 DEF PhaseInv
  <2>4. DueInv'
    BY <1>1, <1>5, <2>1 DEF DueInv, Unsent, Running, WriteSteps, ReadSteps
  <2>5. ChunkInv'
    BY <1>1, <1>5, <2>1 DEF ChunkInv, AtWriting, Running, WriteSteps, ReadSteps
  <2>6. AnnouncedInv'
    BY <1>1, <1>2, <1>5, <2>1 DEF AnnouncedInv, Announced, WriteSteps, ReadSteps
  <2>7. LinkInv'
    BY <1>1, <1>5, <2>1 DEF LinkInv, Unsent, ReadSteps
  <2>8. AnswerInv'
    BY <1>1, <1>2, <1>5, <2>1 DEF AnswerInv, Reading, WriteSteps, ReadSteps
  <2>9. ActedInv'
    BY <1>1, <1>2, <1>5, <2>1 DEF ActedInv, AnswersOwn, Acted, Running, WriteSteps, ReadSteps
  <2> QED BY <1>3, <2>2, <2>3, <2>4, <2>5, <2>6, <2>7, <2>8, <2>9 DEF IInv
<1>6. CASE step \notin {"ping", "read", "data"}
  <2>1. step' = "ready" /\ result' = "threw" /\ failed' = failed
    BY <1>6 DEF Throw, Running
  <2>2. TypeOK'
    BY <1>1, <2>1 DEF TypeOK, Steps
  <2>3. PhaseInv'
    BY <1>1, <2>1 DEF PhaseInv
  <2>4. DueInv' /\ LinkInv'
    BY <1>1, <1>6, <2>1 DEF DueInv, LinkInv, Unsent, Idle, Running, WriteSteps, ReadSteps
  <2>5. ChunkInv'
    BY <1>1, <2>1 DEF ChunkInv, AtWriting, Running, WriteSteps, ReadSteps
  <2>6. AnnouncedInv' /\ AnswerInv'
    BY <1>1, <2>1 DEF AnnouncedInv, Announced, AnswerInv, Reading, WriteSteps, ReadSteps
  <2>7. ActedInv'
    BY <1>1, <2>1 DEF ActedInv, AnswersOwn, Running, WriteSteps, ReadSteps
  <2> QED BY <1>3, <2>2, <2>3, <2>4, <2>5, <2>6, <2>7 DEF IInv
<1> QED BY <1>4, <1>5, <1>6

-----------------------------------------------------------------------------
(* One lemma for each action.                                              *)

LEMMA AttachKeeps ==
  ASSUME IInv, Attach
  PROVE  IInv'
<1>1. /\ TypeOK /\ RemoteInv(remote) /\ PhaseInv /\ DueInv /\ ChunkInv /\ ActedInv
      /\ step = "off" /\ step' = "ping" /\ awaiting' = FALSE /\ phase' = "idle" /\ replies' = <<>>
      /\ remote' = remote /\ asked' = asked /\ announcing' = announcing /\ seq' = seq /\ sent' = sent
      /\ size' = size /\ got' = got /\ failed' = failed /\ result' = result /\ before' = before
      /\ asks' = asks /\ faults' = faults
  BY DEF IInv, Attach, operation
<1>2. TypeOK'
  <2>1. step' \in Steps /\ phase' \in {"idle", "open", "line", "ended"} /\ awaiting' \in BOOLEAN
    BY <1>1 DEF Steps
  <2>2. replies' \in Seq(Replies)
    BY <1>1
  <2> QED BY <1>1, <2>1, <2>2, Zenon DEF TypeOK
<1>3. RemoteInv(remote)'
  BY <1>1
<1>4. PhaseInv' /\ LinkInv' /\ AnswerInv' /\ AnnouncedInv'
  BY <1>1 DEF PhaseInv, LinkInv, AnswerInv, AnnouncedInv, Unsent, Reading, Announced, WriteSteps, ReadSteps
<1>5. DueInv' /\ ChunkInv'
  BY <1>1 DEF DueInv, ChunkInv, Unsent, AtWriting, Running, WriteSteps, ReadSteps
<1>6. ActedInv'
  BY <1>1, SameLine DEF ActedInv, AnswersOwn, Running, WriteSteps, ReadSteps
<1> QED BY <1>2, <1>3, <1>4, <1>5, <1>6 DEF IInv

LEMMA DetachKeeps ==
  ASSUME IInv, Detach
  PROVE  IInv'
<1>1. /\ TypeOK /\ RemoteInv(remote) /\ PhaseInv /\ DueInv /\ ChunkInv /\ ActedInv
      /\ step = "ready" /\ step' = "off" /\ awaiting' = awaiting /\ phase' = phase /\ replies' = replies
      /\ remote' = remote /\ asked' = asked /\ announcing' = announcing /\ seq' = seq /\ sent' = sent
      /\ size' = size /\ got' = got /\ failed' = failed /\ result' = result /\ before' = before
      /\ asks' = asks /\ faults' = faults
  BY DEF IInv, Detach, operation
<1>2. TypeOK'
  <2>1. step' \in Steps
    BY <1>1 DEF Steps
  <2> QED BY <1>1, <2>1, Zenon DEF TypeOK
<1>3. RemoteInv(remote)'
  BY <1>1
<1>4. PhaseInv' /\ LinkInv' /\ AnswerInv' /\ AnnouncedInv'
  BY <1>1 DEF PhaseInv, LinkInv, AnswerInv, AnnouncedInv, Unsent, Reading, Announced, WriteSteps, ReadSteps
<1>5. DueInv' /\ ChunkInv'
  BY <1>1 DEF DueInv, ChunkInv, Unsent, AtWriting, Running, WriteSteps, ReadSteps
<1>6. ActedInv'
  BY <1>1, SameLine DEF ActedInv, AnswersOwn, Running, WriteSteps, ReadSteps
<1> QED BY <1>2, <1>3, <1>4, <1>5, <1>6 DEF IInv

LEMMA AskKeeps ==
  ASSUME IInv, NEW r \in Requests, Ask(r)
  PROVE  IInv'
<1>1. /\ TypeOK /\ RemoteInv(remote) /\ PhaseInv /\ DueInv /\ ChunkInv /\ LinkInv
      /\ step = "ready" /\ step' = "open for writing" /\ awaiting' = FALSE /\ asked' = r
      /\ announcing' \in BOOLEAN /\ (announcing' => r \in Answering) /\ (r \in Answering => announcing')
      /\ seq' = FirstSequence(r) /\ sent' = 0 /\ size' = 0
      /\ got' = <<>> /\ failed' = FALSE /\ result' = "none" /\ before' = Len(remote.acted)
      /\ asks < MaxAsks /\ asks' = asks + 1
      /\ remote' = remote /\ replies' = replies /\ phase' = phase /\ faults' = faults
  <2>1. announcing' \in BOOLEAN /\ (announcing' => r \in Answering) /\ (r \in Answering => announcing')
    <3>1. announcing' = (r \in Answering)
      BY DEF Ask
    <3>2. CASE r \in Answering
      BY <3>1, <3>2
    <3>3. CASE r \notin Answering
      <4>1. (r \in Answering) = FALSE
        BY <3>3
      <4>2. announcing' = FALSE
        BY <3>1, <4>1, Zenon
      <4> QED BY <3>3, <4>2
    <3> QED BY <3>2, <3>3
  <2> QED BY <2>1 DEF IInv, Ask
<1>2. TypeOK'
  <2>1. FirstSequence(r) \in 0..SequenceModulus - 1
    BY DEF FirstSequence
  <2>2. Len(remote.acted) \in Nat
    BY DEF IInv, TypeOK, Remotes
  <2>3. asks + 1 \in 0..MaxAsks
    <3>1. asks \in 0..MaxAsks /\ asks < MaxAsks /\ MaxAsks \in Nat
      BY BoundAssumption DEF IInv, TypeOK, Ask
    <3> QED BY <3>1
  <2>4. step' \in Steps /\ asked' \in Requests \cup {NoRequest}
    BY <1>1 DEF Steps, WriteSteps
  <2>5. got' \in Seq(Texts \X Nat) /\ sent' \in Nat /\ size' \in Nat /\ result' \in {"none", "answered", "threw"}
    <3>1. got' = <<>> /\ sent' = 0 /\ size' = 0 /\ result' = "none"
      BY <1>1, Zenon
    <3> QED BY <3>1
  <2>6. awaiting' \in BOOLEAN /\ failed' \in BOOLEAN /\ announcing' \in BOOLEAN
    BY <1>1
  <2> QED BY <1>1, <2>1, <2>2, <2>3, <2>4, <2>5, <2>6, Zenon DEF TypeOK
<1>3. RemoteInv(remote)'
  BY <1>1
<1>4. PhaseInv'
  BY <1>1 DEF PhaseInv
<1>5. DueInv'
  BY <1>1 DEF DueInv, Unsent, Idle, Running, WriteSteps, ReadSteps
<1>6. ChunkInv'
  BY <1>1 DEF ChunkInv, AtWriting, Running, WriteSteps, ReadSteps
<1>7. AnnouncedInv'
  BY <1>1 DEF AnnouncedInv, Announced, ReadSteps
<1>8. LinkInv'
  BY <1>1 DEF LinkInv, Unsent, Idle, ReadSteps
<1>9. AnswerInv'
  BY <1>1 DEF AnswerInv, Reading, WriteSteps, ReadSteps
<1>10. ActedInv'
  <2>1. ~Acted'
    BY <1>1 DEF Acted, ReadSteps
  <2>2. Len(remote.acted) \in Nat
    BY DEF IInv, TypeOK, Remotes
  <2>3. AnswersOwn'
    BY <1>1 DEF AnswersOwn
  <2>4. Len(remote'.acted) = before' + 0
    <3>1. remote' = remote /\ before' = Len(remote.acted)
      BY <1>1, Zenon
    <3> QED BY <2>2, <3>1
  <2>5. result' = "none"
    BY <1>1, Zenon
  <2> QED BY <2>1, <2>3, <2>4, <2>5 DEF ActedInv
<1> QED BY <1>2, <1>3, <1>4, <1>5, <1>6, <1>7, <1>8, <1>9, <1>10 DEF IInv

LEMMA KillKeeps ==
  ASSUME IInv, Kill
  PROVE  IInv'
<1>1. /\ TypeOK /\ RemoteInv(remote) /\ PhaseInv /\ DueInv /\ ChunkInv /\ ActedInv
      /\ step # "off" /\ step' = "off" /\ awaiting' = FALSE /\ phase' = phase /\ replies' = replies
      /\ remote' = remote /\ asked' = asked /\ announcing' = announcing /\ seq' = seq /\ sent' = sent
      /\ size' = size /\ got' = got /\ failed' = failed /\ before' = before /\ asks' = asks
      /\ result' = (IF Running THEN "threw" ELSE result)
      /\ faults < MaxFaults /\ faults' = faults + 1
  BY DEF IInv, Kill, Fault, Unasked
<1>2. TypeOK'
  <2>1. faults + 1 \in 0..MaxFaults
    BY <1>1, BoundAssumption DEF TypeOK
  <2> QED BY <1>1, <2>1 DEF TypeOK, Steps
<1>3. RemoteInv(remote)'
  BY <1>1
<1>4. PhaseInv' /\ LinkInv' /\ AnswerInv' /\ AnnouncedInv'
  BY <1>1 DEF PhaseInv, LinkInv, AnswerInv, AnnouncedInv, Unsent, Reading, Announced, WriteSteps, ReadSteps
<1>5. DueInv'
  BY <1>1 DEF DueInv, Unsent, WriteSteps, ReadSteps
<1>6. ChunkInv'
  BY <1>1 DEF ChunkInv, AtWriting, Running, WriteSteps, ReadSteps
<1>7. ActedInv'
  <2>1. ~Running'
    BY <1>1 DEF Running, WriteSteps, ReadSteps
  <2>2. AnswersOwn'
    BY <1>1, SameLine DEF ActedInv, AnswersOwn
  <2> QED BY <2>1, <2>2 DEF ActedInv
<1> QED BY <1>2, <1>3, <1>4, <1>5, <1>6, <1>7 DEF IInv

(* The stream of an answer, one report further.                            *)
LEMMA StreamRead ==
  ASSUME IInv, step \in {"read", "data"}, awaiting, replies # <<>>, remote' = remote, replies' = Tail(replies)
  PROVE  /\ Came \in Nat /\ Came < Total(remote) /\ Total(remote) = SizeOfAnswer(remote.written) + 2
         /\ SizeOfAnswer(remote.written) \in Nat
         /\ Came' = Came + 1 /\ OfAnswer(remote, Came + 1, Head(replies))
         /\ Len(replies') <= Total(remote') /\ \A i \in 1..Len(replies') : OfAnswer(remote', Came' + i, replies'[i])
<1>1. /\ Head(replies) = replies[1] /\ Len(replies) >= 1 /\ Len(replies) \in Nat
      /\ Len(replies') = Len(replies) - 1 /\ \A i \in 1..Len(replies') : replies'[i] = replies[i + 1]
  <2>1. replies \in Seq(Replies)
    BY DEF IInv, TypeOK
  <2> QED BY <2>1, OneRead
<1>2. /\ Total(remote) = SizeOfAnswer(remote.written) + 2 /\ SizeOfAnswer(remote.written) \in Nat
  <2>1. remote.written \in Texts
    BY DEF IInv, TypeOK, Remotes
  <2> QED BY <2>1, SizeFacts DEF Total
<1>3. Len(replies) <= Total(remote) /\ \A i \in 1..Len(replies) : OfAnswer(remote, Came + i, replies[i])
  BY DEF IInv, LinkInv
<1>4. Came = Total(remote) - Len(replies) /\ Came' = Total(remote) - Len(replies')
  BY DEF Came
<1>5. Came \in Nat /\ Came < Total(remote) /\ Came' = Came + 1 /\ Len(replies') <= Total(remote)
  BY <1>1, <1>2, <1>3, <1>4
<1>6. OfAnswer(remote, Came + 1, Head(replies))
  BY <1>1, <1>3
<1>7. ASSUME NEW i \in 1..Len(replies') PROVE OfAnswer(remote', Came' + i, replies'[i])
  <2>1. i + 1 \in 1..Len(replies) /\ Came' + i = Came + (i + 1)
    BY <1>1, <1>5
  <2>2. OfAnswer(remote, Came + (i + 1), replies[i + 1])
    BY <1>3, <2>1, Zenon
  <2>3. replies'[i] = replies[i + 1]
    BY <1>1, Zenon
  <2> QED BY <2>1, <2>2, <2>3, Zenon
<1> QED BY <1>2, <1>5, <1>6, <1>7, Zenon

LEMMA LoseReplyKeeps ==
  ASSUME IInv, LoseReply
  PROVE  IInv'
<1>1. /\ TypeOK /\ RemoteInv(remote) /\ PhaseInv /\ DueInv /\ ChunkInv /\ AnnouncedInv /\ LinkInv /\ AnswerInv /\ ActedInv
      /\ replies # <<>> /\ replies' = Tail(replies) /\ faults < MaxFaults /\ faults' = faults + 1
      /\ remote' = remote /\ phase' = phase /\ step' = step /\ awaiting' = awaiting /\ asked' = asked
      /\ announcing' = announcing /\ seq' = seq /\ sent' = sent /\ size' = size /\ got' = got
      /\ failed' = failed /\ result' = result /\ before' = before /\ asks' = asks
  BY DEF IInv, LoseReply, Fault, session, operation
<1>2. /\ replies' \in Seq(Replies) /\ Len(replies') = Len(replies) - 1 /\ Len(replies) \in Nat
      /\ \A i \in 1..Len(replies') : replies'[i] = replies[i + 1]
      /\ NoWrite(replies) => NoWrite(replies')
      /\ Len(replies) <= 1 => replies' = <<>>
  <2>1. replies \in Seq(Replies)
    BY <1>1 DEF TypeOK
  <2> QED BY <1>1, <2>1, OneRead
<1>3. Line' = Line /\ DonePacket' = DonePacket /\ Text(asked)' = Text(asked)
  BY <1>1, SameLine
<1>4. TypeOK'
  <2>1. faults' \in 0..MaxFaults
    BY <1>1, BoundAssumption DEF TypeOK
  <2> QED BY <1>1, <1>2, <2>1, Zenon DEF TypeOK
<1>5. RemoteInv(remote)'
  BY <1>1
<1>6. PhaseInv' /\ DueInv'
  BY <1>1 DEF PhaseInv, DueInv, Idle, Unsent, Running, WriteSteps, ReadSteps
<1>7. ChunkInv'
  <2>1. InChunkInv' <=> InChunkInv
    <3>1. Start' = Start /\ (\A b : ChunkEnd(b)' = ChunkEnd(b)) /\ (\A b, e : InHand(remote, b, e)' <=> InHand(remote, b, e))
      BY <1>1, <1>3 DEF Start, ChunkEnd, InHand
    <3> QED BY <1>1, <1>3, <3>1 DEF InChunkInv
  <2> QED BY <1>1, <1>3, <2>1 DEF ChunkInv, AtWriting, Running, WriteSteps, ReadSteps
<1>8. AnnouncedInv'
  BY <1>1, <1>3 DEF AnnouncedInv, Announced, ReadSteps
<1>9. step \in {"read", "data"} /\ awaiting =>
        /\ Came' = Came + 1 /\ Came \in Nat
        /\ Len(replies') <= Total(remote') /\ \A i \in 1..Len(replies') : OfAnswer(remote', Came' + i, replies'[i])
  BY <1>1, StreamRead
<1>10. LinkInv'
  <2>1. step = "ping" => awaiting /\ Len(replies) <= 1
    BY <1>1, Zenon DEF LinkInv
  <2>2. step = "ping" => awaiting /\ replies' = <<>> /\ Len(replies') <= 1
    BY <1>2, <2>1
  <2>3. /\ Unsent /\ Idle => NoWrite(replies')
        /\ step = "open for writing" /\ awaiting => NoWrite(replies')
        /\ step \in {"chunk", "packet", "done", "close"} \cup ReadSteps => NoWrite(replies')
    BY <1>1, <1>2 DEF LinkInv
  <2>4. step = "written" => \A i \in 1..Len(replies') - 1 : replies'[i].cmd # "write"
    <3>1. \A i \in 1..Len(replies') - 1 : i \in 1..Len(replies') /\ i + 1 \in 1..Len(replies) - 1
      BY <1>2
    <3> QED BY <1>1, <1>2, <3>1 DEF LinkInv
  <2>5. /\ step \in {"close", "open for reading", "read"} /\ ~awaiting => replies = <<>>
        /\ step \in {"close", "open for reading"} /\ awaiting => Len(replies) <= 1
    BY <1>1, Zenon DEF LinkInv
  <2>6. /\ step \in {"close", "open for reading", "read"} => awaiting
        /\ step \in {"close", "open for reading"} => replies' = <<>>
    BY <1>1, <1>2, <2>5
  <2>7. /\ step' = "ping" => IF awaiting' THEN Len(replies') <= 1 ELSE replies' = <<>>
        /\ step' = "ping" /\ awaiting' /\ replies' # <<>> /\ replies'[1].cmd = "ping" => remote'.due = 0
    BY <1>1, <2>2
  <2>8. /\ step' \in {"close", "open for reading", "read"} /\ ~awaiting' => replies' = <<>>
        /\ step' \in {"close", "open for reading"} /\ awaiting' => Len(replies') <= 1
        /\ step' = "open for reading" /\ awaiting' =>
             \A i \in 1..Len(replies') : replies'[i].size = SizeOfAnswer(remote'.written)
    <3>1. step' \in {"close", "open for reading"} => Len(replies') = 0
      BY <1>1, <2>6
    <3>2. step' \in {"close", "open for reading", "read"} => awaiting'
      BY <1>1, <2>6
    <3>3. ASSUME step' = "open for reading", NEW i \in 1..Len(replies') PROVE FALSE
      <4>1. Len(replies') = 0
        BY <3>1, <3>3
      <4> QED BY <4>1
    <3>4. ASSUME step' \in {"close", "open for reading"} PROVE Len(replies') <= 1
      <4>1. Len(replies') = 0
        BY <3>1, <3>4
      <4> QED BY <4>1
    <3> QED BY <3>2, <3>3, <3>4, Zenon
  <2>9. /\ Unsent' = Unsent /\ Idle' = Idle
    BY <1>1 DEF Unsent, Idle
  <2> QED BY <1>1, <1>9, <2>3, <2>4, <2>7, <2>8, <2>9, Zenon DEF LinkInv
<1>11. AnswerInv'
  <2>1. step = "data" => Came' >= 1 /\ Len(got) < Came' /\ Len(got) # Came' - 1
    <3>1. Len(got) \in Nat
      BY <1>1 DEF TypeOK
    <3>2. step = "data" => awaiting /\ Len(got) < Came
      BY <1>1 DEF PhaseInv, AnswerInv
    <3> QED BY <1>9, <3>1, <3>2
  <2>2. \A n : GotFirst(n)' <=> GotFirst(n)
    BY <1>1 DEF GotFirst
  <2> QED BY <1>1, <1>3, <2>1, <2>2 DEF AnswerInv, Reading, WriteSteps, ReadSteps
<1>12. ActedInv'
  BY <1>1, <1>3 DEF ActedInv, AnswersOwn, Acted, Running, WriteSteps, ReadSteps
<1> QED BY <1>4, <1>5, <1>6, <1>7, <1>8, <1>10, <1>11, <1>12 DEF IInv

LEMMA TimeOutKeeps ==
  ASSUME IInv, TimeOut
  PROVE  IInv'
<1>1. /\ awaiting /\ remote' = remote /\ replies' = replies /\ phase' = phase /\ Throw
      /\ faults' = faults \/ (faults < MaxFaults /\ faults' = faults + 1)
  BY DEF TimeOut, Fault
<1>2. /\ TypeOK /\ RemoteInv(remote) /\ PhaseInv /\ DueInv /\ LinkInv
      /\ remote \in Remotes /\ replies \in Seq(Replies) /\ step \in Steps /\ faults \in 0..MaxFaults
  BY DEF IInv, TypeOK
<1>3. step = "ping" \/ Running
  BY <1>1, <1>2 DEF PhaseInv, Steps, Running
<1>4. faults' \in 0..MaxFaults
  BY <1>1, <1>2, BoundAssumption
<1>5. step \in {"read", "data"} => remote.due = 0 /\ NoWrite(replies)
  BY <1>2 DEF DueInv, LinkInv, ReadSteps
<1>6. Running /\ step \notin {"read", "data"} /\ Idle => remote.due = 0 /\ NoWrite(replies)
  BY <1>1, <1>2 DEF DueInv, LinkInv, PhaseInv, Running, WriteSteps, ReadSteps
<1> QED BY <1>1, <1>2, <1>3, <1>4, <1>5, <1>6, ThrowKeeps

LEMMA WrongReplyKeeps ==
  ASSUME IInv, WrongReply
  PROVE  IInv'
<1>1. /\ awaiting /\ replies # <<>> /\ remote' = remote /\ replies' = Tail(replies)
      /\ phase' = phase /\ faults' = faults /\ Throw
  BY DEF WrongReply
<1>2. /\ TypeOK /\ RemoteInv(remote) /\ PhaseInv /\ DueInv /\ LinkInv
      /\ remote \in Remotes /\ replies \in Seq(Replies) /\ step \in Steps /\ faults \in 0..MaxFaults
  BY DEF IInv, TypeOK
<1>3. step = "ping" \/ Running
  BY <1>1, <1>2 DEF PhaseInv, Steps, Running
<1>4. replies' \in Seq(Replies) /\ (NoWrite(replies) => NoWrite(replies'))
  BY <1>1, <1>2, OneRead
<1>5. step \in {"read", "data"} => remote.due = 0 /\ NoWrite(replies)
  BY <1>2 DEF DueInv, LinkInv, ReadSteps
<1>6. Running /\ step \notin {"read", "data"} /\ Idle => remote.due = 0 /\ NoWrite(replies)
  BY <1>1, <1>2 DEF DueInv, LinkInv, PhaseInv, Running, WriteSteps, ReadSteps
<1> QED BY <1>1, <1>2, <1>3, <1>4, <1>5, <1>6, ThrowKeeps

LEMMA SendThrowsKeeps ==
  ASSUME IInv, SendThrows
  PROVE  IInv'
<1>1. /\ step \in Sends /\ ~awaiting /\ phase' = phase /\ Throw
      /\ \/ /\ ~Passes(ReportNow.cmd) /\ remote' = remote /\ replies' = replies /\ faults' = faults
         \/ /\ Passes(ReportNow.cmd) /\ faults < MaxFaults /\ faults' = faults + 1
            /\ \/ remote' = remote /\ replies' = replies
               \/ remote' = After(remote, ReportNow) /\ replies' = replies \o Answers(remote, ReportNow)
  BY DEF SendThrows, WriteThrows, Fault, Arrives
<1>2. /\ TypeOK /\ RemoteInv(remote) /\ PhaseInv /\ DueInv /\ ChunkInv /\ LinkInv
      /\ remote \in Remotes /\ remote.due \in Nat /\ replies \in Seq(Replies) /\ step \in Steps /\ faults \in 0..MaxFaults
  BY DEF IInv, TypeOK, Remotes
<1>3. step = "ping" \/ Running
  BY <1>1 DEF Sends, Running, WriteSteps, ReadSteps
<1>4. faults' \in 0..MaxFaults
  BY <1>1, <1>2, BoundAssumption
<1>5. ReportNow.cmd = (IF step = "close after reading" THEN "close" ELSE step)
  BY <1>1, <1>2, ReportFacts
<1>6. step # "data"
  BY <1>1 DEF Sends
<1>7. step = "read" => remote.due = 0 /\ NoWrite(replies)
  BY <1>2 DEF DueInv, LinkInv, ReadSteps
<1>8. Running /\ Idle => remote.due = 0 /\ NoWrite(replies)
  BY <1>1, <1>2 DEF DueInv, LinkInv, PhaseInv, Unsent, Sends, Running, WriteSteps, ReadSteps
<1>9. CASE remote' = remote /\ replies' = replies
  BY <1>1, <1>2, <1>3, <1>4, <1>6, <1>7, <1>8, <1>9, ThrowKeeps
<1>10. CASE /\ Passes(ReportNow.cmd)
            /\ remote' = After(remote, ReportNow) /\ replies' = replies \o Answers(remote, ReportNow)
  <2> DEFINE a == Answers(remote, ReportNow)
  <2>1. replies' = replies \o a
    BY <1>10
  <2>2. a \in Seq(Replies) /\ NoWrite(replies) /\ NoWrite(a) => NoWrite(replies')
    BY <1>2, <2>1, MoreReplies
  <2>3. a \in Seq(Replies) => replies' \in Seq(Replies)
    BY <1>2, <2>1, MoreReplies
  <2> HIDE DEF a
  <2>4. CASE step = "ping"
    <3>1. /\ remote' \in Remotes /\ RemoteInv(remote') /\ a \in Seq(Replies)
          /\ remote'.due > 0 => remote.due > 0
          /\ remote'.acted = remote.acted \/ remote.due > 0
      BY <1>10, <2>4, PingArrives DEF a
    <3>2. remote.due = 0 => remote'.acted = remote.acted
      BY <3>1
    <3>3. ~Running
      BY <2>4 DEF Running, WriteSteps, ReadSteps
    <3> QED BY <1>1, <1>4, <2>3, <2>4, <3>1, <3>2, <3>3, ThrowKeeps
  <2>5. CASE step \in {"packet", "done"}
    <3>1. remote' \in Remotes /\ RemoteInv(remote') /\ a \in Seq(Replies)
      <4>1. CASE step = "packet"
        BY <1>10, <4>1, PacketArrives DEF a
      <4>2. CASE step = "done"
        BY <1>10, <4>2, DoneArrives DEF a
      <4> QED BY <2>5, <4>1, <4>2
    <3>2. ~Idle
      BY <1>2, <2>5 DEF PhaseInv
    <3> QED BY <1>1, <1>3, <1>4, <2>3, <2>5, <3>1, <3>2, ThrowKeeps
  <2>6. CASE step \notin {"ping", "packet", "done"}
    <3>1. remote.due = 0
      <4>1. CASE step = "open for writing"
        <5>1. Idle
          BY <1>5, <1>10, <4>1 DEF Passes, Idle
        <5> QED BY <1>1, <1>2, <4>1, <5>1 DEF DueInv, Unsent
      <4>2. CASE step # "open for writing"
        BY <1>1, <1>2, <2>6, <4>2 DEF DueInv, Sends, ReadSteps
      <4> QED BY <4>1, <4>2
    <3>2. /\ remote' \in Remotes /\ RemoteInv(remote') /\ a \in Seq(Replies) /\ NoWrite(a)
          /\ remote'.announced = remote.announced /\ remote'.held = remote.held /\ remote'.acted = remote.acted
          /\ remote'.due = (IF step = "chunk" THEN ChunkCount - 1 ELSE 0)
          /\ step # "open for writing" /\ remote'.open = "W" => remote.open = "W"
          /\ step \notin {"close", "close after reading"} => remote'.written = remote.written
      BY <1>1, <1>10, <2>6, <3>1, CommandArrives DEF a
    <3>3. step = "chunk" => ~Idle
      BY <1>2 DEF PhaseInv
    <3>4. step = "read" => /\ remote'.due = 0 /\ NoWrite(replies')
                           /\ remote'.written = remote.written /\ (remote'.open = "W" => remote.open = "W")
      BY <1>7, <2>2, <3>2
    <3>5. Running /\ step # "read" /\ Idle => remote'.due = 0 /\ NoWrite(replies')
      BY <1>8, <2>2, <3>2, <3>3
    <3> QED BY <1>1, <1>3, <1>4, <1>6, <2>3, <2>6, <3>2, <3>4, <3>5, ThrowKeeps
  <2> QED BY <2>4, <2>5, <2>6
<1> QED BY <1>1, <1>9, <1>10

LEMMA TakeTyped ==
  ASSUME TypeOK
  PROVE  (seq + 1) % SequenceModulus \in 0..SequenceModulus - 1
<1>1. seq \in Nat /\ SequenceModulus \in Nat \ {0}
  BY DEF TypeOK
<1> QED BY <1>1

LEMMA Accepted ==
  ASSUME IInv, Accept
  PROVE  /\ awaiting /\ replies # <<>> /\ remote' = remote /\ phase' = phase /\ faults' = faults
         /\ replies' = Tail(replies) /\ replies' \in Seq(Replies) /\ Head(replies) = replies[1]
         /\ Head(replies) \in Replies /\ Len(replies) \in Nat /\ Len(replies) >= 1
         /\ NoWrite(replies) => NoWrite(replies')
         /\ Len(replies) <= 1 => replies' = <<>>
         /\ step = "ping" => Head(replies).cmd = "ping"
         /\ step = "written" => Head(replies).cmd = "write"
         /\ step = "read" => Head(replies).cmd = "read"
<1>1. /\ awaiting /\ replies # <<>> /\ remote' = remote /\ phase' = phase /\ faults' = faults
      /\ replies' = Tail(replies) /\ AcceptsAnyEcho(Head(replies))
  BY DEF Accept, Accepts
<1>2. replies \in Seq(Replies)
  BY DEF IInv, TypeOK
<1>3. /\ step = "ping" => Head(replies).cmd = "ping"
      /\ step = "written" => Head(replies).cmd = "write"
      /\ step = "read" => Head(replies).cmd = "read"
  BY <1>1 DEF AcceptsAnyEcho
<1> QED BY <1>1, <1>2, <1>3, OneRead

LEMMA SessionOpenedKeeps ==
  ASSUME IInv, SessionOpened
  PROVE  IInv'
<1>0. Accept
  BY DEF SessionOpened
<1>1. /\ TypeOK /\ RemoteInv(remote) /\ LinkInv /\ ChunkInv /\ ActedInv /\ DueInv
      /\ step = "ping" /\ step' = "ready" /\ awaiting' = FALSE /\ asked' = asked /\ announcing' = announcing
      /\ seq' = seq /\ sent' = sent /\ size' = size /\ got' = got /\ failed' = failed
      /\ result' = result /\ before' = before /\ asks' = asks
  BY DEF IInv, SessionOpened, Unasked
<1>2. /\ awaiting /\ replies # <<>> /\ remote' = remote /\ phase' = phase /\ faults' = faults
      /\ replies' \in Seq(Replies) /\ replies[1].cmd = "ping" /\ (Len(replies) <= 1 => replies' = <<>>)
  BY <1>0, <1>1, Accepted
<1>3. replies' = <<>> /\ remote.due = 0
  <2>1. Len(replies) <= 1 /\ remote.due = 0
    BY <1>1, <1>2, Zenon DEF LinkInv
  <2> QED BY <1>2, <2>1
<1>4. NoWrite(replies')
  BY <1>3 DEF NoWrite
<1>5. TypeOK'
  <2>1. step' \in Steps /\ awaiting' \in BOOLEAN
    BY <1>1 DEF Steps
  <2> QED BY <1>1, <1>2, <2>1, Zenon DEF TypeOK
<1>6. RemoteInv(remote)'
  BY <1>1, <1>2
<1>7. PhaseInv' /\ DueInv' /\ LinkInv'
  BY <1>1, <1>2, <1>3, <1>4 DEF PhaseInv, DueInv, LinkInv, Unsent, ReadSteps
<1>8. ChunkInv' /\ AnnouncedInv' /\ AnswerInv'
  BY <1>1 DEF ChunkInv, AnnouncedInv, AnswerInv, Announced, AtWriting, Reading, Running, WriteSteps, ReadSteps
<1>9. ActedInv'
  BY <1>1, <1>2, SameLine DEF ActedInv, AnswersOwn, Running, WriteSteps, ReadSteps
<1> QED BY <1>5, <1>6, <1>7, <1>8, <1>9 DEF IInv

LEMMA OpenedForWritingKeeps ==
  ASSUME IInv, OpenedForWriting
  PROVE  IInv'
<1>0. Accept
  BY DEF OpenedForWriting
<1>1. /\ TypeOK /\ RemoteInv(remote) /\ PhaseInv /\ DueInv /\ ChunkInv /\ AnnouncedInv /\ LinkInv /\ AnswerInv /\ ActedInv
      /\ step = "open for writing" /\ step' = "chunk" /\ awaiting' = FALSE /\ asked' = asked
      /\ announcing' = announcing /\ seq' = seq /\ sent' = sent /\ size' = size /\ got' = got
      /\ failed' = failed /\ result' = result /\ before' = before /\ asks' = asks
  BY DEF IInv, OpenedForWriting, Unasked
<1>2. /\ awaiting /\ remote' = remote /\ phase' = phase /\ faults' = faults
      /\ replies' \in Seq(Replies) /\ (NoWrite(replies) => NoWrite(replies'))
  BY <1>0, <1>1, Accepted
<1>3. Line' = Line /\ DonePacket' = DonePacket /\ Text(asked)' = Text(asked)
  BY <1>1, SameLine
<1>4. asked \in Requests /\ announcing \in BOOLEAN /\ sent = 0 /\ remote.open = "W" /\ remote.line = <<>>
  BY <1>1, <1>2 DEF TypeOK, ChunkInv, Running, WriteSteps
<1>5. Len(Line) \in Nat \ {0}
  BY <1>4, LineFacts
<1>6. TypeOK'
  <2>1. step' \in Steps /\ awaiting' \in BOOLEAN
    BY <1>1 DEF Steps, WriteSteps
  <2> QED BY <1>1, <1>2, <2>1, Zenon DEF TypeOK
<1>7. RemoteInv(remote)'
  BY <1>1, <1>2
<1>8. PhaseInv'
  BY <1>1, <1>2 DEF PhaseInv, Idle
<1>9. DueInv'
  BY <1>1, <1>2 DEF DueInv, Unsent, Running, WriteSteps, ReadSteps
<1>10. ChunkInv'
  <2>1. IsFirst(<<>>, Line, 0) /\ 0 < Len(Line) /\ 0 % PacketsPerChunk = 0
    BY <1>5 DEF IsFirst
  <2> QED BY <1>1, <1>2, <1>3, <1>4, <2>1 DEF ChunkInv, AtWriting, Running, WriteSteps, ReadSteps
<1>11. AnnouncedInv'
  BY <1>1, <1>2, <1>3 DEF AnnouncedInv, Announced, ReadSteps
<1>12. LinkInv'
  BY <1>1, <1>2 DEF LinkInv, Unsent, ReadSteps
<1>13. AnswerInv'
  BY <1>1, <1>2 DEF AnswerInv, Reading, WriteSteps, ReadSteps
<1>14. ActedInv'
  BY <1>1, <1>2, <1>3 DEF ActedInv, AnswersOwn, Acted, Running, WriteSteps, ReadSteps
<1> QED BY <1>6, <1>7, <1>8, <1>9, <1>10, <1>11, <1>12, <1>13, <1>14 DEF IInv

LEMMA ChunkAnsweredKeeps ==
  ASSUME IInv, ChunkAnswered
  PROVE  IInv'
<1>0. Accept
  BY DEF ChunkAnswered
<1>1. /\ TypeOK /\ RemoteInv(remote) /\ PhaseInv /\ DueInv /\ ChunkInv /\ AnnouncedInv /\ LinkInv /\ AnswerInv /\ ActedInv
      /\ step = "written" /\ step' = (IF sent = Len(Line) THEN "close" ELSE "chunk")
      /\ awaiting' = FALSE /\ asked' = asked
      /\ announcing' = announcing /\ seq' = seq /\ sent' = sent /\ size' = size /\ got' = got
      /\ failed' = failed /\ result' = result /\ before' = before /\ asks' = asks
  BY DEF IInv, ChunkAnswered, Unasked
<1>2. /\ awaiting /\ remote' = remote /\ phase' = phase /\ faults' = faults
      /\ replies' \in Seq(Replies) /\ (Len(replies) <= 1 => replies' = <<>>)
      /\ replies[1].cmd = "write" /\ Len(replies) \in Nat /\ Len(replies) >= 1
  BY <1>0, <1>1, Accepted
<1>3. Line' = Line /\ DonePacket' = DonePacket /\ Text(asked)' = Text(asked)
  BY <1>1, SameLine
<1>4. replies' = <<>>
  <2>1. \A i \in 1..Len(replies) - 1 : replies[i].cmd # "write"
    BY <1>1, Zenon DEF LinkInv
  <2>2. 1 \notin 1..Len(replies) - 1
    BY <1>2, <2>1
  <2> QED BY <1>2, <2>2
<1>5. NoWrite(replies')
  BY <1>4 DEF NoWrite
<1>6. TypeOK'
  <2>1. step' \in Steps /\ awaiting' \in BOOLEAN
    BY <1>1 DEF Steps, WriteSteps
  <2> QED BY <1>1, <1>2, <2>1, Zenon DEF TypeOK
<1>7. RemoteInv(remote)'
  BY <1>1, <1>2
<1>8. PhaseInv' /\ DueInv'
  BY <1>1, <1>2 DEF PhaseInv, DueInv, Idle, Unsent, Running, WriteSteps, ReadSteps
<1>9. ChunkInv'
  BY <1>1, <1>2, <1>3 DEF ChunkInv, AtWriting, Running, WriteSteps, ReadSteps
<1>10. AnnouncedInv'
  BY <1>1, <1>2, <1>3 DEF AnnouncedInv, Announced, ChunkInv, ReadSteps
<1>11. LinkInv'
  BY <1>1, <1>4, <1>5 DEF LinkInv, Unsent, ReadSteps
<1>12. AnswerInv'
  BY <1>1, <1>2 DEF AnswerInv, Reading, WriteSteps, ReadSteps
<1>13. ActedInv'
  BY <1>1, <1>2, <1>3 DEF ActedInv, AnswersOwn, Acted, Running, WriteSteps, ReadSteps
<1> QED BY <1>6, <1>7, <1>8, <1>9, <1>10, <1>11, <1>12, <1>13 DEF IInv

LEMMA WriteClosedKeeps ==
  ASSUME IInv, WriteClosed
  PROVE  IInv'
<1>0. Accept
  BY DEF WriteClosed
<1>1. /\ TypeOK /\ RemoteInv(remote) /\ PhaseInv /\ DueInv /\ ChunkInv /\ AnnouncedInv /\ LinkInv /\ AnswerInv /\ ActedInv
      /\ step = "close" /\ step' = "open for reading" /\ awaiting' = FALSE /\ asked' = asked
      /\ announcing' = announcing /\ seq' = (seq + 1) % SequenceModulus /\ sent' = sent /\ size' = size /\ got' = got
      /\ failed' = failed /\ result' = result /\ before' = before /\ asks' = asks
  BY DEF IInv, WriteClosed, Unasked, Take
<1>2. /\ awaiting /\ remote' = remote /\ phase' = phase /\ faults' = faults
      /\ replies' \in Seq(Replies) /\ (Len(replies) <= 1 => replies' = <<>>)
  BY <1>0, <1>1, Accepted
<1>3. Line' = Line /\ DonePacket' = DonePacket /\ Text(asked)' = Text(asked)
  BY <1>1, SameLine
<1>4. replies' = <<>>
  <2>1. Len(replies) <= 1
    BY <1>1, <1>2 DEF LinkInv
  <2> QED BY <1>2, <2>1
<1>5. NoWrite(replies')
  BY <1>4 DEF NoWrite
<1>6. TypeOK'
  <2>1. step' \in Steps /\ awaiting' \in BOOLEAN
    BY <1>1 DEF Steps, ReadSteps
  <2>2. seq' \in 0..SequenceModulus - 1
    BY <1>1, TakeTyped
  <2> QED BY <1>1, <1>2, <2>1, <2>2, Zenon DEF TypeOK
<1>7. RemoteInv(remote)'
  BY <1>1, <1>2
<1>8. PhaseInv' /\ DueInv'
  BY <1>1, <1>2 DEF PhaseInv, DueInv, Idle, Unsent, Running, WriteSteps, ReadSteps
<1>9. ChunkInv'
  BY <1>1, <1>2, <1>3 DEF ChunkInv, AtWriting, Running, WriteSteps, ReadSteps
<1>10. AnnouncedInv'
  BY <1>1, <1>2, <1>3 DEF AnnouncedInv, Announced, ReadSteps
<1>11. LinkInv'
  BY <1>1, <1>4, <1>5 DEF LinkInv, Unsent, ReadSteps
<1>12. AnswerInv'
  BY <1>1, <1>2, <1>3 DEF AnswerInv, Reading, WriteSteps, ReadSteps
<1>13. ActedInv'
  BY <1>1, <1>2, <1>3 DEF ActedInv, AnswersOwn, Acted, Running, WriteSteps, ReadSteps
<1> QED BY <1>6, <1>7, <1>8, <1>9, <1>10, <1>11, <1>12, <1>13 DEF IInv

LEMMA OpenedForReadingKeeps ==
  ASSUME IInv, OpenedForReading
  PROVE  IInv'
<1>0. Accept
  BY DEF OpenedForReading
<1>1. /\ TypeOK /\ RemoteInv(remote) /\ PhaseInv /\ DueInv /\ ChunkInv /\ AnnouncedInv /\ LinkInv /\ AnswerInv /\ ActedInv
      /\ step = "open for reading" /\ step' = (IF size' > 0 THEN "read" ELSE "close after reading")
      /\ awaiting' = FALSE /\ asked' = asked /\ size' = Head(replies).size
      /\ announcing' = announcing /\ seq' = (seq + 1) % SequenceModulus /\ sent' = sent /\ got' = got
      /\ failed' = failed /\ result' = result /\ before' = before /\ asks' = asks
  BY DEF IInv, OpenedForReading, Unasked, Take
<1>2. /\ awaiting /\ remote' = remote /\ phase' = phase /\ faults' = faults
      /\ replies' \in Seq(Replies) /\ (Len(replies) <= 1 => replies' = <<>>)
      /\ Head(replies) = replies[1] /\ Head(replies) \in Replies /\ Len(replies) \in Nat /\ Len(replies) >= 1
  BY <1>0, <1>1, Accepted
<1>3. Line' = Line /\ DonePacket' = DonePacket /\ Text(asked)' = Text(asked)
  BY <1>1, SameLine
<1>4. replies' = <<>>
  <2>1. Len(replies) <= 1
    BY <1>1, <1>2 DEF LinkInv
  <2> QED BY <1>2, <2>1
<1>5. NoWrite(replies')
  BY <1>4 DEF NoWrite
<1>6. size' = SizeOfAnswer(remote.written) /\ size' \in Nat
  <2>1. 1 \in 1..Len(replies)
    BY <1>2
  <2>2. replies[1].size = SizeOfAnswer(remote.written)
    BY <1>1, <1>2, <2>1, Zenon DEF LinkInv
  <2>3. Head(replies).size \in Nat
    BY <1>2 DEF Replies
  <2> QED BY <1>1, <1>2, <2>2, <2>3
<1>7. TypeOK'
  <2>1. step' \in Steps /\ awaiting' \in BOOLEAN
    BY <1>1 DEF Steps, ReadSteps
  <2>2. seq' \in 0..SequenceModulus - 1
    BY <1>1, TakeTyped
  <2> QED BY <1>1, <1>2, <1>6, <2>1, <2>2, Zenon DEF TypeOK
<1>8. RemoteInv(remote)'
  BY <1>1, <1>2
<1>9. PhaseInv' /\ DueInv'
  BY <1>1, <1>2 DEF PhaseInv, DueInv, Idle, Unsent, Running, WriteSteps, ReadSteps
<1>10. ChunkInv'
  BY <1>1, <1>2, <1>3 DEF ChunkInv, AtWriting, Running, WriteSteps, ReadSteps
<1>11. AnnouncedInv'
  BY <1>1, <1>2, <1>3 DEF AnnouncedInv, Announced, ReadSteps
<1>12. LinkInv'
  BY <1>1, <1>4, <1>5 DEF LinkInv, Unsent, ReadSteps
<1>13. AnswerInv'
  <2>1. got = <<>> /\ ~failed /\ remote.written = Line /\ remote.open # "W"
    BY <1>1 DEF AnswerInv, Reading, ReadSteps
  <2>2. CASE size' > 0
    BY <1>1, <1>2, <1>3, <1>6, <2>1, <2>2 DEF AnswerInv, Reading, WriteSteps
  <2>3. CASE ~(size' > 0)
    <3>1. SizeOfAnswer(remote.written) = 0
      BY <1>6, <2>3
    <3>2. GotFirst(SizeOfAnswer(remote.written))'
      <4>1. Len(got') = 0 /\ SizeOfAnswer(remote'.written) = 0
        BY <1>1, <1>2, <2>1, <3>1
      <4> QED BY <4>1 DEF GotFirst
    <3> QED BY <1>1, <1>2, <1>3, <2>1, <2>3, <3>2 DEF AnswerInv, Reading, WriteSteps
  <2> QED BY <2>2, <2>3
<1>14. ActedInv'
  BY <1>1, <1>2, <1>3 DEF ActedInv, AnswersOwn, Acted, Running, WriteSteps, ReadSteps
<1> QED BY <1>7, <1>8, <1>9, <1>10, <1>11, <1>12, <1>13, <1>14 DEF IInv

LEMMA ReadAnsweredKeeps ==
  ASSUME IInv, ReadAnswered
  PROVE  IInv'
<1>0. Accept
  BY DEF ReadAnswered
<1>1. /\ TypeOK /\ RemoteInv(remote) /\ PhaseInv /\ DueInv /\ ChunkInv /\ AnnouncedInv /\ LinkInv /\ AnswerInv /\ ActedInv
      /\ step = "read" /\ step' = "data" /\ awaiting' = awaiting /\ asked' = asked
      /\ announcing' = announcing /\ seq' = seq /\ sent' = sent /\ size' = size /\ got' = got
      /\ failed' = failed /\ result' = result /\ before' = before /\ asks' = asks
  BY DEF IInv, ReadAnswered, Unasked
<1>2. /\ awaiting /\ remote' = remote /\ phase' = phase /\ faults' = faults /\ replies # <<>>
      /\ replies' = Tail(replies) /\ replies' \in Seq(Replies) /\ (NoWrite(replies) => NoWrite(replies'))
      /\ Head(replies).cmd = "read"
  BY <1>0, <1>1, Accepted
<1>3. Line' = Line /\ DonePacket' = DonePacket /\ Text(asked)' = Text(asked)
  BY <1>1, SameLine
<1>4. /\ Came \in Nat /\ Came < Total(remote) /\ Came' = Came + 1 /\ OfAnswer(remote, Came + 1, Head(replies))
      /\ Total(remote) = SizeOfAnswer(remote.written) + 2 /\ SizeOfAnswer(remote.written) \in Nat
      /\ Len(replies') <= Total(remote') /\ \A i \in 1..Len(replies') : OfAnswer(remote', Came' + i, replies'[i])
  BY <1>1, <1>2, StreamRead
<1>5. TypeOK'
  <2>1. step' \in Steps
    BY <1>1 DEF Steps, ReadSteps
  <2> QED BY <1>1, <1>2, <2>1, Zenon DEF TypeOK
<1>6. RemoteInv(remote)'
  BY <1>1, <1>2
<1>7. PhaseInv' /\ DueInv'
  BY <1>1, <1>2 DEF PhaseInv, DueInv, Idle, Unsent, Running, WriteSteps, ReadSteps
<1>8. ChunkInv'
  BY <1>1, <1>2, <1>3 DEF ChunkInv, AtWriting, Running, WriteSteps, ReadSteps
<1>9. AnnouncedInv'
  BY <1>1, <1>2, <1>3 DEF AnnouncedInv, Announced, ReadSteps
<1>10. LinkInv'
  <2>1. NoWrite(replies')
    BY <1>1, <1>2 DEF LinkInv, ReadSteps
  <2> QED BY <1>1, <1>2, <1>4, <2>1 DEF LinkInv, Unsent
<1>11. AnswerInv'
  <2>1. /\ got = <<>> /\ ~failed /\ remote.written = Line /\ remote.open # "W"
        /\ size = SizeOfAnswer(remote.written)
    BY <1>1 DEF AnswerInv, Reading, ReadSteps
  <2>2. Came' >= 1 /\ 0 < Came'
    BY <1>4
  <2>3. Came' = 1
    <3>1. Came + 1 > 1 /\ Came + 1 < Total(remote) => Head(replies) = DataOf(remote.written, (Came + 1) - 1)
      BY <1>4, Zenon DEF OfAnswer
    <3>2. Came + 1 = Total(remote) => Head(replies).cmd = "end"
      BY <1>4, Zenon DEF OfAnswer
    <3>3. DataOf(remote.written, (Came + 1) - 1).cmd = "data"
      BY DEF DataOf
    <3>4. ~(Came + 1 > 1 /\ Came + 1 < Total(remote)) /\ Came + 1 # Total(remote)
      BY <1>2, <3>1, <3>2, <3>3
    <3> QED BY <1>4, <3>4
  <2>4. Len(got) = 0 /\ GotFirst(0)'
    BY <1>1, <2>1 DEF GotFirst
  <2>5. Came' - 1 = 0
    BY <2>3
  <2> QED BY <1>1, <1>2, <1>3, <2>1, <2>2, <2>4, <2>5 DEF AnswerInv, Reading, WriteSteps
<1>12. ActedInv'
  BY <1>1, <1>2, <1>3 DEF ActedInv, AnswersOwn, Acted, Running, WriteSteps, ReadSteps
<1> QED BY <1>5, <1>6, <1>7, <1>8, <1>9, <1>10, <1>11, <1>12 DEF IInv

LEMMA DataReadKeeps ==
  ASSUME IInv, DataRead
  PROVE  IInv'
<1>0. Accept
  BY DEF DataRead
<1>1. /\ TypeOK /\ RemoteInv(remote) /\ PhaseInv /\ DueInv /\ ChunkInv /\ AnnouncedInv /\ LinkInv /\ AnswerInv /\ ActedInv
      /\ step = "data" /\ asked' = asked
      /\ announcing' = announcing /\ seq' = seq /\ sent' = sent /\ size' = size
      /\ result' = result /\ before' = before /\ asks' = asks
  BY DEF IInv, DataRead, Unasked
<1>2. /\ awaiting /\ remote' = remote /\ phase' = phase /\ faults' = faults /\ replies # <<>>
      /\ replies' = Tail(replies) /\ replies' \in Seq(Replies) /\ (NoWrite(replies) => NoWrite(replies'))
      /\ Head(replies) \in Replies
  BY <1>0, <1>1, Accepted
<1>3. Line' = Line /\ DonePacket' = DonePacket /\ Text(asked)' = Text(asked)
  BY <1>1, SameLine
<1>4. /\ Came \in Nat /\ Came < Total(remote) /\ Came' = Came + 1 /\ OfAnswer(remote, Came + 1, Head(replies))
      /\ Total(remote) = SizeOfAnswer(remote.written) + 2 /\ SizeOfAnswer(remote.written) \in Nat
      /\ Len(replies') <= Total(remote') /\ \A i \in 1..Len(replies') : OfAnswer(remote', Came' + i, replies'[i])
  BY <1>1, <1>2, StreamRead
<1>5. /\ ~failed /\ Came >= 1 /\ Len(got) < Came /\ Len(got) \in Nat /\ got \in Seq(Texts \X Nat)
      /\ Len(got) = Came - 1 => GotFirst(Came - 1)
      /\ size = SizeOfAnswer(remote.written) /\ remote.written = Line /\ remote.open # "W"
  BY <1>1 DEF TypeOK, AnswerInv, Reading, ReadSteps
<1>6. NoWrite(replies')
  BY <1>1, <1>2 DEF LinkInv, ReadSteps
<1>7. RemoteInv(remote)'
  BY <1>1, <1>2
<1>8. /\ Came + 1 > 1 /\ Came + 1 < Total(remote) => Head(replies) = DataOf(remote.written, Came)
      /\ Came + 1 = Total(remote) => Head(replies).cmd = "end"
      /\ DataOf(remote.written, Came).cmd = "data" /\ DataOf(remote.written, Came).of = remote.written
      /\ DataOf(remote.written, Came).seq = Came
  <2>1. Came + 1 > 1 /\ Came + 1 < Total(remote) => Head(replies) = DataOf(remote.written, (Came + 1) - 1)
    BY <1>4, Zenon DEF OfAnswer
  <2>2. Came + 1 = Total(remote) => Head(replies).cmd = "end"
    BY <1>4, Zenon DEF OfAnswer
  <2>3. (Came + 1) - 1 = Came
    BY <1>4
  <2> QED BY <2>1, <2>2, <2>3 DEF DataOf
<1>9. CASE Head(replies).cmd = "end"
  <2>1. step' = "close after reading" /\ awaiting' = FALSE /\ failed' = EndsShort /\ got' = got
    BY <1>9, Zenon DEF DataRead
  <2>2. Came = SizeOfAnswer(remote.written) + 1
    BY <1>4, <1>5, <1>8, <1>9
  <2>3. failed' = (Len(got) < size)
    BY <2>1 DEF EndsShort
  <2>4. ~failed' => GotFirst(SizeOfAnswer(remote.written))
    <3>1. CASE Len(got) < size
      BY <2>3, <3>1
    <3>2. CASE ~(Len(got) < size)
      BY <1>4, <1>5, <2>2, <3>2
    <3> QED BY <3>1, <3>2
  <2>5. failed' \in BOOLEAN
    BY <2>3
  <2>6. TypeOK'
    <3>1. step' \in Steps /\ awaiting' \in BOOLEAN
      BY <2>1 DEF Steps, ReadSteps
    <3> QED BY <1>1, <1>2, <2>1, <2>5, <3>1, Zenon DEF TypeOK
  <2>7. PhaseInv' /\ DueInv'
    BY <1>1, <1>2, <2>1 DEF PhaseInv, DueInv, Idle, Unsent, Running, WriteSteps, ReadSteps
  <2>8. ChunkInv'
    BY <1>1, <1>2, <1>3, <2>1 DEF ChunkInv, AtWriting, Running, WriteSteps, ReadSteps
  <2>9. AnnouncedInv'
    BY <1>1, <1>2, <1>3, <2>1 DEF AnnouncedInv, Announced, ReadSteps
  <2>10. LinkInv'
    BY <1>6, <2>1 DEF LinkInv, Unsent, ReadSteps
  <2>11. AnswerInv'
    BY <1>1, <1>2, <1>3, <1>5, <2>1, <2>4 DEF AnswerInv, GotFirst, Reading, WriteSteps
  <2>12. ActedInv'
    BY <1>1, <1>2, <1>3, <2>1 DEF ActedInv, AnswersOwn, Acted, Running, WriteSteps, ReadSteps
  <2> QED BY <1>7, <2>6, <2>7, <2>8, <2>9, <2>10, <2>11, <2>12 DEF IInv
<1>10. CASE Head(replies).cmd # "end"
  <2>1. Head(replies).cmd = "data" /\ Head(replies).of = remote.written /\ Head(replies).seq = Came
    BY <1>4, <1>5, <1>8, <1>10
  <2>2. step' = step /\ awaiting' = awaiting /\ failed' = failed
        /\ got' = Append(got, <<Head(replies).of, Head(replies).seq>>)
    <3>1. Head(replies).cmd \notin {"end", "read"} /\ Head(replies).cmd # "read"
      BY <2>1
    <3> QED BY <1>10, <3>1, Zenon DEF DataRead
  <2>3. /\ got' \in Seq(Texts \X Nat) /\ Len(got') = Len(got) + 1
        /\ got'[Len(got) + 1] = <<remote.written, Came>> /\ \A i \in 1..Len(got) : got'[i] = got[i]
    <3>1. <<remote.written, Came>> \in Texts \X Nat
      BY <1>1, <1>4 DEF TypeOK, Remotes
    <3>2. got' = Append(got, <<remote.written, Came>>)
      BY <2>1, <2>2
    <3> QED BY <1>5, <3>1, <3>2
  <2>4. Came' >= 1 /\ Len(got') < Came'
    BY <1>4, <1>5, <2>3
  <2>5. ASSUME Len(got') = Came' - 1 PROVE GotFirst(Came - 1)'
    <3>1. Len(got) = Came - 1 /\ Came' - 1 = Came /\ Len(got') = Came
      BY <1>4, <1>5, <2>3, <2>5
    <3>2. \A i \in 1..Came - 1 : got[i] = <<remote.written, i>>
      BY <1>5, <3>1 DEF GotFirst
    <3>3. ASSUME NEW i \in 1..Came PROVE got'[i] = <<remote.written, i>>
      <4>1. CASE i = Came
        <5>1. got'[Len(got) + 1] = <<remote.written, Came>> /\ Len(got) + 1 = i
          BY <1>4, <2>3, <3>1, <4>1
        <5> QED BY <4>1, <5>1, Zenon
      <4>2. CASE i # Came
        <5>1. i \in 1..Came - 1 /\ i \in 1..Len(got)
          BY <1>4, <3>1, <4>2
        <5> QED BY <2>3, <3>2, <5>1, Zenon
      <4> QED BY <4>1, <4>2
    <3>4. Len(got') = Came' - 1 /\ \A i \in 1..Came' - 1 : got'[i] = <<remote'.written, i>>
      BY <1>2, <2>5, <3>1, <3>3, Zenon
    <3> QED BY <3>4, Zenon DEF GotFirst
  <2>6. TypeOK'
    BY <1>1, <1>2, <2>2, <2>3, Zenon DEF TypeOK
  <2>7. PhaseInv' /\ DueInv'
    BY <1>1, <1>2, <2>2 DEF PhaseInv, DueInv, Idle, Unsent, Running, WriteSteps, ReadSteps
  <2>8. ChunkInv'
    BY <1>1, <1>2, <1>3, <2>2 DEF ChunkInv, AtWriting, Running, WriteSteps, ReadSteps
  <2>9. AnnouncedInv'
    BY <1>1, <1>2, <1>3, <2>2 DEF AnnouncedInv, Announced, ReadSteps
  <2>10. LinkInv'
    BY <1>1, <1>2, <1>4, <1>6, <2>2 DEF LinkInv, Unsent
  <2>11. AnswerInv'
    <3>1. step' = "data" /\ ~failed' /\ size' = SizeOfAnswer(remote'.written) /\ remote'.written = Line' /\ remote'.open # "W"
      BY <1>1, <1>2, <1>3, <1>5, <2>2, Zenon
    <3>2. Len(got') = Came' - 1 => GotFirst(Came - 1)'
      BY <2>5, Zenon
    <3> QED BY <2>4, <3>1, <3>2 DEF AnswerInv, WriteSteps
  <2>12. ActedInv'
    <3>1. result = "none" /\ Running
      BY <1>1 DEF ActedInv, Running, ReadSteps
    <3> QED BY <1>1, <1>2, <1>3, <2>2, <3>1 DEF ActedInv, AnswersOwn, Acted, Running, WriteSteps, ReadSteps
  <2> QED BY <1>7, <2>6, <2>7, <2>8, <2>9, <2>10, <2>11, <2>12 DEF IInv
<1> QED BY <1>9, <1>10

LEMMA ReadClosedKeeps ==
  ASSUME IInv, ReadClosed
  PROVE  IInv'
<1>0. Accept
  BY DEF ReadClosed
<1>1. /\ TypeOK /\ RemoteInv(remote) /\ PhaseInv /\ DueInv /\ ChunkInv /\ AnnouncedInv /\ LinkInv /\ AnswerInv /\ ActedInv
      /\ step = "close after reading" /\ awaiting' = FALSE
      /\ asked' = asked /\ before' = before /\ asks' = asks
  BY DEF IInv, ReadClosed
<1>2. /\ remote' = remote /\ phase' = phase /\ faults' = faults
      /\ replies' \in Seq(Replies) /\ (NoWrite(replies) => NoWrite(replies'))
  BY <1>0, <1>1, Accepted
<1>3. remote.due = 0 /\ NoWrite(replies')
  BY <1>1, <1>2 DEF DueInv, LinkInv, ReadSteps
<1>4. RemoteInv(remote)'
  BY <1>1, <1>2
<1>5. /\ asked \in Requests /\ announcing \in BOOLEAN /\ failed \in BOOLEAN /\ remote.written = Line
      /\ remote.acted \in Seq(Texts) /\ remote.written \in Texts
      /\ (announcing => asked \in Answering) /\ result = "none"
      /\ Len(remote.acted) = before + (IF announcing THEN 0 ELSE 1) /\ got \in Seq(Texts \X Nat)
      /\ ~announcing => Last(remote.acted) = Text(asked)
      /\ ~failed => GotFirst(SizeOfAnswer(remote.written))
      /\ announcing => remote.announced = Packets[asked] /\ IsFirst(remote.held, Text(asked), 0)
  BY <1>1 DEF TypeOK, Remotes, ChunkInv, AnswerInv, AnnouncedInv, Announced, ActedInv, Acted, Reading,
              Running, WriteSteps, ReadSteps
<1>6. CASE failed
  <2>1. /\ step' = "ready" /\ result' = "threw" /\ announcing' = announcing /\ seq' = seq /\ sent' = sent
        /\ size' = size /\ got' = got /\ failed' = failed
    <3>1. step' = "ready" /\ result' = "threw" /\ UNCHANGED <<announcing, operation>>
      BY <1>6, Zenon DEF ReadClosed
    <3> QED BY <3>1 DEF operation
  <2>2. TypeOK'
    <3>1. step' \in Steps /\ awaiting' \in BOOLEAN /\ result' \in {"none", "answered", "threw"}
      BY <1>1, <2>1 DEF Steps
    <3> QED BY <1>1, <1>2, <2>1, <3>1, Zenon DEF TypeOK
  <2>3. PhaseInv' /\ DueInv' /\ LinkInv'
    BY <1>1, <1>2, <1>3, <2>1 DEF PhaseInv, DueInv, LinkInv, Unsent, ReadSteps
  <2>4. ChunkInv' /\ AnnouncedInv' /\ AnswerInv'
    BY <1>1, <2>1 DEF ChunkInv, AnnouncedInv, AnswerInv, Announced, AtWriting, Reading, Running, WriteSteps, ReadSteps
  <2>5. ActedInv'
    BY <2>1 DEF ActedInv, AnswersOwn, Running, WriteSteps, ReadSteps
  <2> QED BY <1>4, <2>2, <2>3, <2>4, <2>5 DEF IInv
<1>7. CASE ~failed /\ announcing
  <2>1. /\ step' = "open for writing" /\ announcing' = FALSE /\ seq' = FirstSequence(asked) /\ sent' = 0
        /\ size' = 0 /\ got' = <<>> /\ failed' = failed /\ result' = result
    BY <1>7 DEF ReadClosed
  <2>2. TypeOK'
    <3>1. step' \in Steps /\ awaiting' \in BOOLEAN /\ announcing' \in BOOLEAN
      BY <1>1, <2>1 DEF Steps, WriteSteps
    <3>2. seq' \in 0..SequenceModulus - 1
      <4>1. FirstSequence(asked) \in 0..SequenceModulus - 1
        BY DEF FirstSequence
      <4> QED BY <2>1, <4>1, Zenon
    <3>3. sent' \in Nat /\ size' \in Nat /\ got' \in Seq(Texts \X Nat)
      <4>1. sent' = 0 /\ size' = 0 /\ got' = <<>>
        BY <2>1, Zenon
      <4> QED BY <4>1
    <3> QED BY <1>1, <1>2, <2>1, <3>1, <3>2, <3>3, Zenon DEF TypeOK
  <2>3. PhaseInv'
    BY <1>1, <2>1 DEF PhaseInv
  <2>4. DueInv' /\ LinkInv'
    BY <1>1, <1>2, <1>3, <2>1 DEF DueInv, LinkInv, Unsent, Running, WriteSteps, ReadSteps
  <2>5. ChunkInv'
    BY <1>1, <1>5, <2>1 DEF ChunkInv, AtWriting, Running, WriteSteps, ReadSteps
  <2>6. AnnouncedInv'
    <3>1. Text(asked)' = Text(asked)
      BY <1>1 DEF Text
    <3> QED BY <1>1, <1>2, <1>5, <1>7, <2>1, <3>1 DEF AnnouncedInv
  <2>7. AnswerInv'
    BY <1>1, <1>7, <2>1 DEF AnswerInv, Reading, WriteSteps, ReadSteps
  <2>8. ActedInv'
    <3>1. ~Acted' /\ AnswersOwn' /\ result' = "none"
      BY <1>5, <2>1 DEF Acted, AnswersOwn, ReadSteps
    <3>2. Len(remote'.acted) = before' + 0
      BY <1>1, <1>2, <1>5, <1>7
    <3> QED BY <3>1, <3>2 DEF ActedInv
  <2> QED BY <1>4, <2>2, <2>3, <2>4, <2>5, <2>6, <2>7, <2>8 DEF IInv
<1>8. CASE ~failed /\ ~announcing
  <2>1. /\ step' = "ready" /\ result' = "answered" /\ announcing' = announcing /\ seq' = seq /\ sent' = sent
        /\ size' = size /\ got' = got /\ failed' = failed
    <3>1. step' = "ready" /\ result' = "answered" /\ UNCHANGED <<announcing, operation>>
      BY <1>8, Zenon DEF ReadClosed
    <3> QED BY <3>1 DEF operation
  <2>2. TypeOK'
    <3>1. step' \in Steps /\ awaiting' \in BOOLEAN /\ result' \in {"none", "answered", "threw"}
      BY <1>1, <2>1 DEF Steps
    <3> QED BY <1>1, <1>2, <2>1, <3>1, Zenon DEF TypeOK
  <2>3. PhaseInv' /\ DueInv' /\ LinkInv'
    <3>1. remote'.due = 0 /\ ~(remote'.due > 0)
      BY <1>2, <1>3
    <3>2. PhaseInv'
      BY <1>1, <1>2, <2>1 DEF PhaseInv
    <3>3. DueInv'
      BY <3>1 DEF DueInv, Running, WriteSteps, ReadSteps, Idle, Unsent
    <3>4. LinkInv'
      BY <1>1, <1>2, <1>3, <2>1 DEF LinkInv, Unsent
    <3> QED BY <3>2, <3>3, <3>4
  <2>4. ChunkInv' /\ AnnouncedInv' /\ AnswerInv'
    BY <1>1, <2>1 DEF ChunkInv, AnnouncedInv, AnswerInv, Announced, AtWriting, Reading, Running, WriteSteps, ReadSteps
  <2>5. AnswersOwn'
    <3>1. Text(asked)' = Text(asked)
      BY <1>1 DEF Text
    <3>2. remote.written = Text(asked) /\ SizeOfAnswer(remote.written) = AnswerSize[asked]
      <4>1. Line = Text(asked)
        BY <1>5, <1>8, LineFacts
      <4> QED BY <1>5, <4>1, SizeFacts
    <3>3. Len(remote.acted) = before + 1 /\ Last(remote.acted) = Text(asked)
      BY <1>5, <1>8
    <3>4. got = [i \in 1..AnswerSize[asked] |-> <<Text(asked), i>>]
      <4>1. AnswerSize[asked] \in Nat /\ Len(got) = AnswerSize[asked] /\ \A i \in 1..AnswerSize[asked] : got[i] = <<Text(asked), i>>
        BY <1>5, <1>8, <3>2 DEF GotFirst
      <4> DEFINE n == AnswerSize[asked]
                 whole == [i \in 1..n |-> <<Text(asked), i>>]
      <4>2. \A i \in 1..n : <<Text(asked), i>> \in Texts \X Nat
        <5>1. Text(asked) \in Texts
          BY <1>5, TextFacts
        <5>2. \A i \in 1..n : i \in Nat
          BY <4>1
        <5> QED BY <5>1, <5>2
      <4> HIDE DEF n
      <4>3. whole \in Seq(Texts \X Nat) /\ Len(whole) = n /\ \A i \in 1..n : whole[i] = <<Text(asked), i>>
        <5>1. n \in Nat
          BY <4>1 DEF n
        <5> QED BY <4>2, <5>1
      <4> HIDE DEF whole
      <4>4. \A i \in 1..Len(got) : got[i] = whole[i]
        BY <4>1, <4>3 DEF n
      <4>5. got = whole
        BY <1>5, <4>1, <4>3, <4>4, SeqEqual DEF n
      <4> QED BY <4>5 DEF whole, n
    <3>5. asked' = asked /\ remote' = remote /\ got' = got /\ before' = before
      BY <1>1, <1>2, <2>1
    <3> QED BY <3>1, <3>3, <3>4, <3>5, Zenon DEF AnswersOwn
  <2>6. ActedInv'
    BY <2>1, <2>5 DEF ActedInv, Running, WriteSteps, ReadSteps
  <2> QED BY <1>4, <2>2, <2>3, <2>4, <2>6 DEF IInv
<1> QED BY <1>5, <1>6, <1>7, <1>8

(* A report that is let out reaches the remote, and moves the channel on.  *)
LEMMA Written ==
  ASSUME IInv, step \in Sends, Write(ReportNow)
  PROVE  /\ remote' = After(remote, ReportNow) /\ replies' = replies \o Answers(remote, ReportNow)
         /\ faults' = faults /\ phase' \in {"idle", "open", "line", "ended"}
         /\ step \in {"ping", "open for writing", "open for reading", "read"} => Idle
         /\ step \in {"open for writing", "chunk", "packet", "done"} => ~(phase' = "idle")
<1>1. /\ remote' = After(remote, ReportNow) /\ replies' = replies \o Answers(remote, ReportNow) /\ faults' = faults
      /\ Passes(ReportNow.cmd) /\ phase' = PhaseAfter(ReportNow.cmd)
  BY DEF Write, Arrives
<1>2. TypeOK /\ ChunkInv /\ phase \in {"idle", "open", "line", "ended"}
  BY DEF IInv, TypeOK
<1>3. ReportNow.cmd = (IF step = "close after reading" THEN "close" ELSE step)
  BY <1>2, ReportFacts
<1> DEFINE cmd == ReportNow.cmd
<1> HIDE DEF cmd
<1>4. Passes(cmd) /\ phase' = PhaseAfter(cmd) /\ cmd = (IF step = "close after reading" THEN "close" ELSE step)
  BY <1>1, <1>3 DEF cmd
<1>5. CASE step \in {"ping", "open for reading", "read"}
  <2>1. cmd \in {"ping", "open for reading", "read"}
    BY <1>4, <1>5
  <2>2. phase = "idle"
    BY <1>4, <2>1, Zenon DEF Passes
  <2>3. phase' = phase
    BY <1>4, <2>1 DEF PhaseAfter
  <2> QED BY <1>1, <1>5, <2>2, <2>3 DEF Idle
<1>6. CASE step = "open for writing"
  <2>1. cmd = "open for writing"
    BY <1>4, <1>6
  <2>2. phase = "idle"
    BY <1>4, <2>1, Zenon DEF Passes
  <2>3. phase' = "open"
    BY <1>4, <2>1 DEF PhaseAfter
  <2> QED BY <1>1, <1>6, <2>2, <2>3 DEF Idle
<1>7. CASE step = "packet"
  <2>1. cmd = "packet"
    BY <1>4, <1>7
  <2>2. phase \in {"open", "line"}
    BY <1>4, <2>1, Zenon DEF Passes
  <2>3. phase' \in {"ended", "line"}
    BY <1>4, <2>1, <2>2 DEF PhaseAfter
  <2> QED BY <1>1, <1>7, <2>3
<1>8. CASE step \in {"chunk", "done"}
  <2>1. cmd = step
    BY <1>4, <1>8
  <2>2. phase # "idle"
    BY <1>4, <1>8, <2>1 DEF Passes
  <2>3. phase' = phase
    BY <1>4, <1>8, <2>1 DEF PhaseAfter
  <2> QED BY <1>1, <1>2, <1>8, <2>2, <2>3
<1>9. CASE step \in {"close", "close after reading"}
  <2>1. cmd = "close"
    BY <1>4, <1>9
  <2>2. phase' = "idle"
    BY <1>4, <2>1 DEF PhaseAfter
  <2> QED BY <1>1, <1>9, <2>2
<1> QED BY <1>5, <1>6, <1>7, <1>8, <1>9 DEF Sends

(* What sending a command leaves alone, which is all but the link.         *)
LEMMA CommandSent ==
  ASSUME IInv, SendCommand
  PROVE  /\ step \in Sends \ {"chunk", "packet", "done"} /\ ~awaiting /\ awaiting' = TRUE
         /\ step' = step /\ asked' = asked /\ announcing' = announcing /\ before' = before /\ asks' = asks
         /\ seq' = seq /\ sent' = sent /\ size' = size /\ got' = got /\ failed' = failed /\ result' = result
         /\ remote' = After(remote, ReportNow) /\ replies' = replies \o Answers(remote, ReportNow)
         /\ Line' = Line /\ DonePacket' = DonePacket /\ Text(asked)' = Text(asked)
         /\ faults' = faults /\ phase' \in {"idle", "open", "line", "ended"}
         /\ (remote' \in Remotes /\ replies' \in Seq(Replies) => TypeOK')
<1>1. /\ step \in Sends \ {"chunk", "packet", "done"} /\ ~awaiting /\ awaiting' = TRUE
      /\ step' = step /\ asked' = asked /\ announcing' = announcing /\ before' = before /\ asks' = asks
      /\ seq' = seq /\ sent' = sent /\ size' = size /\ got' = got /\ failed' = failed /\ result' = result
      /\ Write(ReportNow)
  BY DEF SendCommand, Unasked
<1>2. /\ remote' = After(remote, ReportNow) /\ replies' = replies \o Answers(remote, ReportNow)
      /\ faults' = faults /\ phase' \in {"idle", "open", "line", "ended"}
  BY <1>1, Written
<1>3. Line' = Line /\ DonePacket' = DonePacket /\ Text(asked)' = Text(asked)
  BY <1>1, SameLine
<1>4. TypeOK
  BY DEF IInv
<1>5. ASSUME remote' \in Remotes, replies' \in Seq(Replies) PROVE TypeOK'
  <2>1. awaiting' \in BOOLEAN
    BY <1>1
  <2> QED BY <1>1, <1>2, <1>4, <1>5, <2>1, Zenon DEF TypeOK
<1> QED BY <1>1, <1>2, <1>3, <1>5, Zenon

LEMMA SendPingKeeps ==
  ASSUME IInv, SendCommand, step = "ping"
  PROVE  IInv'
<1> DEFINE a == Answers(remote, ReportNow)
<1>1. /\ awaiting = FALSE /\ awaiting' = TRUE
      /\ step' = step /\ asked' = asked /\ announcing' = announcing /\ before' = before
      /\ result' = result /\ remote' = After(remote, ReportNow) /\ replies' = replies \o a
      /\ Text(asked)' = Text(asked) /\ got' = got
      /\ (remote' \in Remotes /\ replies' \in Seq(Replies) => TypeOK')
  <2>1. awaiting \in BOOLEAN
    BY DEF IInv, TypeOK
  <2> QED BY <2>1, CommandSent
<1>2. /\ TypeOK /\ DueInv /\ ChunkInv /\ LinkInv /\ ActedInv /\ remote.due \in Nat
      /\ replies \in Seq(Replies)
  BY DEF IInv, TypeOK, Remotes
<1>3. /\ remote' \in Remotes /\ RemoteInv(remote') /\ a \in Seq(Replies) /\ Len(a) <= 1
      /\ remote'.due > 0 => remote.due > 0
      /\ a # <<>> /\ a[1].cmd = "ping" => remote'.due = 0
      /\ remote'.acted = remote.acted \/ remote.due > 0
  BY <1>1, PingArrives
<1> HIDE DEF a
<1>4. replies = <<>>
  BY <1>1, <1>2 DEF LinkInv
<1>5. replies' = a
  BY <1>1, <1>3, <1>4
<1>6. TypeOK'
  BY <1>1, <1>3, <1>5
<1>7. PhaseInv' /\ AnswerInv' /\ AnnouncedInv'
  BY <1>1 DEF PhaseInv, AnswerInv, AnnouncedInv, Reading, Announced, WriteSteps, ReadSteps
<1>8. DueInv'
  BY <1>1, <1>2, <1>3 DEF DueInv, Unsent, Running, WriteSteps, ReadSteps
<1>9. ChunkInv'
  BY <1>1, <1>2 DEF ChunkInv, AtWriting, Running, WriteSteps, ReadSteps
<1>10. LinkInv'
  BY <1>1, <1>3, <1>5 DEF LinkInv, Unsent, ReadSteps
<1>11. ActedInv'
  <2>1. ~Running'
    BY <1>1 DEF Running, WriteSteps, ReadSteps
  <2>2. AnswersOwn'
    <3>1. CASE result = "answered"
      <4>1. ~(remote.due > 0)
        BY <1>2, <3>1 DEF DueInv, Running, WriteSteps, ReadSteps
      <4>2. remote'.acted = remote.acted
        BY <1>3, <4>1
      <4> QED BY <1>1, <1>2, <4>2 DEF ActedInv, AnswersOwn
    <3>2. CASE result # "answered"
      BY <1>1, <3>2 DEF AnswersOwn
    <3> QED BY <3>1, <3>2
  <2> QED BY <2>1, <2>2 DEF ActedInv
<1>12. RemoteInv(remote)'
  BY <1>3
<1> QED BY <1>6, <1>7, <1>8, <1>9, <1>10, <1>11, <1>12 DEF IInv

OpensForWriting == step = "open for writing"
OpensForReading == step = "open for reading"
ClosesAnswer    == step = "close after reading"

LEMMA SendOpenForWritingKeeps ==
  ASSUME IInv, SendCommand, OpensForWriting
  PROVE  IInv'
<1> DEFINE a == Answers(remote, ReportNow)
<1>1. /\ step = "open for writing" /\ awaiting = FALSE /\ awaiting' = TRUE
      /\ step' = step /\ asked' = asked /\ announcing' = announcing /\ before' = before
      /\ sent' = sent /\ got' = got /\ failed' = failed
      /\ result' = result /\ remote' = After(remote, ReportNow) /\ replies' = replies \o a
      /\ Text(asked)' = Text(asked)
      /\ (remote' \in Remotes /\ replies' \in Seq(Replies) => TypeOK')
  <2>1. awaiting \in BOOLEAN
    BY DEF IInv, TypeOK
  <2> QED BY <2>1, CommandSent DEF OpensForWriting
<1>2. Idle /\ ~Idle'
  <2>1. Write(ReportNow) /\ step \in Sends
    BY <1>1 DEF SendCommand
  <2> QED BY <1>1, <2>1, Written DEF Idle
<1>3. /\ PhaseInv /\ ChunkInv /\ AnnouncedInv /\ AnswerInv /\ ActedInv
      /\ remote.due = 0 /\ NoWrite(replies) /\ replies \in Seq(Replies)
  BY <1>1, <1>2 DEF IInv, TypeOK, DueInv, LinkInv, Unsent
<1>4. /\ remote' \in Remotes /\ RemoteInv(remote') /\ a \in Seq(Replies) /\ NoWrite(a)
      /\ remote'.announced = remote.announced /\ remote'.held = remote.held /\ remote'.acted = remote.acted
      /\ remote'.due = 0 /\ remote'.open = "W" /\ remote'.line = <<>>
  <2>1. step \in Sends \ {"ping", "packet", "done"}
    BY <1>1 DEF Sends
  <2> QED BY <1>1, <1>3, <2>1, CommandArrives
<1> HIDE DEF a
<1>5. replies' \in Seq(Replies) /\ NoWrite(replies')
  BY <1>1, <1>3, <1>4, MoreReplies
<1>6. TypeOK' /\ RemoteInv(remote)'
  BY <1>1, <1>4, <1>5
<1>7. PhaseInv'
  BY <1>1, <1>2 DEF PhaseInv
<1>8. DueInv'
  <2>1. remote'.due = 0
    BY <1>4, Zenon
  <2>2. ~(remote'.due > 0)
    BY <2>1
  <2> QED BY <2>1, <2>2, Zenon DEF DueInv
<1>9. ChunkInv'
  BY <1>1, <1>3, <1>4 DEF ChunkInv, AtWriting, Running, WriteSteps, ReadSteps
<1>10. AnnouncedInv'
  BY <1>1, <1>3, <1>4 DEF AnnouncedInv, Announced, ReadSteps
<1>11. LinkInv'
  BY <1>1, <1>2, <1>5 DEF LinkInv, Unsent, ReadSteps
<1>12. AnswerInv'
  BY <1>1, <1>3 DEF AnswerInv, Reading, WriteSteps, ReadSteps
<1>13. ActedInv'
  BY <1>1, <1>3, <1>4 DEF ActedInv, AnswersOwn, Acted, Running, WriteSteps, ReadSteps
<1> QED BY <1>6, <1>7, <1>8, <1>9, <1>10, <1>11, <1>12, <1>13 DEF IInv

LEMMA SendOpenForReadingKeeps ==
  ASSUME IInv, SendCommand, OpensForReading
  PROVE  IInv'
<1> DEFINE a == Answers(remote, ReportNow)
<1>1. /\ step = "open for reading" /\ awaiting = FALSE /\ awaiting' = TRUE
      /\ step' = step /\ asked' = asked /\ announcing' = announcing /\ before' = before
      /\ sent' = sent /\ got' = got /\ failed' = failed
      /\ result' = result /\ remote' = After(remote, ReportNow) /\ replies' = replies \o a
      /\ Line' = Line /\ Text(asked)' = Text(asked)
      /\ (remote' \in Remotes /\ replies' \in Seq(Replies) => TypeOK')
  <2>1. awaiting \in BOOLEAN
    BY DEF IInv, TypeOK
  <2> QED BY <2>1, CommandSent DEF OpensForReading
<1>2. /\ PhaseInv /\ ChunkInv /\ AnnouncedInv /\ AnswerInv /\ ActedInv
      /\ remote.due = 0 /\ replies = <<>> /\ remote.written = Line /\ remote.open # "W"
  BY <1>1 DEF IInv, DueInv, LinkInv, AnswerInv, Reading, ReadSteps
<1>3. /\ remote' \in Remotes /\ RemoteInv(remote') /\ a \in Seq(Replies) /\ NoWrite(a)
      /\ remote'.announced = remote.announced /\ remote'.held = remote.held /\ remote'.acted = remote.acted
      /\ remote'.due = 0 /\ (remote'.open = "W" => remote.open = "W") /\ remote'.written = remote.written
      /\ Len(a) = 1 /\ a[1].size = SizeOfAnswer(remote.written)
  <2>1. step \in Sends \ {"ping", "packet", "done"}
    BY <1>1 DEF Sends
  <2> QED BY <1>1, <1>2, <2>1, CommandArrives
<1> HIDE DEF a
<1>4. replies' = a
  <2>1. replies' = replies \o a /\ replies = <<>> /\ a \in Seq(Replies)
    BY <1>1, <1>2, <1>3, Zenon
  <2> QED BY <2>1
<1>5. TypeOK' /\ RemoteInv(remote)'
  BY <1>1, <1>3, <1>4
<1>6. PhaseInv'
  BY <1>1, <1>2 DEF PhaseInv
<1>7. DueInv'
  <2>1. remote'.due = 0
    BY <1>3, Zenon
  <2>2. ~(remote'.due > 0)
    BY <2>1
  <2> QED BY <2>1, <2>2, Zenon DEF DueInv
<1>8. ChunkInv'
  BY <1>1, <1>2 DEF ChunkInv, AtWriting, Running, WriteSteps, ReadSteps
<1>9. AnnouncedInv'
  BY <1>1, <1>2, <1>3 DEF AnnouncedInv, Announced, ReadSteps
<1>10. LinkInv'
  <2>1. /\ replies' = a /\ a \in Seq(Replies) /\ NoWrite(a) /\ Len(a) = 1 /\ a[1].size = SizeOfAnswer(remote.written)
        /\ SizeOfAnswer(remote'.written) = SizeOfAnswer(remote.written)
    BY <1>3, <1>4, Zenon
  <2>2. NoWrite(replies') /\ Len(replies') <= 1
    BY <2>1
  <2>3. \A i \in 1..Len(replies') : replies'[i].size = SizeOfAnswer(remote'.written)
    BY <2>1
  <2>4. step' = "open for reading" /\ awaiting' = TRUE
    BY <1>1
  <2> QED BY <2>2, <2>3, <2>4 DEF LinkInv, Unsent, ReadSteps
<1>11. AnswerInv'
  BY <1>1, <1>2, <1>3 DEF AnswerInv, Reading, WriteSteps, ReadSteps
<1>12. ActedInv'
  BY <1>1, <1>2, <1>3 DEF ActedInv, AnswersOwn, Acted, Running, WriteSteps, ReadSteps
<1> QED BY <1>5, <1>6, <1>7, <1>8, <1>9, <1>10, <1>11, <1>12 DEF IInv

LEMMA SendReadKeeps ==
  ASSUME IInv, SendCommand, step = "read"
  PROVE  IInv'
<1> DEFINE a == Answers(remote, ReportNow)
<1>1. /\ awaiting = FALSE /\ awaiting' = TRUE
      /\ step' = step /\ asked' = asked /\ announcing' = announcing /\ before' = before
      /\ sent' = sent /\ size' = size /\ got' = got /\ failed' = failed
      /\ result' = result /\ remote' = After(remote, ReportNow) /\ replies' = replies \o a
      /\ Line' = Line /\ Text(asked)' = Text(asked)
      /\ (remote' \in Remotes /\ replies' \in Seq(Replies) => TypeOK')
  <2>1. awaiting \in BOOLEAN
    BY DEF IInv, TypeOK
  <2> QED BY <2>1, CommandSent
<1>2. /\ PhaseInv /\ ChunkInv /\ AnnouncedInv /\ AnswerInv /\ ActedInv /\ remote \in Remotes
      /\ remote.due = 0 /\ replies = <<>> /\ remote.written = Line /\ remote.open # "W"
  BY <1>1 DEF IInv, TypeOK, DueInv, LinkInv, AnswerInv, Reading, ReadSteps
<1>3. /\ remote' \in Remotes /\ RemoteInv(remote') /\ a \in Seq(Replies) /\ NoWrite(a)
      /\ remote'.announced = remote.announced /\ remote'.held = remote.held /\ remote'.acted = remote.acted
      /\ remote'.due = 0 /\ (remote'.open = "W" => remote.open = "W") /\ remote'.written = remote.written
      /\ Len(a) = Total(remote) /\ \A i \in 1..Len(a) : OfAnswer(remote, i, a[i])
  <2>1. step \in Sends \ {"ping", "packet", "done"}
    BY DEF Sends
  <2> QED BY <1>1, <1>2, <2>1, CommandArrives
<1> HIDE DEF a
<1>4. replies' = a
  <2>1. replies' = replies \o a /\ replies = <<>> /\ a \in Seq(Replies)
    BY <1>1, <1>2, <1>3, Zenon
  <2> QED BY <2>1
<1>5. TypeOK' /\ RemoteInv(remote)'
  BY <1>1, <1>3, <1>4
<1>6. PhaseInv'
  BY <1>1, <1>2 DEF PhaseInv
<1>7. DueInv'
  <2>1. remote'.due = 0
    BY <1>3, Zenon
  <2>2. ~(remote'.due > 0)
    BY <2>1
  <2> QED BY <2>1, <2>2, Zenon DEF DueInv
<1>8. ChunkInv'
  BY <1>1, <1>2 DEF ChunkInv, AtWriting, Running, WriteSteps, ReadSteps
<1>9. AnnouncedInv'
  BY <1>1, <1>2, <1>3 DEF AnnouncedInv, Announced, ReadSteps
<1>10. Total(remote') = Total(remote) /\ Len(replies') <= Total(remote')
       /\ \A i \in 1..Len(replies') : OfAnswer(remote', Came' + i, replies'[i])
  <2>1. Total(remote') = Total(remote)
    BY <1>3 DEF Total
  <2>2. Came' = Total(remote') - Len(replies')
    BY DEF Came
  <2>3. Len(a) \in Nat
    BY <1>3
  <2>4. Came' = 0 /\ Len(replies') <= Total(remote')
    BY <1>3, <1>4, <2>1, <2>2, <2>3
  <2>5. ASSUME NEW i \in 1..Len(replies') PROVE OfAnswer(remote', Came' + i, replies'[i])
    <3>1. Came' + i = i /\ OfAnswer(remote, i, replies'[i])
      BY <1>3, <1>4, <2>4
    <3>2. OfAnswer(remote', i, replies'[i])
      BY <1>3, <2>1, <3>1 DEF OfAnswer
    <3> QED BY <3>1, <3>2
  <2> QED BY <2>1, <2>4, <2>5
<1>11. LinkInv'
  BY <1>1, <1>3, <1>4, <1>10 DEF LinkInv, Unsent, ReadSteps
<1>12. AnswerInv'
  BY <1>1, <1>2, <1>3 DEF AnswerInv, Reading, WriteSteps, ReadSteps
<1>13. ActedInv'
  BY <1>1, <1>2, <1>3 DEF ActedInv, AnswersOwn, Acted, Running, WriteSteps, ReadSteps
<1> QED BY <1>5, <1>6, <1>7, <1>8, <1>9, <1>11, <1>12, <1>13 DEF IInv

LEMMA SendCloseKeeps ==
  ASSUME IInv, SendCommand, step = "close"
  PROVE  IInv'
<1> DEFINE a == Answers(remote, ReportNow)
<1>1. /\ awaiting = FALSE /\ awaiting' = TRUE
      /\ step' = step /\ asked' = asked /\ announcing' = announcing /\ before' = before
      /\ sent' = sent /\ got' = got /\ failed' = failed
      /\ result' = result /\ remote' = After(remote, ReportNow) /\ replies' = replies \o a
      /\ Line' = Line /\ Text(asked)' = Text(asked)
      /\ (remote' \in Remotes /\ replies' \in Seq(Replies) => TypeOK')
  <2>1. awaiting \in BOOLEAN
    BY DEF IInv, TypeOK
  <2> QED BY <2>1, CommandSent
<1>2. /\ PhaseInv /\ ChunkInv /\ AnnouncedInv /\ AnswerInv /\ ActedInv /\ remote \in Remotes
      /\ remote.due = 0 /\ replies = <<>> /\ asked \in Requests /\ announcing \in BOOLEAN
      /\ sent = Len(Line) /\ remote.open = "W" /\ IsFirst(remote.line, Line, sent)
  BY <1>1 DEF IInv, TypeOK, DueInv, LinkInv, ChunkInv, AtWriting, Running, WriteSteps
<1>3. /\ remote' \in Remotes /\ RemoteInv(remote') /\ a \in Seq(Replies) /\ NoWrite(a)
      /\ remote'.announced = remote.announced /\ remote'.held = remote.held /\ remote'.acted = remote.acted
      /\ remote'.due = 0 /\ remote'.open # "W" /\ remote'.written = remote.line /\ Len(a) = 1
  <2>1. step \in Sends \ {"ping", "packet", "done"}
    BY DEF Sends
  <2> QED BY <1>1, <1>2, <2>1, CommandArrives
<1> HIDE DEF a
<1>4. remote'.written = Line'
  <2>1. remote.line \in Texts /\ Line \in Texts
    BY <1>2, LineFacts DEF Remotes
  <2> HIDE DEF Line
  <2>2. Len(remote.line) = Len(Line) /\ \A i \in 1..Len(Line) : remote.line[i] = Line[i]
    BY <1>2 DEF IsFirst
  <2>3. remote.line = Line
    BY <2>1, <2>2, SeqEqual DEF Texts
  <2> QED BY <1>1, <1>3, <2>3, Zenon
<1>5. replies' = a
  <2>1. replies' = replies \o a /\ replies = <<>> /\ a \in Seq(Replies)
    BY <1>1, <1>2, <1>3, Zenon
  <2> QED BY <2>1
<1>6. TypeOK' /\ RemoteInv(remote)'
  BY <1>1, <1>3, <1>5
<1>7. PhaseInv'
  BY <1>1, <1>2 DEF PhaseInv
<1>8. DueInv'
  <2>1. ~(remote'.due > 0)
    BY <1>3
  <2> QED BY <1>3, <2>1 DEF DueInv
<1>9. ChunkInv'
  BY <1>1, <1>2 DEF ChunkInv, AtWriting, Running, WriteSteps, ReadSteps
<1>10. AnnouncedInv'
  BY <1>1, <1>2, <1>3 DEF AnnouncedInv, Announced, ReadSteps
<1>11. LinkInv'
  <2>1. replies' = a /\ NoWrite(a) /\ Len(a) = 1
    BY <1>3, <1>5, Zenon
  <2>2. NoWrite(replies') /\ Len(replies') <= 1
    BY <2>1
  <2>3. step' = "close" /\ awaiting' = TRUE
    BY <1>1
  <2> QED BY <2>2, <2>3 DEF LinkInv, Unsent, ReadSteps
<1>12. AnswerInv'
  BY <1>1, <1>2, <1>3, <1>4 DEF AnswerInv, Reading, WriteSteps, ReadSteps
<1>13. ActedInv'
  BY <1>1, <1>2, <1>3 DEF ActedInv, AnswersOwn, Acted, Running, WriteSteps, ReadSteps
<1> QED BY <1>6, <1>7, <1>8, <1>9, <1>10, <1>11, <1>12, <1>13 DEF IInv

LEMMA SendCloseAfterReadingKeeps ==
  ASSUME IInv, SendCommand, ClosesAnswer
  PROVE  IInv'
<1> DEFINE a == Answers(remote, ReportNow)
<1>1. /\ step = "close after reading" /\ awaiting = FALSE /\ awaiting' = TRUE
      /\ step' = step /\ asked' = asked /\ announcing' = announcing /\ before' = before
      /\ sent' = sent /\ got' = got /\ failed' = failed
      /\ result' = result /\ remote' = After(remote, ReportNow) /\ replies' = replies \o a
      /\ Line' = Line /\ Text(asked)' = Text(asked)
      /\ (remote' \in Remotes /\ replies' \in Seq(Replies) => TypeOK')
  <2>1. awaiting \in BOOLEAN
    BY DEF IInv, TypeOK
  <2> QED BY <2>1, CommandSent DEF ClosesAnswer
<1>2. /\ PhaseInv /\ ChunkInv /\ AnnouncedInv /\ AnswerInv /\ ActedInv
      /\ remote.due = 0 /\ NoWrite(replies) /\ replies \in Seq(Replies)
      /\ remote.written = Line /\ remote.open # "W"
  BY <1>1 DEF IInv, TypeOK, DueInv, LinkInv, AnswerInv, Reading, ReadSteps
<1>3. /\ remote' \in Remotes /\ RemoteInv(remote') /\ a \in Seq(Replies) /\ NoWrite(a)
      /\ remote'.announced = remote.announced /\ remote'.held = remote.held /\ remote'.acted = remote.acted
      /\ remote'.due = 0 /\ remote'.open # "W" /\ remote'.written = remote.written
  <2>1. step \in Sends \ {"ping", "packet", "done"}
    BY <1>1 DEF Sends
  <2> QED BY <1>1, <1>2, <2>1, CommandArrives
<1> HIDE DEF a
<1>4. replies' \in Seq(Replies) /\ NoWrite(replies')
  BY <1>1, <1>2, <1>3, MoreReplies
<1>5. TypeOK' /\ RemoteInv(remote)'
  BY <1>1, <1>3, <1>4
<1>6. PhaseInv'
  BY <1>1, <1>2 DEF PhaseInv
<1>7. DueInv'
  <2>1. ~(remote'.due > 0)
    BY <1>3
  <2> QED BY <1>3, <2>1 DEF DueInv
<1>8. ChunkInv'
  BY <1>1, <1>2 DEF ChunkInv, AtWriting, Running, WriteSteps, ReadSteps
<1>9. AnnouncedInv'
  BY <1>1, <1>2, <1>3 DEF AnnouncedInv, Announced, ReadSteps
<1>10. LinkInv'
  BY <1>1, <1>4 DEF LinkInv, Unsent, ReadSteps
<1>11. AnswerInv'
  <2>1. \A n \in Nat : GotFirst(n) => GotFirst(n)'
    BY <1>1, <1>3 DEF GotFirst
  <2>2. ~failed => GotFirst(SizeOfAnswer(remote.written))
    BY <1>1, <1>2 DEF AnswerInv
  <2> QED BY <1>1, <1>2, <1>3, <2>2 DEF AnswerInv, GotFirst, Reading, WriteSteps, ReadSteps
<1>12. ActedInv'
  BY <1>1, <1>2, <1>3 DEF ActedInv, AnswersOwn, Acted, Running, WriteSteps, ReadSteps
<1> QED BY <1>5, <1>6, <1>7, <1>8, <1>9, <1>10, <1>11, <1>12 DEF IInv

LEMMA SendCommandKeeps ==
  ASSUME IInv, SendCommand
  PROVE  IInv'
<1>1. step \in {"ping", "open for writing", "close", "open for reading", "read", "close after reading"}
  BY DEF SendCommand, Sends
<1>2. CASE step = "ping"
  BY <1>2, SendPingKeeps
<1>3. CASE OpensForWriting
  BY <1>3, SendOpenForWritingKeeps
<1>4. CASE step = "close"
  BY <1>4, SendCloseKeeps
<1>5. CASE OpensForReading
  BY <1>5, SendOpenForReadingKeeps
<1>6. CASE step = "read"
  BY <1>6, SendReadKeeps
<1>7. CASE ClosesAnswer
  BY <1>7, SendCloseAfterReadingKeeps
<1> QED BY <1>1, <1>2, <1>3, <1>4, <1>5, <1>6, <1>7 DEF OpensForWriting, OpensForReading, ClosesAnswer

(* A chunk starts with nothing in hand.                                    *)
LEMMA SendChunkCommandKeeps ==
  ASSUME IInv, SendChunkCommand
  PROVE  IInv'
<1> DEFINE a == Answers(remote, ReportNow)
<1>1. /\ step = "chunk" /\ step' = "packet" /\ awaiting' = awaiting
      /\ asked' = asked /\ announcing' = announcing /\ before' = before /\ asks' = asks
      /\ seq' = (seq + 1) % SequenceModulus /\ sent' = sent /\ size' = size /\ got' = got /\ failed' = failed
      /\ result' = result /\ Write(ReportNow)
  BY DEF SendChunkCommand, Unasked, Take
<1>2. /\ remote' = After(remote, ReportNow) /\ replies' = replies \o a
      /\ faults' = faults /\ phase' \in {"idle", "open", "line", "ended"} /\ ~(phase' = "idle")
  BY <1>1, Written DEF Sends
<1>3. Line' = Line /\ DonePacket' = DonePacket /\ Text(asked)' = Text(asked)
      /\ \A b \in Nat : ChunkEnd(b)' = ChunkEnd(b)
  BY <1>1, SameLine
<1>4. /\ TypeOK /\ PhaseInv /\ ChunkInv /\ AnnouncedInv /\ AnswerInv /\ ActedInv /\ remote \in Remotes
      /\ remote.due = 0 /\ NoWrite(replies) /\ replies \in Seq(Replies) /\ asked \in Requests /\ announcing \in BOOLEAN
      /\ sent < Len(Line) /\ sent % PacketsPerChunk = 0 /\ (asked \in Answering \/ sent = 0) /\ sent \in Nat
      /\ remote.open = "W" /\ IsFirst(remote.line, Line, sent) /\ (announcing => asked \in Answering)
  BY <1>1 DEF IInv, TypeOK, DueInv, LinkInv, ChunkInv, AtWriting, Running, WriteSteps
<1>5. /\ remote' \in Remotes /\ RemoteInv(remote') /\ a \in Seq(Replies)
      /\ remote'.announced = remote.announced /\ remote'.held = remote.held /\ remote'.acted = remote.acted
      /\ remote'.due = ChunkCount - 1
      /\ remote'.text = <<>> /\ ~remote'.done /\ a = <<>>
      /\ remote'.open = remote.open /\ remote'.line = remote.line
  <2>1. step \in Sends \ {"ping", "packet", "done"}
    BY <1>1 DEF Sends
  <2>2. step = "chunk" /\ remote.due = 0 /\ remote' = After(remote, ReportNow)
    BY <1>1, <1>2, <1>4, Zenon
  <2>3. /\ remote' \in Remotes /\ RemoteInv(remote') /\ a \in Seq(Replies)
        /\ remote'.announced = remote.announced /\ remote'.held = remote.held /\ remote'.acted = remote.acted
        /\ remote'.due = ChunkCount - 1
    BY <2>1, <2>2, CommandArrives
  <2>4. /\ remote'.text = <<>> /\ ~remote'.done /\ a = <<>>
        /\ remote'.open = remote.open /\ remote'.line = remote.line
    BY <2>1, <2>2, CommandArrives
  <2> QED BY <2>3, <2>4, Zenon
<1> HIDE DEF a
<1>6. replies' = replies
  <2>1. replies' = replies \o a /\ a = <<>> /\ a \in Seq(Replies)
    BY <1>2, <1>5, Zenon
  <2> QED BY <1>4, <2>1, MoreReplies
<1>7. TypeOK'
  <2>1. seq' \in 0..SequenceModulus - 1
    BY <1>1, <1>4, TakeTyped
  <2>2. step' \in Steps
    BY <1>1 DEF Steps, WriteSteps
  <2> QED BY <1>1, <1>2, <1>4, <1>5, <1>6, <2>1, <2>2, Zenon DEF TypeOK
<1>8. PhaseInv'
  BY <1>1, <1>2, <1>4 DEF PhaseInv, Idle
<1>9. DueInv'
  BY <1>1 DEF DueInv, Unsent, Running, WriteSteps, ReadSteps
<1>10. Len(Line) \in Nat \ {0}
  BY <1>4, LineFacts
<1>11. Start' = sent
  <2>1. Len(remote'.text) = 0 /\ Start' = sent' - Len(remote'.text)
    BY <1>5 DEF Start
  <2> QED BY <1>1, <1>4, <2>1
<1>12. InHand(remote, Start, sent)'
  <2>1. announcing \/ asked \notin Answering => sent = 0
    <3>1. CASE announcing
      <4>1. Len(Line) = 1
        BY <1>4, <3>1, LineFacts
      <4> QED BY <1>4, <4>1
    <3>2. CASE ~announcing
      BY <1>4, <3>2
    <3> QED BY <3>1, <3>2
  <2>2. ~announcing /\ asked \in Answering => remote'.announced = Packets[asked] /\ IsFirst(remote'.held, Text(asked), sent)
    BY <1>1, <1>4, <1>5 DEF AnnouncedInv, Announced
  <2>3. Len(remote'.text) = sent - sent /\ \A i \in 1..Len(remote'.text) : remote'.text[i] = Line[sent + i]
    BY <1>4, <1>5
  <2>4. sent <= sent /\ sent <= Len(Line)
    BY <1>4, <1>10
  <2> HIDE DEF Line
  <2> QED BY <1>1, <1>3, <1>4, <1>11, <2>1, <2>2, <2>3, <2>4, Zenon DEF InHand
<1>13. /\ sent < ChunkEnd(sent)
       /\ remote'.due = ChunkEnd(sent) - sent + (IF ChunkEnd(sent) = Len(Line) /\ DonePacket THEN 1 ELSE 0)
  <2> DEFINE n == Len(Line)
  <2>1. ChunkEnd(sent) = (IF n - sent < PacketsPerChunk THEN n ELSE sent + PacketsPerChunk)
    BY DEF ChunkEnd
  <2>2. /\ InChunk = (IF n - sent < PacketsPerChunk THEN n - sent ELSE PacketsPerChunk)
        /\ LastChunk <=> sent + InChunk = n
        /\ ChunkCount = 1 + InChunk + (IF LastChunk /\ DonePacket THEN 1 ELSE 0)
    BY DEF InChunk, LastChunk, ChunkCount
  <2>3. n \in Nat /\ sent < n /\ sent \in Nat /\ PacketsPerChunk \in Nat \ {0}
    BY <1>4, <1>10
  <2> HIDE DEF n
  <2>4. sent + InChunk = ChunkEnd(sent) /\ InChunk \in Nat \ {0} /\ ChunkEnd(sent) \in Nat
    BY <2>1, <2>2, <2>3
  <2>5. sent < ChunkEnd(sent) /\ InChunk = ChunkEnd(sent) - sent
    BY <2>3, <2>4
  <2>6. ChunkCount - 1 = InChunk + (IF ChunkEnd(sent) = n /\ DonePacket THEN 1 ELSE 0)
    BY <2>2, <2>4
  <2> QED BY <1>5, <2>5, <2>6 DEF n
<1>14. InChunkInv'
  <2>1. /\ Start' \in Nat /\ Start' % PacketsPerChunk = 0 /\ ~remote'.done /\ step' # "done"
    BY <1>1, <1>4, <1>5, <1>11
  <2>2. ChunkEnd(Start)' = ChunkEnd(sent)
    BY <1>3, <1>11 DEF ChunkEnd
  <2>3. /\ sent' < ChunkEnd(Start)'
        /\ remote'.due = ChunkEnd(Start)' - sent' + (IF ChunkEnd(Start)' = Len(Line') /\ DonePacket' THEN 1 ELSE 0)
    BY <1>1, <1>3, <1>13, <2>2, Zenon
  <2> QED BY <1>12, <2>1, <2>3, Zenon DEF InChunkInv
<1>15. ChunkInv'
  BY <1>1, <1>3, <1>4, <1>5, <1>14 DEF ChunkInv, AtWriting, Running, WriteSteps, ReadSteps
<1>16. AnnouncedInv'
  BY <1>1 DEF AnnouncedInv, Announced, ReadSteps
<1>17. LinkInv'
  BY <1>1, <1>4, <1>6 DEF LinkInv, Unsent, ReadSteps
<1>18. AnswerInv'
  BY <1>1, <1>4 DEF AnswerInv, Reading, WriteSteps, ReadSteps
<1>19. ActedInv'
  BY <1>1, <1>4, <1>5 DEF ActedInv, AnswersOwn, Acted, Running, WriteSteps, ReadSteps
<1>20. RemoteInv(remote)'
  BY <1>5
<1> QED BY <1>7, <1>8, <1>9, <1>15, <1>16, <1>17, <1>18, <1>19, <1>20 DEF IInv

(* The last report of a chunk: the remote answers it, and hears its text.  *)
LEMMA ChunkWrittenKeeps ==
  ASSUME IInv, step \in {"packet", "done"}, step' = "written", awaiting' = TRUE,
         asked' = asked, announcing' = announcing, before' = before, got' = got, failed' = failed, result' = result,
         TypeOK', ~(phase' = "idle"), NEW a \in Seq(Replies), Len(a) = 1, replies' = replies \o a,
         RemoteInv(remote'), remote'.due = 0, remote'.open = "W", IsFirst(remote'.line, Line, sent'),
         sent' <= Len(Line), sent' = Len(Line) \/ (asked \in Answering /\ sent' % PacketsPerChunk = 0),
         Heard(remote', remote.acted, sent')
  PROVE  IInv'
<1>1. /\ PhaseInv /\ ChunkInv /\ LinkInv /\ AnswerInv /\ ActedInv /\ replies \in Seq(Replies) /\ NoWrite(replies)
      /\ asked \in Requests /\ announcing \in BOOLEAN /\ (announcing => asked \in Answering)
      /\ Len(remote.acted) = before /\ result = "none" /\ remote.acted \in Seq(Texts) /\ before \in Nat
  <2>1. /\ TypeOK /\ PhaseInv /\ ChunkInv /\ LinkInv /\ AnswerInv /\ ActedInv
    BY DEF IInv
  <2>2. replies \in Seq(Replies) /\ announcing \in BOOLEAN /\ remote.acted \in Seq(Texts) /\ before \in Nat
    BY <2>1 DEF TypeOK, Remotes
  <2>3. NoWrite(replies)
    BY <2>1 DEF LinkInv
  <2>4. Running /\ ~Acted
    BY DEF Acted, Running, WriteSteps, ReadSteps
  <2>5. asked \in Requests /\ (announcing => asked \in Answering)
    BY <2>1, <2>4 DEF ChunkInv
  <2>6. Len(remote.acted) = before + 0 /\ result = "none"
    BY <2>1, <2>4 DEF ActedInv
  <2> QED BY <2>1, <2>2, <2>3, <2>5, <2>6
<1>2. Line' = Line /\ Text(asked)' = Text(asked)
  BY SameLine
<1>3. Len(Line) \in Nat /\ sent' \in Nat
  <2>1. Len(Line) \in Nat
    BY <1>1, LineFacts
  <2>2. sent' \in Nat
    BY DEF TypeOK
  <2> QED BY <2>1, <2>2
<1>4. Text(asked) \in Texts /\ Len(Text(asked)) \in Nat
  <2>1. asked \in Requests
    BY <1>1
  <2>2. Packets[asked] \in Nat \ {0} /\ Text(asked) \in Texts /\ Len(Text(asked)) = Packets[asked]
    BY <2>1, TextFacts, Zenon
  <2> QED BY <2>2
<1>5. /\ announcing => remote'.announced = Packets[asked] /\ remote'.held = <<>> /\ remote'.acted = remote.acted
      /\ ~announcing /\ sent' < Len(Line) =>
           /\ remote'.announced = Packets[asked] /\ IsFirst(remote'.held, Text(asked), sent')
           /\ remote'.acted = remote.acted
      /\ ~announcing /\ sent' = Len(Line) => remote'.acted = Append(remote.acted, Text(asked))
  BY Zenon DEF Heard
<1>6. PhaseInv'
  BY DEF PhaseInv, Idle
<1>7. DueInv'
  <2>1. ~(remote'.due > 0)
    OBVIOUS
  <2> QED BY <2>1 DEF DueInv
<1>8. ChunkInv'
  <2>1. sent' = Len(Line') \/ (asked' \in Answering /\ sent' < Len(Line') /\ sent' % PacketsPerChunk = 0)
    <3>1. sent' = Len(Line) \/ sent' < Len(Line)
      <4>1. Len(Line) \in Nat /\ sent' \in Nat /\ sent' <= Len(Line)
        BY <1>3
      <4> QED BY <4>1
    <3> QED BY <1>2, <3>1, Zenon
  <2> QED BY <1>1, <1>2, <2>1 DEF ChunkInv, AtWriting, Running, WriteSteps, ReadSteps
<1>9. AnnouncedInv'
  <2>1. CASE announcing
    <3>1. IsFirst(remote'.held, Text(asked), 0)
      BY <1>4, <1>5, <2>1 DEF IsFirst
    <3> QED BY <1>2, <1>5, <2>1, <3>1 DEF AnnouncedInv
  <2>2. CASE ~announcing /\ sent' < Len(Line)
    BY <1>2, <1>5, <2>2 DEF AnnouncedInv
  <2>3. CASE ~announcing /\ ~(sent' < Len(Line))
    <3>1. ~Announced'
      BY <1>2, <2>3 DEF Announced, ReadSteps
    <3> QED BY <3>1 DEF AnnouncedInv
  <2> QED BY <2>1, <2>2, <2>3
<1>10. LinkInv'
  <2>1. \A i \in 1..Len(replies') - 1 : replies'[i].cmd # "write"
    <3>1. replies \in Seq(Replies) /\ NoWrite(replies)
      BY <1>1
    <3>2. \A i \in 1..Len(replies \o a) - 1 : (replies \o a)[i].cmd # "write"
      BY <3>1, MoreReplies, Zenon
    <3> QED BY <3>2, Zenon
  <2> QED BY <2>1 DEF LinkInv, Unsent, ReadSteps
<1>11. AnswerInv'
  BY <1>1 DEF AnswerInv, Reading, WriteSteps, ReadSteps
<1>12. ActedInv'
  <2>1. Acted' <=> ~announcing /\ sent' = Len(Line)
    BY <1>2 DEF Acted, ReadSteps
  <2>2. result' = "none" /\ AnswersOwn'
    BY <1>1 DEF AnswersOwn
  <2>3. CASE ~announcing /\ sent' = Len(Line)
    <3>1. remote'.acted = Append(remote.acted, Text(asked))
      BY <1>5, <2>3
    <3>2. Len(remote'.acted) = before + 1 /\ Last(remote'.acted) = Text(asked)
      BY <1>1, <1>4, <3>1 DEF Last
    <3> QED BY <1>2, <2>1, <2>2, <2>3, <3>2 DEF ActedInv
  <2>4. CASE ~(~announcing /\ sent' = Len(Line))
    <3>1. remote'.acted = remote.acted
      BY <1>1, <1>3, <1>5, <2>4
    <3>2. Len(remote'.acted) = before' + 0
      BY <1>1, <3>1
    <3> QED BY <2>1, <2>2, <2>4, <3>2 DEF ActedInv
  <2> QED BY <2>3, <2>4
<1>13. RemoteInv(remote)'
  OBVIOUS
<1> QED BY <1>6, <1>7, <1>8, <1>9, <1>10, <1>11, <1>12, <1>13 DEF IInv

LEMMA SendDoneKeeps ==
  ASSUME IInv, SendDone
  PROVE  IInv'
<1> DEFINE a == Answers(remote, ReportNow)
<1>1. /\ step = "done" /\ step' = "written" /\ awaiting' = TRUE
      /\ asked' = asked /\ announcing' = announcing /\ before' = before /\ asks' = asks
      /\ seq' = seq /\ sent' = sent /\ size' = size /\ got' = got /\ failed' = failed
      /\ result' = result /\ Write(ReportNow)
  BY DEF SendDone, Unasked
<1>2. /\ remote' = After(remote, ReportNow) /\ replies' = replies \o a
      /\ faults' = faults /\ phase' \in {"idle", "open", "line", "ended"} /\ ~(phase' = "idle")
  BY <1>1, Written DEF Sends
<1>3. TypeOK /\ replies \in Seq(Replies) /\ asked \in Requests /\ announcing \in BOOLEAN
  BY <1>1 DEF IInv, TypeOK, ChunkInv, Running, WriteSteps
<1>4. /\ remote' \in Remotes /\ RemoteInv(remote') /\ a \in Seq(Replies)
      /\ remote'.open = "W" /\ IsFirst(remote'.line, Line, sent)
      /\ remote'.due = 0 /\ Len(a) = 1 /\ sent = Len(Line) /\ Heard(remote', remote.acted, sent)
  BY <1>1, <1>2, DoneArrives
<1> HIDE DEF a
<1>5. TypeOK'
  <2>1. replies' \in Seq(Replies)
    BY <1>2, <1>3, <1>4, MoreReplies
  <2>2. step' \in Steps /\ awaiting' \in BOOLEAN
    BY <1>1 DEF Steps, WriteSteps
  <2> QED BY <1>1, <1>2, <1>3, <1>4, <2>1, <2>2, Zenon DEF TypeOK
<1>6. sent <= Len(Line)
  BY <1>3, <1>4, LineFacts
<1>7. step \in {"packet", "done"}
  BY <1>1
<1> QED BY <1>1, <1>2, <1>4, <1>5, <1>6, <1>7, ChunkWrittenKeeps, Zenon

LEMMA SendPacketKeeps ==
  ASSUME IInv, SendPacket
  PROVE  IInv'
<1> DEFINE a == Answers(remote, ReportNow)
           e == sent + 1
<1>1. /\ step = "packet" /\ asked' = asked /\ announcing' = announcing /\ before' = before /\ asks' = asks
      /\ seq' = (seq + 1) % SequenceModulus /\ sent' = e /\ size' = size /\ got' = got /\ failed' = failed
      /\ result' = result /\ Write(ReportNow)
  BY DEF SendPacket, Unasked, Take
<1>2. /\ remote' = After(remote, ReportNow) /\ replies' = replies \o a
      /\ faults' = faults /\ phase' \in {"idle", "open", "line", "ended"} /\ ~(phase' = "idle")
  BY <1>1, Written DEF Sends
<1>3. Line' = Line /\ DonePacket' = DonePacket /\ Text(asked)' = Text(asked)
      /\ \A b \in Nat : ChunkEnd(b)' = ChunkEnd(b)
  BY <1>1, SameLine
<1>4. /\ TypeOK /\ PhaseInv /\ ChunkInv /\ LinkInv /\ AnswerInv /\ ActedInv
      /\ replies \in Seq(Replies) /\ NoWrite(replies) /\ sent \in Nat /\ ~awaiting /\ awaiting \in BOOLEAN
      /\ asked \in Requests /\ announcing \in BOOLEAN /\ (announcing => asked \in Answering)
      /\ Start \in Nat /\ Start % PacketsPerChunk = 0
  BY <1>1 DEF IInv, TypeOK, PhaseInv, LinkInv, ChunkInv, InChunkInv, Running, WriteSteps
<1>5. /\ remote' \in Remotes /\ RemoteInv(remote') /\ a \in Seq(Replies)
      /\ e <= Len(Line) /\ remote'.open = "W" /\ IsFirst(remote'.line, Line, e)
      /\ ~EndsAChunk(e) \/ (e = Len(Line) /\ DonePacket) =>
           /\ InHand(remote', Start, e) /\ ~remote'.done /\ a = <<>> /\ remote'.acted = remote.acted
           /\ remote'.due = ChunkEnd(Start) - e + (IF ChunkEnd(Start) = Len(Line) /\ DonePacket THEN 1 ELSE 0)
           /\ IF EndsAChunk(e) THEN remote'.due = 1 ELSE e < ChunkEnd(Start)
      /\ EndsAChunk(e) /\ ~(e = Len(Line) /\ DonePacket) =>
           /\ remote'.due = 0 /\ Len(a) = 1 /\ Heard(remote', remote.acted, e)
           /\ e = Len(Line) \/ (asked \in Answering /\ e % PacketsPerChunk = 0)
  BY <1>1, <1>2, PacketArrives
<1> HIDE DEF a
<1>6. replies' \in Seq(Replies)
  BY <1>2, <1>4, <1>5, MoreReplies
<1>7. ASSUME step' \in Steps, awaiting' \in BOOLEAN PROVE TypeOK'
  <2>1. seq' \in 0..SequenceModulus - 1
    BY <1>1, <1>4, TakeTyped
  <2>2. sent' \in Nat
    BY <1>1, <1>4
  <2> HIDE DEF e
  <2> QED BY <1>1, <1>2, <1>4, <1>5, <1>6, <1>7, <2>1, <2>2, Zenon DEF TypeOK
<1> HIDE DEF e
<1>8. CASE EndsAChunk(e) /\ ~(e = Len(Line) /\ DonePacket)
  <2>1. step' = "written" /\ awaiting' = TRUE
    BY <1>8 DEF SendPacket, e
  <2>2. TypeOK'
    BY <1>7, <2>1 DEF Steps, WriteSteps
  <2>3. step \in {"packet", "done"}
    BY <1>1
  <2> QED BY <1>1, <1>2, <1>5, <1>8, <2>1, <2>2, <2>3, ChunkWrittenKeeps, Zenon
<1>9. CASE ~EndsAChunk(e) \/ (e = Len(Line) /\ DonePacket)
  <2>1. /\ step' = (IF EndsAChunk(e) THEN "done" ELSE "packet") /\ awaiting' = awaiting
        /\ EndsAChunk(e) => e = Len(Line) /\ DonePacket
    <3>1. CASE ~EndsAChunk(e)
      <4>1. ~EndsAChunk(sent + 1) /\ ~(sent + 1 = Len(Line) /\ DonePacket)
        BY <3>1 DEF e, EndsAChunk
      <4>2. UNCHANGED <<step, awaiting>>
        BY <4>1, Zenon DEF SendPacket
      <4> QED BY <1>1, <3>1, <4>2
    <3>2. CASE EndsAChunk(e) /\ e = Len(Line) /\ DonePacket
      <4>1. EndsAChunk(sent + 1) /\ sent + 1 = Len(Line) /\ DonePacket
        BY <3>2 DEF e
      <4>2. step' = "done" /\ UNCHANGED awaiting
        BY <4>1, Zenon DEF SendPacket
      <4> QED BY <3>2, <4>2
    <3> QED BY <1>9, <3>1, <3>2
  <2>2. /\ InHand(remote', Start, e) /\ ~remote'.done /\ a = <<>> /\ remote'.acted = remote.acted
        /\ remote'.due = ChunkEnd(Start) - e + (IF ChunkEnd(Start) = Len(Line) /\ DonePacket THEN 1 ELSE 0)
        /\ IF EndsAChunk(e) THEN remote'.due = 1 ELSE e < ChunkEnd(Start)
    BY <1>5, <1>9, Zenon
  <2>3. replies' = replies
    BY <1>2, <1>4, <2>2
  <2>4. TypeOK'
    BY <1>4, <1>7, <2>1 DEF Steps, WriteSteps
  <2>5. Start' = Start
    <3>1. Len(remote'.text) = e - Start /\ Start' = sent' - Len(remote'.text)
      BY <2>2, Zenon DEF InHand, Start
    <3> QED BY <1>1, <1>4, <3>1 DEF e
  <2>6. InHand(remote, Start, sent)'
    BY <1>1, <1>3, <2>2, <2>5 DEF InHand
  <2>7. ChunkEnd(Start)' = ChunkEnd(Start)
    BY <1>3, <2>5 DEF ChunkEnd
  <2>8. InChunkInv'
    <3>1. Start' \in Nat /\ Start' % PacketsPerChunk = 0 /\ ~remote'.done
      BY <1>4, <2>2, <2>5
    <3>2. CASE EndsAChunk(e)
      <4>1. step' = "done" /\ sent' = Len(Line') /\ DonePacket' /\ remote'.due = 1
        BY <1>1, <1>3, <2>1, <2>2, <3>2
      <4>2. Start' < sent'
        <5>1. Start = sent - Len(remote.text) /\ Len(remote.text) \in Nat
          BY <1>4 DEF Start, TypeOK, Remotes, Texts
        <5> QED BY <1>1, <1>4, <2>5, <5>1 DEF e
      <4> QED BY <2>6, <3>1, <4>1, <4>2 DEF InChunkInv
    <3>3. CASE ~EndsAChunk(e)
      <4>1. step' = "packet" /\ sent' < ChunkEnd(Start)'
        BY <1>1, <2>1, <2>2, <2>7, <3>3
      <4>2. remote'.due = ChunkEnd(Start)' - sent' + (IF ChunkEnd(Start)' = Len(Line') /\ DonePacket' THEN 1 ELSE 0)
        BY <1>1, <1>3, <2>2, <2>7, Zenon
      <4> QED BY <2>6, <3>1, <4>1, <4>2 DEF InChunkInv
    <3> QED BY <3>2, <3>3
  <2>9. step' \in {"packet", "done"}
    BY <2>1
  <2>10. PhaseInv'
    BY <1>2, <1>4, <2>1, <2>9 DEF PhaseInv, Idle
  <2>11. DueInv'
    BY <2>9 DEF DueInv, Unsent, Running, WriteSteps, ReadSteps
  <2>12. ChunkInv'
    BY <1>1, <1>3, <1>4, <1>5, <2>8, <2>9 DEF ChunkInv, AtWriting, Running, WriteSteps, ReadSteps
  <2>13. AnnouncedInv'
    BY <2>9 DEF AnnouncedInv, Announced, ReadSteps
  <2>14. LinkInv'
    BY <1>4, <2>3, <2>9 DEF LinkInv, Unsent, ReadSteps
  <2>15. AnswerInv'
    BY <1>1, <1>4, <2>9 DEF AnswerInv, Reading, WriteSteps, ReadSteps
  <2>16. ActedInv'
    BY <1>1, <1>4, <2>2, <2>9 DEF ActedInv, AnswersOwn, Acted, Running, WriteSteps, ReadSteps
  <2>17. RemoteInv(remote)'
    BY <1>5
  <2> QED BY <2>4, <2>10, <2>11, <2>12, <2>13, <2>14, <2>15, <2>16, <2>17 DEF IInv
<1> QED BY <1>8, <1>9

LEMMA InitHolds ==
  ASSUME Init
  PROVE  IInv
<1>1. /\ remote = NewRemote /\ replies = <<>> /\ phase = "idle" /\ step = "off" /\ awaiting = FALSE
      /\ asked = NoRequest /\ announcing = FALSE /\ seq = 0 /\ sent = 0 /\ size = 0 /\ got = <<>> /\ failed = FALSE
      /\ result = "none" /\ before = 0 /\ asks = 0 /\ faults = 0
  BY DEF Init
<1>2. /\ NewRemote \in Remotes /\ NewRemote.due = 0 /\ NewRemote.announced = 0 /\ NewRemote.acted = <<>>
  BY DEF NewRemote, Remotes, Texts
<1>3. TypeOK
  <2>1. asks \in 0..MaxAsks /\ faults \in 0..MaxFaults /\ seq \in 0..SequenceModulus - 1
    BY <1>1, BoundAssumption
  <2>2. replies \in Seq(Replies) /\ got \in Seq(Texts \X Nat) /\ sent \in Nat /\ size \in Nat /\ before \in Nat
    BY <1>1
  <2> QED BY <1>1, <1>2, <2>1, <2>2 DEF TypeOK, Steps
<1>4. RemoteInv(remote)
  <2>1. ~(remote.announced > 0) /\ ~(remote.due > 0) /\ DOMAIN remote.acted = {}
    BY <1>1, <1>2
  <2> QED BY <2>1 DEF RemoteInv, Gathers, Counts, ActedWhole
<1>5. PhaseInv /\ DueInv /\ LinkInv
  <2>1. ~(remote.due > 0)
    BY <1>1, <1>2
  <2> QED BY <1>1, <2>1 DEF PhaseInv, DueInv, LinkInv, Unsent, ReadSteps
<1>6. ChunkInv /\ AnnouncedInv /\ AnswerInv
  BY <1>1 DEF ChunkInv, AnnouncedInv, AnswerInv, Announced, AtWriting, Reading, Running, WriteSteps, ReadSteps
<1>7. ActedInv
  BY <1>1 DEF ActedInv, AnswersOwn, Running, WriteSteps, ReadSteps
<1> QED BY <1>3, <1>4, <1>5, <1>6, <1>7 DEF IInv

LEMMA StutterKeeps ==
  ASSUME IInv, UNCHANGED vars
  PROVE  IInv'
<1>1. /\ remote' = remote /\ replies' = replies /\ phase' = phase /\ step' = step /\ awaiting' = awaiting
      /\ asked' = asked /\ announcing' = announcing /\ seq' = seq /\ sent' = sent /\ size' = size /\ got' = got
      /\ failed' = failed /\ result' = result /\ before' = before /\ asks' = asks /\ faults' = faults
  BY DEF vars, session, operation
<1>2. Line' = Line /\ DonePacket' = DonePacket /\ Text(asked)' = Text(asked) /\ Start' = Start /\ Came' = Came
  BY <1>1, SameLine DEF Start, Came
<1>3. /\ TypeOK /\ RemoteInv(remote) /\ PhaseInv /\ DueInv /\ ChunkInv /\ AnnouncedInv /\ LinkInv /\ AnswerInv /\ ActedInv
  BY DEF IInv
<1>4. TypeOK' /\ RemoteInv(remote)'
  BY <1>1, <1>3, Zenon DEF TypeOK
<1>5. PhaseInv' /\ DueInv'
  BY <1>1, <1>3 DEF PhaseInv, DueInv, Idle, Unsent, Running, WriteSteps, ReadSteps
<1>6. ChunkInv'
  <2>1. InChunkInv => InChunkInv'
    BY <1>1, <1>2, Zenon DEF InChunkInv, InHand, ChunkEnd
  <2> QED BY <1>1, <1>2, <1>3, <2>1 DEF ChunkInv, AtWriting, Running, WriteSteps, ReadSteps
<1>7. AnnouncedInv'
  BY <1>1, <1>2, <1>3 DEF AnnouncedInv, Announced, ReadSteps
<1>8. LinkInv'
  BY <1>1, <1>2, <1>3 DEF LinkInv, Unsent, Idle, ReadSteps
<1>9. AnswerInv'
  <2>1. \A n : GotFirst(n) <=> GotFirst(n)'
    BY <1>1 DEF GotFirst
  <2> QED BY <1>1, <1>2, <1>3 DEF AnswerInv, GotFirst, Reading, WriteSteps, ReadSteps
<1>10. ActedInv'
  BY <1>1, <1>2, <1>3 DEF ActedInv, AnswersOwn, Acted, Running, WriteSteps, ReadSteps
<1> QED BY <1>4, <1>5, <1>6, <1>7, <1>8, <1>9, <1>10 DEF IInv

LEMMA NextKeeps ==
  ASSUME IInv, [Next]_vars
  PROVE  IInv'
<1>1. CASE Attach
  BY <1>1, AttachKeeps
<1>2. CASE Detach
  BY <1>2, DetachKeeps
<1>3. ASSUME NEW r \in Requests, Ask(r) PROVE IInv'
  BY <1>3, AskKeeps
<1>4. CASE Send
  BY <1>4, SendCommandKeeps, SendChunkCommandKeeps, SendPacketKeeps, SendDoneKeeps, SendThrowsKeeps DEF Send
<1>5. CASE Receive
  BY <1>5, SessionOpenedKeeps, OpenedForWritingKeeps, ChunkAnsweredKeeps, WriteClosedKeeps, OpenedForReadingKeeps,
     ReadAnsweredKeeps, DataReadKeeps, ReadClosedKeeps, WrongReplyKeeps, TimeOutKeeps DEF Receive
<1>6. CASE LoseReply
  BY <1>6, LoseReplyKeeps
<1>7. CASE Kill
  BY <1>7, KillKeeps
<1>8. CASE UNCHANGED vars
  BY <1>8, StutterKeeps
<1> QED BY <1>1, <1>2, <1>3, <1>4, <1>5, <1>6, <1>7, <1>8 DEF Next

-----------------------------------------------------------------------------
(* What the invariant is for.                                              *)

(* The inductive invariant of a session on the request channel: the guard, *)
(* the link, the remote's chunk and its announced number are where the step*)
(* of the request says they are (operation and readAnswer of               *)
(* touchsession.ts), whatever failed, came late or was killed before.      *)
THEOREM Invariance == Spec => []IInv
<1>1. Init => IInv
  BY InitHolds
<1>2. IInv /\ [Next]_vars => IInv'
  BY NextKeeps
<1> QED BY <1>1, <1>2, PTL DEF Spec

(* Every variable has its type, whatever fails.                            *)
THEOREM TypeCorrect == Spec => []TypeOK
<1>1. IInv => TypeOK
  BY DEF IInv
<1> QED BY <1>1, Invariance, PTL

(* A write of answers is acted on whole or not at all, for every length of *)
(* line, size of chunk and fault (announcementFor of touchrequest.ts).     *)
THEOREM ActsOnWholeAnswers == Spec => []AnswersWhole
<1>1. IInv => AnswersWhole
  BY DEF IInv, RemoteInv, ActedWhole, IsWhole, AnswersWhole
<1> QED BY <1>1, Invariance, PTL

(* A request that returns, returns the whole of the remote's answer to its *)
(* own line, on which the remote acted once (readAnswer, awaitReply).      *)
THEOREM ReturnsItsOwnAnswer == Spec => []AnswersOwn
<1>1. IInv => AnswersOwn
  BY DEF IInv, ActedInv
<1> QED BY <1>1, Invariance, PTL

(* Where a text begins, as the community modules say it.                   *)
LEMMA BeginsIsPrefix ==
  ASSUME NEW s \in Texts, NEW t \in Texts, Begins(s, t)
  PROVE  IsPrefix(s, t)
<1>1. Len(s) <= Len(t) /\ \A i \in 1..Len(s) : s[i] = t[i]
  BY DEF Begins, IsFirst
<1>2. SubSeq(s, 1, Len(s)) = SubSeq(t, 1, Len(s))
  BY <1>1 DEF Texts
<1> QED BY <1>1, <1>2 DEF IsPrefix

(* What a report makes the remote act on: the whole line of the request    *)
(* that runs, at the end of its last chunk; or, counted as the packet a    *)
(* request that threw left due, a session's ping.                          *)
ActsOnIts(acted) ==
  /\ step \in {"packet", "done"} /\ Running /\ acted = Append(remote.acted, Text(asked))

ActsOnLeft(acted) ==
  /\ step = "ping" /\ ~Running /\ result = "threw"
  /\ \E x \in Texts, r \in Requests : acted = Append(remote.acted, x) /\ IsPrefix(x, Text(r))

LEMMA ReportActs ==
  ASSUME IInv, step \in Sends, ~awaiting, Passes(ReportNow.cmd), NEW out, out = After(remote, ReportNow)
  PROVE  out.acted = remote.acted \/ ActsOnIts(out.acted) \/ ActsOnLeft(out.acted)
<1>1. TypeOK /\ ChunkInv /\ DueInv /\ remote.due \in Nat
  BY DEF IInv, TypeOK, Remotes
<1>2. PICK a : a = Answers(remote, ReportNow)
  OBVIOUS
<1>3. CASE step = "ping"
  <2>1. out.acted = remote.acted
        \/ (remote.due > 0 /\ \E x \in Texts, q \in Requests : out.acted = Append(remote.acted, x) /\ Begins(x, Text(q)))
    BY <1>2, <1>3, PingArrives
  <2>2. ASSUME NEW x \in Texts, NEW q \in Requests, Begins(x, Text(q)) PROVE IsPrefix(x, Text(q))
    <3>1. Text(q) \in Texts
      BY TextFacts
    <3> QED BY <2>2, <3>1, BeginsIsPrefix
  <2>3. ~Running
    BY <1>3 DEF Running, WriteSteps, ReadSteps
  <2>4. remote.due > 0 => result = "threw"
    BY <1>1, <2>3 DEF DueInv
  <2> QED BY <1>3, <2>1, <2>2, <2>3, <2>4 DEF ActsOnLeft
<1>4. CASE step \in {"packet", "done"}
  <2>1. Running
    BY <1>4 DEF Running, WriteSteps
  <2>2. ASSUME NEW e, Heard(out, remote.acted, e), e <= Len(Line), e \in Nat
        PROVE  out.acted = remote.acted \/ out.acted = Append(remote.acted, Text(asked))
    <3>1. asked \in Requests /\ announcing \in BOOLEAN
      BY <1>1, <2>1 DEF ChunkInv, TypeOK
    <3>2. Len(Line) \in Nat
      BY <3>1, LineFacts
    <3>3. announcing \/ e < Len(Line) \/ e = Len(Line)
      BY <2>2, <3>2
    <3> QED BY <2>2, <3>3, Zenon DEF Heard
  <2>3. sent \in Nat /\ sent + 1 \in Nat
    BY <1>1 DEF TypeOK
  <2>4. CASE step = "packet"
    <3>1. /\ sent + 1 <= Len(Line)
          /\ out.acted = remote.acted \/ Heard(out, remote.acted, sent + 1)
      BY <1>2, <2>4, PacketArrives
    <3> QED BY <1>4, <2>1, <2>2, <2>3, <3>1 DEF ActsOnIts
  <2>5. CASE step = "done"
    <3>1. sent = Len(Line) /\ Heard(out, remote.acted, sent)
      BY <1>2, <2>5, DoneArrives
    <3>2. sent <= Len(Line)
      BY <2>3, <3>1
    <3> QED BY <1>4, <2>1, <2>2, <2>3, <3>1, <3>2 DEF ActsOnIts
  <2> QED BY <1>4, <2>4, <2>5
<1>5. CASE step \notin {"ping", "packet", "done"}
  <2>1. remote.due = 0
    <3>1. CASE OpensForWriting
      <4>1. ReportNow.cmd = "open for writing"
        BY <1>1, <3>1, ReportFacts DEF OpensForWriting
      <4>2. Idle
        BY <4>1, Zenon DEF Passes, Idle
      <4> QED BY <1>1, <3>1, <4>2 DEF DueInv, Unsent, OpensForWriting
    <3>2. CASE ~OpensForWriting
      BY <1>1, <1>5, <3>2 DEF DueInv, Sends, ReadSteps, OpensForWriting
    <3> QED BY <3>1, <3>2
  <2> QED BY <1>2, <1>5, <2>1, CommandArrives
<1> QED BY <1>3, <1>4, <1>5

(* The remote's acts are in the steps that send it a report.               *)
LEMMA StepActs ==
  ASSUME IInv, [Next]_vars
  PROVE  remote'.acted = remote.acted \/ ActsOnIts(remote'.acted) \/ ActsOnLeft(remote'.acted)
<1>1. ASSUME step \in Sends, ~awaiting, Write(ReportNow)
      PROVE  remote'.acted = remote.acted \/ ActsOnIts(remote'.acted) \/ ActsOnLeft(remote'.acted)
  BY <1>1, ReportActs DEF Write, Arrives
<1>2. step \in {"chunk", "packet", "done"} => step \in Sends /\ ~awaiting
  BY DEF IInv, PhaseInv, Sends
<1>3. CASE SendCommand
  BY <1>1, <1>3 DEF SendCommand
<1>4. CASE SendChunkCommand \/ SendPacket \/ SendDone
  BY <1>1, <1>2, <1>4 DEF SendChunkCommand, SendPacket, SendDone
<1>5. CASE SendThrows
  <2>1. /\ step \in Sends /\ ~awaiting
        /\ remote' = remote \/ (Passes(ReportNow.cmd) /\ remote' = After(remote, ReportNow))
    BY <1>5 DEF SendThrows, WriteThrows, Arrives
  <2> QED BY <2>1, ReportActs
<1>6. CASE Receive
  BY <1>6 DEF Receive, SessionOpened, OpenedForWriting, ChunkAnswered, WriteClosed, OpenedForReading, ReadAnswered,
              DataRead, ReadClosed, WrongReply, TimeOut, Accept
<1>7. CASE Attach \/ Detach \/ LoseReply \/ Kill
  BY <1>7 DEF Attach, Detach, LoseReply, Kill
<1>8. ASSUME NEW r \in Requests, Ask(r) PROVE remote' = remote
  BY <1>8 DEF Ask
<1>9. CASE UNCHANGED vars
  BY <1>9 DEF vars
<1> QED BY <1>3, <1>4, <1>5, <1>6, <1>7, <1>8, <1>9 DEF Next, Send

(* Within a request the remote acts on its whole line, outside one on what *)
(* a request that threw had written of its own (the guard of filepipe.ts,  *)
(* operation's "no close").                                                *)
THEOREM ActsOnNothingElse == Spec => ActsOnTheLine
<1>1. ASSUME IInv, [Next]_vars, remote'.acted # remote.acted
      PROVE  \/ Running /\ Last(remote'.acted) = Text(asked)
             \/ step = "ping" /\ result = "threw" /\ \E r \in Requests : IsPrefix(Last(remote'.acted), Text(r))
  <2>1. ActsOnIts(remote'.acted) \/ ActsOnLeft(remote'.acted)
    BY <1>1, StepActs
  <2>2. remote.acted \in Seq(Texts)
    BY <1>1 DEF IInv, TypeOK, Remotes
  <2>3. ASSUME NEW x \in Texts, remote'.acted = Append(remote.acted, x) PROVE Last(remote'.acted) = x
    BY <2>2, <2>3 DEF Last
  <2>4. CASE ActsOnIts(remote'.acted)
    <3>1. asked \in Requests
      BY <1>1, <2>4 DEF IInv, ChunkInv, ActsOnIts
    <3>2. Text(asked) \in Texts
      BY <3>1, TextFacts
    <3> QED BY <2>3, <2>4, <3>2 DEF ActsOnIts
  <2>5. CASE ActsOnLeft(remote'.acted)
    BY <2>3, <2>5 DEF ActsOnLeft
  <2> QED BY <2>1, <2>4, <2>5
<1>2. IInv /\ [Next]_vars =>
        [remote'.acted # remote.acted =>
           LET text == Last(remote'.acted)
           IN  \/ Running /\ text = Text(asked)
               \/ step = "ping" /\ result = "threw" /\ \E r \in Requests : IsPrefix(text, Text(r))]_vars
  BY <1>1
<1> QED BY <1>2, Invariance, PTL DEF Spec, ActsOnTheLine

-----------------------------------------------------------------------------
(* One request is what TouchRequest promises.                              *)

TheAsked == IF Running THEN asked ELSE NoRequest
HasRun   == IF Running THEN Len(remote.acted) - before ELSE 0

(* What the invariant says of a request that runs.                         *)
LEMMA RunningFacts ==
  ASSUME IInv, Running
  PROVE  /\ asked \in Requests /\ TheAsked = asked /\ asked # NoRequest /\ result = "none"
         /\ HasRun = (IF Acted THEN 1 ELSE 0) /\ Len(remote.acted) \in Nat /\ before \in Nat
         /\ remote.acted \in Seq(Texts)
<1>1. asked \in Requests /\ result = "none" /\ remote.acted \in Seq(Texts) /\ before \in Nat
      /\ Len(remote.acted) = before + (IF Acted THEN 1 ELSE 0)
  BY DEF IInv, ChunkInv, ActedInv, TypeOK, Remotes
<1>2. asked # NoRequest
  BY <1>1
<1>3. HasRun = Len(remote.acted) - before
  BY DEF HasRun
<1>4. Len(remote.acted) \in Nat
  BY <1>1
<1>5. HasRun = (IF Acted THEN 1 ELSE 0)
  BY <1>1, <1>3, <1>4
<1> QED BY <1>1, <1>2, <1>4, <1>5 DEF TheAsked

Stutters == TheAsked' = TheAsked /\ HasRun' = HasRun /\ result' = result

(* A step outside a request, and one within it that the remote does not act*)
(* in, is nothing to the promise; one that throws is its Throw.            *)
LEMMA OutsideStutters ==
  ASSUME ~Running, ~Running', result' = result
  PROVE  Stutters
BY DEF Stutters, TheAsked, HasRun

LEMMA InsideStutters ==
  ASSUME Running, Running', asked' = asked, before' = before, result' = result, remote'.acted = remote.acted
  PROVE  Stutters
BY DEF Stutters, TheAsked, HasRun

LEMMA ThrowIsThrow ==
  ASSUME IInv, Running, ~Running', result' = "threw"
  PROVE  Promise!Throw
<1>1. TheAsked # NoRequest /\ TheAsked' = NoRequest /\ HasRun' = 0
  BY RunningFacts DEF TheAsked, HasRun
<1> QED BY <1>1 DEF Promise!Throw, TheAsked, HasRun

(* A throw, of a step that runs or of the ping.                            *)
LEMMA ThrowRefines ==
  ASSUME IInv, Throw, step = "ping" \/ Running, step \in {"read", "data"} => remote'.acted = remote.acted
  PROVE  Stutters \/ Promise!Throw
<1>1. asked' = asked /\ before' = before
  BY DEF Throw, Unasked
<1>2. CASE step = "ping"
  <2>1. step \notin {"read", "data"} /\ step \notin (WriteSteps \cup ReadSteps) \ {"read", "data"}
    BY <1>2 DEF WriteSteps, ReadSteps
  <2>2. step' = "off" /\ UNCHANGED <<result, failed>>
    BY <1>2, <2>1 DEF Throw
  <2>3. ~Running /\ ~Running'
    BY <1>2, <2>2 DEF Running, WriteSteps, ReadSteps
  <2> QED BY <2>2, <2>3, OutsideStutters
<1>3. CASE step \in {"read", "data"}
  <2>1. step' = "close after reading" /\ result' = result
    BY <1>3 DEF Throw
  <2>2. Running /\ Running'
    BY <1>3, <2>1 DEF Running, ReadSteps
  <2> QED BY <1>1, <1>3, <2>1, <2>2, InsideStutters
<1>4. CASE step \notin {"ping", "read", "data"}
  <2>1. step' = "ready" /\ result' = "threw"
    BY <1>4 DEF Throw, Running
  <2>2. Running /\ ~Running'
    BY <1>4, <2>1 DEF Running, WriteSteps, ReadSteps
  <2> QED BY <2>1, <2>2, ThrowIsThrow
<1> QED BY <1>2, <1>3, <1>4

(* A report that is sent: the remote acts at most once, in it.             *)
LEMMA SendRefines ==
  ASSUME IInv, SendCommand \/ SendChunkCommand \/ SendPacket \/ SendDone
  PROVE  Stutters \/ Promise!Act
<1>1. asked' = asked /\ before' = before /\ result' = result
  BY DEF SendCommand, SendChunkCommand, SendPacket, SendDone, Unasked
<1>2. Running' <=> Running
  <2>1. CASE SendCommand
    BY <2>1 DEF SendCommand, Running
  <2>2. CASE SendChunkCommand
    BY <2>2 DEF SendChunkCommand, Running, WriteSteps
  <2>3. CASE SendPacket
    <3>1. step = "packet" /\ (step' = step \/ step' \in {"done", "written"})
      BY <2>3 DEF SendPacket, EndsAChunk
    <3> QED BY <3>1 DEF Running, WriteSteps
  <2>4. CASE SendDone
    BY <2>4 DEF SendDone, Running, WriteSteps
  <2> QED BY <2>1, <2>2, <2>3, <2>4
<1>3. remote'.acted = remote.acted \/ ActsOnIts(remote'.acted) \/ ActsOnLeft(remote'.acted)
  BY StepActs DEF Next, Send
<1>4. CASE ~Running
  BY <1>1, <1>2, <1>4, OutsideStutters
<1>5. CASE Running /\ remote'.acted = remote.acted
  BY <1>1, <1>2, <1>5, InsideStutters
<1>6. CASE Running /\ remote'.acted # remote.acted
  <2>1. step \in {"packet", "done"} /\ remote'.acted = Append(remote.acted, Text(asked))
    BY <1>3, <1>6 DEF ActsOnIts, ActsOnLeft
  <2>2. ~Acted
    BY <2>1 DEF Acted, ReadSteps
  <2>3. TheAsked = asked /\ asked # NoRequest /\ HasRun = 0
    BY <1>6, <2>2, RunningFacts
  <2>4. TheAsked' = asked
    BY <1>1, <1>2, <1>6 DEF TheAsked
  <2>5. HasRun' = 1
    <3>1. /\ remote.acted \in Seq(Texts) /\ Len(remote.acted) \in Nat /\ before \in Nat
          /\ Len(remote.acted) - before = 0
      BY <1>6, <2>3, RunningFacts DEF HasRun
    <3>2. Len(remote'.acted) = Len(remote.acted) + 1
      BY <2>1, <3>1
    <3>3. HasRun' = Len(remote'.acted) - before
      BY <1>1, <1>2, <1>6 DEF HasRun
    <3> QED BY <3>1, <3>2, <3>3
  <2> QED BY <1>1, <2>3, <2>4, <2>5 DEF Promise!Act, TheAsked, HasRun
<1> QED BY <1>4, <1>5, <1>6

(* A reply that is read: the last one of the request returns it.           *)
LEMMA ReadClosedRefines ==
  ASSUME IInv, ReadClosed
  PROVE  Stutters \/ Promise!Throw \/ Promise!Return
<1>1. Running /\ asked' = asked /\ before' = before /\ remote' = remote /\ failed \in BOOLEAN /\ announcing \in BOOLEAN
      /\ step = "close after reading"
  BY DEF IInv, TypeOK, ReadClosed, Accept, Running, ReadSteps
<1>2. CASE failed
  <2>1. step' = "ready" /\ result' = "threw"
    BY <1>2, Zenon DEF ReadClosed
  <2>2. ~Running'
    BY <2>1 DEF Running, WriteSteps, ReadSteps
  <2> QED BY <1>1, <2>1, <2>2, ThrowIsThrow
<1>3. CASE ~failed /\ announcing
  <2>1. step' = "open for writing" /\ result' = result
    BY <1>3 DEF ReadClosed
  <2>2. Running'
    BY <2>1 DEF Running, WriteSteps
  <2> QED BY <1>1, <2>1, <2>2, InsideStutters
<1>4. CASE ~failed /\ ~announcing
  <2>1. step' = "ready" /\ result' = "answered"
    BY <1>4, Zenon DEF ReadClosed
  <2>2. ~Running'
    BY <2>1 DEF Running, WriteSteps, ReadSteps
  <2>3. Acted
    BY <1>1, <1>4 DEF Acted, ReadSteps
  <2>4. TheAsked # NoRequest /\ HasRun = 1
    BY <1>1, <2>3, RunningFacts
  <2>5. TheAsked' = NoRequest /\ HasRun' = 0
    BY <2>2 DEF TheAsked, HasRun
  <2> QED BY <2>1, <2>4, <2>5 DEF Promise!Return, TheAsked, HasRun
<1> QED BY <1>1, <1>2, <1>3, <1>4

LEMMA ReceiveRefines ==
  ASSUME IInv, Receive
  PROVE  Stutters \/ Promise!Throw \/ Promise!Return
<1>1. CASE SessionOpened
  <2>1. ~Running /\ ~Running' /\ result' = result
    BY <1>1 DEF SessionOpened, Running, WriteSteps, ReadSteps
  <2> QED BY <2>1, OutsideStutters
<1>2. CASE OpenedForWriting \/ ChunkAnswered \/ WriteClosed \/ OpenedForReading \/ ReadAnswered
  <2>1. Running /\ Running'
    BY <1>2 DEF OpenedForWriting, ChunkAnswered, WriteClosed, OpenedForReading, ReadAnswered,
                Running, WriteSteps, ReadSteps
  <2>2. asked' = asked /\ before' = before /\ result' = result /\ remote' = remote
    BY <1>2 DEF OpenedForWriting, ChunkAnswered, WriteClosed, OpenedForReading, ReadAnswered, Unasked, Accept
  <2> QED BY <2>1, <2>2, InsideStutters
<1>3. CASE DataRead
  <2>1. step = "data" /\ asked' = asked /\ before' = before /\ result' = result /\ remote' = remote
    BY <1>3 DEF DataRead, Unasked, Accept
  <2>2. step' = step \/ step' = "close after reading"
    <3>1. CASE Head(replies).cmd = "end"
      BY <1>3, <3>1 DEF DataRead
    <3>2. CASE Head(replies).cmd = "read"
      BY <1>3, <3>2 DEF DataRead
    <3>3. CASE Head(replies).cmd \notin {"end", "read"}
      BY <1>3, <3>3 DEF DataRead
    <3> QED BY <3>1, <3>2, <3>3
  <2>3. Running /\ Running'
    BY <2>1, <2>2 DEF Running, ReadSteps
  <2> QED BY <2>1, <2>3, InsideStutters
<1>4. CASE ReadClosed
  BY <1>4, ReadClosedRefines
<1>5. CASE WrongReply \/ TimeOut
  <2>1. awaiting /\ Throw /\ remote' = remote
    BY <1>5 DEF WrongReply, TimeOut
  <2>2. step = "ping" \/ Running
    BY <2>1 DEF IInv, TypeOK, PhaseInv, Steps, Running
  <2> QED BY <2>1, <2>2, ThrowRefines
<1> QED BY <1>1, <1>2, <1>3, <1>4, <1>5 DEF Receive

LEMMA NextRefines ==
  ASSUME IInv, IInv', [Next]_vars
  PROVE  Stutters \/ Promise!Next
<1>1. CASE Attach \/ Detach
  <2>1. ~Running /\ ~Running' /\ result' = result
    BY <1>1 DEF Attach, Detach, Running, WriteSteps, ReadSteps
  <2> QED BY <2>1, OutsideStutters
<1>2. ASSUME NEW r \in Requests, Ask(r) PROVE Promise!Ask
  <2>1. ~Running /\ Running' /\ asked' = r /\ before' = Len(remote.acted) /\ remote' = remote /\ result' = "none"
    BY <1>2 DEF Ask, Running, WriteSteps, ReadSteps
  <2>2. Len(remote.acted) \in Nat
    BY DEF IInv, TypeOK, Remotes
  <2>3. TheAsked = NoRequest /\ TheAsked' = r /\ HasRun' = 0
    BY <2>1, <2>2 DEF TheAsked, HasRun
  <2> QED BY <2>1, <2>3 DEF Promise!Ask, TheAsked, HasRun
<1>3. CASE SendCommand \/ SendChunkCommand \/ SendPacket \/ SendDone
  BY <1>3, SendRefines DEF Promise!Next
<1>4. CASE SendThrows
  <2>1. step \in Sends /\ ~awaiting /\ Throw
    BY <1>4 DEF SendThrows
  <2>2. step = "ping" \/ Running
    BY <2>1 DEF Sends, Running, WriteSteps, ReadSteps
  <2>3. step \in {"read", "data"} => remote'.acted = remote.acted
    <3>1. [Next]_vars
      OBVIOUS
    <3> QED BY <3>1, StepActs DEF ActsOnIts, ActsOnLeft
  <2> QED BY <2>1, <2>2, <2>3, ThrowRefines DEF Promise!Next
<1>5. CASE Receive
  BY <1>5, ReceiveRefines DEF Promise!Next
<1>6. CASE LoseReply
  <2>1. step' = step /\ asked' = asked /\ before' = before /\ result' = result /\ remote' = remote
    BY <1>6 DEF LoseReply, session
  <2> QED BY <2>1 DEF Stutters, TheAsked, HasRun, Running
<1>7. CASE Kill
  <2>1. step' = "off" /\ result' = (IF Running THEN "threw" ELSE result)
    BY <1>7 DEF Kill
  <2>2. ~Running'
    BY <2>1 DEF Running, WriteSteps, ReadSteps
  <2>3. CASE Running
    BY <2>1, <2>2, <2>3, ThrowIsThrow DEF Promise!Next
  <2>4. CASE ~Running
    BY <2>1, <2>2, <2>4, OutsideStutters
  <2> QED BY <2>3, <2>4
<1>8. CASE UNCHANGED vars
  <2>1. step' = step /\ asked' = asked /\ before' = before /\ result' = result /\ remote' = remote
    BY <1>8 DEF vars, session
  <2> QED BY <2>1 DEF Stutters, TheAsked, HasRun, Running
<1> QED BY <1>1, <1>2, <1>3, <1>4, <1>5, <1>6, <1>7, <1>8 DEF Next, Send, Promise!Next

(* A request is acted on at most once, and one that returns was acted on:  *)
(* every step of a session is a step of TouchRequest's or none (request and*)
(* operation of touchsession.ts).  That every request ends is fairness.    *)
THEOREM ImplementsTheRequest == Spec => Promise!Safety
<1>1. Init => Promise!Init
  BY DEF Init, Promise!Init, Running, WriteSteps, ReadSteps
<1>2. IInv /\ IInv' /\ [Next]_vars => [Promise!Next]_<<TheAsked, HasRun, result>>
  BY NextRefines DEF Stutters
<1>3. Promise!Safety <=> Promise!Init /\ [][Promise!Next]_<<TheAsked, HasRun, result>>
  BY DEF Promise!Safety, TheAsked, HasRun
<1> QED BY <1>1, <1>2, <1>3, Invariance, PTL DEF Spec

(* A request's line makes the remote act once and no more, through replies *)
(* that are late, missed or of another request: request of touchsession.ts *)
(* sends nothing again within it.                                          *)
AtMostOnce == Running => Len(remote.acted) - before \in {0, 1}

THEOREM ActsAtMostOnce == Spec => []AtMostOnce
<1>1. IInv => AtMostOnce
  BY RunningFacts DEF HasRun, AtMostOnce
<1> QED BY <1>1, Invariance, PTL
=============================================================================
