--------------------------- MODULE GameClientProofs ---------------------------
(***************************************************************************)
(* What the page shows once everything has arrived, for any number of      *)
(* matches, rounds, connections and clicks.                                *)
(*                                                                         *)
(* An event is on its way in the outbox of the handler, among the reads of *)
(* the relay, or on the wire.  The argument is the same three times: an    *)
(* event that would leave the page wrong (a bad one) is followed by one    *)
(* that puts it right (a good one), wherever the two are, and as long as   *)
(* the page is not right a good one is on its way.                         *)
(***************************************************************************)
EXTENDS GameClient, TLAPS

(* Events on their way: d on the wire, q in the relay, o in the outbox. *)

MatchNames == {"matchFound", "roundStart", "roundResolved", "matchEnded"}
DownNames == MatchNames \cup {"queueJoined", "queueLeft", "matchResumed", "error"}
MatchEvent == [name : MatchNames, match : Matches, round : Nat]
DownEvent == [name : DownNames, match : 0..MaxMatches, round : Nat]
Resumes == {e \in DownEvent : e.name = "matchResumed"}
Task == {task \in [event : MatchEvent, reads : {1, 2}] : task.reads <= Reads(task.event)}

\* Whether the relay delivers its i-th read after its j-th: a read with another one to
\* follow goes to the end once more.
After(q, i, j) == q[i].reads > q[j].reads \/ (q[i].reads = q[j].reads /\ i > j)

\* A good event has not yet reached the wire, or is on its way at all.
Coming(G, q, o) == (\E i \in DOMAIN q : q[i].event \in G) \/ (\E i \in DOMAIN o : o[i] \in G)
Pending(G, d, q, o) == (\E i \in DOMAIN d : d[i] \in G) \/ Coming(G, q, o)

\* Every bad event is followed by a good one, up to the wire and on it.
Ordered(G, B, q, o) ==
    /\ \A j \in DOMAIN o : o[j] \in B => \E i \in DOMAIN o : i > j /\ o[i] \in G
    /\ \A j \in DOMAIN q : q[j].event \in B =>
          \/ \E i \in DOMAIN q : After(q, i, j) /\ q[i].event \in G
          \/ \E i \in DOMAIN o : o[i] \in G
Covered(G, B, d, q, o) ==
    \A j \in DOMAIN d : d[j] \in B =>
        (\E i \in DOMAIN d : i > j /\ d[i] \in G) \/ Coming(G, q, o)

\* For the match the page is in: m is shown, or another match or an end.
Shows(m) == {e \in DownEvent : e.name \in {"matchFound", "matchResumed"} /\ e.match = m}
Hides(m) ==
    {e \in DownEvent : \/ e.name = "matchEnded"
                       \/ e.name \in {"matchFound", "matchResumed"} /\ e.match # m}
\* For its round: round r of m, or another one.
Counts(m, r) ==
    {e \in DownEvent : e.name \in {"roundStart", "matchResumed"} /\ e.match = m /\ e.round = r}
Outdates(m, r) ==
    {e \in DownEvent : \/ e.name = "matchFound"
                       \/ e.name \in {"roundStart", "matchResumed"} /\ (e.match # m \/ e.round # r)}
\* For the end of m: that of m or of a later match, or what would put it out of sight.
Ends(m) == {e \in DownEvent : e.name = "matchEnded" /\ e.match >= m}
Reopens(m) ==
    {e \in DownEvent : \/ e.name = "matchFound" /\ e.match = m
                       \/ e.name = "matchEnded" /\ e.match < m}

-----------------------------------------------------------------------------
(* The inductive invariant. *)

Ui == [connected : BOOLEAN, queue : BOOLEAN, active : 0..MaxMatches, stored : 0..MaxMatches,
       round : [match : 0..MaxMatches, number : Nat], ended : 0..MaxMatches,
       awaiting : BOOLEAN, played : BOOLEAN, page : 0..MaxMatches]

Types ==
    /\ ui \in Ui
    /\ socket \in [id : Nat, open : BOOLEAN]
    /\ down \in Seq(DownEvent) /\ relay \in Seq(Task) /\ outbox \in Seq(MatchEvent)
    /\ match \in [Matches -> [status : {"none", "playing", "ended"}, round : Nat]]
    /\ byUser \in 0..MaxMatches
    /\ opening \in [pc : {"idle", "register", "load", "emit"}, event : Resumes \cup {NoEvent}]
    /\ opening.pc = "emit" => opening.event \in Resumes
    /\ scenario \in [playing : BOOLEAN, matches : 0..MaxMatches, rounds : 1..MaxRounds,
                     sockets : 1..MaxSockets, clicks : Nat, errors : Nat]

\* Events go to the open socket, once its handler has registered it; what the closed ones
\* leave behind does not undo that, or it is on record as crossed.
Addressed ==
    /\ socket.open /\ opening.pc # "register" => registered = socket.id \/ crossed
    /\ \A id \in closing : id \in Nat /\ id <= socket.id /\ (socket.open => id < socket.id)
    /\ ~socket.open => down = <<>>
    /\ ui.stored = ui.active

InPlay == byUser # NoMatch /\ match[byUser].status = "playing"

\* Matches follow each other, and the player of one that is over is freed with the last
\* event of it.
Sequential ==
    /\ \A m, n \in Matches : m < n /\ match[m].status = "none" => match[n].status = "none"
    /\ byUser = NoMatch => outbox = <<>>
    /\ byUser # NoMatch =>
          /\ match[byUser].status # "none"
          /\ \A n \in Matches : n > byUser => match[n].status = "none"
          /\ match[byUser].status = "ended" =>
                outbox # <<>> /\ outbox[Len(outbox)].name = "matchEnded"
    /\ \A i \in DOMAIN outbox : outbox[i].name = "matchEnded" => i = Len(outbox) /\ ~InPlay
    /\ opening.pc = "emit" /\ ~crossed =>
          InPlay /\ opening.event = Event("matchResumed", byUser, match[byUser].round)

\* The page of a player who plays is right, or will be.
ActiveRight(m) == (ui.active = m /\ ui.ended = NoMatch) \/ Pending(Shows(m), down, relay, outbox)
RoundRight(m, r) ==
    ui.round = [match |-> m, number |-> r] \/ Pending(Counts(m, r), down, relay, outbox)
InMatch(m, r) ==
    /\ Ordered(Shows(m), Hides(m), relay, outbox)
    /\ Ordered(Counts(m, r), Outdates(m, r), relay, outbox)
    /\ socket.open /\ ~crossed /\ opening.pc = "idle" =>
          /\ Covered(Shows(m), Hides(m), down, relay, outbox)
          /\ Covered(Counts(m, r), Outdates(m, r), down, relay, outbox)
          /\ ActiveRight(m) /\ RoundRight(m, r)
RoundShown == InPlay => InMatch(byUser, match[byUser].round)

\* So is the page of a match that is over.
Over(m) ==
    /\ Ordered(Ends(m), Reopens(m), relay, outbox)
    /\ Covered(Ends(m), Reopens(m), down, relay, outbox)
    /\ ui.active = m => ui.ended >= m \/ Pending(Ends(m), down, relay, outbox)
EndShown == missed \/ \A m \in Matches : match[m].status = "ended" => Over(m)

Inv == Types /\ Addressed /\ Sequential /\ RoundShown /\ EndShown

-----------------------------------------------------------------------------
(* Sequences, and what happens to events on their way. *)

LEMMA TailFacts ==
    ASSUME NEW S, NEW s \in Seq(S), s # <<>>
    PROVE  /\ Tail(s) \in Seq(S) /\ Len(s) \in Nat /\ Len(s) >= 1 /\ Len(Tail(s)) = Len(s) - 1
           /\ DOMAIN s = 1..Len(s) /\ DOMAIN Tail(s) = 1..(Len(s) - 1)
           /\ \A i \in 1..(Len(s) - 1) : Tail(s)[i] = s[i + 1]
           /\ Head(s) = s[1] /\ Head(s) \in S
  OBVIOUS

LEMMA AppendFacts ==
    ASSUME NEW S, NEW s \in Seq(S), NEW e \in S
    PROVE  /\ Append(s, e) \in Seq(S) /\ Len(s) \in Nat /\ Len(Append(s, e)) = Len(s) + 1
           /\ DOMAIN s = 1..Len(s) /\ DOMAIN Append(s, e) = 1..(Len(s) + 1)
           /\ \A i \in 1..Len(s) : Append(s, e)[i] = s[i]
           /\ Append(s, e)[Len(s) + 1] = e
  OBVIOUS

\* What is not the head is in the tail.
LEMMA InTail ==
    ASSUME NEW S, NEW s \in Seq(S), s # <<>>, NEW i \in DOMAIN s, i # 1
    PROVE  i - 1 \in DOMAIN Tail(s) /\ Tail(s)[i - 1] = s[i]
  <1>1. i \in 2..Len(s)  BY TailFacts
  <1>2. i - 1 \in 1..(Len(s) - 1)  BY <1>1, TailFacts
  <1>3. Tail(s)[i - 1] = s[(i - 1) + 1]  BY <1>2, TailFacts
  <1> QED  BY <1>1, <1>2, <1>3, TailFacts

LEMMA OfTail ==
    ASSUME NEW S, NEW s \in Seq(S), s # <<>>, NEW i \in DOMAIN Tail(s)
    PROVE  i \in Nat /\ i + 1 \in DOMAIN s /\ i + 1 # 1 /\ Tail(s)[i] = s[i + 1]
  BY TailFacts

\* Published: the event moves from the outbox to the end of the relay.
Read(e) == [event |-> e, reads |-> Reads(e)]

LEMMA ReadIsTask ==
    ASSUME NEW e \in MatchEvent
    PROVE  Read(e) \in Task /\ Read(e).event = e /\ Read(e).reads = Reads(e)
  BY DEF Read, Task, Reads

LEMMA PublishOrdered ==
    ASSUME NEW G, NEW B, NEW q \in Seq(Task), NEW o \in Seq(MatchEvent), o # <<>>,
           Ordered(G, B, q, o),
           \A j \in DOMAIN q : q[j].event \in B /\ Head(o) \in G => q[j].reads <= Reads(Head(o))
    PROVE  /\ Ordered(G, B, Append(q, Read(Head(o))), Tail(o))
           /\ Coming(G, q, o) => Coming(G, Append(q, Read(Head(o))), Tail(o))
  <1> DEFINE h == Head(o)
             t == Read(h)
             p == Append(q, t)
             n == Len(q) + 1
  <1>1. h \in MatchEvent /\ h = o[1]  BY TailFacts
  <1>2. t \in Task /\ t.event = h /\ t.reads = Reads(h)  BY <1>1, ReadIsTask
  <1>3. /\ Len(q) \in Nat /\ DOMAIN q = 1..Len(q) /\ DOMAIN p = 1..n
        /\ \A i \in 1..Len(q) : p[i] = q[i]
        /\ p[n] = t
    BY <1>2, AppendFacts
  <1>4. ASSUME NEW i \in DOMAIN o, o[i] \in G
        PROVE  (\E k \in DOMAIN Tail(o) : Tail(o)[k] \in G) \/ (i = 1 /\ p[n].event \in G)
    <2>1. CASE i = 1  BY <2>1, <1>4, <1>1, <1>2, <1>3
    <2>2. CASE i # 1
      <3>1. i - 1 \in DOMAIN Tail(o) /\ Tail(o)[i - 1] \in G  BY <2>2, <1>4, InTail
      <3> QED  BY <3>1
    <2> QED  BY <2>1, <2>2
  <1>5. Coming(G, q, o) => Coming(G, p, Tail(o))
    <2>1. ASSUME NEW i \in DOMAIN q, q[i].event \in G  PROVE \E k \in DOMAIN p : p[k].event \in G
      <3>1. i \in DOMAIN p /\ p[i] = q[i]  BY <1>3
      <3> QED  BY <3>1, <2>1
    <2>2. n \in DOMAIN p  BY <1>3
    <2> HIDE DEF p, n
    <2> QED  BY <2>1, <2>2, <1>4 DEF Coming
  <1>6. ASSUME NEW j \in DOMAIN Tail(o), Tail(o)[j] \in B
        PROVE  \E i \in DOMAIN Tail(o) : i > j /\ Tail(o)[i] \in G
    <2>1. j \in Nat /\ j + 1 \in DOMAIN o /\ o[j + 1] \in B  BY <1>6, OfTail
    <2>2. PICK i \in DOMAIN o : i > j + 1 /\ o[i] \in G  BY <2>1 DEF Ordered
    <2>3. i \in Nat /\ i # 1  BY <2>1, <2>2, TailFacts
    <2>4. i - 1 \in DOMAIN Tail(o) /\ Tail(o)[i - 1] = o[i]  BY <2>3, InTail
    <2>5. i - 1 > j  BY <2>1, <2>2, <2>3
    <2> QED  BY <2>2, <2>4, <2>5
  <1>7. ASSUME NEW j \in DOMAIN p, p[j].event \in B
        PROVE  \/ \E i \in DOMAIN p : After(p, i, j) /\ p[i].event \in G
               \/ \E i \in DOMAIN Tail(o) : Tail(o)[i] \in G
    <2>1. CASE j = n
      <3>1. 1 \in DOMAIN o /\ o[1] \in B  BY <2>1, <1>7, <1>1, <1>2, <1>3, TailFacts
      <3>2. PICK i \in DOMAIN o : i > 1 /\ o[i] \in G  BY <3>1 DEF Ordered
      <3>3. i - 1 \in DOMAIN Tail(o) /\ Tail(o)[i - 1] = o[i]  BY <3>2, InTail, TailFacts
      <3> QED  BY <3>2, <3>3
    <2>2. CASE j # n
      <3>1. j \in DOMAIN q /\ p[j] = q[j] /\ q[j].event \in B  BY <2>2, <1>7, <1>3
      <3>2. CASE \E i \in DOMAIN q : After(q, i, j) /\ q[i].event \in G
        <4>1. PICK i \in DOMAIN q : After(q, i, j) /\ q[i].event \in G  BY <3>2
        <4>2. i \in DOMAIN p /\ p[i] = q[i]  BY <1>3
        <4>3. After(p, i, j)  BY <3>1, <4>1, <4>2 DEF After
        <4> QED  BY <4>1, <4>2, <4>3
      <3>3. CASE \E i \in DOMAIN o : o[i] \in G
        <4>1. PICK i \in DOMAIN o : o[i] \in G  BY <3>3
        <4>2. CASE i = 1 /\ p[n].event \in G
          <5>1. h \in G  BY <4>2, <4>1, <1>1
          <5>2. q[j].reads <= Reads(h)  BY <5>1, <3>1
          <5>3. q[j].reads \in Nat /\ Reads(h) \in Nat  BY <3>1 DEF Task, Reads
          <5>4. p[n].reads > p[j].reads \/ (p[n].reads = p[j].reads /\ n > j)
            BY <5>2, <5>3, <3>1, <1>2, <1>3
          <5>5. n \in DOMAIN p  BY <1>3
          <5>6. After(p, n, j)  BY <5>4 DEF After
          <5> HIDE DEF p, n
          <5> QED  BY <5>5, <5>6, <4>2
        <4> QED  BY <4>1, <4>2, <1>4
      <3> HIDE DEF p
      <3> QED  BY <3>1, <3>2, <3>3 DEF Ordered
    <2> QED  BY <2>1, <2>2
  <1>8. Ordered(G, B, p, Tail(o))
    <2> HIDE DEF p
    <2> QED  BY <1>6, <1>7 DEF Ordered
  <1> QED  BY <1>5, <1>8

\* A first read that is answered with another to follow: the order of delivery is the same.
LEMMA RotateOrdered ==
    ASSUME NEW G, NEW B, NEW q \in Seq(Task), NEW o, q # <<>>, Head(q).reads > 1,
           Ordered(G, B, q, o)
    PROVE  /\ Append(Tail(q), [Head(q) EXCEPT !.reads = @ - 1]) \in Seq(Task)
           /\ Ordered(G, B, Append(Tail(q), [Head(q) EXCEPT !.reads = @ - 1]), o)
           /\ Coming(G, q, o) => Coming(G, Append(Tail(q), [Head(q) EXCEPT !.reads = @ - 1]), o)
  <1> DEFINE h == Head(q)
             t == [h EXCEPT !.reads = @ - 1]
             p == Append(Tail(q), t)
             n == Len(q)
             to(i) == IF i = 1 THEN n ELSE i - 1
  <1>1. h \in Task /\ h = q[1] /\ h.reads = 2 /\ n \in Nat /\ n >= 1 /\ DOMAIN q = 1..n
    BY TailFacts DEF Task
  <1>2. t \in Task /\ t.event = h.event /\ t.reads = 1
    <2>1. h \in [event : MatchEvent, reads : {1, 2}]  BY <1>1 DEF Task
    <2>2. t \in [event : MatchEvent, reads : {1, 2}] /\ t.event = h.event /\ t.reads = 1
      BY <1>1, <2>1
    <2>3. Reads(t.event) >= 1  BY DEF Reads
    <2> QED  BY <2>2, <2>3 DEF Task
  <1>3. /\ p \in Seq(Task) /\ DOMAIN p = 1..n /\ p[n] = t
        /\ \A i \in 1..(n - 1) : p[i] = q[i + 1]
    <2>1. Tail(q) \in Seq(Task) /\ Len(Tail(q)) = n - 1 /\ \A i \in 1..(n - 1) : Tail(q)[i] = q[i + 1]
      BY TailFacts
    <2>2. /\ p \in Seq(Task) /\ DOMAIN p = 1..((n - 1) + 1) /\ p[(n - 1) + 1] = t
          /\ \A i \in 1..(n - 1) : p[i] = Tail(q)[i]
      <3> HIDE DEF t
      <3> QED  BY <2>1, <1>2, AppendFacts
    <2> QED  BY <2>1, <2>2, <1>1
  <1>4. \A i \in DOMAIN q : q[i].reads \in {1, 2}  BY DEF Task
  <1>5. ASSUME NEW i \in DOMAIN q
        PROVE  to(i) \in DOMAIN p /\ p[to(i)].event = q[i].event
    <2>1. CASE i = 1  BY <2>1, <1>1, <1>2, <1>3
    <2>2. CASE i # 1
      <3>1. i - 1 \in 1..(n - 1) /\ (i - 1) + 1 = i  BY <2>2, <1>1
      <3>2. p[i - 1] = q[i]  BY <3>1, <1>3
      <3> QED  BY <3>1, <3>2, <2>2, <1>3
    <2> QED  BY <2>1, <2>2
  <1>6. ASSUME NEW i \in DOMAIN q, NEW j \in DOMAIN q, After(q, i, j)
        PROVE  After(p, to(i), to(j))
    <2>1. i \in 1..n /\ j \in 1..n /\ q[i].reads \in {1, 2} /\ q[j].reads \in {1, 2}  BY <1>1, <1>4
    <2>2. q[i].reads > q[j].reads \/ (q[i].reads = q[j].reads /\ i > j)  BY <1>6 DEF After
    <2>3. CASE i # 1 /\ j # 1
      <3>1. p[i - 1] = q[i] /\ p[j - 1] = q[j]
        <4>1. i - 1 \in 1..(n - 1) /\ (i - 1) + 1 = i /\ j - 1 \in 1..(n - 1) /\ (j - 1) + 1 = j
          BY <2>3, <2>1, <1>1
        <4> QED  BY <4>1, <1>3
      <3>2. to(i) = i - 1 /\ to(j) = j - 1  BY <2>3
      <3>3. i > j => i - 1 > j - 1  BY <2>1
      <3> HIDE DEF p, to
      <3> QED  BY <3>1, <3>2, <3>3, <2>2 DEF After
    <2>4. CASE i = 1
      <3>1. j # 1 /\ q[j].reads = 1  BY <2>4, <2>1, <2>2, <1>1
      <3>2. j - 1 \in 1..(n - 1) /\ (j - 1) + 1 = j  BY <3>1, <2>1, <1>1
      <3>3. p[j - 1] = q[j] /\ p[n].reads = 1  BY <3>2, <1>2, <1>3
      <3>4. to(i) = n /\ to(j) = j - 1 /\ n > j - 1  BY <3>1, <2>4, <2>1, <1>1
      <3> HIDE DEF p, to
      <3> QED  BY <3>1, <3>3, <3>4 DEF After
    <2>5. CASE i # 1 /\ j = 1
      <3>1. q[i].reads = 2  BY <2>5, <2>1, <2>2, <1>1
      <3>2. i - 1 \in 1..(n - 1) /\ (i - 1) + 1 = i  BY <2>5, <2>1, <1>1
      <3>3. p[i - 1] = q[i] /\ p[n].reads = 1  BY <3>2, <1>2, <1>3
      <3>4. to(i) = i - 1 /\ to(j) = n  BY <2>5
      <3> HIDE DEF p, to
      <3> QED  BY <3>1, <3>3, <3>4 DEF After
    <2> QED  BY <2>3, <2>4, <2>5
  <1>7. Coming(G, q, o) => Coming(G, p, o)
    <2> HIDE DEF p, to
    <2> QED  BY <1>5 DEF Coming
  <1>8. ASSUME NEW k \in DOMAIN p
        PROVE  \E j \in DOMAIN q : k = to(j)
    <2>1. CASE k = n  BY <2>1, <1>1
    <2>2. CASE k # n
      <3>1. k + 1 \in 1..n /\ k + 1 # 1 /\ (k + 1) - 1 = k  BY <2>2, <1>1, <1>3
      <3> QED  BY <3>1, <1>1
    <2> QED  BY <2>1, <2>2
  <1>9. ASSUME NEW k \in DOMAIN p, p[k].event \in B
        PROVE  \/ \E i \in DOMAIN p : After(p, i, k) /\ p[i].event \in G
               \/ \E i \in DOMAIN o : o[i] \in G
    <2>1. PICK j \in DOMAIN q : k = to(j)  BY <1>8
    <2>2. q[j].event \in B
      <3> HIDE DEF p, to
      <3> QED  BY <2>1, <1>5, <1>9
    <2>3. CASE \E i \in DOMAIN q : After(q, i, j) /\ q[i].event \in G
      <3>1. PICK i \in DOMAIN q : After(q, i, j) /\ q[i].event \in G  BY <2>3
      <3> HIDE DEF p, to
      <3> QED  BY <3>1, <2>1, <1>5, <1>6
    <2> QED  BY <2>2, <2>3 DEF Ordered
  <1>10. Ordered(G, B, p, o)
    <2> HIDE DEF p
    <2> QED  BY <1>9 DEF Ordered
  <1> QED  BY <1>3, <1>7, <1>10

\* The first read is answered with the socket: the event leaves the relay.
LEMMA LeaveOrdered ==
    ASSUME NEW G, NEW B, NEW q \in Seq(Task), NEW o, q # <<>>, ~(Head(q).reads > 1),
           Ordered(G, B, q, o)
    PROVE  /\ Tail(q) \in Seq(Task)
           /\ Ordered(G, B, Tail(q), o)
           /\ Head(q).event \in B => Coming(G, Tail(q), o)
           /\ Coming(G, q, o) => Head(q).event \in G \/ Coming(G, Tail(q), o)
  <1>1. Head(q) = q[1] /\ Tail(q) \in Seq(Task) /\ DOMAIN q = 1..Len(q) /\ Len(q) \in Nat /\ 1 \in DOMAIN q
    BY TailFacts
  <1>2. \A i \in DOMAIN q : q[i].reads \in {1, 2}  BY DEF Task
  <1>3. q[1].reads = 1  BY <1>1, <1>2
  <1>4. ASSUME NEW i \in DOMAIN q, NEW j \in DOMAIN q, After(q, i, j)  PROVE i # 1
    <2>1. i \in Nat /\ j \in Nat /\ j >= 1 /\ q[j].reads \in {1, 2}  BY <1>1, <1>2
    <2> QED  BY <2>1, <1>3, <1>4 DEF After
  <1>5. ASSUME NEW i \in DOMAIN q, q[i].event \in G, i # 1  PROVE Coming(G, Tail(q), o)
    <2>1. i - 1 \in DOMAIN Tail(q) /\ Tail(q)[i - 1] = q[i]  BY <1>5, InTail
    <2> QED  BY <2>1, <1>5 DEF Coming
  <1>6. Head(q).event \in B => Coming(G, Tail(q), o)
    <2>1. SUFFICES ASSUME q[1].event \in B  PROVE Coming(G, Tail(q), o)  BY <1>1
    <2>2. CASE \E i \in DOMAIN q : After(q, i, 1) /\ q[i].event \in G  BY <2>2, <1>1, <1>4, <1>5
    <2>3. CASE \E i \in DOMAIN o : o[i] \in G  BY <2>3 DEF Coming
    <2> QED  BY <2>1, <2>2, <2>3, <1>1 DEF Ordered
  <1>7. Coming(G, q, o) => Head(q).event \in G \/ Coming(G, Tail(q), o)
    <2>1. CASE \E i \in DOMAIN q : q[i].event \in G  BY <2>1, <1>1, <1>5
    <2>2. CASE \E i \in DOMAIN o : o[i] \in G  BY <2>2 DEF Coming
    <2> QED  BY <2>1, <2>2 DEF Coming
  <1>8. ASSUME NEW k \in DOMAIN Tail(q), Tail(q)[k].event \in B
        PROVE  \/ \E i \in DOMAIN Tail(q) : After(Tail(q), i, k) /\ Tail(q)[i].event \in G
               \/ \E i \in DOMAIN o : o[i] \in G
    <2>1. k \in Nat /\ k + 1 \in DOMAIN q /\ Tail(q)[k] = q[k + 1]  BY OfTail
    <2>2. CASE \E i \in DOMAIN q : After(q, i, k + 1) /\ q[i].event \in G
      <3>1. PICK i \in DOMAIN q : After(q, i, k + 1) /\ q[i].event \in G  BY <2>2
      <3>2. i # 1 /\ i \in Nat  BY <3>1, <2>1, <1>1, <1>4
      <3>3. i - 1 \in DOMAIN Tail(q) /\ Tail(q)[i - 1] = q[i]  BY <3>2, InTail
      <3>4. i > k + 1 => i - 1 > k  BY <3>2, <2>1
      <3>5. After(Tail(q), i - 1, k)  BY <3>1, <3>3, <3>4, <2>1 DEF After
      <3> QED  BY <3>1, <3>3, <3>5
    <2> QED  BY <2>1, <2>2, <1>8 DEF Ordered
  <1>9. Ordered(G, B, Tail(q), o)  BY <1>8 DEF Ordered
  <1> QED  BY <1>1, <1>6, <1>7, <1>9

\* On the wire nothing depends on where before it a good event is.
LEMMA ComingEnough ==
    ASSUME NEW G, NEW B, NEW d, NEW q, NEW o, NEW p, NEW b, Coming(G, q, o) => Coming(G, p, b)
    PROVE  /\ Covered(G, B, d, q, o) => Covered(G, B, d, p, b)
           /\ Pending(G, d, q, o) => Pending(G, d, p, b)
  BY DEF Covered, Pending

\* An event reaches the wire.
LEMMA ArriveCovered ==
    ASSUME NEW G, NEW B, NEW d \in Seq(DownEvent), NEW q, NEW p, NEW o, NEW e \in DownEvent,
           Coming(G, q, o) => e \in G \/ Coming(G, p, o),
           e \in B => Coming(G, p, o)
    PROVE  /\ Covered(G, B, d, q, o) => Covered(G, B, Append(d, e), p, o)
           /\ Pending(G, d, q, o) => Pending(G, Append(d, e), p, o)
  <1> DEFINE c == Append(d, e)
             n == Len(d) + 1
  <1>1. /\ Len(d) \in Nat /\ DOMAIN d = 1..Len(d) /\ DOMAIN c = 1..n /\ c[n] = e /\ n \in DOMAIN c
        /\ \A i \in 1..Len(d) : c[i] = d[i]
    BY AppendFacts
  <1>2. ASSUME NEW i \in DOMAIN d, d[i] \in G  PROVE i \in DOMAIN c /\ c[i] \in G /\ c[i] = d[i]
    BY <1>1, <1>2
  <1>3. Pending(G, d, q, o) => Pending(G, c, p, o)
    <2>1. CASE \E i \in DOMAIN d : d[i] \in G
      <3> HIDE DEF c
      <3> QED  BY <2>1, <1>2 DEF Pending
    <2>2. CASE Coming(G, q, o)
      <3> HIDE DEF c, n
      <3> QED  BY <2>2, <1>1 DEF Pending
    <2> QED  BY <2>1, <2>2 DEF Pending
  <1>4. ASSUME Covered(G, B, d, q, o), NEW j \in DOMAIN c, c[j] \in B
        PROVE  (\E i \in DOMAIN c : i > j /\ c[i] \in G) \/ Coming(G, p, o)
    <2>1. CASE j = n  BY <2>1, <1>4, <1>1
    <2>2. CASE j # n
      <3>1. j \in DOMAIN d /\ d[j] \in B /\ n > j  BY <2>2, <1>4, <1>1
      <3>2. CASE Coming(G, q, o)
        <4> HIDE DEF c, n
        <4> QED  BY <3>1, <3>2, <1>1
      <3>3. CASE \E i \in DOMAIN d : i > j /\ d[i] \in G
        <4> HIDE DEF c, n
        <4> QED  BY <3>3, <1>2
      <3> QED  BY <3>1, <3>2, <3>3, <1>4 DEF Covered
    <2> QED  BY <2>1, <2>2
  <1>5. Covered(G, B, d, q, o) => Covered(G, B, c, p, o)
    <2> HIDE DEF c
    <2> QED  BY <1>4 DEF Covered
  <1> QED  BY <1>3, <1>5

\* With a good event at its end the wire is in order, whatever was on it.
LEMMA GoodArrives ==
    ASSUME NEW G, NEW B, NEW d \in Seq(DownEvent), NEW q, NEW o, NEW e \in DownEvent,
           e \in G, e \notin B
    PROVE  Covered(G, B, Append(d, e), q, o) /\ Pending(G, Append(d, e), q, o)
  <1> DEFINE c == Append(d, e)
             n == Len(d) + 1
  <1>1. Len(d) \in Nat /\ DOMAIN c = 1..n /\ c[n] = e /\ n \in DOMAIN c  BY AppendFacts
  <1>2. ASSUME NEW j \in DOMAIN c, c[j] \in B  PROVE n > j  BY <1>1, <1>2
  <1> HIDE DEF c, n
  <1>3. Covered(G, B, c, q, o)  BY <1>1, <1>2 DEF Covered
  <1>4. Pending(G, c, q, o)  BY <1>1 DEF Pending
  <1> QED  BY <1>3, <1>4 DEF c

\* The page hears the first event.
LEMMA HearCovered ==
    ASSUME NEW G, NEW B, NEW d \in Seq(DownEvent), NEW q, NEW o, d # <<>>, Covered(G, B, d, q, o)
    PROVE  /\ Covered(G, B, Tail(d), q, o)
           /\ Head(d) \in B => Pending(G, Tail(d), q, o)
           /\ Pending(G, d, q, o) => Head(d) \in G \/ Pending(G, Tail(d), q, o)
  <1>1. Head(d) = d[1] /\ 1 \in DOMAIN d /\ DOMAIN d = 1..Len(d) /\ Len(d) \in Nat  BY TailFacts
  <1>2. ASSUME NEW j \in Nat, NEW i \in DOMAIN d, i > j + 1, d[i] \in G
        PROVE  \E k \in DOMAIN Tail(d) : k > j /\ Tail(d)[k] \in G
    <2>1. i \in Nat /\ i # 1  BY <1>1, <1>2
    <2>2. i - 1 \in DOMAIN Tail(d) /\ Tail(d)[i - 1] = d[i]  BY <2>1, InTail
    <2>3. i - 1 > j  BY <2>1, <1>2
    <2> QED  BY <2>2, <2>3, <1>2
  <1>3. ASSUME NEW j \in DOMAIN Tail(d), Tail(d)[j] \in B
        PROVE  (\E k \in DOMAIN Tail(d) : k > j /\ Tail(d)[k] \in G) \/ Coming(G, q, o)
    <2>1. j \in Nat /\ j + 1 \in DOMAIN d /\ d[j + 1] \in B  BY <1>3, OfTail
    <2>2. (\E i \in DOMAIN d : i > j + 1 /\ d[i] \in G) \/ Coming(G, q, o)  BY <2>1 DEF Covered
    <2> QED  BY <2>1, <2>2, <1>2
  <1>4. Covered(G, B, Tail(d), q, o)  BY <1>3 DEF Covered
  <1>5. Head(d) \in B => Pending(G, Tail(d), q, o)
    <2>1. SUFFICES ASSUME d[1] \in B  PROVE Pending(G, Tail(d), q, o)  BY <1>1
    <2>2. CASE \E i \in DOMAIN d : i > 1 /\ d[i] \in G
      <3>1. PICK i \in DOMAIN d : i > 0 + 1 /\ d[i] \in G  BY <2>2
      <3>2. \E k \in DOMAIN Tail(d) : k > 0 /\ Tail(d)[k] \in G  BY <3>1, <1>2
      <3> QED  BY <3>2 DEF Pending
    <2>3. CASE Coming(G, q, o)  BY <2>3 DEF Pending
    <2> QED  BY <2>1, <2>2, <2>3, <1>1 DEF Covered
  <1>6. Pending(G, d, q, o) => Head(d) \in G \/ Pending(G, Tail(d), q, o)
    <2>1. ASSUME NEW i \in DOMAIN d, d[i] \in G, i # 1  PROVE Pending(G, Tail(d), q, o)
      <3>1. i - 1 \in DOMAIN Tail(d) /\ Tail(d)[i - 1] = d[i]  BY <2>1, InTail
      <3> QED  BY <3>1, <2>1 DEF Pending
    <2> QED  BY <2>1, <1>1 DEF Pending
  <1> QED  BY <1>4, <1>5, <1>6

\* A handler has a good event to publish, and no bad one after it.
LEMMA GoodPublished ==
    ASSUME NEW G, NEW B, NEW d, NEW q, NEW o, NEW k \in DOMAIN o, o[k] \in G,
           \A j \in DOMAIN o : o[j] \in B => k > j
    PROVE  Ordered(G, B, q, o) /\ Covered(G, B, d, q, o) /\ Pending(G, d, q, o)
  <1>1. Coming(G, q, o)  BY DEF Coming
  <1>2. Ordered(G, B, q, o)  BY DEF Ordered
  <1> QED  BY <1>1, <1>2 DEF Covered, Pending

\* It has only others to publish, and none was left.
LEMMA OthersPublished ==
    ASSUME NEW G, NEW B, NEW q, NEW o, \A j \in DOMAIN o : o[j] \notin B, Ordered(G, B, q, <<>>)
    PROVE  Ordered(G, B, q, o) /\ (Coming(G, q, <<>>) => Coming(G, q, o))
  BY DEF Ordered, Coming

-----------------------------------------------------------------------------
(* Types. *)

\* The steps, one by one.
LEMMA NextCases ==
    ASSUME Next
    PROVE  \/ Connect \/ Disconnect \/ Reload
           \/ setUserSocket \/ handleReconnect \/ EmitResumed
           \/ handleJoinQueue \/ QueueJoined \/ handleLeaveQueue \/ handlePlay
           \/ broadcastToMatch \/ emitToRecipients
           \/ (\E id \in closing : handleDisconnect(id)) \/ (\E id \in late : setUserSocketLate(id))
           \/ Paired \/ (\E ends \in BOOLEAN : RoundResolves(ends)) \/ Forfeit \/ TimeoutMeetsLock
           \/ Hear
           \/ joinQueue \/ leaveQueue \/ OpenMatch \/ QuitMatch \/ clearMatch \/ play
  BY DEF Next, ServiceStep, handleDisconnectForfeit, handleRoundTimeout

LEMMA EventTypes ==
    /\ \A n \in MatchNames, m \in Matches, r \in Nat : Event(n, m, r) \in MatchEvent
    /\ \A n \in DownNames, m \in 0..MaxMatches, r \in Nat : Event(n, m, r) \in DownEvent
    /\ \A n, m, r : Event(n, m, r).name = n /\ Event(n, m, r).match = m /\ Event(n, m, r).round = r
    /\ MatchEvent \subseteq DownEvent
    /\ MaxMatches \in Nat /\ Matches \subseteq 0..MaxMatches /\ 0 \in 0..MaxMatches
  BY ClientAssumption DEF Event, MatchEvent, DownEvent, DownNames, Matches

LEMMA HeardType ==
    ASSUME NEW u \in Ui, NEW e \in DownEvent
    PROVE  Heard(u, e) \in Ui
  <1>1. e.match \in 0..MaxMatches /\ e.round \in Nat /\ e.name \in DownNames  BY DEF DownEvent
  <1>2. NoMatch \in 0..MaxMatches  BY EventTypes DEF NoMatch
  <1>3. [match |-> e.match, number |-> e.round] \in [match : 0..MaxMatches, number : Nat]  BY <1>1
  <1>4. setRound(u, e.match, e.round) \in Ui  BY <1>3 DEF setRound, Ui
  <1>5. CASE e.name = "queueJoined"  BY <1>5 DEF Heard, Ui
  <1>6. CASE e.name = "queueLeft"  BY <1>6 DEF Heard, Ui
  <1>7. CASE e.name = "matchFound"  BY <1>7, <1>1, <1>2 DEF Heard, Ui
  <1>8. CASE e.name = "roundStart"  BY <1>8, <1>4 DEF Heard, Ui
  <1>9. CASE e.name = "roundResolved"  BY <1>9 DEF Heard, Ui
  <1>10. CASE e.name = "matchEnded"  BY <1>10, <1>1 DEF Heard, Ui, matchEnded
  <1>11. CASE e.name = "matchResumed"  BY <1>11, <1>1, <1>2, <1>4 DEF Heard, Ui
  <1>12. CASE e.name = "error"  BY <1>12 DEF Heard, Ui
  <1> QED  BY <1>1, <1>5, <1>6, <1>7, <1>8, <1>9, <1>10, <1>11, <1>12 DEF DownNames, MatchNames

\* Who changes what.
LEMMA Frame ==
    ASSUME [Next]_vars
    PROVE  /\ \/ Connect \/ Disconnect \/ Reload \/ Hear \/ OpenMatch \/ QuitMatch \/ clearMatch \/ play
              \/ UNCHANGED ui
           /\ Connect \/ Disconnect \/ Reload \/ UNCHANGED socket
           /\ \/ Connect \/ Disconnect \/ Reload \/ EmitResumed \/ handleJoinQueue \/ QueueJoined
              \/ handleLeaveQueue \/ handlePlay \/ emitToRecipients \/ Hear \/ UNCHANGED down
           /\ \/ Paired \/ (\E ends \in BOOLEAN : RoundResolves(ends)) \/ Forfeit
              \/ UNCHANGED match /\ (crossed => crossed')
           /\ \/ Paired \/ (\E ends \in BOOLEAN : RoundResolves(ends)) \/ Forfeit \/ broadcastToMatch
              \/ UNCHANGED <<byUser, outbox>>
           /\ broadcastToMatch \/ emitToRecipients \/ UNCHANGED relay
           /\ Connect \/ setUserSocket \/ handleReconnect \/ EmitResumed \/ UNCHANGED opening
           /\ \/ handlePlay \/ joinQueue \/ leaveQueue \/ QuitMatch \/ TimeoutMeetsLock
              \/ UNCHANGED scenario
           /\ \/ setUserSocket \/ (\E id \in late : setUserSocketLate(id))
              \/ (\E id \in closing : handleDisconnect(id))
              \/ UNCHANGED registered /\ (crossed => crossed')
           /\ Disconnect \/ Reload \/ (\E id \in closing : handleDisconnect(id)) \/ UNCHANGED closing
  <1> USE DEF server, wires, handlers, histories
  <1>1. CASE Connect  BY <1>1 DEF Connect
  <1>2. CASE Disconnect  BY <1>2 DEF Disconnect, Lose
  <1>3. CASE Reload  BY <1>3 DEF Reload, Lose
  <1>4. CASE setUserSocket  BY <1>4 DEF setUserSocket
  <1>5. CASE handleReconnect  BY <1>5 DEF handleReconnect
  <1>6. CASE EmitResumed  BY <1>6 DEF EmitResumed
  <1>7. CASE handleJoinQueue  BY <1>7 DEF handleJoinQueue, Receive
  <1>8. CASE QueueJoined  BY <1>8 DEF QueueJoined
  <1>9. CASE handleLeaveQueue  BY <1>9 DEF handleLeaveQueue, Receive
  <1>10. CASE handlePlay  BY <1>10 DEF handlePlay, Receive
  <1>11. CASE broadcastToMatch  BY <1>11 DEF broadcastToMatch
  <1>12. CASE emitToRecipients  BY <1>12 DEF emitToRecipients
  <1>13. CASE \E id \in closing : handleDisconnect(id)  BY <1>13 DEF handleDisconnect
  <1>14. CASE Paired  BY <1>14 DEF Paired
  <1>15. CASE \E ends \in BOOLEAN : RoundResolves(ends)  BY <1>15 DEF RoundResolves
  <1>16. CASE Forfeit  BY <1>16 DEF Forfeit
  <1>17. CASE Hear  BY <1>17 DEF Hear
  <1>18. CASE joinQueue  BY <1>18 DEF joinQueue, Send, Quiet
  <1>19. CASE leaveQueue  BY <1>19 DEF leaveQueue, Send, Quiet
  <1>20. CASE OpenMatch  BY <1>20 DEF OpenMatch, Quiet
  <1>21. CASE QuitMatch  BY <1>21 DEF QuitMatch, Quiet
  <1>22. CASE clearMatch  BY <1>22 DEF clearMatch, Quiet
  <1>23. CASE play  BY <1>23 DEF play, Send, Quiet
  <1>24. CASE \E id \in late : setUserSocketLate(id)  BY <1>24 DEF setUserSocketLate
  <1>25. CASE TimeoutMeetsLock  BY <1>25 DEF TimeoutMeetsLock
  <1>26. CASE UNCHANGED vars  BY <1>26 DEF vars
  <1> QED  BY NextCases, <1>1, <1>2, <1>3, <1>4, <1>5, <1>6, <1>7, <1>8, <1>9, <1>10, <1>11, <1>12, <1>13, <1>14, <1>15, <1>16, <1>17, <1>18, <1>19, <1>20, <1>21, <1>22, <1>23, <1>24, <1>25, <1>26

LEMMA UiStep ==
    ASSUME Types, [Next]_vars
    PROVE  ui' \in Ui
  <1>0. ui \in Ui /\ 0 \in 0..MaxMatches  BY EventTypes DEF Types
  <1>1. CASE Connect  BY <1>0, <1>1 DEF Connect, Ui
  <1>2. CASE Disconnect  BY <1>0, <1>2 DEF Disconnect, Lose, Ui
  <1>3. CASE Reload
    <2>1. Fresh \in Ui  BY <1>0 DEF Fresh, NoMatch, NoRound, Lobby, Ui
    <2>2. ui.stored \in 0..MaxMatches /\ ui.page \in 0..MaxMatches  BY <1>0 DEF Ui
    <2>3. ui' = [Fresh EXCEPT !.active = ui.stored, !.stored = ui.stored, !.page = ui.page]
      BY <1>3 DEF Reload, Lose
    <2> QED  BY <2>1, <2>2, <2>3 DEF Ui
  <1>4. CASE Hear
    <2>1. Head(down) \in DownEvent  BY <1>4, TailFacts DEF Hear, Types
    <2> QED  BY <1>0, <1>4, <2>1, HeardType DEF Hear
  <1>5. CASE OpenMatch  BY <1>0, <1>5 DEF OpenMatch, Ui
  <1>6. CASE QuitMatch  BY <1>0, <1>6 DEF QuitMatch, Ui, Lobby
  <1>7. CASE clearMatch
    <2>1. NoRound \in [match : 0..MaxMatches, number : Nat] /\ NoMatch \in 0..MaxMatches /\ Lobby \in 0..MaxMatches
      BY <1>0 DEF NoRound, NoMatch, Lobby
    <2>2. ui' = [ui EXCEPT !.page = Lobby, !.active = NoMatch, !.stored = NoMatch,
                           !.round = NoRound, !.ended = NoMatch, !.awaiting = FALSE]
      BY <1>7 DEF clearMatch
    <2> QED  BY <1>0, <2>1, <2>2 DEF Ui
  <1>8. CASE play  BY <1>0, <1>8 DEF play, Ui
  <1>9. CASE UNCHANGED ui  BY <1>0, <1>9
  <1> QED  BY Frame, <1>1, <1>2, <1>3, <1>4, <1>5, <1>6, <1>7, <1>8, <1>9

LEMMA DownStep ==
    ASSUME Types, [Next]_vars
    PROVE  down' \in Seq(DownEvent)
  <1>0. down \in Seq(DownEvent) /\ relay \in Seq(Task)  BY DEF Types
  <1>1. ASSUME NEW n \in DownNames  PROVE Event(n, NoMatch, 0) \in DownEvent  BY EventTypes DEF NoMatch
  <1>2. ASSUME NEW e \in DownEvent  PROVE Append(down, e) \in Seq(DownEvent)  BY <1>0
  <1>3. "error" \in DownNames /\ "queueJoined" \in DownNames /\ "queueLeft" \in DownNames  BY DEF DownNames
  <1>4. CASE Connect \/ Disconnect \/ Reload
    <2>1. down' = <<>>  BY <1>4 DEF Connect, Disconnect, Reload, Lose
    <2> QED  BY <2>1
  <1>5. CASE EmitResumed
    <2>1. opening.event \in DownEvent  BY <1>5 DEF EmitResumed, Types, Resumes
    <2> QED  BY <1>0, <1>2, <1>5, <2>1 DEF EmitResumed
  <1>6. CASE handleJoinQueue  BY <1>0, <1>1, <1>2, <1>3, <1>6 DEF handleJoinQueue
  <1>7. CASE QueueJoined  BY <1>0, <1>1, <1>2, <1>3, <1>7 DEF QueueJoined, Emit
  <1>8. CASE handleLeaveQueue  BY <1>0, <1>1, <1>2, <1>3, <1>8 DEF handleLeaveQueue
  <1>9. CASE handlePlay
    <2>1. down' = Append(down, Event("error", NoMatch, 0)) \/ UNCHANGED down  BY <1>9 DEF handlePlay
    <2> QED  BY <1>0, <1>1, <1>2, <1>3, <2>1
  <1>10. CASE emitToRecipients
    <2>1. relay # <<>>  BY <1>10 DEF emitToRecipients
    <2>2. Head(relay) \in Task  BY <2>1, <1>0, TailFacts
    <2>3. Head(relay).event \in DownEvent  BY <2>2, EventTypes DEF Task
    <2> QED  BY <1>0, <1>2, <1>10, <2>3 DEF emitToRecipients, Emit
  <1>11. CASE Hear  BY <1>0, <1>11 DEF Hear
  <1>12. CASE UNCHANGED down  BY <1>0, <1>12
  <1> QED  BY Frame, <1>4, <1>5, <1>6, <1>7, <1>8, <1>9, <1>10, <1>11, <1>12

\* What the handlers leave in the outbox, and the match they leave behind.
LEMMA ServerStep ==
    ASSUME Types, [Next]_vars
    PROVE  /\ match' \in [Matches -> [status : {"none", "playing", "ended"}, round : Nat]]
           /\ byUser' \in 0..MaxMatches
           /\ outbox' \in Seq(MatchEvent)
           /\ relay' \in Seq(Task)
  <1>0. /\ match \in [Matches -> [status : {"none", "playing", "ended"}, round : Nat]]
        /\ byUser \in 0..MaxMatches /\ outbox \in Seq(MatchEvent) /\ relay \in Seq(Task)
    BY DEF Types
  <1>1. \A n \in MatchNames, m \in Matches, r \in Nat : Event(n, m, r) \in MatchEvent  BY EventTypes
  <1>2. {"matchFound", "roundStart", "roundResolved", "matchEnded"} = MatchNames  BY DEF MatchNames
  <1>3. ASSUME byUser # NoMatch  PROVE byUser \in Matches
    BY <1>0, <1>3, EventTypes DEF NoMatch, Matches
  <1>4. ASSUME NEW a \in MatchEvent, NEW b \in MatchEvent
        PROVE  <<a, b>> \in Seq(MatchEvent) /\ <<a>> \in Seq(MatchEvent)
    OBVIOUS
  <1>5. CASE Paired
    <2>1. PICK m \in 1..scenario.matches :
              /\ match' = [match EXCEPT ![m] = [status |-> "playing", round |-> 1]]
              /\ byUser' = m
              /\ outbox' = <<Event("matchFound", m, 0), Event("roundStart", m, 1)>>
      BY <1>5 DEF Paired
    <2>2. m \in Matches /\ m \in 0..MaxMatches
      <3>1. scenario.matches \in 0..MaxMatches  BY DEF Types
      <3> QED  BY <3>1, EventTypes DEF Matches
    <2>3. UNCHANGED relay  BY <1>5 DEF Paired
    <2>4. Event("matchFound", m, 0) \in MatchEvent /\ Event("roundStart", m, 1) \in MatchEvent
      BY <1>1, <1>2, <2>2
    <2>5. outbox' \in Seq(MatchEvent)  BY <2>1, <2>4, <1>4
    <2> QED  BY <1>0, <2>1, <2>2, <2>3, <2>5
  <1>6. CASE \E ends \in BOOLEAN : RoundResolves(ends)
    <2>1. PICK ends \in BOOLEAN : RoundResolves(ends)  BY <1>6
    <2>2. byUser \in Matches /\ UNCHANGED <<byUser, relay>>  BY <2>1, <1>3 DEF RoundResolves
    <2>3. match[byUser].round \in Nat /\ match[byUser].round + 1 \in Nat  BY <2>2, <1>0
    <2>4. /\ Event("roundResolved", byUser, match[byUser].round) \in MatchEvent
          /\ Event("matchEnded", byUser, 0) \in MatchEvent
          /\ Event("roundStart", byUser, match[byUser].round + 1) \in MatchEvent
      BY <1>1, <1>2, <2>2, <2>3
    <2>5. outbox' = <<Event("roundResolved", byUser, match[byUser].round), Event("matchEnded", byUser, 0)>>
          \/ outbox' = <<Event("roundResolved", byUser, match[byUser].round),
                         Event("roundStart", byUser, match[byUser].round + 1)>>
      BY <2>1 DEF RoundResolves
    <2>6. outbox' \in Seq(MatchEvent)  BY <2>4, <2>5, <1>4
    <2>7. \/ match' = [match EXCEPT ![byUser] = [@ EXCEPT !.status = "ended"]]
          \/ match' = [match EXCEPT ![byUser] = [@ EXCEPT !.round = match[byUser].round + 1]]
      BY <2>1 DEF RoundResolves
    <2> QED  BY <1>0, <2>2, <2>3, <2>6, <2>7
  <1>7. CASE Forfeit
    <2>1. byUser \in Matches /\ UNCHANGED <<byUser, relay>>  BY <1>7, <1>3 DEF Forfeit
    <2>2. Event("matchEnded", byUser, 0) \in MatchEvent  BY <1>1, <1>2, <2>1
    <2>3. outbox' \in Seq(MatchEvent)  BY <1>7, <2>2, <1>4 DEF Forfeit
    <2> QED  BY <1>0, <1>7, <2>1, <2>3 DEF Forfeit
  <1>8. CASE broadcastToMatch
    <2>1. outbox # <<>> /\ outbox' = Tail(outbox) /\ relay' = Append(relay, Read(Head(outbox)))
      BY <1>8 DEF broadcastToMatch, Read
    <2>2. Head(outbox) \in MatchEvent /\ Tail(outbox) \in Seq(MatchEvent)  BY <2>1, <1>0, TailFacts
    <2>3. relay' \in Seq(Task)  BY <2>1, <2>2, <1>0, ReadIsTask, AppendFacts
    <2>4. UNCHANGED match /\ byUser' \in {NoMatch, byUser}  BY <1>8 DEF broadcastToMatch
    <2>5. byUser' \in 0..MaxMatches  BY <2>4, <1>0, EventTypes DEF NoMatch
    <2> QED  BY <1>0, <2>1, <2>2, <2>3, <2>4, <2>5
  <1>9. CASE emitToRecipients
    <2>1. relay # <<>> /\ UNCHANGED <<match, byUser, outbox>>  BY <1>9 DEF emitToRecipients, server
    <2>2. CASE Head(relay).reads > 1
      <3>1. relay' = Append(Tail(relay), [Head(relay) EXCEPT !.reads = @ - 1])
        BY <1>9, <2>2 DEF emitToRecipients
      <3>2. Ordered({}, {}, relay, <<>>)  BY DEF Ordered
      <3> QED  BY <1>0, <2>1, <2>2, <3>1, <3>2, RotateOrdered
    <2>3. CASE ~(Head(relay).reads > 1)
      <3>1. relay' = Tail(relay)  BY <1>9, <2>3 DEF emitToRecipients
      <3> QED  BY <1>0, <2>1, <3>1, TailFacts
    <2> QED  BY <2>2, <2>3
  <1>10. CASE UNCHANGED <<match, byUser, outbox, relay>>  BY <1>0, <1>10
  <1> QED  BY Frame, <1>5, <1>6, <1>7, <1>8, <1>9, <1>10

LEMMA TypesStep ==
    ASSUME Types, [Next]_vars
    PROVE  Types'
  <1>1. socket' \in [id : Nat, open : BOOLEAN]
    <2>0. socket \in [id : Nat, open : BOOLEAN]  BY DEF Types
    <2>1. CASE Connect  BY <2>0, <2>1 DEF Connect
    <2>2. CASE Disconnect \/ Reload  BY <2>0, <2>2 DEF Disconnect, Reload, Lose
    <2> QED  BY <2>0, <2>1, <2>2, Frame
  <1>2. /\ opening' \in [pc : {"idle", "register", "load", "emit"}, event : Resumes \cup {NoEvent}]
        /\ opening'.pc = "emit" => opening'.event \in Resumes
    <2>0. /\ opening \in [pc : {"idle", "register", "load", "emit"}, event : Resumes \cup {NoEvent}]
          /\ opening.pc = "emit" => opening.event \in Resumes
      BY DEF Types
    <2>1. CASE Connect  BY <2>0, <2>1 DEF Connect, Closed
    <2>2. CASE setUserSocket  BY <2>0, <2>2 DEF setUserSocket
    <2>3. CASE handleReconnect
      <3>1. CASE byUser # NoMatch /\ match[byUser].status = "playing"
        <4>1. byUser \in 0..MaxMatches /\ byUser \in Matches  BY <3>1, EventTypes DEF Types, NoMatch, Matches
        <4>2. match[byUser].round \in Nat  BY <4>1 DEF Types
        <4>3. Event("matchResumed", byUser, match[byUser].round) \in Resumes
          <5>1. "matchResumed" \in DownNames  BY DEF DownNames
          <5> QED  BY <4>1, <4>2, <5>1, EventTypes DEF Resumes
        <4>4. opening' = [pc |-> "emit", event |-> Event("matchResumed", byUser, match[byUser].round)]
          BY <2>3, <3>1 DEF handleReconnect
        <4> QED  BY <4>3, <4>4
      <3>2. CASE ~(byUser # NoMatch /\ match[byUser].status = "playing")
        BY <2>3, <3>2 DEF handleReconnect, Closed
      <3> QED  BY <3>1, <3>2
    <2>4. CASE EmitResumed  BY <2>4 DEF EmitResumed, Closed
    <2> QED  BY <2>0, <2>1, <2>2, <2>3, <2>4, Frame
  <1>3. scenario' \in [playing : BOOLEAN, matches : 0..MaxMatches, rounds : 1..MaxRounds,
                       sockets : 1..MaxSockets, clicks : Nat, errors : Nat]
    <2>0. scenario \in [playing : BOOLEAN, matches : 0..MaxMatches, rounds : 1..MaxRounds,
                        sockets : 1..MaxSockets, clicks : Nat, errors : Nat]
      BY DEF Types
    <2> DEFINE Busy == scenario.errors > 0 /\ scenario' = [scenario EXCEPT !.errors = @ - 1]
    <2>1. CASE Busy  BY <2>0, <2>1
    <2>2. CASE Click  BY <2>0, <2>2 DEF Click
    <2>3. handlePlay \/ TimeoutMeetsLock => Busy \/ UNCHANGED scenario  BY DEF handlePlay, TimeoutMeetsLock
    <2>4. joinQueue \/ leaveQueue \/ QuitMatch => Click  BY DEF joinQueue, leaveQueue, QuitMatch
    <2> QED  BY <2>0, <2>1, <2>2, <2>3, <2>4, Frame
  <1> QED  BY <1>1, <1>2, <1>3, UiStep, DownStep, ServerStep DEF Types

-----------------------------------------------------------------------------
(* Addresses. *)

LEMMA AddressedStep ==
    ASSUME Types, Addressed, [Next]_vars
    PROVE  Addressed'
  <1>0. socket.id \in Nat /\ socket.open \in BOOLEAN /\ ui \in Ui  BY DEF Types
  <1>1. (socket.open /\ opening.pc # "register" => registered = socket.id \/ crossed)'
    <2>1. CASE Connect  BY <2>1 DEF Connect, Closed
    <2>2. CASE Disconnect \/ Reload
      <3>1. socket' = [socket EXCEPT !.open = FALSE]  BY <2>2 DEF Disconnect, Reload, Lose
      <3> QED  BY <3>1 DEF Types
    <2>3. CASE setUserSocket  BY <2>3 DEF setUserSocket, wires
    <2>4. CASE handleReconnect \/ EmitResumed
      <3>1. opening.pc # "register" /\ UNCHANGED <<socket, registered, crossed>>
        BY <2>4 DEF handleReconnect, EmitResumed, wires, histories
      <3> QED  BY <3>1 DEF Addressed
    <2>5. CASE UNCHANGED <<socket, opening>> /\ \E id \in closing : handleDisconnect(id)
      <3>1. PICK id \in closing : registered' = removeUserSocket(id) /\ UNCHANGED crossed
        BY <2>5 DEF handleDisconnect, histories
      <3>2. socket.open => id # socket.id  BY <3>1, <1>0 DEF Addressed
      <3> QED  BY <2>5, <3>1, <3>2 DEF Addressed, removeUserSocket
    <2>6. CASE \E id \in late : setUserSocketLate(id)
      <3>1. /\ UNCHANGED <<socket, opening>>
            /\ crossed' = (crossed \/ (socket.open /\ registered = socket.id))
        BY <2>6 DEF setUserSocketLate, wires
      <3> QED  BY <3>1 DEF Addressed
    <2>7. CASE UNCHANGED <<socket, opening, registered>> /\ (crossed => crossed')  BY <2>7 DEF Addressed
    <2> QED  BY <2>1, <2>2, <2>3, <2>4, <2>5, <2>6, <2>7, Frame
  <1>2. (\A id \in closing : id \in Nat /\ id <= socket.id /\ (socket.open => id < socket.id))'
    <2>1. CASE Connect
      <3>1. socket' = [id |-> socket.id + 1, open |-> TRUE] /\ UNCHANGED closing  BY <2>1 DEF Connect
      <3> QED  BY <3>1, <1>0 DEF Addressed
    <2>2. CASE Disconnect \/ Reload
      <3>1. socket' = [socket EXCEPT !.open = FALSE] /\ closing' = closing \cup {socket.id}
        BY <2>2 DEF Disconnect, Reload, Lose
      <3>2. socket'.id = socket.id /\ ~socket'.open  BY <3>1 DEF Types
      <3> QED  BY <3>1, <3>2, <1>0 DEF Addressed
    <2>3. CASE UNCHANGED socket /\ \E id \in closing : handleDisconnect(id)
      <3>1. closing' \subseteq closing  BY <2>3 DEF handleDisconnect
      <3> QED  BY <3>1, <2>3 DEF Addressed
    <2>4. CASE UNCHANGED <<socket, closing>>  BY <2>4 DEF Addressed
    <2> QED  BY <2>1, <2>2, <2>3, <2>4, Frame
  <1>3. (~socket.open => down = <<>>)'
    <2>1. CASE Connect \/ Disconnect \/ Reload  BY <2>1 DEF Connect, Disconnect, Reload, Lose
    <2>2. CASE UNCHANGED socket
      <3>1. SUFFICES ASSUME ~socket.open  PROVE down' = <<>>  BY <2>2
      <3>2. down = <<>>  BY <3>1 DEF Addressed
      <3>3. EmitResumed \/ QueueJoined => UNCHANGED down  BY <3>1 DEF EmitResumed, QueueJoined, Emit
      <3>4. ~handleJoinQueue /\ ~handleLeaveQueue /\ ~handlePlay
        BY <3>1 DEF handleJoinQueue, handleLeaveQueue, handlePlay, Receive
      <3>5. ~Hear  BY <3>1 DEF Hear
      <3>6. emitToRecipients => UNCHANGED down  BY <3>1 DEF emitToRecipients, Emit
      <3>7. CASE Connect \/ Disconnect \/ Reload  BY <3>7, <2>1, <2>2, <3>1 DEF Connect, Disconnect, Reload, Lose
      <3> QED  BY <3>2, <3>3, <3>4, <3>5, <3>6, <3>7, Frame
    <2> QED  BY <2>1, <2>2, Frame
  <1>4. ui'.stored = ui'.active
    <2>0. ui.stored = ui.active  BY DEF Addressed
    <2>1. CASE Connect  BY <2>0, <2>1, <1>0 DEF Connect, Ui
    <2>2. CASE Disconnect  BY <2>0, <2>2, <1>0 DEF Disconnect, Lose, Ui
    <2>3. CASE Reload  BY <2>3 DEF Reload, Lose, Fresh
    <2>4. CASE Hear
      <3>1. Head(down) \in DownEvent  BY <2>4, TailFacts DEF Hear, Types
      <3>2. Head(down).name \in DownNames  BY <3>1 DEF DownEvent
      <3>3. ui' = Heard(ui, Head(down))  BY <2>4 DEF Hear
      <3> DEFINE e == Head(down)
      <3> HIDE DEF e
      <3>4. e.name \in DownNames /\ ui' = Heard(ui, e)  BY <3>2, <3>3 DEF e
      <3>5. CASE e.name \in {"matchFound", "matchResumed"}
        BY <3>4, <3>5, <1>0 DEF Heard, setRound, Ui
      <3>6. CASE e.name \notin {"matchFound", "matchResumed"}
        BY <3>4, <3>6, <2>0, <1>0 DEF Heard, setRound, matchEnded, Ui, DownNames, MatchNames
      <3> QED  BY <3>5, <3>6
    <2>5. CASE OpenMatch  BY <2>0, <2>5, <1>0 DEF OpenMatch, Ui
    <2>6. CASE QuitMatch  BY <2>0, <2>6, <1>0 DEF QuitMatch, Ui
    <2>7. CASE clearMatch  BY <2>7, <1>0 DEF clearMatch, Ui
    <2>8. CASE play  BY <2>0, <2>8, <1>0 DEF play, Ui
    <2> QED  BY <2>0, <2>1, <2>2, <2>3, <2>4, <2>5, <2>6, <2>7, <2>8, Frame
  <1> QED  BY <1>1, <1>2, <1>3, <1>4 DEF Addressed

-----------------------------------------------------------------------------
(* Matches. *)

Began(m) ==
    /\ match[m].status = "none" /\ \A n \in Matches : n < m => match[n].status # "none"
    /\ match'[m].status = "playing" /\ match'[m].round = 1
    /\ \A n \in Matches \ {m} : match'[n] = match[n]
    /\ byUser' = m
    /\ outbox' = <<Event("matchFound", m, 0), Event("roundStart", m, 1)>>

GoesOn(m, r) ==
    /\ match'[m].status = "playing" /\ match'[m].round = r + 1
    /\ outbox' = <<Event("roundResolved", m, r), Event("roundStart", m, r + 1)>>

IsOver(m, r) ==
    /\ match'[m].status = "ended"
    /\ \/ outbox' = <<Event("roundResolved", m, r), Event("matchEnded", m, 0)>>
       \/ outbox' = <<Event("matchEnded", m, 0)>>

LEMMA PairedFacts ==
    ASSUME Types, Sequential, Paired
    PROVE  /\ byUser = NoMatch /\ outbox = <<>>
           /\ \E m \in Matches : Began(m)
           /\ UNCHANGED <<ui, socket, down, relay, opening, missed>>
           /\ crossed' = (crossed \/ opening.pc = "emit")
  <1>1. byUser = NoMatch /\ outbox = <<>>  BY DEF Paired, Sequential
  <1>2. PICK m \in 1..scenario.matches :
          /\ match[m].status = "none" /\ \A n \in Matches : n < m => match[n].status # "none"
          /\ match' = [match EXCEPT ![m] = [status |-> "playing", round |-> 1]]
          /\ byUser' = m
          /\ outbox' = <<Event("matchFound", m, 0), Event("roundStart", m, 1)>>
    BY DEF Paired
  <1>3. m \in Matches
    <2>1. scenario.matches \in 0..MaxMatches  BY DEF Types
    <2> QED  BY <2>1, EventTypes DEF Matches
  <1>4. /\ match'[m].status = "playing" /\ match'[m].round = 1
        /\ \A n \in Matches \ {m} : match'[n] = match[n]
    BY <1>2, <1>3 DEF Types
  <1>5. Began(m)  BY <1>2, <1>4 DEF Began
  <1>6. UNCHANGED <<ui, socket, down, relay, opening, missed>> /\ crossed' = (crossed \/ opening.pc = "emit")
    BY DEF Paired, wires, handlers, Crosses
  <1> QED  BY <1>1, <1>3, <1>5, <1>6

LEMMA ResolvedFacts ==
    ASSUME Types, (\E ends \in BOOLEAN : RoundResolves(ends)) \/ Forfeit
    PROVE  /\ byUser \in Matches /\ InPlay /\ outbox = <<>> /\ match[byUser].round \in Nat
           /\ GoesOn(byUser, match[byUser].round) \/ IsOver(byUser, match[byUser].round)
           /\ \A n \in Matches \ {byUser} : match'[n] = match[n]
           /\ UNCHANGED <<byUser, ui, socket, down, relay, opening, missed>>
           /\ crossed' = (crossed \/ opening.pc = "emit")
  <1>0. /\ match \in [Matches -> [status : {"none", "playing", "ended"}, round : Nat]]
        /\ byUser # NoMatch => byUser \in Matches
    BY EventTypes DEF Types, NoMatch, Matches
  <1>1. CASE \E ends \in BOOLEAN : RoundResolves(ends)
    <2>1. PICK ends \in BOOLEAN : RoundResolves(ends)  BY <1>1
    <2>2. byUser \in Matches /\ InPlay /\ outbox = <<>>  BY <1>0, <2>1 DEF RoundResolves, InPlay
    <2>3. UNCHANGED <<byUser, ui, socket, down, relay, opening, missed>> /\ crossed' = (crossed \/ opening.pc = "emit")
      BY <2>1 DEF RoundResolves, wires, handlers, Crosses
    <2>4. CASE ends
      <3>1. /\ match' = [match EXCEPT ![byUser] = [@ EXCEPT !.status = "ended"]]
            /\ outbox' = <<Event("roundResolved", byUser, match[byUser].round), Event("matchEnded", byUser, 0)>>
        BY <2>1, <2>4 DEF RoundResolves
      <3> QED  BY <1>0, <2>2, <2>3, <3>1 DEF IsOver
    <2>5. CASE ~ends
      <3>1. /\ match' = [match EXCEPT ![byUser] = [@ EXCEPT !.round = match[byUser].round + 1]]
            /\ outbox' = <<Event("roundResolved", byUser, match[byUser].round),
                           Event("roundStart", byUser, match[byUser].round + 1)>>
        BY <2>1, <2>5 DEF RoundResolves
      <3> QED  BY <1>0, <2>2, <2>3, <3>1 DEF GoesOn, InPlay
    <2> QED  BY <2>4, <2>5
  <1>2. CASE Forfeit
    <2>1. byUser \in Matches /\ InPlay /\ outbox = <<>>  BY <1>0, <1>2 DEF Forfeit, InPlay
    <2>2. UNCHANGED <<byUser, ui, socket, down, relay, opening, missed>> /\ crossed' = (crossed \/ opening.pc = "emit")
      BY <1>2 DEF Forfeit, wires, handlers, Crosses
    <2>3. match' = [match EXCEPT ![byUser].status = "ended"] /\ outbox' = <<Event("matchEnded", byUser, 0)>>
      BY <1>2 DEF Forfeit
    <2> QED  BY <1>0, <2>1, <2>2, <2>3 DEF IsOver
  <1> QED  BY <1>1, <1>2

LEMMA BroadcastFacts ==
    ASSUME Types, Sequential, broadcastToMatch
    PROVE  /\ outbox # <<>> /\ outbox' = Tail(outbox) /\ relay' = Append(relay, Read(Head(outbox)))
           /\ UNCHANGED <<ui, match, socket, down, opening, missed, crossed>>
           /\ byUser \in Matches
           /\ \/ Head(outbox).name = "matchEnded" /\ byUser' = NoMatch /\ outbox' = <<>> /\ ~InPlay
              \/ Head(outbox).name # "matchEnded" /\ byUser' = byUser
  <1>1. /\ outbox # <<>> /\ outbox' = Tail(outbox) /\ relay' = Append(relay, Read(Head(outbox)))
        /\ UNCHANGED <<ui, match, socket, down, opening, missed, crossed>>
        /\ byUser' = IF Head(outbox).name = "matchEnded" THEN NoMatch ELSE byUser
    BY DEF broadcastToMatch, wires, handlers, histories, Read
  <1>2. byUser # NoMatch  BY <1>1 DEF Sequential
  <1>3. byUser \in Matches  BY <1>2, EventTypes DEF Types, NoMatch, Matches
  <1>4. outbox \in Seq(MatchEvent)  BY DEF Types
  <1>5. Head(outbox) = outbox[1] /\ 1 \in DOMAIN outbox /\ Len(outbox) \in Nat  BY <1>1, <1>4, TailFacts
  <1>6. ASSUME Head(outbox).name = "matchEnded"  PROVE Tail(outbox) = <<>> /\ ~InPlay
    <2>1. 1 = Len(outbox) /\ ~InPlay  BY <1>5, <1>6 DEF Sequential
    <2> QED  BY <2>1, <1>1, <1>4
  <1> QED  BY <1>1, <1>3, <1>6

LEMMA BeganSequential ==
    ASSUME Types, Sequential, byUser = NoMatch, NEW m \in Matches, Began(m), Types',
           (opening.pc = "emit" /\ ~crossed)' => FALSE
    PROVE  Sequential'
  <1>0. \A n \in Matches : n \in Nat  BY DEF Matches
  <1>1. \A n \in Matches : n > m => match[n].status = "none"  BY DEF Sequential, Began
  <1>2. \A n \in Matches : n < m => match'[n].status # "none"  BY <1>0 DEF Began
  <1>3. \A n \in Matches : n > m => match'[n].status = "none"  BY <1>0, <1>1 DEF Began
  <1>4. match'[m].status = "playing" /\ byUser' = m /\ m # NoMatch  BY DEF Began, NoMatch, Matches
  <1>5. (\A a, b \in Matches : a < b /\ match[a].status = "none" => match[b].status = "none")'
    <2>1. SUFFICES ASSUME NEW a \in Matches, NEW b \in Matches, a < b, match'[a].status = "none"
                   PROVE  match'[b].status = "none"
      OBVIOUS
    <2>2. a \in Nat /\ b \in Nat /\ m \in Nat  BY <1>0
    <2>3. a # m /\ ~(a < m)  BY <2>1, <1>2, <1>4
    <2> QED  BY <2>1, <2>2, <2>3, <1>3
  <1>6. \A i \in DOMAIN outbox' : outbox'[i].name # "matchEnded"
    BY EventTypes DEF Began
  <1> QED  BY <1>3, <1>4, <1>5, <1>6 DEF Sequential

LEMMA ResolvedSequential ==
    ASSUME Types, Sequential, byUser \in Matches, InPlay, NEW r \in Nat,
           GoesOn(byUser, r) \/ IsOver(byUser, r),
           \A n \in Matches \ {byUser} : match'[n] = match[n], byUser' = byUser,
           (opening.pc = "emit" /\ ~crossed)' => FALSE
    PROVE  Sequential'
  <1>0. (\A n \in Matches : n \in Nat) /\ byUser # NoMatch  BY DEF Matches, InPlay
  <1>1. match'[byUser].status # "none" /\ match[byUser].status # "none"  BY DEF GoesOn, IsOver, InPlay
  <1>2. \A n \in Matches : match'[n].status = "none" <=> match[n].status = "none"  BY <1>1
  <1>3. CASE GoesOn(byUser, r)
    <2>1. \A i \in DOMAIN outbox' : outbox'[i].name # "matchEnded"  BY <1>3, EventTypes DEF GoesOn
    <2>2. match'[byUser].status # "ended"  BY <1>3 DEF GoesOn
    <2> QED  BY <1>0, <1>1, <1>2, <2>1, <2>2 DEF Sequential
  <1>4. CASE IsOver(byUser, r)
    <2>1. /\ outbox' # <<>> /\ outbox'[Len(outbox')].name = "matchEnded"
          /\ \A i \in DOMAIN outbox' : outbox'[i].name = "matchEnded" => i = Len(outbox')
      <3>1. CASE outbox' = <<Event("roundResolved", byUser, r), Event("matchEnded", byUser, 0)>>
        <4> DEFINE a == Event("roundResolved", byUser, r)
                   b == Event("matchEnded", byUser, 0)
        <4>1. a.name = "roundResolved" /\ b.name = "matchEnded"  BY EventTypes
        <4> HIDE DEF a, b
        <4>2. outbox' = <<a, b>>  BY <3>1 DEF a, b
        <4> QED  BY <4>1, <4>2
      <3>2. CASE outbox' = <<Event("matchEnded", byUser, 0)>>
        <4> DEFINE b == Event("matchEnded", byUser, 0)
        <4>1. b.name = "matchEnded"  BY EventTypes
        <4> HIDE DEF b
        <4>2. outbox' = <<b>>  BY <3>2 DEF b
        <4> QED  BY <4>1, <4>2
      <3> QED  BY <3>1, <3>2, <1>4 DEF IsOver
    <2>2. ~InPlay'  BY <1>4 DEF IsOver, InPlay
    <2> QED  BY <1>0, <1>1, <1>2, <2>1, <2>2 DEF Sequential
  <1> QED  BY <1>3, <1>4

LEMMA BroadcastSequential ==
    ASSUME Types, Sequential, broadcastToMatch
    PROVE  Sequential'
  <1>0. outbox \in Seq(MatchEvent) /\ outbox # <<>> /\ outbox' = Tail(outbox)  BY BroadcastFacts DEF Types
  <1>1. UNCHANGED <<match, opening, crossed>> /\ byUser \in Matches /\ byUser # NoMatch
    BY BroadcastFacts DEF NoMatch, Matches
  <1>2. CASE byUser' = NoMatch /\ outbox' = <<>> /\ ~InPlay
    <2>1. DOMAIN outbox' = {}  BY <1>2
    <2> QED  BY <1>1, <1>2, <2>1 DEF Sequential, InPlay
  <1>3. CASE Head(outbox).name # "matchEnded" /\ byUser' = byUser
    <2>1. InPlay' <=> InPlay  BY <1>1, <1>3 DEF InPlay
    <2>2. ASSUME NEW i \in DOMAIN outbox', outbox'[i].name = "matchEnded"
          PROVE  i = Len(outbox') /\ ~InPlay
      <3>1. i + 1 \in DOMAIN outbox /\ outbox[i + 1].name = "matchEnded" /\ i \in Nat
        BY <2>2, <1>0, OfTail
      <3>2. i + 1 = Len(outbox) /\ ~InPlay  BY <3>1 DEF Sequential
      <3>3. Len(outbox') = Len(outbox) - 1 /\ Len(outbox) \in Nat  BY <1>0, TailFacts
      <3> QED  BY <3>1, <3>2, <3>3
    <2>3. ASSUME match[byUser].status = "ended"
          PROVE  outbox' # <<>> /\ outbox'[Len(outbox')].name = "matchEnded"
      <3>1. outbox[Len(outbox)].name = "matchEnded"  BY <2>3, <1>1 DEF Sequential
      <3>2. Head(outbox) = outbox[1] /\ Len(outbox) \in Nat /\ Len(outbox) >= 1 /\ DOMAIN outbox = 1..Len(outbox)
        BY <1>0, TailFacts
      <3>3. Len(outbox) # 1  BY <3>1, <3>2, <1>3
      <3>4. Len(outbox) \in DOMAIN outbox  BY <3>2
      <3>5. Len(outbox) - 1 \in DOMAIN outbox' /\ outbox'[Len(outbox) - 1] = outbox[Len(outbox)]
        BY <3>3, <3>4, <1>0, InTail
      <3>6. Len(outbox') = Len(outbox) - 1  BY <1>0, TailFacts
      <3>7. outbox' # <<>>  BY <3>5
      <3> QED  BY <3>1, <3>5, <3>6, <3>7
    <2> QED  BY <1>1, <1>3, <2>1, <2>2, <2>3 DEF Sequential
  <1> QED  BY <1>2, <1>3, BroadcastFacts

LEMMA SequentialStep ==
    ASSUME Types, Sequential, [Next]_vars
    PROVE  Sequential'
  <1>1. Types'  BY TypesStep
  <1>2. CASE Paired
    <2>1. (opening.pc = "emit" /\ ~crossed)' => FALSE  BY <1>2, PairedFacts
    <2> QED  BY <1>1, <1>2, <2>1, PairedFacts, BeganSequential
  <1>3. CASE (\E ends \in BOOLEAN : RoundResolves(ends)) \/ Forfeit
    <2>1. (opening.pc = "emit" /\ ~crossed)' => FALSE  BY <1>3, ResolvedFacts
    <2> HIDE DEF InPlay
    <2> QED  BY <1>3, <2>1, ResolvedFacts, ResolvedSequential
  <1>4. CASE broadcastToMatch  BY <1>4, BroadcastSequential
  <1>5. CASE UNCHANGED <<match, byUser, outbox>> /\ (crossed => crossed')
    <2>1. (opening.pc = "emit" /\ ~crossed)' =>
             InPlay' /\ opening'.event = Event("matchResumed", byUser, match[byUser].round)
      <3>1. CASE Connect \/ setUserSocket \/ EmitResumed
        <4>1. opening'.pc # "emit"
          BY <3>1 DEF Connect, setUserSocket, EmitResumed, Closed, Types
        <4> QED  BY <4>1
      <3>2. CASE handleReconnect  BY <3>2, <1>5 DEF handleReconnect, Closed, InPlay
      <3>3. CASE UNCHANGED opening  BY <3>3, <1>5 DEF Sequential, InPlay
      <3> QED  BY <3>1, <3>2, <3>3, Frame
    <2> QED  BY <1>5, <2>1 DEF Sequential, InPlay
  <1> QED  BY <1>2, <1>3, <1>4, <1>5, Frame

-----------------------------------------------------------------------------
(* The match and the round of the page. *)

\* The steps that neither show nor hide anything.
Quietly == {e \in DownEvent : e.name \in {"queueJoined", "queueLeft", "error"}}
Aside ==
    /\ UNCHANGED <<socket, match, byUser, outbox, relay, opening, missed, crossed>>
    /\ ui'.active = ui.active /\ ui'.ended = ui.ended /\ ui'.round = ui.round
    /\ UNCHANGED down \/ \E e \in Quietly : down' = Append(down, e)

LEMMA Steps ==
    ASSUME Types, [Next]_vars
    PROVE  \/ Aside
           \/ Connect \/ Disconnect \/ Reload \/ setUserSocket \/ handleReconnect \/ EmitResumed
           \/ (\E id \in late : setUserSocketLate(id))
           \/ Paired \/ (\E ends \in BOOLEAN : RoundResolves(ends)) \/ Forfeit
           \/ broadcastToMatch \/ emitToRecipients \/ Hear \/ clearMatch
  <1>0. ui \in Ui  BY DEF Types
  <1>1. ASSUME NEW n \in {"queueJoined", "queueLeft", "error"}  PROVE Event(n, NoMatch, 0) \in Quietly
    <2>1. n \in DownNames  BY DEF DownNames
    <2> QED  BY <2>1, EventTypes DEF Quietly, NoMatch
  <1> DEFINE Rest == UNCHANGED <<socket, match, byUser, outbox, relay, opening, missed, crossed>>
             Same == ui'.active = ui.active /\ ui'.ended = ui.ended /\ ui'.round = ui.round
             Told == UNCHANGED down \/ \E e \in Quietly : down' = Append(down, e)
  <1> USE DEF server, wires, handlers, histories, Quiet
  <1>2. CASE handleJoinQueue
    <2>1. Rest /\ Same  BY <1>2 DEF handleJoinQueue, Receive
    <2>2. UNCHANGED down \/ down' = Append(down, Event("error", NoMatch, 0))  BY <1>2 DEF handleJoinQueue
    <2>3. Told  BY <2>2, <1>1
    <2> QED  BY <2>1, <2>3 DEF Aside
  <1>3. CASE QueueJoined
    <2>1. Rest /\ Same  BY <1>3 DEF QueueJoined
    <2>2. UNCHANGED down \/ down' = Append(down, Event("queueJoined", NoMatch, 0))  BY <1>3 DEF QueueJoined, Emit
    <2>3. Told  BY <2>2, <1>1
    <2> QED  BY <2>1, <2>3 DEF Aside
  <1>4. CASE handleLeaveQueue
    <2>1. Rest /\ Same  BY <1>4 DEF handleLeaveQueue, Receive
    <2>2. down' = Append(down, Event("queueLeft", NoMatch, 0))  BY <1>4 DEF handleLeaveQueue
    <2>3. Told  BY <2>2, <1>1
    <2> QED  BY <2>1, <2>3 DEF Aside
  <1>5. CASE handlePlay
    <2>1. Rest /\ Same  BY <1>5 DEF handlePlay, Receive
    <2>2. UNCHANGED down \/ down' = Append(down, Event("error", NoMatch, 0))  BY <1>5 DEF handlePlay
    <2>3. Told  BY <2>2, <1>1
    <2> QED  BY <2>1, <2>3 DEF Aside
  <1>6. CASE \E id \in closing : handleDisconnect(id)  BY <1>6 DEF handleDisconnect, Aside
  <1>7. CASE joinQueue \/ leaveQueue  BY <1>7 DEF joinQueue, leaveQueue, Send, Aside
  <1>8. CASE OpenMatch
    <2>1. Rest /\ Told  BY <1>8 DEF OpenMatch
    <2>2. Same  BY <1>0, <1>8 DEF OpenMatch, Ui
    <2> QED  BY <2>1, <2>2 DEF Aside
  <1>9. CASE QuitMatch
    <2>1. Rest /\ Told  BY <1>9 DEF QuitMatch
    <2>2. Same  BY <1>0, <1>9 DEF QuitMatch, Ui
    <2> QED  BY <2>1, <2>2 DEF Aside
  <1>10. CASE play
    <2>1. Rest /\ Told  BY <1>10 DEF play, Send
    <2>2. Same  BY <1>0, <1>10 DEF play, Ui
    <2> QED  BY <2>1, <2>2 DEF Aside
  <1>11. CASE TimeoutMeetsLock  BY <1>11 DEF TimeoutMeetsLock, Aside
  <1>12. CASE UNCHANGED vars  BY <1>12 DEF vars, Aside
  <1> QED  BY NextCases, <1>12, <1>2, <1>3, <1>4, <1>5, <1>6, <1>7, <1>8, <1>9, <1>10, <1>11

\* What reaches the page, or is published, without being bad; and what a good one is.
LEMMA QuietEvents ==
    ASSUME NEW e \in Quietly, NEW m, NEW r
    PROVE  e \in DownEvent /\ e \notin Hides(m) /\ e \notin Outdates(m, r) /\ e \notin Reopens(m)
  BY DEF Quietly, Hides, Outdates, Reopens

LEMMA EventSets ==
    ASSUME NEW e \in DownEvent, NEW m, NEW r
    PROVE  /\ e \in Shows(m) <=> e.name \in {"matchFound", "matchResumed"} /\ e.match = m
           /\ e \in Hides(m) <=> \/ e.name = "matchEnded"
                                 \/ e.name \in {"matchFound", "matchResumed"} /\ e.match # m
           /\ e \in Counts(m, r) <=>
                 e.name \in {"roundStart", "matchResumed"} /\ e.match = m /\ e.round = r
           /\ e \in Outdates(m, r) <=>
                 \/ e.name = "matchFound"
                 \/ e.name \in {"roundStart", "matchResumed"} /\ (e.match # m \/ e.round # r)
           /\ e \in Ends(m) <=> e.name = "matchEnded" /\ e.match >= m
           /\ e \in Reopens(m) <=> \/ e.name = "matchFound" /\ e.match = m
                                   \/ e.name = "matchEnded" /\ e.match < m
  BY DEF Shows, Hides, Counts, Outdates, Ends, Reopens

Live == socket.open /\ ~crossed /\ opening.pc = "idle"

LEMMA AsideInMatch ==
    ASSUME Types, Aside, NEW m, NEW r, InMatch(m, r)
    PROVE  InMatch(m, r)'
  <1>1. UNCHANGED <<relay, outbox, socket, crossed, opening>>  BY DEF Aside
  <1>2. SUFFICES ASSUME Live
                 PROVE  /\ Covered(Shows(m), Hides(m), down', relay, outbox)
                        /\ Covered(Counts(m, r), Outdates(m, r), down', relay, outbox)
                        /\ ActiveRight(m)' /\ RoundRight(m, r)'
    BY <1>1 DEF InMatch, Live
  <1>3. /\ Covered(Shows(m), Hides(m), down, relay, outbox)
        /\ Covered(Counts(m, r), Outdates(m, r), down, relay, outbox)
        /\ ActiveRight(m) /\ RoundRight(m, r)
    BY <1>2 DEF InMatch, Live
  <1>4. CASE UNCHANGED down  BY <1>1, <1>3, <1>4 DEF Aside, ActiveRight, RoundRight
  <1>5. CASE \E e \in Quietly : down' = Append(down, e)
    <2>1. PICK e \in Quietly : down' = Append(down, e)  BY <1>5
    <2>2. e \in DownEvent /\ e \notin Hides(m) /\ e \notin Outdates(m, r)  BY QuietEvents
    <2>3. down \in Seq(DownEvent)  BY DEF Types
    <2>4. /\ Covered(Shows(m), Hides(m), down', relay, outbox)
          /\ Pending(Shows(m), down, relay, outbox) => Pending(Shows(m), down', relay, outbox)
      BY <1>3, <2>1, <2>2, <2>3, ArriveCovered
    <2>5. /\ Covered(Counts(m, r), Outdates(m, r), down', relay, outbox)
          /\ Pending(Counts(m, r), down, relay, outbox) => Pending(Counts(m, r), down', relay, outbox)
      BY <1>3, <2>1, <2>2, <2>3, ArriveCovered
    <2> QED  BY <1>1, <1>3, <2>4, <2>5 DEF Aside, ActiveRight, RoundRight
  <1> QED  BY <1>4, <1>5 DEF Aside

\* While the page is not live only the order before the wire counts.
LEMMA DeafInMatch ==
    ASSUME UNCHANGED <<relay, outbox>>, ~Live', NEW m, NEW r, InMatch(m, r)
    PROVE  InMatch(m, r)'
  BY DEF InMatch, Live

\* A late registration leaves everything on its way as it is.
LEMMA LateInMatch ==
    ASSUME NEW m, NEW r, InMatch(m, r), \E id \in late : setUserSocketLate(id)
    PROVE  InMatch(m, r)'
  <1>1. UNCHANGED <<ui, down, relay, outbox, socket, opening>> /\ (crossed => crossed')
    BY DEF setUserSocketLate, server, wires
  <1> QED  BY <1>1 DEF InMatch, ActiveRight, RoundRight

LEMMA ResumeInMatch ==
    ASSUME Types, Sequential, EmitResumed, InPlay, NEW m, NEW r, m = byUser, r = match[byUser].round,
           InMatch(m, r)
    PROVE  InMatch(m, r)'
  <1>1. opening.pc = "emit" /\ UNCHANGED <<relay, outbox, socket, crossed>>
    BY DEF EmitResumed, server, histories
  <1>2. SUFFICES ASSUME Live'
                 PROVE  /\ Covered(Shows(m), Hides(m), down', relay, outbox)
                        /\ Covered(Counts(m, r), Outdates(m, r), down', relay, outbox)
                        /\ ActiveRight(m)' /\ RoundRight(m, r)'
    BY <1>1 DEF InMatch, Live
  <1>3. ~crossed /\ socket.open  BY <1>1, <1>2 DEF Live
  <1> DEFINE e == opening.event
  <1>4. e = Event("matchResumed", m, r)  BY <1>1, <1>3 DEF Sequential
  <1>5. e \in DownEvent /\ down \in Seq(DownEvent)  BY <1>1 DEF Types, Resumes
  <1>6. e.name = "matchResumed" /\ e.match = m /\ e.round = r  BY <1>4, EventTypes
  <1>7. down' = Append(down, e)  BY <1>3 DEF EmitResumed
  <1> HIDE DEF e
  <1>8. e \in Shows(m) /\ e \notin Hides(m) /\ e \in Counts(m, r) /\ e \notin Outdates(m, r)
    BY <1>5, <1>6, EventSets
  <1>9. Covered(Shows(m), Hides(m), down', relay, outbox) /\ Pending(Shows(m), down', relay, outbox)
    BY <1>5, <1>7, <1>8, GoodArrives
  <1>10. Covered(Counts(m, r), Outdates(m, r), down', relay, outbox) /\ Pending(Counts(m, r), down', relay, outbox)
    BY <1>5, <1>7, <1>8, GoodArrives
  <1> QED  BY <1>1, <1>9, <1>10 DEF ActiveRight, RoundRight

LEMMA BeganInMatch ==
    ASSUME NEW m \in Matches, Began(m)
    PROVE  InMatch(m, 1)'
  <1> DEFINE f == Event("matchFound", m, 0)
             s == Event("roundStart", m, 1)
  <1>1. f \in DownEvent /\ s \in DownEvent  BY EventTypes DEF MatchNames
  <1>2. f.name = "matchFound" /\ f.match = m /\ s.name = "roundStart" /\ s.match = m /\ s.round = 1
    BY EventTypes
  <1>3. outbox' = <<f, s>>  BY DEF Began
  <1> HIDE DEF f, s
  <1>4. f \in Shows(m) /\ f \notin Hides(m) /\ s \notin Hides(m) /\ s \in Counts(m, 1) /\ s \notin Outdates(m, 1)
    BY <1>1, <1>2, EventSets
  <1>5. DOMAIN outbox' = {1, 2} /\ outbox'[1] = f /\ outbox'[2] = s  BY <1>3
  <1>6. /\ Ordered(Shows(m), Hides(m), relay', outbox')
        /\ Covered(Shows(m), Hides(m), down', relay', outbox')
        /\ Pending(Shows(m), down', relay', outbox')
    <2>1. 1 \in DOMAIN outbox' /\ outbox'[1] \in Shows(m)  BY <1>4, <1>5
    <2>2. \A j \in DOMAIN outbox' : outbox'[j] \in Hides(m) => 1 > j  BY <1>4, <1>5
    <2> QED  BY <2>1, <2>2, GoodPublished
  <1>7. /\ Ordered(Counts(m, 1), Outdates(m, 1), relay', outbox')
        /\ Covered(Counts(m, 1), Outdates(m, 1), down', relay', outbox')
        /\ Pending(Counts(m, 1), down', relay', outbox')
    <2>1. 2 \in DOMAIN outbox' /\ outbox'[2] \in Counts(m, 1)  BY <1>4, <1>5
    <2>2. \A j \in DOMAIN outbox' : outbox'[j] \in Outdates(m, 1) => 2 > j  BY <1>4, <1>5
    <2> QED  BY <2>1, <2>2, GoodPublished
  <1> QED  BY <1>6, <1>7 DEF InMatch, ActiveRight, RoundRight

LEMMA GoesOnInMatch ==
    ASSUME NEW m \in Matches, NEW r \in Nat, GoesOn(m, r), InMatch(m, r), outbox = <<>>,
           UNCHANGED <<ui, socket, down, relay, opening>>, crossed' = (crossed \/ opening.pc = "emit")
    PROVE  InMatch(m, r + 1)'
  <1> DEFINE f == Event("roundResolved", m, r)
             s == Event("roundStart", m, r + 1)
             n == r + 1
  <1>1. f \in DownEvent /\ s \in DownEvent  BY EventTypes DEF MatchNames
  <1>2. f.name = "roundResolved" /\ s.name = "roundStart" /\ s.match = m /\ s.round = n
    BY EventTypes
  <1>3. outbox' = <<f, s>>  BY DEF GoesOn
  <1> HIDE DEF f, s, n
  <1>4. f \notin Hides(m) /\ s \notin Hides(m) /\ f \notin Outdates(m, n) /\ s \in Counts(m, n) /\ s \notin Outdates(m, n)
    BY <1>1, <1>2, EventSets
  <1>5. DOMAIN outbox' = {1, 2} /\ outbox'[1] = f /\ outbox'[2] = s  BY <1>3
  <1>6. /\ Ordered(Counts(m, n), Outdates(m, n), relay', outbox')
        /\ Covered(Counts(m, n), Outdates(m, n), down', relay', outbox')
        /\ Pending(Counts(m, n), down', relay', outbox')
    <2>1. 2 \in DOMAIN outbox' /\ outbox'[2] \in Counts(m, n)  BY <1>4, <1>5
    <2>2. \A j \in DOMAIN outbox' : outbox'[j] \in Outdates(m, n) => 2 > j  BY <1>4, <1>5
    <2> QED  BY <2>1, <2>2, GoodPublished
  <1>7. /\ Ordered(Shows(m), Hides(m), relay, outbox')
        /\ Coming(Shows(m), relay, outbox) => Coming(Shows(m), relay, outbox')
    <2>1. \A j \in DOMAIN outbox' : outbox'[j] \notin Hides(m)  BY <1>4, <1>5
    <2>2. Ordered(Shows(m), Hides(m), relay, <<>>)  BY DEF InMatch
    <2> QED  BY <2>1, <2>2, OthersPublished
  <1>8. /\ Covered(Shows(m), Hides(m), down, relay, outbox) => Covered(Shows(m), Hides(m), down, relay, outbox')
        /\ Pending(Shows(m), down, relay, outbox) => Pending(Shows(m), down, relay, outbox')
    BY <1>7, ComingEnough
  <1>9. Live' => Live  BY DEF Live
  <1>10. InMatch(m, n)'
    <2>1. Live' => /\ Covered(Shows(m), Hides(m), down', relay', outbox')
                   /\ ActiveRight(m)' /\ RoundRight(m, n)'
      BY <1>6, <1>8, <1>9 DEF InMatch, Live, ActiveRight, RoundRight
    <2>2. Ordered(Shows(m), Hides(m), relay', outbox')  BY <1>7
    <2> QED  BY <1>6, <2>1, <2>2 DEF InMatch, Live
  <1> QED  BY <1>10 DEF n

LEMMA BroadcastInMatch ==
    ASSUME Types, Sequential, broadcastToMatch, NEW m, NEW r, InMatch(m, r)
    PROVE  InMatch(m, r)'
  <1>1. /\ outbox # <<>> /\ outbox' = Tail(outbox) /\ relay' = Append(relay, Read(Head(outbox)))
        /\ UNCHANGED <<ui, socket, down, opening, crossed>>
    BY BroadcastFacts
  <1>2. relay \in Seq(Task) /\ outbox \in Seq(MatchEvent)  BY DEF Types
  <1>3. Head(outbox) \in MatchEvent /\ Head(outbox) \in DownEvent  BY <1>1, <1>2, TailFacts, EventTypes
  <1>4. ASSUME NEW j \in DOMAIN relay
        PROVE  relay[j].event \in DownEvent /\ relay[j].reads <= Reads(relay[j].event) /\ relay[j].reads <= 2
    BY <1>2, EventTypes DEF Task
  <1>5. ASSUME NEW j \in DOMAIN relay, relay[j].event \in Hides(m)
        PROVE  relay[j].reads <= Reads(Head(outbox))
    <2>1. relay[j].event.name # "roundStart"  BY <1>4, <1>5, EventSets
    <2>2. relay[j].reads <= 1 /\ relay[j].reads \in Nat  BY <2>1, <1>2, <1>4 DEF Reads, Task
    <2> QED  BY <2>2 DEF Reads
  <1>6. ASSUME NEW j \in DOMAIN relay, Head(outbox) \in Counts(m, r)
        PROVE  relay[j].reads <= Reads(Head(outbox))
    <2>1. Head(outbox).name \in {"roundStart", "matchResumed"}  BY <1>3, <1>6, EventSets
    <2>2. Head(outbox).name = "roundStart"  BY <2>1, <1>3 DEF MatchEvent, MatchNames
    <2> QED  BY <2>2, <1>4 DEF Reads
  <1>7. /\ Ordered(Shows(m), Hides(m), relay', outbox')
        /\ Coming(Shows(m), relay, outbox) => Coming(Shows(m), relay', outbox')
    BY <1>1, <1>2, <1>5, PublishOrdered DEF InMatch
  <1>8. /\ Ordered(Counts(m, r), Outdates(m, r), relay', outbox')
        /\ Coming(Counts(m, r), relay, outbox) => Coming(Counts(m, r), relay', outbox')
    BY <1>1, <1>2, <1>6, PublishOrdered DEF InMatch
  <1>9. /\ Covered(Shows(m), Hides(m), down, relay, outbox) => Covered(Shows(m), Hides(m), down, relay', outbox')
        /\ Pending(Shows(m), down, relay, outbox) => Pending(Shows(m), down, relay', outbox')
    BY <1>7, ComingEnough
  <1>10. /\ Covered(Counts(m, r), Outdates(m, r), down, relay, outbox)
               => Covered(Counts(m, r), Outdates(m, r), down, relay', outbox')
         /\ Pending(Counts(m, r), down, relay, outbox) => Pending(Counts(m, r), down, relay', outbox')
    BY <1>8, ComingEnough
  <1> QED  BY <1>1, <1>7, <1>8, <1>9, <1>10 DEF InMatch, ActiveRight, RoundRight

\* What an answer of Redis does: another read, a delivery, or a loss.
LEMMA EmitFacts ==
    ASSUME Types, emitToRecipients
    PROVE  /\ UNCHANGED <<ui, match, byUser, outbox, socket, opening, crossed>>
           /\ relay # <<>> /\ Head(relay).event \in MatchEvent /\ (missed => missed')
           /\ \/ /\ Head(relay).reads > 1
                 /\ relay' = Append(Tail(relay), [Head(relay) EXCEPT !.reads = @ - 1])
                 /\ UNCHANGED down
              \/ /\ ~(Head(relay).reads > 1) /\ relay' = Tail(relay)
                 /\ socket.open /\ registered = socket.id
                 /\ down' = Append(down, Head(relay).event)
              \/ /\ ~(Head(relay).reads > 1) /\ relay' = Tail(relay)
                 /\ ~(socket.open /\ registered = socket.id)
                 /\ UNCHANGED down
                 /\ Head(relay).event.name = "matchEnded" => missed'
  <1>1. UNCHANGED <<ui, match, byUser, outbox, socket, opening, crossed>> /\ relay # <<>>
    BY DEF emitToRecipients, server, handlers
  <1>2. Head(relay) \in Task  BY <1>1, TailFacts DEF Types
  <1>3. Head(relay).event \in MatchEvent  BY <1>2 DEF Task
  <1>4. CASE Head(relay).reads > 1  BY <1>1, <1>3, <1>4 DEF emitToRecipients
  <1>5. CASE ~(Head(relay).reads > 1)
    <2>1. /\ relay' = Tail(relay) /\ down' = Emit(registered, Head(relay).event)
          /\ missed' = (missed \/ (~(socket.open /\ socket.id = registered) /\ Head(relay).event.name = "matchEnded"))
      BY <1>5 DEF emitToRecipients
    <2>2. CASE socket.open /\ registered = socket.id  BY <1>1, <1>3, <1>5, <2>1, <2>2 DEF Emit
    <2>3. CASE ~(socket.open /\ registered = socket.id)  BY <1>1, <1>3, <1>5, <2>1, <2>3 DEF Emit
    <2> QED  BY <2>2, <2>3
  <1> QED  BY <1>4, <1>5

LEMMA EmitInMatch ==
    ASSUME Types, Addressed, emitToRecipients, NEW m, NEW r, InMatch(m, r)
    PROVE  InMatch(m, r)'
  <1>1. UNCHANGED <<ui, outbox, socket, opening, crossed>> /\ relay # <<>>  BY EmitFacts
  <1>2. relay \in Seq(Task) /\ down \in Seq(DownEvent)  BY DEF Types
  <1>3. Head(relay).event \in DownEvent  BY EmitFacts, EventTypes
  <1>4. Live => socket.open /\ registered = socket.id  BY DEF Live, Addressed
  <1>5. Live' <=> Live  BY <1>1 DEF Live
  <1>6. CASE Head(relay).reads > 1
    <2>1. relay' = Append(Tail(relay), [Head(relay) EXCEPT !.reads = @ - 1]) /\ UNCHANGED down  BY <1>6, EmitFacts
    <2>2. /\ Ordered(Shows(m), Hides(m), relay', outbox)
          /\ Coming(Shows(m), relay, outbox) => Coming(Shows(m), relay', outbox)
      BY <1>1, <1>2, <1>6, <2>1, RotateOrdered DEF InMatch
    <2>3. /\ Ordered(Counts(m, r), Outdates(m, r), relay', outbox)
          /\ Coming(Counts(m, r), relay, outbox) => Coming(Counts(m, r), relay', outbox)
      BY <1>1, <1>2, <1>6, <2>1, RotateOrdered DEF InMatch
    <2>4. /\ Covered(Shows(m), Hides(m), down, relay, outbox) => Covered(Shows(m), Hides(m), down, relay', outbox)
          /\ Pending(Shows(m), down, relay, outbox) => Pending(Shows(m), down, relay', outbox)
      BY <2>2, ComingEnough
    <2>5. /\ Covered(Counts(m, r), Outdates(m, r), down, relay, outbox)
                => Covered(Counts(m, r), Outdates(m, r), down, relay', outbox)
          /\ Pending(Counts(m, r), down, relay, outbox) => Pending(Counts(m, r), down, relay', outbox)
      BY <2>3, ComingEnough
    <2> QED  BY <1>1, <2>1, <2>2, <2>3, <2>4, <2>5 DEF InMatch, ActiveRight, RoundRight
  <1>7. CASE ~(Head(relay).reads > 1)
    <2>1. relay' = Tail(relay)  BY <1>7, EmitFacts
    <2>2. /\ Ordered(Shows(m), Hides(m), relay', outbox)
          /\ Head(relay).event \in Hides(m) => Coming(Shows(m), relay', outbox)
          /\ Coming(Shows(m), relay, outbox) => Head(relay).event \in Shows(m) \/ Coming(Shows(m), relay', outbox)
      BY <1>1, <1>2, <1>7, <2>1, LeaveOrdered DEF InMatch
    <2>3. /\ Ordered(Counts(m, r), Outdates(m, r), relay', outbox)
          /\ Head(relay).event \in Outdates(m, r) => Coming(Counts(m, r), relay', outbox)
          /\ Coming(Counts(m, r), relay, outbox)
                => Head(relay).event \in Counts(m, r) \/ Coming(Counts(m, r), relay', outbox)
      BY <1>1, <1>2, <1>7, <2>1, LeaveOrdered DEF InMatch
    <2>4. ASSUME Live
          PROVE  /\ Covered(Shows(m), Hides(m), down', relay', outbox)
                 /\ Covered(Counts(m, r), Outdates(m, r), down', relay', outbox)
                 /\ ActiveRight(m)' /\ RoundRight(m, r)'
      <3>1. down' = Append(down, Head(relay).event)  BY <1>4, <1>7, <2>4, EmitFacts
      <3>2. /\ Covered(Shows(m), Hides(m), down, relay, outbox) => Covered(Shows(m), Hides(m), down', relay', outbox)
            /\ Pending(Shows(m), down, relay, outbox) => Pending(Shows(m), down', relay', outbox)
        BY <1>2, <1>3, <2>2, <3>1, ArriveCovered
      <3>3. /\ Covered(Counts(m, r), Outdates(m, r), down, relay, outbox)
                  => Covered(Counts(m, r), Outdates(m, r), down', relay', outbox)
            /\ Pending(Counts(m, r), down, relay, outbox) => Pending(Counts(m, r), down', relay', outbox)
        BY <1>2, <1>3, <2>3, <3>1, ArriveCovered
      <3> QED  BY <1>1, <2>4, <3>2, <3>3 DEF InMatch, Live, ActiveRight, RoundRight
    <2> QED  BY <1>1, <1>5, <2>2, <2>3, <2>4 DEF InMatch, Live
  <1> QED  BY <1>6, <1>7

\* What the page makes of an event.
LEMMA HeardFacts ==
    ASSUME NEW u \in Ui, NEW e \in DownEvent
    PROVE  /\ e.name \in {"matchFound", "matchResumed"} =>
                 Heard(u, e).active = e.match /\ Heard(u, e).ended = NoMatch
           /\ e.name \notin {"matchFound", "matchResumed"} => Heard(u, e).active = u.active
           /\ e.name = "matchEnded" => Heard(u, e).ended = e.match
           /\ e.name \notin {"matchFound", "matchResumed", "matchEnded"} => Heard(u, e).ended = u.ended
           /\ e.name \in {"roundStart", "matchResumed"} =>
                 Heard(u, e).round = [match |-> e.match, number |-> e.round]
           /\ e.name \notin {"roundStart", "matchResumed"} => Heard(u, e).round = u.round
  <1>1. e.name \in DownNames  BY DEF DownEvent
  <1>2. CASE e.name = "matchFound"  BY <1>2 DEF Heard, Ui
  <1>3. CASE e.name = "matchResumed"  BY <1>3 DEF Heard, setRound, Ui
  <1>4. CASE e.name = "matchEnded"  BY <1>4 DEF Heard, matchEnded, Ui
  <1>5. CASE e.name = "roundStart"  BY <1>5 DEF Heard, setRound, Ui
  <1>6. CASE e.name \in {"roundResolved", "queueJoined", "queueLeft", "error"}  BY <1>6 DEF Heard, Ui
  <1> QED  BY <1>1, <1>2, <1>3, <1>4, <1>5, <1>6 DEF DownNames, MatchNames

LEMMA HearInMatch ==
    ASSUME Types, Hear, NEW m, NEW r, InMatch(m, r)
    PROVE  InMatch(m, r)'
  <1>1. /\ down # <<>> /\ down' = Tail(down) /\ ui' = Heard(ui, Head(down))
        /\ UNCHANGED <<relay, outbox, socket, opening, crossed>>
    BY DEF Hear, server, handlers
  <1>2. SUFFICES ASSUME Live
                 PROVE  /\ Covered(Shows(m), Hides(m), down', relay, outbox)
                        /\ Covered(Counts(m, r), Outdates(m, r), down', relay, outbox)
                        /\ ActiveRight(m)' /\ RoundRight(m, r)'
    BY <1>1 DEF InMatch, Live
  <1>3. /\ Covered(Shows(m), Hides(m), down, relay, outbox)
        /\ Covered(Counts(m, r), Outdates(m, r), down, relay, outbox)
        /\ ActiveRight(m) /\ RoundRight(m, r)
    BY <1>2 DEF InMatch, Live
  <1>4. down \in Seq(DownEvent) /\ ui \in Ui  BY DEF Types
  <1> DEFINE e == Head(down)
  <1>5. e \in DownEvent  BY <1>1, <1>4, TailFacts
  <1>6. /\ Covered(Shows(m), Hides(m), down', relay, outbox)
        /\ e \in Hides(m) => Pending(Shows(m), down', relay, outbox)
        /\ Pending(Shows(m), down, relay, outbox) => e \in Shows(m) \/ Pending(Shows(m), down', relay, outbox)
    BY <1>1, <1>3, <1>4, HearCovered
  <1>7. /\ Covered(Counts(m, r), Outdates(m, r), down', relay, outbox)
        /\ e \in Outdates(m, r) => Pending(Counts(m, r), down', relay, outbox)
        /\ Pending(Counts(m, r), down, relay, outbox)
              => e \in Counts(m, r) \/ Pending(Counts(m, r), down', relay, outbox)
    BY <1>1, <1>3, <1>4, HearCovered
  <1>8. ui' = Heard(ui, e)  BY <1>1
  <1> HIDE DEF e
  <1>9. ActiveRight(m)'
    <2>1. CASE e \in Hides(m)  BY <1>1, <1>6, <2>1 DEF ActiveRight
    <2>2. CASE e \in Shows(m)
      <3>1. e.name \in {"matchFound", "matchResumed"} /\ e.match = m  BY <1>5, <2>2, EventSets
      <3>2. ui'.active = m /\ ui'.ended = NoMatch  BY <1>4, <1>5, <1>8, <3>1, HeardFacts
      <3> QED  BY <3>2 DEF ActiveRight
    <2>3. CASE e \notin Hides(m) /\ e \notin Shows(m)
      <3>1. e.name \notin {"matchFound", "matchResumed", "matchEnded"}  BY <1>5, <2>3, EventSets
      <3>2. ui'.active = ui.active /\ ui'.ended = ui.ended  BY <1>4, <1>5, <1>8, <3>1, HeardFacts
      <3> QED  BY <1>1, <1>3, <1>6, <2>3, <3>2 DEF ActiveRight
    <2> QED  BY <2>1, <2>2, <2>3
  <1>10. RoundRight(m, r)'
    <2>1. CASE e \in Outdates(m, r)  BY <1>1, <1>7, <2>1 DEF RoundRight
    <2>2. CASE e \in Counts(m, r)
      <3>1. e.name \in {"roundStart", "matchResumed"} /\ e.match = m /\ e.round = r
        BY <1>5, <2>2, EventSets
      <3>2. ui'.round = [match |-> m, number |-> r]  BY <1>4, <1>5, <1>8, <3>1, HeardFacts
      <3> QED  BY <3>2 DEF RoundRight
    <2>3. CASE e \notin Outdates(m, r) /\ e \notin Counts(m, r)
      <3>1. e.name \notin {"roundStart", "matchResumed"}  BY <1>5, <2>3, EventSets
      <3>2. ui'.round = ui.round  BY <1>4, <1>5, <1>8, <3>1, HeardFacts
      <3> QED  BY <1>1, <1>3, <1>7, <2>3, <3>2 DEF RoundRight
    <2> QED  BY <2>1, <2>2, <2>3
  <1> QED  BY <1>6, <1>7, <1>9, <1>10

\* The final screen is left only by a page that still has its match to learn of, and
\* with it the round.
LEMMA ClearInMatch ==
    ASSUME Types, clearMatch, NEW m \in Matches, NEW r, InMatch(m, r)
    PROVE  InMatch(m, r)'
  <1>1. UNCHANGED <<relay, outbox, socket, opening, crossed, down>> /\ ui.ended # NoMatch
    BY DEF clearMatch, Quiet, server, handlers, histories, wires
  <1>2. SUFFICES ASSUME Live
                 PROVE  ActiveRight(m)' /\ RoundRight(m, r)'
    BY <1>1 DEF InMatch, Live
  <1>3. /\ Covered(Counts(m, r), Outdates(m, r), down, relay, outbox)
        /\ Ordered(Counts(m, r), Outdates(m, r), relay, outbox)
        /\ ActiveRight(m)
    BY <1>2 DEF InMatch, Live
  <1>4. Pending(Shows(m), down, relay, outbox)  BY <1>1, <1>3 DEF ActiveRight
  <1>5. ASSUME NEW e \in Shows(m)  PROVE e \in Counts(m, r) \/ e \in Outdates(m, r)
    BY DEF Shows, Counts, Outdates
  <1>6. Pending(Counts(m, r), down, relay, outbox)
    <2>1. CASE \E i \in DOMAIN down : down[i] \in Shows(m)
      BY <1>3, <1>5, <2>1 DEF Covered, Pending
    <2>2. CASE \E i \in DOMAIN relay : relay[i].event \in Shows(m)
      BY <1>3, <1>5, <2>2 DEF Ordered, Pending, Coming
    <2>3. CASE \E i \in DOMAIN outbox : outbox[i] \in Shows(m)
      BY <1>3, <1>5, <2>3 DEF Ordered, Pending, Coming
    <2> QED  BY <1>4, <2>1, <2>2, <2>3 DEF Pending, Coming
  <1> QED  BY <1>1, <1>4, <1>6 DEF ActiveRight, RoundRight

\* It is enough to speak of the match and the round by name.
LEMMA InMatchNamed ==
    ASSUME NEW m, NEW r, byUser' = m, match'[m].round = r, InMatch(m, r)'
    PROVE  RoundShown'
  <1>1. match'[byUser'].round = r  OBVIOUS
  <1> QED  BY <1>1 DEF RoundShown, InMatch, ActiveRight, RoundRight

LEMMA RoundShownStep ==
    ASSUME Types, Addressed, Sequential, RoundShown, [Next]_vars
    PROVE  RoundShown'
  <1> USE DEF server, wires, handlers, histories
  <1>1. ASSUME UNCHANGED <<byUser, match>>,
               \A m \in Matches, r \in Nat :
                  InPlay /\ m = byUser /\ r = match[byUser].round /\ InMatch(m, r) => InMatch(m, r)'
        PROVE  RoundShown'
    <2>1. CASE ~InPlay'  BY <2>1 DEF RoundShown
    <2>2. CASE InPlay'
      <3>1. InPlay  BY <2>2, <1>1 DEF InPlay
      <3>2. byUser \in Matches  BY <3>1, EventTypes DEF Types, InPlay, NoMatch, Matches
      <3>3. match[byUser].round \in Nat  BY <3>2 DEF Types
      <3>4. PICK m \in Matches, r \in Nat : m = byUser /\ r = match[byUser].round  BY <3>2, <3>3
      <3>5. InMatch(byUser, match[byUser].round)  BY <3>1 DEF RoundShown
      <3>6. InMatch(m, r)  BY <3>4, <3>5
      <3>7. InMatch(m, r)'  BY <1>1, <3>1, <3>4, <3>6
      <3>8. byUser' = m /\ match'[m].round = r  BY <1>1, <3>4
      <3> QED  BY <3>7, <3>8, InMatchNamed
    <2> QED  BY <2>1, <2>2
  <1>2. CASE Aside
    <2>1. UNCHANGED <<byUser, match>>  BY <1>2 DEF Aside
    <2> QED  BY <1>1, <1>2, <2>1, AsideInMatch
  <1>3. CASE Connect \/ Disconnect \/ Reload \/ setUserSocket
    <2>1. UNCHANGED <<byUser, match, relay, outbox>>
      BY <1>3 DEF Connect, Disconnect, Reload, Lose, setUserSocket
    <2>2. ~Live'
      <3>1. Connect => opening'.pc = "register"  BY DEF Connect, Closed
      <3>2. Disconnect \/ Reload => ~socket'.open  BY DEF Disconnect, Reload, Lose, Types
      <3>3. setUserSocket => opening'.pc = "load"  BY DEF setUserSocket, Types
      <3> QED  BY <1>3, <3>1, <3>2, <3>3 DEF Live
    <2> QED  BY <1>1, <2>1, <2>2, DeafInMatch
  <1>4. CASE handleReconnect
    <2>1. UNCHANGED <<byUser, match, relay, outbox>>  BY <1>4 DEF handleReconnect
    <2>2. InPlay => ~Live'  BY <1>4 DEF handleReconnect, InPlay, Live
    <2> QED  BY <1>1, <2>1, <2>2, DeafInMatch
  <1>5. CASE EmitResumed
    <2>1. UNCHANGED <<byUser, match>>  BY <1>5 DEF EmitResumed
    <2> QED  BY <1>1, <1>5, <2>1, ResumeInMatch
  <1>6. CASE Paired
    <2>1. PICK m \in Matches : Began(m)  BY <1>6, PairedFacts
    <2>2. byUser' = m /\ match'[m].round = 1  BY <2>1 DEF Began
    <2> QED  BY <2>1, <2>2, BeganInMatch, InMatchNamed
  <1>7. CASE (\E ends \in BOOLEAN : RoundResolves(ends)) \/ Forfeit
    <2>1. /\ byUser \in Matches /\ InPlay /\ outbox = <<>> /\ match[byUser].round \in Nat
          /\ GoesOn(byUser, match[byUser].round) \/ IsOver(byUser, match[byUser].round)
          /\ UNCHANGED <<byUser, ui, socket, down, relay, opening>>
          /\ crossed' = (crossed \/ opening.pc = "emit")
      BY <1>7, ResolvedFacts
    <2>2. CASE IsOver(byUser, match[byUser].round)  BY <2>1, <2>2 DEF IsOver, RoundShown, InPlay
    <2>3. CASE GoesOn(byUser, match[byUser].round)
      <3>1. PICK m \in Matches, r \in Nat : m = byUser /\ r = match[byUser].round  BY <2>1
      <3>2. InMatch(byUser, match[byUser].round)  BY <2>1 DEF RoundShown
      <3>3. GoesOn(m, r) /\ InMatch(m, r)  BY <2>3, <3>1, <3>2
      <3>4. InMatch(m, r + 1)'  BY <2>1, <3>3, GoesOnInMatch
      <3>5. byUser' = m /\ match'[m].round = r + 1  BY <2>1, <3>1, <3>3 DEF GoesOn
      <3> QED  BY <3>4, <3>5, InMatchNamed
    <2> QED  BY <2>1, <2>2, <2>3
  <1>8. CASE broadcastToMatch
    <2>1. CASE byUser' = NoMatch  BY <2>1 DEF RoundShown, InPlay
    <2>2. CASE UNCHANGED <<byUser, match>>  BY <1>1, <1>8, <2>2, BroadcastInMatch
    <2> QED  BY <1>8, <2>1, <2>2, BroadcastFacts
  <1>9. CASE emitToRecipients
    <2>1. UNCHANGED <<byUser, match>>  BY <1>9, EmitFacts
    <2> QED  BY <1>1, <1>9, <2>1, EmitInMatch
  <1>10. CASE Hear
    <2>1. UNCHANGED <<byUser, match>>  BY <1>10 DEF Hear
    <2> QED  BY <1>1, <1>10, <2>1, HearInMatch
  <1>11. CASE clearMatch
    <2>1. UNCHANGED <<byUser, match>>  BY <1>11 DEF clearMatch, Quiet
    <2> QED  BY <1>1, <1>11, <2>1, ClearInMatch
  <1>12. CASE \E id \in late : setUserSocketLate(id)
    <2>1. UNCHANGED <<byUser, match>>  BY <1>12 DEF setUserSocketLate
    <2> QED  BY <1>1, <1>12, <2>1, LateInMatch
  <1> QED  BY Steps, <1>2, <1>3, <1>4, <1>5, <1>6, <1>7, <1>8, <1>9, <1>10, <1>11, <1>12

-----------------------------------------------------------------------------
(* The end of a match. *)

LEMMA AsideOver ==
    ASSUME Types, Aside, NEW m, Over(m)
    PROVE  Over(m)'
  <1>1. UNCHANGED <<relay, outbox>> /\ ui'.active = ui.active /\ ui'.ended = ui.ended  BY DEF Aside
  <1>2. CASE UNCHANGED down  BY <1>1, <1>2 DEF Over
  <1>3. CASE \E e \in Quietly : down' = Append(down, e)
    <2>1. PICK e \in Quietly : down' = Append(down, e)  BY <1>3
    <2>2. e \in DownEvent /\ e \notin Reopens(m)  BY QuietEvents
    <2>3. down \in Seq(DownEvent)  BY DEF Types
    <2>4. /\ Covered(Ends(m), Reopens(m), down', relay, outbox)
          /\ Pending(Ends(m), down, relay, outbox) => Pending(Ends(m), down', relay, outbox)
      BY <2>1, <2>2, <2>3, ArriveCovered DEF Over
    <2> QED  BY <1>1, <2>4 DEF Over
  <1> QED  BY <1>2, <1>3 DEF Aside

\* A new connection has nothing on it; one that is lost without an end of a match on it
\* takes with it nothing that counts.
LEMMA SocketOver ==
    ASSUME Types, Addressed, Connect \/ Disconnect \/ Reload, NEW m \in Matches, ~missed', Over(m)
    PROVE  Over(m)'
  <1>0. ui \in Ui  BY DEF Types
  <1>1. UNCHANGED <<relay, outbox>> /\ down' = <<>>
    BY DEF Connect, Disconnect, Reload, Lose, server
  <1>2. ui'.active = ui.active /\ ui'.ended = ui.ended
    <2>1. CASE Connect  BY <1>0, <2>1 DEF Connect, Ui
    <2>2. CASE Disconnect  BY <1>0, <2>2 DEF Disconnect, Lose, Ui
    <2>3. CASE Reload
      <3>1. ui' = [Fresh EXCEPT !.active = ui.stored, !.stored = ui.stored, !.page = ui.page]
        BY <2>3 DEF Reload, Lose
      <3>2. ui'.active = ui.stored  BY <3>1 DEF Fresh
      <3>3. ui'.ended = ui.ended  BY <2>3, <3>1 DEF Reload, Lose
      <3> QED  BY <3>2, <3>3 DEF Addressed
    <2> QED  BY <2>1, <2>2, <2>3
  <1>3. \A i \in DOMAIN down : down[i] \notin Ends(m)
    <2>1. CASE Connect
      <3>1. down = <<>>  BY <2>1 DEF Connect, Addressed
      <3> QED  BY <3>1
    <2>2. CASE Disconnect \/ Reload
      <3>1. ~Loses(down)  BY <2>2 DEF Disconnect, Reload, Lose
      <3> QED  BY <3>1 DEF Loses, Ends
    <2> QED  BY <2>1, <2>2
  <1>4. Pending(Ends(m), down, relay, outbox) => Pending(Ends(m), down', relay, outbox)
    BY <1>3 DEF Pending
  <1>5. Covered(Ends(m), Reopens(m), down', relay, outbox)  BY <1>1 DEF Covered
  <1> QED  BY <1>1, <1>2, <1>4, <1>5 DEF Over

LEMMA ResumeOver ==
    ASSUME Types, EmitResumed, NEW m, Over(m)
    PROVE  Over(m)'
  <1>1. UNCHANGED <<relay, outbox, ui>> /\ opening.pc = "emit"  BY DEF EmitResumed, server
  <1>2. CASE UNCHANGED down  BY <1>1, <1>2 DEF Over
  <1>3. CASE down' = Append(down, opening.event)
    <2>1. opening.event \in DownEvent /\ opening.event.name = "matchResumed" /\ down \in Seq(DownEvent)
      BY <1>1 DEF Types, Resumes
    <2>2. opening.event \notin Reopens(m)  BY <2>1, EventSets
    <2>3. /\ Covered(Ends(m), Reopens(m), down', relay, outbox)
          /\ Pending(Ends(m), down, relay, outbox) => Pending(Ends(m), down', relay, outbox)
      BY <1>3, <2>1, <2>2, ArriveCovered DEF Over
    <2> QED  BY <1>1, <2>3 DEF Over
  <1> QED  BY <1>2, <1>3 DEF EmitResumed

\* What is published about another match does not concern one that is over.
LEMMA OthersOver ==
    ASSUME NEW m, Over(m), outbox = <<>>, UNCHANGED <<ui, down, relay>>,
           \A j \in DOMAIN outbox' : outbox'[j] \notin Reopens(m)
    PROVE  Over(m)'
  <1>1. Ordered(Ends(m), Reopens(m), relay, <<>>)  BY DEF Over
  <1>2. /\ Ordered(Ends(m), Reopens(m), relay, outbox')
        /\ Coming(Ends(m), relay, outbox) => Coming(Ends(m), relay, outbox')
    BY <1>1, OthersPublished
  <1>3. /\ Covered(Ends(m), Reopens(m), down, relay, outbox) => Covered(Ends(m), Reopens(m), down, relay, outbox')
        /\ Pending(Ends(m), down, relay, outbox) => Pending(Ends(m), down, relay, outbox')
    BY <1>2, ComingEnough
  <1> QED  BY <1>2, <1>3 DEF Over

\* The end of the last match is enough for every earlier one.
LEMMA IsOverOver ==
    ASSUME NEW m \in Matches, NEW n \in Matches, n <= m, NEW r \in Nat, IsOver(m, r)
    PROVE  Over(n)'
  <1> DEFINE f == Event("roundResolved", m, r)
             s == Event("matchEnded", m, 0)
  <1>0. m \in Nat /\ n \in Nat  BY DEF Matches
  <1>1. f \in DownEvent /\ s \in DownEvent  BY EventTypes DEF MatchNames
  <1>2. f.name = "roundResolved" /\ s.name = "matchEnded" /\ s.match = m  BY EventTypes
  <1>3. outbox' = <<f, s>> \/ outbox' = <<s>>  BY DEF IsOver
  <1> HIDE DEF f, s
  <1>4. f \notin Reopens(n)  BY <1>1, <1>2, EventSets
  <1>5. s \in Ends(n) /\ s \notin Reopens(n)
    <2>1. s.match >= n /\ ~(s.match < n)  BY <1>0, <1>2
    <2> QED  BY <1>1, <1>2, <2>1, EventSets
  <1>6. \E k \in DOMAIN outbox' : outbox'[k] \in Ends(n)
    <2>1. CASE outbox' = <<f, s>>
      <3>1. 2 \in DOMAIN outbox' /\ outbox'[2] = s  BY <2>1
      <3> QED  BY <3>1, <1>5
    <2>2. CASE outbox' = <<s>>
      <3>1. 1 \in DOMAIN outbox' /\ outbox'[1] = s  BY <2>2
      <3> QED  BY <3>1, <1>5
    <2> QED  BY <1>3, <2>1, <2>2
  <1>7. \A j \in DOMAIN outbox' : outbox'[j] \notin Reopens(n)  BY <1>3, <1>4, <1>5
  <1>8. PICK k \in DOMAIN outbox' : outbox'[k] \in Ends(n)  BY <1>6
  <1>9. /\ Ordered(Ends(n), Reopens(n), relay', outbox') /\ Covered(Ends(n), Reopens(n), down', relay', outbox')
        /\ Pending(Ends(n), down', relay', outbox')
    BY <1>7, <1>8, GoodPublished
  <1> QED  BY <1>9 DEF Over

LEMMA BroadcastOver ==
    ASSUME Types, Sequential, broadcastToMatch, NEW m, Over(m)
    PROVE  Over(m)'
  <1>1. /\ outbox # <<>> /\ outbox' = Tail(outbox) /\ relay' = Append(relay, Read(Head(outbox)))
        /\ UNCHANGED <<ui, down>>
    BY BroadcastFacts
  <1>2. relay \in Seq(Task) /\ outbox \in Seq(MatchEvent)  BY DEF Types
  <1>3. ASSUME NEW j \in DOMAIN relay, relay[j].event \in Reopens(m)
        PROVE  relay[j].reads <= Reads(Head(outbox))
    <2>1. relay[j].event \in DownEvent /\ relay[j].reads <= Reads(relay[j].event) /\ relay[j].reads \in Nat
      BY <1>2, EventTypes DEF Task
    <2>2. relay[j].event.name # "roundStart"  BY <2>1, <1>3, EventSets
    <2>3. relay[j].reads <= 1  BY <2>1, <2>2 DEF Reads
    <2> QED  BY <2>1, <2>3 DEF Reads
  <1>4. /\ Ordered(Ends(m), Reopens(m), relay', outbox')
        /\ Coming(Ends(m), relay, outbox) => Coming(Ends(m), relay', outbox')
    BY <1>1, <1>2, <1>3, PublishOrdered DEF Over
  <1>5. /\ Covered(Ends(m), Reopens(m), down, relay, outbox) => Covered(Ends(m), Reopens(m), down, relay', outbox')
        /\ Pending(Ends(m), down, relay, outbox) => Pending(Ends(m), down, relay', outbox')
    BY <1>4, ComingEnough
  <1> QED  BY <1>1, <1>4, <1>5 DEF Over

LEMMA EmitOver ==
    ASSUME Types, emitToRecipients, NEW m, ~missed', Over(m)
    PROVE  Over(m)'
  <1>1. UNCHANGED <<ui, outbox>> /\ relay # <<>>  BY EmitFacts
  <1>2. relay \in Seq(Task) /\ down \in Seq(DownEvent)  BY DEF Types
  <1>3. Head(relay).event \in DownEvent  BY EmitFacts, EventTypes
  <1>4. CASE Head(relay).reads > 1
    <2>1. relay' = Append(Tail(relay), [Head(relay) EXCEPT !.reads = @ - 1]) /\ UNCHANGED down  BY <1>4, EmitFacts
    <2>2. /\ Ordered(Ends(m), Reopens(m), relay', outbox)
          /\ Coming(Ends(m), relay, outbox) => Coming(Ends(m), relay', outbox)
      BY <1>1, <1>2, <1>4, <2>1, RotateOrdered DEF Over
    <2>3. /\ Covered(Ends(m), Reopens(m), down, relay, outbox) => Covered(Ends(m), Reopens(m), down, relay', outbox)
          /\ Pending(Ends(m), down, relay, outbox) => Pending(Ends(m), down, relay', outbox)
      BY <2>2, ComingEnough
    <2> QED  BY <1>1, <2>1, <2>2, <2>3 DEF Over
  <1>5. CASE ~(Head(relay).reads > 1)
    <2>1. relay' = Tail(relay)  BY <1>5, EmitFacts
    <2>2. /\ Ordered(Ends(m), Reopens(m), relay', outbox)
          /\ Head(relay).event \in Reopens(m) => Coming(Ends(m), relay', outbox)
          /\ Coming(Ends(m), relay, outbox) => Head(relay).event \in Ends(m) \/ Coming(Ends(m), relay', outbox)
      BY <1>1, <1>2, <1>5, <2>1, LeaveOrdered DEF Over
    <2>3. CASE down' = Append(down, Head(relay).event)
      <3>1. /\ Covered(Ends(m), Reopens(m), down, relay, outbox) => Covered(Ends(m), Reopens(m), down', relay', outbox)
            /\ Pending(Ends(m), down, relay, outbox) => Pending(Ends(m), down', relay', outbox)
        BY <1>2, <1>3, <2>2, <2>3, ArriveCovered
      <3> QED  BY <1>1, <2>2, <3>1 DEF Over
    <2>4. CASE UNCHANGED down /\ Head(relay).event.name # "matchEnded"
      <3>1. Head(relay).event \notin Ends(m)  BY <1>3, <2>4, EventSets
      <3>2. /\ Covered(Ends(m), Reopens(m), down, relay, outbox) => Covered(Ends(m), Reopens(m), down, relay', outbox)
            /\ Pending(Ends(m), down, relay, outbox) => Pending(Ends(m), down, relay', outbox)
        BY <2>2, <3>1, ComingEnough
      <3> QED  BY <1>1, <2>2, <2>4, <3>2 DEF Over
    <2> QED  BY <1>5, <2>3, <2>4, EmitFacts
  <1> QED  BY <1>4, <1>5

LEMMA HearOver ==
    ASSUME Types, Hear, NEW m \in Matches, ~missed', match[m].status = "ended", Over(m)
    PROVE  Over(m)'
  <1>1. /\ down # <<>> /\ down' = Tail(down) /\ ui' = Heard(ui, Head(down))
        /\ UNCHANGED <<relay, outbox>>
    BY DEF Hear, server
  <1>2. down \in Seq(DownEvent) /\ ui \in Ui /\ ui.ended \in Nat /\ m \in Nat  BY DEF Types, Ui, Matches
  <1> DEFINE e == Head(down)
  <1>3. e \in DownEvent  BY <1>1, <1>2, TailFacts
  <1>4. e.match \in Nat  BY <1>3 DEF DownEvent
  <1>5. /\ Covered(Ends(m), Reopens(m), down', relay, outbox)
        /\ e \in Reopens(m) => Pending(Ends(m), down', relay, outbox)
        /\ Pending(Ends(m), down, relay, outbox) => e \in Ends(m) \/ Pending(Ends(m), down', relay, outbox)
    BY <1>1, <1>2, HearCovered DEF Over
  <1>6. ui' = Heard(ui, e)  BY <1>1
  <1>7. ~(e.name = "matchResumed" /\ e.match = m)  BY DEF Hear
  <1> HIDE DEF e
  <1>8. ASSUME ui'.active = m  PROVE ui'.ended >= m \/ Pending(Ends(m), down', relay, outbox)
    <2>1. CASE e \in Reopens(m)  BY <1>5, <2>1
    <2>2. CASE e \in Ends(m)
      <3>1. e.name = "matchEnded" /\ e.match >= m  BY <1>3, <2>2, EventSets
      <3>2. ui'.ended = e.match  BY <1>2, <1>3, <1>6, <3>1, HeardFacts
      <3> QED  BY <3>1, <3>2
    <2>3. CASE e \notin Reopens(m) /\ e \notin Ends(m)
      <3>1. ~(e.name \in {"matchFound", "matchResumed"} /\ e.match = m)  BY <1>3, <1>7, <2>3, EventSets
      <3>2. e.name # "matchEnded"
        <4>1. e.match >= m \/ e.match < m  BY <1>2, <1>4
        <4> QED  BY <1>3, <2>3, <4>1, EventSets
      <3>3. e.name \notin {"matchFound", "matchResumed"}  BY <1>2, <1>3, <1>6, <1>8, <3>1, HeardFacts
      <3>4. ui'.active = ui.active /\ ui'.ended = ui.ended  BY <1>2, <1>3, <1>6, <3>2, <3>3, HeardFacts
      <3> QED  BY <1>5, <1>8, <2>3, <3>4 DEF Over
    <2> QED  BY <2>1, <2>2, <2>3
  <1> QED  BY <1>1, <1>5, <1>8 DEF Over

LEMMA EndShownStep ==
    ASSUME Types, Addressed, Sequential, EndShown, [Next]_vars
    PROVE  EndShown'
  <1> USE DEF server, wires, handlers, histories
  <1>1. missed => missed'
    <2>1. CASE Aside  BY <2>1 DEF Aside
    <2>2. CASE Connect \/ Disconnect \/ Reload  BY <2>2 DEF Connect, Disconnect, Reload, Lose
    <2>3. CASE setUserSocket \/ handleReconnect \/ EmitResumed
      BY <2>3 DEF setUserSocket, handleReconnect, EmitResumed
    <2>4. CASE Paired \/ (\E ends \in BOOLEAN : RoundResolves(ends)) \/ Forfeit
      BY <2>4, PairedFacts, ResolvedFacts
    <2>5. CASE broadcastToMatch  BY <2>5, BroadcastFacts
    <2>6. CASE emitToRecipients  BY <2>6, EmitFacts
    <2>7. CASE Hear  BY <2>7 DEF Hear
    <2>8. CASE clearMatch  BY <2>8 DEF clearMatch, Quiet
    <2>9. CASE \E id \in late : setUserSocketLate(id)  BY <2>9 DEF setUserSocketLate
    <2> QED  BY Steps, <2>1, <2>2, <2>3, <2>4, <2>5, <2>6, <2>7, <2>8, <2>9
  <1>2. SUFFICES ASSUME ~missed', ~missed, NEW m \in Matches, match'[m].status = "ended"
                 PROVE  Over(m)'
    BY <1>1 DEF EndShown
  <1>3. match[m].status = "ended" => Over(m)  BY <1>2 DEF EndShown
  <1>4. CASE Paired
    <2>1. PICK n \in Matches : Began(n)  BY <1>4, PairedFacts
    <2>2. m # n /\ match[m].status = "ended"  BY <1>2, <2>1 DEF Began
    <2>3. \A j \in DOMAIN outbox' : outbox'[j] \notin Reopens(m)
      <3> DEFINE f == Event("matchFound", n, 0)
                 s == Event("roundStart", n, 1)
      <3>1. f \in DownEvent /\ s \in DownEvent  BY EventTypes DEF MatchNames
      <3>2. f.name = "matchFound" /\ f.match = n /\ s.name = "roundStart"  BY EventTypes
      <3>3. outbox' = <<f, s>>  BY <2>1 DEF Began
      <3> HIDE DEF f, s
      <3>4. f \notin Reopens(m) /\ s \notin Reopens(m)  BY <2>2, <3>1, <3>2, EventSets
      <3> QED  BY <3>3, <3>4
    <2>4. outbox = <<>> /\ UNCHANGED <<ui, down, relay>>  BY <1>4, PairedFacts
    <2> QED  BY <1>3, <2>2, <2>3, <2>4, OthersOver
  <1>5. CASE (\E ends \in BOOLEAN : RoundResolves(ends)) \/ Forfeit
    <2> DEFINE n == byUser
               r == match[byUser].round
    <2>1. /\ n \in Matches /\ InPlay /\ outbox = <<>> /\ r \in Nat
          /\ GoesOn(n, r) \/ IsOver(n, r)
          /\ \A k \in Matches \ {n} : match'[k] = match[k]
          /\ UNCHANGED <<byUser, ui, down, relay>>
      BY <1>5, ResolvedFacts
    <2>2. CASE GoesOn(n, r)
      <3>1. m # n  BY <1>2, <2>2 DEF GoesOn
      <3>2. match[m].status = "ended"  BY <1>2, <2>1, <3>1
      <3>3. \A j \in DOMAIN outbox' : outbox'[j] \notin Reopens(m)
        <4> DEFINE f == Event("roundResolved", n, r)
                   s == Event("roundStart", n, r + 1)
        <4>1. f \in DownEvent /\ s \in DownEvent  BY <2>1, EventTypes DEF MatchNames
        <4>2. f.name = "roundResolved" /\ s.name = "roundStart"  BY EventTypes
        <4>3. outbox' = <<f, s>>  BY <2>2 DEF GoesOn
        <4> HIDE DEF f, s
        <4>4. f \notin Reopens(m) /\ s \notin Reopens(m)  BY <4>1, <4>2, EventSets
        <4> QED  BY <4>3, <4>4
      <3> QED  BY <1>3, <2>1, <3>2, <3>3, OthersOver
    <2>3. CASE IsOver(n, r)
      <3>1. m \in Nat /\ n \in Nat  BY <2>1 DEF Matches
      <3>2. m <= n
        <4>1. SUFFICES ASSUME m > n  PROVE FALSE  BY <3>1
        <4>2. match[m].status = "none"  BY <2>1, <4>1 DEF Sequential, InPlay
        <4>3. m # n  BY <3>1, <4>1
        <4> QED  BY <1>2, <2>1, <4>2, <4>3
      <3> HIDE DEF n, r
      <3>3. PICK k \in Matches, t \in Nat : k = n /\ t = r  BY <2>1
      <3> QED  BY <2>3, <3>2, <3>3, IsOverOver
    <2> QED  BY <2>1, <2>2, <2>3
  <1>6. CASE UNCHANGED match
    <2>0. match[m].status = "ended" /\ Over(m)  BY <1>2, <1>3, <1>6
    <2>1. CASE Aside  BY <2>0, <2>1, AsideOver
    <2>2. CASE Connect \/ Disconnect \/ Reload  BY <1>2, <2>0, <2>2, SocketOver
    <2>3. CASE setUserSocket \/ handleReconnect \/ \E id \in late : setUserSocketLate(id)
      <3>1. UNCHANGED <<ui, down, relay, outbox>>  BY <2>3 DEF setUserSocket, handleReconnect, setUserSocketLate
      <3> QED  BY <2>0, <3>1 DEF Over
    <2>4. CASE EmitResumed  BY <2>0, <2>4, ResumeOver
    <2>5. CASE broadcastToMatch  BY <2>0, <2>5, BroadcastOver
    <2>6. CASE emitToRecipients  BY <1>2, <2>0, <2>6, EmitOver
    <2>7. CASE Hear  BY <1>2, <2>0, <2>7, HearOver
    <2>8. CASE clearMatch
      <3>1. ui'.active = NoMatch  BY <2>8 DEF clearMatch, Types, Ui
      <3>2. ui'.active # m  BY <3>1 DEF NoMatch, Matches
      <3>3. UNCHANGED <<down, relay, outbox>>  BY <2>8 DEF clearMatch, Quiet
      <3> QED  BY <2>0, <3>2, <3>3 DEF Over
    <2> QED  BY Steps, <1>4, <1>5, <2>1, <2>2, <2>3, <2>4, <2>5, <2>6, <2>7, <2>8
  <1> QED  BY <1>4, <1>5, <1>6, Frame

-----------------------------------------------------------------------------
(* The theorem. *)

LEMMA InitInv ==
    ASSUME Init
    PROVE  Inv
  <1>0. /\ 0 \in 0..MaxMatches /\ 1 \in 0..MaxMatches /\ 1 \in Matches /\ MaxMatches \in Nat
        /\ \A n \in Matches : n \in Nat
    BY ClientAssumption, EventTypes DEF Matches
  <1>1. /\ down = <<>> /\ relay = <<>> /\ outbox = <<>> /\ opening = Closed /\ closing = {}
        /\ byUser \in {0, 1}
        /\ match = [m \in Matches |-> IF m = byUser THEN [status |-> "playing", round |-> 1]
                                      ELSE [status |-> "none", round |-> 0]]
    BY DEF Init, NoMatch
  <1>2. /\ ui \in Ui /\ ui.stored = ui.active /\ socket \in [id : Nat, open : BOOLEAN]
        /\ socket.open => registered = socket.id
        /\ byUser # NoMatch => /\ ui.active = byUser /\ ui.ended = NoMatch
                               /\ ui.round = [match |-> byUser, number |-> 1]
    <2>1. Fresh \in Ui  BY <1>0 DEF Fresh, NoMatch, NoRound, Lobby, Ui
    <2>2. CASE scenario.playing
      <3>1. /\ ui = [Fresh EXCEPT !.connected = TRUE, !.active = 1, !.stored = 1, !.page = 1,
                                  !.round = [match |-> 1, number |-> 1]]
            /\ socket = [id |-> 1, open |-> TRUE] /\ registered = 1 /\ byUser = 1
        BY <2>2 DEF Init
      <3>2. ui \in Ui  BY <1>0, <2>1, <3>1 DEF Ui
      <3>3. ui.active = 1 /\ ui.stored = 1 /\ ui.ended = NoMatch /\ ui.round = [match |-> 1, number |-> 1]
        BY <3>1 DEF Fresh
      <3> QED  BY <3>1, <3>2, <3>3
    <2>3. CASE ~scenario.playing
      <3>1. ui = Fresh /\ socket = [id |-> 0, open |-> FALSE] /\ byUser = NoMatch  BY <2>3 DEF Init
      <3>2. ui.stored = ui.active  BY <3>1 DEF Fresh
      <3> QED  BY <2>1, <3>1, <3>2
    <2> QED  BY <2>2, <2>3
  <1>3. Types
    <2>1. scenario \in [playing : BOOLEAN, matches : 0..MaxMatches, rounds : 1..MaxRounds,
                        sockets : 1..MaxSockets, clicks : Nat, errors : Nat]
      BY ClientAssumption DEF Init
    <2>2. match \in [Matches -> [status : {"none", "playing", "ended"}, round : Nat]]  BY <1>1
    <2>3. down \in Seq(DownEvent) /\ relay \in Seq(Task) /\ outbox \in Seq(MatchEvent)  BY <1>1
    <2>4. /\ opening \in [pc : {"idle", "register", "load", "emit"}, event : Resumes \cup {NoEvent}]
          /\ opening.pc # "emit"
      BY <1>1 DEF Closed
    <2>5. byUser \in 0..MaxMatches  BY <1>0, <1>1
    <2> QED  BY <1>2, <2>1, <2>2, <2>3, <2>4, <2>5 DEF Types
  <1>4. Addressed  BY <1>1, <1>2 DEF Addressed
  <1>5. /\ \A m \in Matches : m = byUser => match[m].status = "playing" /\ match[m].round = 1
        /\ \A m \in Matches : m # byUser => match[m].status = "none"
    BY <1>1
  <1>6. DOMAIN outbox = {} /\ DOMAIN relay = {} /\ DOMAIN down = {}  BY <1>1
  <1>7. byUser = NoMatch \/ byUser = 1  BY <1>1 DEF NoMatch
  <1>8. Sequential
    <2>1. \A m, n \in Matches : m < n /\ match[m].status = "none" => match[n].status = "none"
      <3>1. SUFFICES ASSUME NEW m \in Matches, NEW n \in Matches, m < n  PROVE n # byUser
        BY <1>5
      <3> QED  BY <1>0, <1>7, <3>1 DEF NoMatch, Matches
    <2>2. opening.pc # "emit"  BY <1>1 DEF Closed
    <2>3. \A n \in Matches : n > byUser => match[n].status = "none"  BY <1>0, <1>1, <1>5
    <2> QED  BY <1>0, <1>1, <1>5, <1>6, <1>7, <2>1, <2>2, <2>3 DEF Sequential
  <1>9. RoundShown
    <2>1. SUFFICES ASSUME byUser = 1  PROVE InMatch(byUser, match[byUser].round)
      BY <1>7 DEF RoundShown, InPlay
    <2>2. match[byUser].round = 1  BY <1>0, <1>5, <2>1
    <2>3. byUser # NoMatch  BY <2>1 DEF NoMatch
    <2>4. \A G, B : Ordered(G, B, relay, outbox) /\ Covered(G, B, down, relay, outbox)
      BY <1>6 DEF Ordered, Covered
    <2> QED  BY <1>2, <2>2, <2>3, <2>4 DEF InMatch, ActiveRight, RoundRight
  <1>10. EndShown
    <2>1. \A m \in Matches : match[m].status # "ended"  BY <1>5
    <2> QED  BY <2>1 DEF EndShown
  <1> QED  BY <1>3, <1>4, <1>8, <1>9, <1>10 DEF Inv

LEMMA InvStep ==
    ASSUME Inv, [Next]_vars
    PROVE  Inv'
  BY TypesStep, AddressedStep, SequentialStep, RoundShownStep, EndShownStep DEF Inv

\* When nothing is on its way, nothing is pending.
LEMMA InvConverges ==
    ASSUME Inv
    PROVE  ViewConverges
  <1>0. Types /\ Sequential /\ RoundShown /\ EndShown  BY DEF Inv
  <1>1. SUFFICES ASSUME Settled, ~crossed
                 PROVE  /\ byUser # NoMatch =>
                              ui.active = byUser /\ ui.round = [match |-> byUser, number |-> match[byUser].round]
                        /\ ui.active # NoMatch /\ match[ui.active].status = "ended"
                              => ui.ended >= ui.active \/ missed
    BY DEF ViewConverges
  <1>2. down = <<>> /\ relay = <<>> /\ outbox = <<>> /\ Live  BY <1>1 DEF Settled, Live
  <1>3. \A G : ~Pending(G, down, relay, outbox)  BY <1>2 DEF Pending, Coming
  <1>4. ASSUME byUser # NoMatch
        PROVE  ui.active = byUser /\ ui.round = [match |-> byUser, number |-> match[byUser].round]
    <2>1. byUser \in Matches  BY <1>0, <1>4, EventTypes DEF Types, NoMatch, Matches
    <2>2. match[byUser].status \in {"none", "playing", "ended"}  BY <1>0, <2>1 DEF Types
    <2>3. match[byUser].status # "none" /\ match[byUser].status # "ended"
      BY <1>0, <1>2, <1>4 DEF Sequential
    <2>4. InMatch(byUser, match[byUser].round)  BY <1>0, <1>4, <2>2, <2>3 DEF RoundShown, InPlay
    <2>5. ActiveRight(byUser) /\ RoundRight(byUser, match[byUser].round)  BY <1>2, <2>4 DEF InMatch, Live
    <2> QED  BY <1>3, <2>5 DEF ActiveRight, RoundRight
  <1>5. ASSUME ui.active # NoMatch, match[ui.active].status = "ended", ~missed
        PROVE  ui.ended >= ui.active
    <2>1. ui.active \in Matches  BY <1>0, <1>5, EventTypes DEF Types, Ui, NoMatch, Matches
    <2>2. Over(ui.active)  BY <1>0, <1>5, <2>1 DEF EndShown
    <2> QED  BY <1>3, <2>2 DEF Over
  <1> QED  BY <1>4, <1>5

\* Whatever the number of matches, rounds, connections and presses of the buttons, and
\* whatever a lost connection takes with it: once everything has arrived the page shows
\* the round the service is in, or that the match is over (useGameSocket, GameGateway,
\* MatchEventsRelayService), unless the match moved during a matchResumed or an earlier
\* connection was registered after the open one (crossed), or the end of the match was
\* lost (missed).
THEOREM ThePageCatchesUp == Spec => []ViewConverges
  <1>1. Init => Inv  BY InitInv
  <1>2. Inv /\ [Next]_vars => Inv'  BY InvStep
  <1>3. Inv => ViewConverges  BY InvConverges
  <1> QED  BY <1>1, <1>2, <1>3, PTL DEF Spec
=============================================================================
