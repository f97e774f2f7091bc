-------------------------- MODULE JobEventsProofs --------------------------
(***************************************************************************)
(* For any clients, any queue capacity and any number of log lines: no     *)
(* client is sent a line twice or out of order, and a client whose queue   *)
(* never overflowed is sent every line.                                    *)
(*                                                                         *)
(* What a client was sent and what waits in its queue are reasoned about   *)
(* as one sequence.  Its lines grow, none is past the tail's offset, and   *)
(* unless one was dropped they are all the lines from the one the client   *)
(* joined at to the offset.  The hand-over needs two facts more: unless    *)
(* the job was canceled, only the flush queues a sentinel, as the last     *)
(* item, and the flush leaves the offset at the last line of the file.     *)
(***************************************************************************)
EXTENDS JobEvents, SequenceTheorems, TLAPS

End == <<0, Sentinel>>

Due(c) == got[c] \o queue[c]

\* What is ordered is never past the offset.
DueInOrder == \A c \in Viewers : LinesOrdered(Due(c)) /\ Lines(Due(c)) \subseteq 1..offset

\* Nothing is sent before the queue is registered.
NothingEarly == \A c \in Viewers : stream[c] \in {"none", "accepted"} => got[c] = <<>>

RowFollowsRunner ==
    /\ runner \in {"finishing", "done"} => jobRow # "active"
    /\ jobRow = "ended" => runner \in {"finishing", "done"}
    /\ runner = "done" => jobRow = "canceled" \/ offset = written

\* The sentinel of a job nobody canceled is the runner's, and its last item.
SentinelIsLast ==
    \A c \in Viewers : jobRow # "canceled" =>
        /\ stream[c] = "open" =>
              \A i \in DOMAIN queue[c] :
                  queue[c][i] = End => runner = "done" /\ i = Len(queue[c])
        /\ stream[c] = "ended" => runner = "done" /\ queue[c] = <<>>

DueIsComplete ==
    \A c \in Viewers :
        jobRow # "canceled" /\ stream[c] \in {"open", "ended"} /\ ~dropped[c]
            => from[c] <= offset /\ Lines(Due(c)) = (from[c] + 1)..offset

EventsInv ==
    /\ TypeOK
    /\ DueInOrder
    /\ NothingEarly
    /\ RowFollowsRunner
    /\ SentinelIsLast
    /\ DueIsComplete

-----------------------------------------------------------------------------
\* What concatenation does to the lines of event sequences.
LEMMA ItemNumbers == \A e \in Items : e[1] \in Nat
  BY EventAssumption DEF Items, Events, Sentinel

\* The lines of a concatenation.
LEMMA ConcatLines ==
    ASSUME NEW s \in Seq(Items), NEW t \in Seq(Items)
    PROVE  /\ Lines(s \o t) = Lines(s) \union Lines(t)
           /\ LinesOrdered(s \o t) <=>
                 /\ LinesOrdered(s)
                 /\ LinesOrdered(t)
                 /\ \A a \in Lines(s), b \in Lines(t) : a < b
<1> DEFINE st == s \o t
<1>1. /\ st \in Seq(Items) /\ Len(st) = Len(s) + Len(t)
      /\ \A i \in 1..Len(st) : st[i] = IF i <= Len(s) THEN s[i] ELSE t[i - Len(s)]
  BY ConcatProperties
<1>2. /\ DOMAIN s = 1..Len(s) /\ DOMAIN t = 1..Len(t) /\ DOMAIN st = 1..Len(st)
      /\ Len(s) \in Nat /\ Len(t) \in Nat
  BY <1>1
<1> HIDE DEF st
<1>3. \A i \in DOMAIN s : i \in DOMAIN st /\ st[i] = s[i]
  BY <1>1, <1>2
<1>4. \A i \in DOMAIN t : i + Len(s) \in DOMAIN st /\ st[i + Len(s)] = t[i]
  BY <1>1, <1>2
<1>5. \A i \in DOMAIN st : \/ i \in DOMAIN s /\ st[i] = s[i]
                           \/ i - Len(s) \in DOMAIN t /\ st[i] = t[i - Len(s)]
  BY <1>1, <1>2
<1>6. Lines(st) = Lines(s) \union Lines(t)
  BY <1>3, <1>4, <1>5 DEF Lines
<1>7. ASSUME LinesOrdered(st)
      PROVE  /\ LinesOrdered(s)
             /\ LinesOrdered(t)
             /\ \A a \in Lines(s), b \in Lines(t) : a < b
  <2>1. LinesOrdered(s)
    BY <1>2, <1>3, <1>7 DEF LinesOrdered
  <2>2. LinesOrdered(t)
    <3> SUFFICES ASSUME NEW i \in DOMAIN t, NEW j \in DOMAIN t,
                        i < j, t[i][2] = "log", t[j][2] = "log"
                 PROVE  t[i][1] < t[j][1]
      BY DEF LinesOrdered
    <3>1. i + Len(s) < j + Len(s)
      BY <1>2
    <3> QED
      BY <1>4, <1>7, <3>1 DEF LinesOrdered
  <2>3. ASSUME NEW i \in DOMAIN s, NEW j \in DOMAIN t, s[i][2] = "log", t[j][2] = "log"
        PROVE  s[i][1] < t[j][1]
    <3>1. i < j + Len(s)
      BY <1>2
    <3> QED
      BY <1>3, <1>4, <1>7, <2>3, <3>1 DEF LinesOrdered
  <2> QED
    BY <2>1, <2>2, <2>3 DEF Lines
<1>8. ASSUME LinesOrdered(s), LinesOrdered(t), \A a \in Lines(s), b \in Lines(t) : a < b
      PROVE  LinesOrdered(st)
  <2> SUFFICES ASSUME NEW i \in DOMAIN st, NEW j \in DOMAIN st,
                      i < j, st[i][2] = "log", st[j][2] = "log"
               PROVE  st[i][1] < st[j][1]
    BY DEF LinesOrdered
  <2>1. CASE i \in DOMAIN s /\ st[i] = s[i] /\ j \in DOMAIN s /\ st[j] = s[j]
    BY <2>1, <1>8 DEF LinesOrdered
  <2>2. CASE /\ i - Len(s) \in DOMAIN t /\ st[i] = t[i - Len(s)]
             /\ j - Len(s) \in DOMAIN t /\ st[j] = t[j - Len(s)]
    <3>1. i - Len(s) < j - Len(s)
      BY <1>2
    <3> QED
      BY <2>2, <3>1, <1>8 DEF LinesOrdered
  <2>3. CASE i \in DOMAIN s /\ st[i] = s[i] /\ j - Len(s) \in DOMAIN t /\ st[j] = t[j - Len(s)]
    BY <2>3, <1>8 DEF Lines
  <2>4. CASE i - Len(s) \in DOMAIN t /\ j \in DOMAIN s
    BY <2>4, <1>2
  <2> QED
    BY <1>5, <2>1, <2>2, <2>3, <2>4
<1> QED
  BY <1>6, <1>7, <1>8 DEF st

\* One item.
LEMMA OneItem ==
    ASSUME NEW e \in Items
    PROVE  /\ <<e>> \in Seq(Items) /\ Len(<<e>>) = 1 /\ <<e>>[1] = e
           /\ LinesOrdered(<<e>>)
           /\ Lines(<<e>>) = IF e[2] = "log" THEN {e[1]} ELSE {}
<1>1. <<e>> \in Seq(Items) /\ Len(<<e>>) = 1 /\ <<e>>[1] = e /\ DOMAIN <<e>> = {1}
  OBVIOUS
<1> QED
  BY <1>1 DEF LinesOrdered, Lines

\* No events, no lines.
LEMMA NoLines == Lines(<<>>) = {} /\ LinesOrdered(<<>>)
  BY DEF Lines, LinesOrdered

\* A nonempty queue is its head and its tail.
LEMMA HeadAndTail ==
    ASSUME NEW q \in Seq(Items), q # <<>>
    PROVE  /\ Head(q) \in Items /\ Tail(q) \in Seq(Items) /\ Len(Tail(q)) = Len(q) - 1
           /\ Len(q) \in Nat \ {0} /\ Head(q) = q[1]
           /\ \A i \in 1..Len(Tail(q)) : Tail(q)[i] = q[i + 1]
           /\ q = <<Head(q)>> \o Tail(q)
<1>1. /\ Head(q) \in Items /\ Tail(q) \in Seq(Items) /\ Len(Tail(q)) = Len(q) - 1
      /\ Len(q) \in Nat \ {0} /\ Head(q) = q[1]
      /\ \A i \in 1..Len(Tail(q)) : Tail(q)[i] = q[i + 1]
  BY HeadTailProperties, EmptySeq
<1>2. <<Head(q)>> \in Seq(Items) /\ Len(<<Head(q)>>) = 1 /\ <<Head(q)>>[1] = Head(q)
  BY <1>1, OneItem
<1> DEFINE h == <<Head(q)>>
<1> DEFINE t == Tail(q)
<1> HIDE DEF h, t
<1>3. /\ h \o t \in Seq(Items) /\ Len(h \o t) = Len(q)
      /\ \A i \in 1..Len(q) : (h \o t)[i] = IF i <= 1 THEN h[1] ELSE t[i - 1]
  BY <1>1, <1>2, ConcatProperties DEF h, t
<1>4. \A i \in 1..Len(q) : (h \o t)[i] = q[i]
  BY <1>1, <1>2, <1>3 DEF h, t
<1>5. h \o t = q
  BY <1>3, <1>4, SeqEqual
<1> QED
  BY <1>1, <1>5 DEF h, t

\* A prefix has some of the lines, in the same order.
LEMMA PrefixLines ==
    ASSUME NEW es \in Seq(Items), NEW n \in 0..Len(es)
    PROVE  /\ SubSeq(es, 1, n) \in Seq(Items) /\ Len(SubSeq(es, 1, n)) = n
           /\ \A i \in 1..n : SubSeq(es, 1, n)[i] = es[i]
           /\ Lines(SubSeq(es, 1, n)) \subseteq Lines(es)
           /\ LinesOrdered(es) => LinesOrdered(SubSeq(es, 1, n))
           /\ n = Len(es) => SubSeq(es, 1, n) = es
<1> DEFINE p == SubSeq(es, 1, n)
<1>1. Len(es) \in Nat /\ \A i \in 1..n : es[i] \in Items
  BY ElementOfSeq
<1>2. /\ p \in Seq(Items) /\ Len(p) = IF 1 <= n THEN n - 1 + 1 ELSE 0
      /\ \A i \in 1..(n - 1 + 1) : p[i] = es[1 + i - 1]
  BY <1>1, SubSeqProperties
<1>3. Len(p) = n /\ DOMAIN p = 1..n /\ \A i \in 1..n : p[i] = es[i]
  BY <1>1, <1>2
<1>4. n = Len(es) => p = es
  BY SubSeqFull
<1> HIDE DEF p
<1>5. \A i \in DOMAIN p : i \in DOMAIN es /\ p[i] = es[i]
  BY <1>1, <1>3
<1>6. Lines(p) \subseteq Lines(es)
  BY <1>5 DEF Lines
<1>7. LinesOrdered(es) => LinesOrdered(p)
  BY <1>5 DEF LinesOrdered
<1> QED
  BY <1>2, <1>3, <1>4, <1>6, <1>7 DEF p

\* What the tail or the flush publishes of the file.
LEMMA LogLinesOf ==
    ASSUME NEW a \in Nat, NEW b \in a..MaxLines
    PROVE  /\ LogLines(a, b) \in Seq(Items)
           /\ Len(LogLines(a, b)) = b - a
           /\ \A i \in 1..(b - a) : LogLines(a, b)[i] # End
           /\ LinesOrdered(LogLines(a, b))
           /\ Lines(LogLines(a, b)) = (a + 1)..b
<1>1. b - a \in Nat /\ b \in Nat
  BY EventAssumption
<1>2. \A i \in 1..(b - a) : <<a + i, "log">> \in Items /\ <<a + i, "log">> # End
  BY <1>1, EventAssumption DEF Items, Events, End, Sentinel
<1>3. /\ LogLines(a, b) \in [1..(b - a) -> Items] /\ DOMAIN LogLines(a, b) = 1..(b - a)
      /\ \A i \in 1..(b - a) : LogLines(a, b)[i] = <<a + i, "log">>
  BY <1>2 DEF LogLines
<1>4. LogLines(a, b) \in Seq(Items) /\ Len(LogLines(a, b)) = b - a
  <2>1. [i \in 1..(b - a) |-> <<a + i, "log">>] \in Seq(Items)
    BY <1>1, <1>2
  <2>2. Len([i \in 1..(b - a) |-> <<a + i, "log">>]) = b - a
    BY <1>1
  <2> QED
    BY <2>1, <2>2 DEF LogLines
<1>5. LinesOrdered(LogLines(a, b))
  BY <1>1, <1>3 DEF LinesOrdered
<1>6. ASSUME NEW k \in (a + 1)..b
      PROVE  k \in Lines(LogLines(a, b))
  <2>1. k - a \in 1..(b - a) /\ a + (k - a) = k
    BY <1>1
  <2>2. LogLines(a, b)[k - a] = <<k, "log">>
    BY <2>1, <1>3
  <2> QED
    BY <2>1, <2>2, <1>3 DEF Lines
<1>7. ASSUME NEW k \in Lines(LogLines(a, b))
      PROVE  k \in (a + 1)..b
  <2>1. PICK i \in 1..(b - a) : k = LogLines(a, b)[i][1]
    BY <1>3 DEF Lines
  <2> QED
    BY <2>1, <1>1, <1>3
<1> QED
  BY <1>2, <1>3, <1>4, <1>5, <1>6, <1>7
-----------------------------------------------------------------------------
\* What the two ways of putting into a queue leave in it.
LEMMA OfferAllOf ==
    ASSUME NEW q \in Seq(Items), Len(q) <= Capacity, NEW es \in Seq(Items)
    PROVE  /\ OfferAll(q, es) \in Seq(Items)
           /\ Len(OfferAll(q, es)) <= Capacity
           /\ Len(q) + Len(es) < Capacity => Len(OfferAll(q, es)) < Capacity
           /\ Lines(OfferAll(q, es)) \subseteq Lines(q) \union Lines(es)
           /\ Len(q) + Len(es) <= Capacity =>
                 Lines(OfferAll(q, es)) = Lines(q) \union Lines(es)
           /\ LinesOrdered(q) /\ LinesOrdered(es) /\ (\A a \in Lines(q), b \in Lines(es) : a < b)
                 => LinesOrdered(OfferAll(q, es))
           /\ (\A i \in DOMAIN q : q[i] # End) /\ (\A i \in DOMAIN es : es[i] # End)
                 => \A i \in DOMAIN OfferAll(q, es) : OfferAll(q, es)[i] # End
<1> DEFINE n == IF Len(es) < Capacity - Len(q) THEN Len(es) ELSE Capacity - Len(q)
<1> DEFINE p == SubSeq(es, 1, n)
<1>1. /\ n \in 0..Len(es) /\ Len(q) + n <= Capacity /\ Len(q) \in Nat /\ Len(es) \in Nat
      /\ Capacity \in Nat
      /\ Len(q) + Len(es) <= Capacity => n = Len(es)
  BY EventAssumption
<1>2. OfferAll(q, es) = q \o p
  BY DEF OfferAll
<1> HIDE DEF n
<1>3. /\ p \in Seq(Items) /\ Len(p) = n /\ \A i \in 1..n : p[i] = es[i]
      /\ Lines(p) \subseteq Lines(es) /\ (LinesOrdered(es) => LinesOrdered(p))
      /\ n = Len(es) => p = es
  BY <1>1, PrefixLines
<1> HIDE DEF p
<1>4. /\ q \o p \in Seq(Items) /\ Len(q \o p) = Len(q) + n
      /\ \A i \in 1..(Len(q) + n) : (q \o p)[i] = IF i <= Len(q) THEN q[i] ELSE p[i - Len(q)]
  BY <1>3, ConcatProperties
<1>5. /\ Lines(q \o p) = Lines(q) \union Lines(p)
      /\ LinesOrdered(q \o p) <=>
             LinesOrdered(q) /\ LinesOrdered(p) /\ \A a \in Lines(q), b \in Lines(p) : a < b
  BY <1>3, ConcatLines
<1>6. ASSUME \A i \in DOMAIN q : q[i] # End, \A i \in DOMAIN es : es[i] # End,
             NEW i \in DOMAIN (q \o p)
      PROVE  (q \o p)[i] # End
  <2>1. i \in 1..(Len(q) + n) /\ (i <= Len(q) => i \in DOMAIN q)
        /\ (~(i <= Len(q)) => i - Len(q) \in 1..n /\ i - Len(q) \in DOMAIN es)
    BY <1>1, <1>4
  <2> QED
    BY <2>1, <1>3, <1>4, <1>6
<1>7. Len(q \o p) <= Capacity /\ (Len(q) + Len(es) < Capacity => Len(q \o p) < Capacity)
  BY <1>1, <1>4
<1>8. Len(q) + Len(es) <= Capacity => Lines(q \o p) = Lines(q) \union Lines(es)
  BY <1>1, <1>3, <1>5
<1>9. LinesOrdered(q) /\ LinesOrdered(es) /\ (\A a \in Lines(q), b \in Lines(es) : a < b)
        => LinesOrdered(q \o p)
  BY <1>3, <1>5
<1>10. Lines(q \o p) \subseteq Lines(q) \union Lines(es)
  BY <1>3, <1>5
<1> DEFINE r == q \o p
<1> HIDE DEF r
<1>11. OfferAll(q, es) = r
  BY <1>2 DEF r
<1> QED
  BY <1>4, <1>6, <1>7, <1>8, <1>9, <1>10, <1>11 DEF r

\* The sentinel takes the place of an event when the queue is full.
LEMMA OfferSentinelOf ==
    ASSUME NEW q \in Seq(Items), Len(q) <= Capacity
    PROVE  /\ OfferSentinel(q) \in Seq(Items)
           /\ Len(OfferSentinel(q)) <= Capacity
           /\ Lines(OfferSentinel(q)) \subseteq Lines(q)
           /\ Len(q) < Capacity => Lines(OfferSentinel(q)) = Lines(q)
           /\ LinesOrdered(q) => LinesOrdered(OfferSentinel(q))
           /\ (\A i \in DOMAIN q : q[i] # End) =>
                 \A i \in DOMAIN OfferSentinel(q) :
                     OfferSentinel(q)[i] = End => i = Len(OfferSentinel(q))
<1> DEFINE r == IF Len(q) < Capacity THEN q ELSE Tail(q)
<1>1. End \in Items /\ End[2] # "log" /\ Capacity \in Nat \ {0} /\ Len(q) \in Nat
  BY EventAssumption DEF End, Items, Sentinel
<1>2. OfferSentinel(q) = Append(r, End)
  BY DEF OfferSentinel, End
<1>3. /\ r \in Seq(Items) /\ Len(r) < Capacity /\ Len(r) \in Nat
      /\ Lines(r) \subseteq Lines(q) /\ (LinesOrdered(q) => LinesOrdered(r))
      /\ (\A i \in DOMAIN q : q[i] # End) => \A i \in 1..Len(r) : r[i] # End
      /\ Len(q) < Capacity => r = q
  <2>1. CASE Len(q) < Capacity
    BY <1>1, <2>1
  <2>2. CASE ~(Len(q) < Capacity)
    <3>1. Len(q) = Capacity /\ q # <<>> /\ r = Tail(q)
      BY <1>1, <2>2
    <3>2. /\ Head(q) \in Items /\ Tail(q) \in Seq(Items) /\ Len(Tail(q)) = Len(q) - 1
          /\ \A i \in 1..Len(Tail(q)) : Tail(q)[i] = q[i + 1]
          /\ q = <<Head(q)>> \o Tail(q)
      BY <3>1, HeadAndTail
    <3>3. Lines(Tail(q)) \subseteq Lines(q) /\ (LinesOrdered(q) => LinesOrdered(Tail(q)))
      <4> DEFINE h == <<Head(q)>>
      <4> DEFINE t == Tail(q)
      <4>1. h \in Seq(Items) /\ t \in Seq(Items) /\ q = h \o t
        BY <3>2
      <4> HIDE DEF h, t
      <4>2. Lines(t) \subseteq Lines(q) /\ (LinesOrdered(q) => LinesOrdered(t))
        BY <4>1, ConcatLines
      <4> QED
        BY <4>2 DEF t
    <3>4. \A i \in 1..Len(Tail(q)) : i + 1 \in DOMAIN q
      BY <1>1, <3>2
    <3> HIDE DEF r
    <3> QED
      BY <1>1, <3>1, <3>2, <3>3, <3>4
  <2> QED
    BY <2>1, <2>2
<1> HIDE DEF r
<1>4. /\ Append(r, End) \in Seq(Items) /\ Len(Append(r, End)) = Len(r) + 1
      /\ \A i \in 1..Len(r) : Append(r, End)[i] = r[i]
      /\ Append(r, End) = r \o <<End>>
  BY <1>1, <1>3, AppendProperties, AppendIsConcat
<1>5. Lines(Append(r, End)) = Lines(r) /\ (LinesOrdered(r) => LinesOrdered(Append(r, End)))
  <2> DEFINE e == <<End>>
  <2>1. e \in Seq(Items) /\ LinesOrdered(e) /\ Lines(e) = {}
    BY <1>1, OneItem
  <2> HIDE DEF e
  <2>2. Lines(r \o e) = Lines(r) \union Lines(e)
    BY <1>3, <2>1, ConcatLines
  <2>3. LinesOrdered(r) => LinesOrdered(r \o e)
    BY <1>3, <2>1, ConcatLines
  <2> QED
    BY <1>4, <2>1, <2>2, <2>3 DEF e
<1>6. DOMAIN Append(r, End) = 1..(Len(r) + 1)
  BY <1>4
<1> QED
  BY <1>1, <1>2, <1>3, <1>4, <1>5, <1>6

-----------------------------------------------------------------------------
\* The lines of what a client was sent and of what waits for it.
LEMMA DueLines ==
    ASSUME TypeOK, NEW c \in Viewers, NEW r \in Seq(Items)
    PROVE  /\ got[c] \in Seq(Items)
           /\ Lines(got[c] \o r) = Lines(got[c]) \union Lines(r)
           /\ LinesOrdered(got[c] \o r) <=>
                 /\ LinesOrdered(got[c])
                 /\ LinesOrdered(r)
                 /\ \A a \in Lines(got[c]), b \in Lines(r) : a < b
<1>1. got[c] \in Seq(Events) /\ Events \subseteq Items
  BY DEF TypeOK, Items
<1>2. got[c] \in Seq(Items)
  BY <1>1, SeqMonotonic
<1> QED
  BY <1>2, ConcatLines

\* Publishing the next lines of the file, or none, to every open stream.
LEMMA PublishKeeps ==
    ASSUME EventsInv, NEW es \in Seq(Items), Publish(es),
           LinesOrdered(es), offset' \in offset..MaxLines, Lines(es) = (offset + 1)..offset',
           \A i \in DOMAIN es : es[i] # End,
           UNCHANGED <<stream, got, from>>,
           runner # "done", jobRow' # "canceled" => jobRow # "canceled"
    PROVE  /\ queue' \in [Viewers -> Seq(Items)] /\ \A c \in Viewers : Len(queue'[c]) <= Capacity
           /\ dropped' \in [Viewers -> BOOLEAN]
           /\ DueInOrder'
           /\ SentinelIsLast'
           /\ DueIsComplete'
<1>1. /\ TypeOK /\ offset \in Nat /\ offset' \in Nat
      /\ \A c \in Viewers : queue[c] \in Seq(Items) /\ Len(queue[c]) <= Capacity
                             /\ Len(queue[c]) \in Nat
  BY EventAssumption DEF EventsInv, TypeOK
<1>2. \A c \in Viewers : /\ c \in Open => queue'[c] = OfferAll(queue[c], es)
                         /\ c \notin Open => queue'[c] = queue[c]
  BY DEF Publish
<1>3. \A c \in Viewers : c \in Open => OfferAll(queue[c], es) \in Seq(Items)
                                       /\ Len(OfferAll(queue[c], es)) <= Capacity
  BY <1>1, OfferAllOf
<1>4. queue' \in [Viewers -> Seq(Items)] /\ \A c \in Viewers : Len(queue'[c]) <= Capacity
  BY <1>1, <1>2, <1>3 DEF Publish
<1>5. dropped' \in [Viewers -> BOOLEAN]
  BY DEF Publish, EventsInv, TypeOK
<1>6. \A c \in Viewers : jobRow # "canceled" => stream[c] # "ended"
  BY DEF EventsInv, SentinelIsLast
<1>7. ASSUME NEW c \in Viewers
      PROVE  /\ LinesOrdered(got[c] \o queue'[c])
             /\ Lines(got[c] \o queue'[c]) \subseteq 1..offset'
             /\ c \in Open /\ jobRow # "canceled" =>
                   \A i \in DOMAIN queue'[c] : queue'[c][i] # End
             /\ c \in Open /\ jobRow # "canceled" /\ ~dropped'[c] =>
                   from[c] <= offset' /\ Lines(got[c] \o queue'[c]) = (from[c] + 1)..offset'
  <2> DEFINE g == got[c]
  <2> DEFINE q == queue[c]
  <2> DEFINE r == queue'[c]
  <2>1. LinesOrdered(g \o q) /\ Lines(g \o q) \subseteq 1..offset
    BY DEF EventsInv, DueInOrder, Due
  <2>2. CASE c \notin Open
    BY <1>1, <1>2, <2>1, <2>2
  <2>3. CASE c \in Open
    <3>1. r = OfferAll(q, es) /\ stream[c] = "open" /\ q \in Seq(Items) /\ r \in Seq(Items)
      BY <1>1, <1>2, <1>3, <2>3 DEF Open
    <3>2. /\ Lines(g \o q) = Lines(g) \union Lines(q) /\ Lines(g \o r) = Lines(g) \union Lines(r)
          /\ LinesOrdered(g) /\ LinesOrdered(q) /\ \A a \in Lines(g), b \in Lines(q) : a < b
          /\ (LinesOrdered(r) /\ \A a \in Lines(g), b \in Lines(r) : a < b)
                => LinesOrdered(g \o r)
      BY <1>1, <2>1, <3>1, DueLines
    <3>3. \A a \in Lines(g) \union Lines(q), b \in Lines(es) : a < b
      BY <1>1, <2>1, <3>2
    <3>4. /\ Lines(r) \subseteq Lines(q) \union Lines(es) /\ LinesOrdered(r)
          /\ Len(q) + Len(es) <= Capacity => Lines(r) = Lines(q) \union Lines(es)
          /\ (\A i \in DOMAIN q : q[i] # End) => \A i \in DOMAIN r : r[i] # End
      <4> DEFINE p == OfferAll(q, es)
      <4>1. /\ Lines(p) \subseteq Lines(q) \union Lines(es) /\ LinesOrdered(p)
            /\ Len(q) + Len(es) <= Capacity => Lines(p) = Lines(q) \union Lines(es)
            /\ (\A i \in DOMAIN q : q[i] # End) => \A i \in DOMAIN p : p[i] # End
        BY <1>1, <3>1, <3>2, <3>3, OfferAllOf
      <4> HIDE DEF p
      <4>2. r = p
        BY <3>1 DEF p
      <4> QED
        BY <4>1, <4>2
    <3>5. LinesOrdered(g \o r)
      BY <3>2, <3>3, <3>4
    <3>6. Lines(g \o r) \subseteq 1..offset'
      BY <1>1, <2>1, <3>2, <3>4
    <3>7. jobRow # "canceled" => \A i \in DOMAIN r : r[i] # End
      BY <3>1, <3>4 DEF EventsInv, SentinelIsLast
    <3>8. ASSUME jobRow # "canceled", ~dropped'[c]
          PROVE  from[c] <= offset' /\ Lines(g \o r) = (from[c] + 1)..offset'
      <4>1. ~dropped[c] /\ Len(q) + Len(es) <= Capacity
        <5>1. ~dropped[c] /\ ~(Len(q) + Len(es) > Capacity)
          BY <2>3, <3>8, Zenon DEF Publish
        <5> QED
          BY <1>1, <5>1, EventAssumption
      <4>2. from[c] \in Nat /\ from[c] <= offset /\ Lines(g \o q) = (from[c] + 1)..offset
        BY <3>1, <3>8, <4>1, EventAssumption DEF EventsInv, DueIsComplete, Due, TypeOK
      <4>3. Lines(g \o r) = ((from[c] + 1)..offset) \union ((offset + 1)..offset')
        BY <3>2, <3>4, <4>1, <4>2
      <4> QED
        BY <1>1, <4>2, <4>3
    <3> QED
      BY <3>5, <3>6, <3>7, <3>8
  <2> QED
    BY <2>2, <2>3
<1>8. DueInOrder'
  BY <1>7 DEF DueInOrder, Due
<1>9. SentinelIsLast'
  BY <1>6, <1>7 DEF SentinelIsLast, Open
<1>10. DueIsComplete'
  BY <1>6, <1>7 DEF DueIsComplete, Due, Open
<1> QED
  BY <1>4, <1>5, <1>8, <1>9, <1>10

\* The same, and then the sentinel.
LEMMA PublishAndEndKeeps ==
    ASSUME EventsInv, NEW es \in Seq(Items), PublishAndEnd(es),
           LinesOrdered(es), offset' \in offset..MaxLines, Lines(es) = (offset + 1)..offset',
           \A i \in DOMAIN es : es[i] # End,
           UNCHANGED <<stream, got, from>>,
           jobRow' # "canceled" => jobRow # "canceled" /\ runner # "done" /\ runner' = "done"
    PROVE  /\ queue' \in [Viewers -> Seq(Items)] /\ \A c \in Viewers : Len(queue'[c]) <= Capacity
           /\ dropped' \in [Viewers -> BOOLEAN]
           /\ DueInOrder'
           /\ SentinelIsLast'
           /\ DueIsComplete'
<1>1. /\ TypeOK /\ offset \in Nat /\ offset' \in Nat
      /\ \A c \in Viewers : queue[c] \in Seq(Items) /\ Len(queue[c]) <= Capacity
                             /\ Len(queue[c]) \in Nat
  BY EventAssumption DEF EventsInv, TypeOK
<1>2. \A c \in Viewers : /\ c \in Open => queue'[c] = OfferSentinel(OfferAll(queue[c], es))
                         /\ c \notin Open => queue'[c] = queue[c]
  BY DEF PublishAndEnd
<1>3. \A c \in Viewers :
          /\ OfferAll(queue[c], es) \in Seq(Items) /\ Len(OfferAll(queue[c], es)) <= Capacity
          /\ OfferSentinel(OfferAll(queue[c], es)) \in Seq(Items)
          /\ Len(OfferSentinel(OfferAll(queue[c], es))) <= Capacity
  BY <1>1, OfferAllOf, OfferSentinelOf
<1>4. queue' \in [Viewers -> Seq(Items)] /\ \A c \in Viewers : Len(queue'[c]) <= Capacity
  BY <1>1, <1>2, <1>3 DEF PublishAndEnd
<1>5. dropped' \in [Viewers -> BOOLEAN]
  BY DEF PublishAndEnd, EventsInv, TypeOK
<1>6. \A c \in Viewers : jobRow' # "canceled" => stream[c] # "ended"
  BY DEF EventsInv, SentinelIsLast
<1>7. ASSUME NEW c \in Viewers
      PROVE  /\ LinesOrdered(got[c] \o queue'[c])
             /\ Lines(got[c] \o queue'[c]) \subseteq 1..offset'
             /\ c \in Open /\ jobRow' # "canceled" =>
                   \A i \in DOMAIN queue'[c] : queue'[c][i] = End => i = Len(queue'[c])
             /\ c \in Open /\ jobRow' # "canceled" /\ ~dropped'[c] =>
                   from[c] <= offset' /\ Lines(got[c] \o queue'[c]) = (from[c] + 1)..offset'
  <2> DEFINE g == got[c]
  <2> DEFINE q == queue[c]
  <2> DEFINE p == OfferAll(queue[c], es)
  <2> DEFINE r == queue'[c]
  <2>1. LinesOrdered(g \o q) /\ Lines(g \o q) \subseteq 1..offset
    BY DEF EventsInv, DueInOrder, Due
  <2>2. CASE c \notin Open
    BY <1>1, <1>2, <2>1, <2>2
  <2>3. CASE c \in Open
    <3>1. /\ r = OfferSentinel(p) /\ stream[c] = "open" /\ q \in Seq(Items) /\ p \in Seq(Items)
          /\ Len(p) <= Capacity /\ r \in Seq(Items)
      BY <1>1, <1>2, <1>3, <2>3 DEF Open
    <3>2. /\ Lines(g \o q) = Lines(g) \union Lines(q) /\ Lines(g \o r) = Lines(g) \union Lines(r)
          /\ LinesOrdered(g) /\ LinesOrdered(q) /\ \A a \in Lines(g), b \in Lines(q) : a < b
          /\ (LinesOrdered(r) /\ \A a \in Lines(g), b \in Lines(r) : a < b)
                => LinesOrdered(g \o r)
      BY <1>1, <2>1, <3>1, DueLines
    <3>3. \A a \in Lines(g) \union Lines(q), b \in Lines(es) : a < b
      BY <1>1, <2>1, <3>2
    <3>4. /\ Lines(p) \subseteq Lines(q) \union Lines(es) /\ LinesOrdered(p)
          /\ Len(q) + Len(es) < Capacity =>
                Lines(p) = Lines(q) \union Lines(es) /\ Len(p) < Capacity
          /\ (\A i \in DOMAIN q : q[i] # End) => \A i \in DOMAIN p : p[i] # End
      <4>1. Len(q) + Len(es) < Capacity => Len(q) + Len(es) <= Capacity
        BY <1>1, EventAssumption
      <4> QED
        BY <1>1, <3>1, <3>2, <3>3, <4>1, OfferAllOf
    <3> HIDE DEF p
    <3>5. /\ Lines(r) \subseteq Lines(p) /\ LinesOrdered(r)
          /\ Len(p) < Capacity => Lines(r) = Lines(p)
          /\ (\A i \in DOMAIN p : p[i] # End) => \A i \in DOMAIN r : r[i] = End => i = Len(r)
      BY <3>1, <3>4, OfferSentinelOf
    <3>6. LinesOrdered(g \o r)
      BY <3>2, <3>3, <3>4, <3>5
    <3>7. Lines(g \o r) \subseteq 1..offset'
      BY <1>1, <2>1, <3>2, <3>4, <3>5
    <3>8. jobRow' # "canceled" => \A i \in DOMAIN r : r[i] = End => i = Len(r)
      BY <3>1, <3>4, <3>5 DEF EventsInv, SentinelIsLast
    <3>9. ASSUME jobRow' # "canceled", ~dropped'[c]
          PROVE  from[c] <= offset' /\ Lines(g \o r) = (from[c] + 1)..offset'
      <4>1. ~dropped[c] /\ Len(q) + Len(es) < Capacity
        <5>1. ~dropped[c] /\ ~(Len(q) + Len(es) >= Capacity)
          BY <2>3, <3>9, Zenon DEF PublishAndEnd
        <5> QED
          BY <1>1, <5>1, EventAssumption
      <4>2. from[c] \in Nat /\ from[c] <= offset /\ Lines(g \o q) = (from[c] + 1)..offset
        BY <3>1, <3>9, <4>1, EventAssumption DEF EventsInv, DueIsComplete, Due, TypeOK
      <4>3. Lines(g \o r) = ((from[c] + 1)..offset) \union ((offset + 1)..offset')
        BY <3>2, <3>4, <3>5, <4>1, <4>2
      <4> QED
        BY <1>1, <4>2, <4>3
    <3> QED
      BY <3>6, <3>7, <3>8, <3>9
  <2> QED
    BY <2>2, <2>3
<1>8. DueInOrder'
  BY <1>7 DEF DueInOrder, Due
<1>9. SentinelIsLast'
  BY <1>6, <1>7 DEF SentinelIsLast, Open
<1>10. DueIsComplete'
  BY <1>6, <1>7 DEF DueIsComplete, Due, Open
<1> QED
  BY <1>4, <1>5, <1>8, <1>9, <1>10

\* Events that are no lines: a status, or a result and its status.
LEMMA StatusEvents ==
    ASSUME NEW a \in Nat,
           NEW es \in {<<>>, << <<0, "running">> >>, << <<0, "final">> >>,
                       << <<0, "result">>, <<0, "final">> >>}
    PROVE  /\ es \in Seq(Items) /\ LinesOrdered(es) /\ Lines(es) = (a + 1)..a
           /\ \A i \in DOMAIN es : es[i] # End
<1>1. {<<0, "running">>, <<0, "final">>, <<0, "result">>} \subseteq Items
  BY DEF Items, Events
<1>2. es \in Seq(Items)
  <2>1. <<>> \in Seq(Items) /\ \A e, f \in Items : <<e>> \in Seq(Items) /\ <<e, f>> \in Seq(Items)
    OBVIOUS
  <2>2. /\ << <<0, "running">> >> \in Seq(Items) /\ << <<0, "final">> >> \in Seq(Items)
        /\ << <<0, "result">>, <<0, "final">> >> \in Seq(Items)
    BY <1>1, <2>1, Zenon
  <2> QED
    BY <2>1, <2>2, Zenon
<1>3. \A i \in DOMAIN es : es[i] \in {<<0, "running">>, <<0, "final">>, <<0, "result">>}
  OBVIOUS
<1>4. \A i \in DOMAIN es : es[i][2] # "log" /\ es[i] # End
  BY <1>3 DEF End, Sentinel
<1>5. Lines(es) = {} /\ LinesOrdered(es)
  BY <1>4 DEF Lines, LinesOrdered
<1> QED
  BY <1>2, <1>4, <1>5

-----------------------------------------------------------------------------
\* It holds at first ...
LEMMA InitEventsInv == Init => EventsInv
<1> SUFFICES ASSUME Init PROVE EventsInv
  OBVIOUS
<1>1. <<>> \in Seq(Items) /\ <<>> \in Seq(Events) /\ <<>> \o <<>> = <<>> /\ Len(<<>>) = 0
  OBVIOUS
<1>2. TypeOK
  BY <1>1, EventAssumption DEF Init, TypeOK
<1>3. DueInOrder
  BY <1>1, NoLines DEF Init, DueInOrder, Due
<1> QED
  BY <1>2, <1>3 DEF Init, EventsInv, NothingEarly, RowFollowsRunner, SentinelIsLast, DueIsComplete

\* The runner's steps and the cancel handler.
LEMMA RunnerKeepsInv == ASSUME EventsInv, Runner \/ WriteLog \/ TailLog \/ Cancel PROVE EventsInv'
<1>1. TypeOK /\ offset \in Nat /\ written \in Nat /\ offset <= written /\ written <= MaxLines
  BY EventAssumption DEF EventsInv, TypeOK
<1>2. CASE SkipCanceled
  <2> DEFINE es == << <<0, "final">> >>
  <2>1. /\ es \in Seq(Items) /\ LinesOrdered(es) /\ Lines(es) = (offset + 1)..offset
        /\ \A i \in DOMAIN es : es[i] # End
    BY <1>1, StatusEvents
  <2>2. /\ PublishAndEnd(es) /\ runner' = "done" /\ jobRow' = "canceled"
        /\ UNCHANGED <<jobRow, written, offset, stream, got, from>>
    BY <1>2 DEF SkipCanceled
  <2> HIDE DEF es
  <2>3. /\ queue' \in [Viewers -> Seq(Items)] /\ \A c \in Viewers : Len(queue'[c]) <= Capacity
        /\ dropped' \in [Viewers -> BOOLEAN]
        /\ DueInOrder' /\ SentinelIsLast' /\ DueIsComplete'
    <3>1. offset' \in offset..MaxLines /\ Lines(es) = (offset + 1)..offset'
      BY <1>1, <2>1, <2>2, EventAssumption
    <3> QED
      BY <2>1, <2>2, <3>1, PublishAndEndKeeps
  <2>4. TypeOK' /\ NothingEarly' /\ RowFollowsRunner'
    BY <2>2, <2>3 DEF EventsInv, TypeOK, NothingEarly, RowFollowsRunner
  <2> QED
    BY <2>3, <2>4 DEF EventsInv
<1>3. CASE Start
  <2> DEFINE es == << <<0, "running">> >>
  <2>1. /\ es \in Seq(Items) /\ LinesOrdered(es) /\ Lines(es) = (offset + 1)..offset
        /\ \A i \in DOMAIN es : es[i] # End
    BY <1>1, StatusEvents
  <2>2. /\ Publish(es) /\ runner = "scheduled" /\ runner' = "thread"
        /\ UNCHANGED <<jobRow, written, offset, stream, got, from>>
    BY <1>3 DEF Start
  <2> HIDE DEF es
  <2>3. /\ queue' \in [Viewers -> Seq(Items)] /\ \A c \in Viewers : Len(queue'[c]) <= Capacity
        /\ dropped' \in [Viewers -> BOOLEAN]
        /\ DueInOrder' /\ SentinelIsLast' /\ DueIsComplete'
    <3>1. offset' \in offset..MaxLines /\ Lines(es) = (offset + 1)..offset'
      BY <1>1, <2>1, <2>2, EventAssumption
    <3> QED
      BY <2>1, <2>2, <3>1, PublishKeeps
  <2>4. TypeOK' /\ NothingEarly' /\ RowFollowsRunner'
    BY <2>2, <2>3 DEF EventsInv, TypeOK, NothingEarly, RowFollowsRunner
  <2> QED
    BY <2>3, <2>4 DEF EventsInv
<1>4. CASE ThreadEnds
  BY <1>4 DEF ThreadEnds, EventsInv, TypeOK, DueInOrder, NothingEarly, RowFollowsRunner,
              SentinelIsLast, DueIsComplete, Due
<1>5. CASE RecordOutcome
  <2>1. PICK es \in {<< <<0, "final">> >>, << <<0, "result">>, <<0, "final">> >>} : Publish(es)
    BY <1>5 DEF RecordOutcome
  <2>2. /\ es \in Seq(Items) /\ LinesOrdered(es) /\ Lines(es) = (offset + 1)..offset
        /\ \A i \in DOMAIN es : es[i] # End
    BY <1>1, StatusEvents
  <2>3. /\ runner = "returned" /\ runner' = "finishing"
        /\ jobRow' = IF jobRow = "canceled" THEN jobRow ELSE "ended"
        /\ UNCHANGED <<written, offset, stream, got, from>>
    BY <1>5 DEF RecordOutcome
  <2>4. /\ queue' \in [Viewers -> Seq(Items)] /\ \A c \in Viewers : Len(queue'[c]) <= Capacity
        /\ dropped' \in [Viewers -> BOOLEAN]
        /\ DueInOrder' /\ SentinelIsLast' /\ DueIsComplete'
    <3>1. offset' \in offset..MaxLines /\ Lines(es) = (offset + 1)..offset'
      BY <1>1, <2>1, <2>2, <2>3, EventAssumption
    <3> QED
      BY <2>1, <2>2, <2>3, <3>1, PublishKeeps
  <2>5. TypeOK' /\ NothingEarly' /\ RowFollowsRunner'
    BY <2>3, <2>4 DEF EventsInv, TypeOK, NothingEarly, RowFollowsRunner
  <2> QED
    BY <2>4, <2>5 DEF EventsInv
<1>6. CASE FlushAndEnd
  <2> DEFINE es == LogLines(offset, written)
  <2>1. /\ es \in Seq(Items) /\ LinesOrdered(es) /\ Lines(es) = (offset + 1)..written
        /\ \A i \in DOMAIN es : es[i] # End
    <3>1. es \in Seq(Items) /\ Len(es) = written - offset /\ LinesOrdered(es)
          /\ Lines(es) = (offset + 1)..written /\ \A i \in 1..(written - offset) : es[i] # End
      BY <1>1, EventAssumption, LogLinesOf
    <3> QED
      BY <3>1, LenProperties
  <2>2. /\ PublishAndEnd(es) /\ runner = "finishing" /\ runner' = "done" /\ offset' = written
        /\ UNCHANGED <<jobRow, written, stream, got, from>>
    BY <1>6 DEF FlushAndEnd
  <2> HIDE DEF es
  <2>3. /\ queue' \in [Viewers -> Seq(Items)] /\ \A c \in Viewers : Len(queue'[c]) <= Capacity
        /\ dropped' \in [Viewers -> BOOLEAN]
        /\ DueInOrder' /\ SentinelIsLast' /\ DueIsComplete'
    BY <1>1, <2>1, <2>2, EventAssumption, PublishAndEndKeeps
  <2>4. TypeOK' /\ NothingEarly' /\ RowFollowsRunner'
    BY <1>1, <2>2, <2>3 DEF EventsInv, TypeOK, NothingEarly, RowFollowsRunner
  <2> QED
    BY <2>3, <2>4 DEF EventsInv
<1>7. CASE WriteLog
  <2>1. TypeOK'
    BY <1>1, <1>7, EventAssumption DEF WriteLog, TypeOK
  <2> QED
    BY <1>7, <2>1 DEF WriteLog, EventsInv, DueInOrder, NothingEarly, RowFollowsRunner,
                      SentinelIsLast, DueIsComplete, Due
<1>8. CASE TailLog
  <2> DEFINE es == LogLines(offset, written)
  <2>1. /\ es \in Seq(Items) /\ LinesOrdered(es) /\ Lines(es) = (offset + 1)..written
        /\ \A i \in DOMAIN es : es[i] # End
    <3>1. es \in Seq(Items) /\ Len(es) = written - offset /\ LinesOrdered(es)
          /\ Lines(es) = (offset + 1)..written /\ \A i \in 1..(written - offset) : es[i] # End
      BY <1>1, EventAssumption, LogLinesOf
    <3> QED
      BY <3>1, LenProperties
  <2>2. /\ Publish(es) /\ runner \in {"thread", "returned"} /\ offset' = written
        /\ UNCHANGED <<jobRow, runner, written, stream, got, from>>
    BY <1>8 DEF TailLog
  <2> HIDE DEF es
  <2>3. /\ queue' \in [Viewers -> Seq(Items)] /\ \A c \in Viewers : Len(queue'[c]) <= Capacity
        /\ dropped' \in [Viewers -> BOOLEAN]
        /\ DueInOrder' /\ SentinelIsLast' /\ DueIsComplete'
    BY <1>1, <2>1, <2>2, EventAssumption, PublishKeeps
  <2>4. TypeOK' /\ NothingEarly' /\ RowFollowsRunner'
    BY <1>1, <2>2, <2>3 DEF EventsInv, TypeOK, NothingEarly, RowFollowsRunner
  <2> QED
    BY <2>3, <2>4 DEF EventsInv
<1>9. CASE Cancel
  <2> DEFINE es == <<>>
  <2>1. /\ es \in Seq(Items) /\ LinesOrdered(es) /\ Lines(es) = (offset + 1)..offset
        /\ \A i \in DOMAIN es : es[i] # End
    BY <1>1, StatusEvents
  <2>2. /\ PublishAndEnd(es) /\ jobRow' = "canceled"
        /\ UNCHANGED <<runner, written, offset, stream, got, from>>
    BY <1>9 DEF Cancel
  <2> HIDE DEF es
  <2>3. /\ queue' \in [Viewers -> Seq(Items)] /\ \A c \in Viewers : Len(queue'[c]) <= Capacity
        /\ dropped' \in [Viewers -> BOOLEAN]
        /\ DueInOrder' /\ SentinelIsLast' /\ DueIsComplete'
    <3>1. offset' \in offset..MaxLines /\ Lines(es) = (offset + 1)..offset'
      BY <1>1, <2>1, <2>2, EventAssumption
    <3> QED
      BY <2>1, <2>2, <3>1, PublishAndEndKeeps
  <2>4. TypeOK' /\ NothingEarly' /\ RowFollowsRunner'
    BY <2>2, <2>3 DEF EventsInv, TypeOK, NothingEarly, RowFollowsRunner
  <2> QED
    BY <2>3, <2>4 DEF EventsInv
<1> QED
  BY <1>2, <1>3, <1>4, <1>5, <1>6, <1>7, <1>8, <1>9 DEF Runner

\* A client's step concerns that client alone.
LEMMA OneClient ==
    ASSUME EventsInv, NEW c \in Viewers,
           UNCHANGED <<jobRow, runner, written, offset, dropped>>, TypeOK',
           \A d \in Viewers \ {c} : /\ stream'[d] = stream[d] /\ queue'[d] = queue[d]
                                   /\ got'[d] = got[d] /\ from'[d] = from[d],
           LinesOrdered(got'[c] \o queue'[c]), Lines(got'[c] \o queue'[c]) \subseteq 1..offset,
           stream'[c] \in {"none", "accepted"} => got'[c] = <<>>,
           jobRow # "canceled" /\ stream'[c] = "open" =>
               \A i \in DOMAIN queue'[c] :
                   queue'[c][i] = End => runner = "done" /\ i = Len(queue'[c]),
           jobRow # "canceled" /\ stream'[c] = "ended" => runner = "done" /\ queue'[c] = <<>>,
           jobRow # "canceled" /\ stream'[c] \in {"open", "ended"} /\ ~dropped[c] =>
               from'[c] <= offset /\ Lines(got'[c] \o queue'[c]) = (from'[c] + 1)..offset
    PROVE  EventsInv'
<1>1. DueInOrder'
  BY DEF EventsInv, DueInOrder, Due
<1>2. NothingEarly' /\ RowFollowsRunner'
  BY DEF EventsInv, NothingEarly, RowFollowsRunner
<1>3. SentinelIsLast'
  BY DEF EventsInv, SentinelIsLast
<1>4. DueIsComplete'
  BY DEF EventsInv, DueIsComplete, Due
<1> QED
  BY <1>1, <1>2, <1>3, <1>4 DEF EventsInv

\* A step of a client keeps it.
LEMMA ClientKeepsInv ==
    ASSUME EventsInv, NEW c \in Viewers, Accept(c) \/ Subscribe(c) \/ Consume(c) \/ Disconnect(c)
    PROVE  EventsInv'
<1> DEFINE g == got[c]
<1> DEFINE q == queue[c]
<1>1. /\ TypeOK /\ q \in Seq(Items) /\ g \in Seq(Events) /\ g \in Seq(Items)
      /\ offset \in Nat /\ <<>> \in Seq(Items) /\ <<>> \in Seq(Events) /\ Len(<<>>) = 0
      /\ Capacity \in Nat
  <2>1. g \in Seq(Events) /\ Events \subseteq Items
    BY DEF EventsInv, TypeOK, Items
  <2>2. g \in Seq(Items)
    BY <2>1, SeqMonotonic
  <2>3. Capacity \in Nat
    BY EventAssumption
  <2> QED
    BY <2>1, <2>2, <2>3 DEF EventsInv, TypeOK
<1>2. /\ LinesOrdered(g \o q) /\ Lines(g \o q) \subseteq 1..offset
      /\ Lines(g \o q) = Lines(g) \union Lines(q)
      /\ LinesOrdered(g) /\ g \o <<>> = g
  BY <1>1, DueLines, ConcatEmptySeq DEF EventsInv, DueInOrder, Due
<1>3. CASE Accept(c)
  <2>1. /\ stream' = [stream EXCEPT ![c] = "accepted"]
        /\ UNCHANGED <<jobRow, runner, written, offset, queue, got, dropped, from>>
        /\ stream[c] = "none"
    BY <1>3 DEF Accept
  <2>2. TypeOK' /\ stream'[c] = "accepted" /\ \A d \in Viewers \ {c} : stream'[d] = stream[d]
    BY <1>1, <2>1 DEF TypeOK
  <2>3. got[c] = <<>>
    BY <2>1 DEF EventsInv, NothingEarly
  <2> QED
    BY <1>2, <2>1, <2>2, <2>3, OneClient
<1>4. CASE Subscribe(c)
  <2>1. /\ stream' = [stream EXCEPT ![c] = "open"]
        /\ queue' = [queue EXCEPT ![c] = <<>>]
        /\ from' = [from EXCEPT ![c] = offset]
        /\ UNCHANGED <<jobRow, runner, written, offset, got, dropped>>
        /\ stream[c] = "accepted"
    BY <1>4 DEF Subscribe
  <2>2. /\ stream'[c] = "open" /\ queue'[c] = <<>> /\ from'[c] = offset
        /\ \A d \in Viewers \ {c} :
              stream'[d] = stream[d] /\ queue'[d] = queue[d] /\ from'[d] = from[d]
    BY <1>1, <2>1 DEF TypeOK
  <2>3. TypeOK'
    BY <1>1, <2>1, <2>2, EventAssumption DEF TypeOK
  <2>4. got'[c] = <<>>
    BY <2>1 DEF EventsInv, NothingEarly
  <2>5. /\ LinesOrdered(got'[c] \o queue'[c]) /\ Lines(got'[c] \o queue'[c]) = {}
        /\ (offset + 1)..offset = {}
    <3>1. got'[c] \o queue'[c] = <<>>
      BY <1>1, <2>2, <2>4, ConcatEmptySeq
    <3> QED
      BY <1>1, <3>1, NoLines
  <2>6. \A d \in Viewers \ {c} : /\ stream'[d] = stream[d] /\ queue'[d] = queue[d]
                                /\ got'[d] = got[d] /\ from'[d] = from[d]
    BY <2>1, <2>2
  <2>7. from'[c] <= offset
    BY <1>1, <2>2
  <2>8. DOMAIN queue'[c] = {}
    BY <2>2
  <2> QED
    BY <2>1, <2>2, <2>3, <2>4, <2>5, <2>6, <2>7, <2>8, OneClient
<1>5. CASE Disconnect(c)
  <2>1. /\ stream' = [stream EXCEPT ![c] = "gone"]
        /\ queue' = [queue EXCEPT ![c] = <<>>]
        /\ UNCHANGED <<jobRow, runner, written, offset, got, dropped, from>>
    BY <1>5 DEF Disconnect
  <2>2. /\ stream'[c] = "gone" /\ queue'[c] = <<>>
        /\ \A d \in Viewers \ {c} : stream'[d] = stream[d] /\ queue'[d] = queue[d]
    BY <1>1, <2>1 DEF TypeOK
  <2>3. TypeOK'
    BY <1>1, <2>1, <2>2 DEF TypeOK
  <2> QED
    BY <1>2, <2>1, <2>2, <2>3, OneClient
<1>6. CASE Consume(c) /\ Head(q) = End
  <2>1. /\ stream' = [stream EXCEPT ![c] = "ended"]
        /\ queue' = [queue EXCEPT ![c] = <<>>]
        /\ UNCHANGED <<jobRow, runner, written, offset, got, dropped, from>>
        /\ stream[c] = "open" /\ q # <<>>
    BY <1>6 DEF Consume, End
  <2>2. /\ stream'[c] = "ended" /\ queue'[c] = <<>>
        /\ \A d \in Viewers \ {c} : stream'[d] = stream[d] /\ queue'[d] = queue[d]
    BY <1>1, <2>1 DEF TypeOK
  <2>3. TypeOK'
    BY <1>1, <2>1, <2>2 DEF TypeOK
  <2>4. 1 \in DOMAIN q /\ q[1] = End /\ DOMAIN q = 1..Len(q)
    BY <1>1, <1>6, <2>1, HeadAndTail
  <2>5. jobRow # "canceled" => runner = "done" /\ 1 = Len(q)
    BY <2>1, <2>4 DEF EventsInv, SentinelIsLast
  <2>6. jobRow # "canceled" => Lines(q) = {}
    <3>1. End[2] # "log"
      BY DEF End, Sentinel
    <3>2. jobRow # "canceled" => \A i \in DOMAIN q : q[i] = End
      BY <2>4, <2>5
    <3> QED
      BY <3>1, <3>2 DEF Lines
  <2>7. jobRow # "canceled" /\ ~dropped[c] =>
            from[c] <= offset /\ Lines(g) = (from[c] + 1)..offset
    BY <1>2, <2>1, <2>6 DEF EventsInv, DueIsComplete, Due
  <2> QED
    BY <1>2, <2>1, <2>2, <2>3, <2>5, <2>7, OneClient
<1>7. CASE Consume(c) /\ Head(q) # End
  <2>1. /\ queue' = [queue EXCEPT ![c] = Tail(q)]
        /\ got' = [got EXCEPT ![c] = Append(g, Head(q))]
        /\ UNCHANGED <<jobRow, runner, written, offset, stream, dropped, from>>
        /\ stream[c] = "open" /\ q # <<>>
    BY <1>7 DEF Consume, End
  <2>2. /\ Head(q) \in Items /\ Tail(q) \in Seq(Items) /\ Len(Tail(q)) = Len(q) - 1
        /\ Len(q) \in Nat \ {0} /\ q = <<Head(q)>> \o Tail(q)
        /\ \A i \in 1..Len(Tail(q)) : Tail(q)[i] = q[i + 1]
    BY <1>1, <2>1, HeadAndTail
  <2>3. Head(q) \in Events
    BY <1>7, <2>2 DEF Items, End
  <2>4. Append(g, Head(q)) \in Seq(Events) /\ Append(g, Head(q)) = g \o <<Head(q)>>
    BY <1>1, <2>3, AppendProperties, AppendIsConcat
  <2>5. /\ queue'[c] = Tail(q) /\ got'[c] = g \o <<Head(q)>>
        /\ \A d \in Viewers \ {c} : queue'[d] = queue[d] /\ got'[d] = got[d]
    BY <1>1, <2>1, <2>4 DEF TypeOK
  <2>6. TypeOK'
    <3>1. Len(Tail(q)) <= Capacity
      BY <1>1, <2>2 DEF TypeOK
    <3>2. queue' \in [Viewers -> Seq(Items)] /\ \A d \in Viewers : Len(queue'[d]) <= Capacity
      BY <1>1, <2>1, <2>2, <2>5, <3>1 DEF TypeOK
    <3>3. got' \in [Viewers -> Seq(Events)]
      BY <1>1, <2>1, <2>4 DEF TypeOK
    <3> QED
      BY <1>1, <2>1, <3>2, <3>3 DEF TypeOK
  <2>7. got'[c] \o queue'[c] = g \o q
    <3> DEFINE h == <<Head(q)>>
    <3> DEFINE t == Tail(q)
    <3>1. h \in Seq(Items) /\ t \in Seq(Items) /\ q = h \o t
          /\ got'[c] \o queue'[c] = (g \o h) \o t
      BY <2>2, <2>5
    <3> HIDE DEF g, q, h, t
    <3>2. (g \o h) \o t = g \o (h \o t)
      BY <1>1, <3>1, ConcatAssociative
    <3> QED
      BY <3>1, <3>2
  <2>8. jobRow # "canceled" =>
            \A i \in DOMAIN Tail(q) : Tail(q)[i] = End => runner = "done" /\ i = Len(Tail(q))
    <3>1. DOMAIN Tail(q) = 1..Len(Tail(q)) /\ DOMAIN q = 1..Len(q)
      BY <1>1, <2>2, LenProperties
    <3>2. \A i \in DOMAIN Tail(q) : i + 1 \in DOMAIN q /\ Tail(q)[i] = q[i + 1]
                                     /\ (i + 1 = Len(q) => i = Len(Tail(q)))
      BY <2>2, <3>1
    <3> QED
      BY <2>1, <3>2 DEF EventsInv, SentinelIsLast
  <2>9. jobRow # "canceled" /\ ~dropped[c] =>
            from[c] <= offset /\ Lines(g \o q) = (from[c] + 1)..offset
    BY <2>1 DEF EventsInv, DueIsComplete, Due
  <2> QED
    BY <1>2, <2>1, <2>5, <2>6, <2>7, <2>8, <2>9, OneClient
<1> QED
  BY <1>3, <1>4, <1>5, <1>6, <1>7

\* ... and every step keeps it ...
LEMMA NextEventsInv == EventsInv /\ [Next]_vars => EventsInv'
<1> SUFFICES ASSUME EventsInv, [Next]_vars PROVE EventsInv'
  OBVIOUS
<1>1. CASE Runner \/ WriteLog \/ TailLog \/ Cancel
  BY <1>1, RunnerKeepsInv
<1>2. CASE \E c \in Viewers : Accept(c) \/ Subscribe(c) \/ Consume(c) \/ Disconnect(c)
  BY <1>2, ClientKeepsInv
<1>3. CASE UNCHANGED vars
  BY <1>3 DEF vars, EventsInv, TypeOK, DueInOrder, NothingEarly, RowFollowsRunner,
              SentinelIsLast, DueIsComplete, Due
<1> QED
  BY <1>1, <1>2, <1>3 DEF Next

\* ... so it holds at any time.
LEMMA EventsInvHolds == Spec => []EventsInv
  BY InitEventsInv, NextEventsInv, PTL DEF Spec

-----------------------------------------------------------------------------
\* No queue grows past its capacity, whatever is published, and the tail is
\* never past the end of the file.
THEOREM QueuesAreBounded == Spec => []TypeOK
<1>1. EventsInv => TypeOK
  BY DEF EventsInv
<1> QED
  BY <1>1, EventsInvHolds, PTL

\* The tail and the flush read the same file, and a client may join at any
\* moment, fall behind and lose events: still no line reaches it twice or
\* after a later one.
THEOREM LinesReachClientsInOrder == Spec => []LogInOrder
<1>1. EventsInv => LogInOrder
  BY DEF EventsInv, DueInOrder, LogInOrder, Due
<1> QED
  BY <1>1, EventsInvHolds, PTL

\* A stream the runner ended, whose queue never overflowed, carried every
\* line from the one the client joined at to the last of the build.
THEOREM StreamsAreComplete == Spec => []CompleteStream
<1>1. ASSUME EventsInv PROVE CompleteStream
  <2> SUFFICES ASSUME NEW c \in Viewers, stream[c] = "ended", jobRow = "ended", ~dropped[c]
               PROVE  LinesOrdered(got[c]) /\ Lines(got[c]) = (from[c] + 1)..written
    BY DEF CompleteStream
  <2>1. got[c] \in Seq(Events)
    BY <1>1 DEF EventsInv, TypeOK
  <2>2. runner = "done" /\ queue[c] = <<>> /\ offset = written
    BY <1>1 DEF EventsInv, SentinelIsLast, RowFollowsRunner
  <2>3. got[c] \o queue[c] = got[c]
    BY <2>1, <2>2, ConcatEmptySeq
  <2> QED
    BY <1>1, <2>2, <2>3 DEF EventsInv, DueInOrder, DueIsComplete, Due
<1> QED
  BY <1>1, EventsInvHolds, PTL

=============================================================================
