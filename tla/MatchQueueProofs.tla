-------------------------- MODULE MatchQueueProofs ---------------------------
(***************************************************************************)
(* Proofs about MatchQueue, for any players, games, group sizes and number *)
(* of requests: no request is lost or served twice, nobody is overtaken,   *)
(* groups fit their game, a tick leaves no full group behind, and all of   *)
(* this together is MatchService.                                          *)
(***************************************************************************)
EXTENDS MatchQueue, FiniteSetTheorems, SequenceTheorems, TLAPS

\* A queue is in order of arrival: no entry is ahead of an older one, and as tickets are
\* numbered from 1, none is farther back than its number.
InOrder(q) ==
    \A k \in DOMAIN q :
        /\ k <= q[k].ticket
        /\ \A l \in DOMAIN q : k < l => q[k].ticket < q[l].ticket

OrderInv ==
    /\ \A g \in Names : InOrder(Waiting(g))
    /\ \A i \in DOMAIN matches : InOrder(matches[i].group)
    /\ NoOvertaking

\* Every ticket is somewhere, ...
CoverInv == 1..issued = cancelled \cup MatchedTickets \cup WaitingTickets

\* ... and in one place only.
OnePlaceInv ==
    /\ cancelled \cap MatchedTickets = {}
    /\ \A g \in Names :
          /\ Tickets(Waiting(g)) \cap (cancelled \cup MatchedTickets) = {}
          /\ \A h \in Names \ {g} : Tickets(Waiting(g)) \cap Tickets(Waiting(h)) = {}
    /\ \A i, j \in DOMAIN matches :
          i # j => Tickets(matches[i].group) \cap Tickets(matches[j].group) = {}

\* The games tryMatch is done with have no full group left.
DrainInv ==
    busy => \A g \in Games : g \in todo \/ g = current \/ Len(queues[g]) < MinPlayers[g]

IInv == TypeOK /\ OrderInv /\ CoverInv /\ OnePlaceInv /\ GroupFits /\ DrainInv

-----------------------------------------------------------------------------
(* Queues and their tickets.                                               *)

LEMMA TicketsAre ==
  ASSUME NEW q \in Seq(Entry)
  PROVE  /\ DOMAIN q = 1..Len(q) /\ Len(q) \in Nat
         /\ \A k \in 1..Len(q) : q[k] \in Entry /\ q[k].ticket \in 1..MaxTickets
         /\ Tickets(q) = {q[k].ticket : k \in 1..Len(q)}
         /\ Tickets(q) \subseteq 1..MaxTickets
<1>1. DOMAIN q = 1..Len(q) /\ Len(q) \in Nat
  BY LenProperties
<1>2. \A k \in 1..Len(q) : q[k] \in Entry /\ q[k].ticket \in 1..MaxTickets
  <2>1. \A k \in 1..Len(q) : q[k] \in Entry
    BY ElementOfSeq
  <2> QED
    BY ONLY <2>1 DEF Entry
<1> QED
  BY <1>1, <1>2 DEF Tickets

\* An entry with a new highest ticket goes to the end.
LEMMA AppendInOrder ==
  ASSUME NEW q \in Seq(Entry), InOrder(q), NEW e \in Entry,
         \A t \in Tickets(q) : t < e.ticket
  PROVE  /\ Append(q, e) \in Seq(Entry)
         /\ InOrder(Append(q, e))
         /\ Tickets(Append(q, e)) = Tickets(q) \cup {e.ticket}
         /\ Range(Append(q, e)) = Range(q) \cup {e}
<1> DEFINE a == Append(q, e)
<1> HIDE DEF a
<1>1. a \in Seq(Entry) /\ Len(a) = Len(q) + 1 /\ a[Len(q) + 1] = e
      /\ \A k \in 1..Len(q) : a[k] = q[k]
  BY AppendProperties DEF a
<1>2. /\ Len(q) \in Nat /\ DOMAIN q = 1..Len(q)
      /\ DOMAIN a = 1..(Len(q) + 1)
      /\ e.ticket \in Nat /\ \A k \in 1..Len(q) : q[k].ticket \in Nat
  <2>1. a \in Seq(Entry) => DOMAIN a = 1..Len(a)
    BY LenProperties
  <2>2. e.ticket \in Nat
    BY DEF Entry
  <2> QED
    BY <1>1, <2>1, <2>2, TicketsAre
<1>3. \A k \in 1..Len(q) : k <= q[k].ticket /\ q[k].ticket < e.ticket
  BY <1>2 DEF InOrder, Tickets
<1>4. Len(q) + 1 <= e.ticket
  <2>1. CASE Len(q) = 0
    <3>1. e.ticket \in 1..MaxTickets
      BY DEF Entry
    <3> QED
      BY <2>1, <3>1, TicketsAssumption
  <2>2. CASE Len(q) > 0
    BY <1>2, <1>3, <2>2
  <2> QED
    BY <1>2, <2>1, <2>2
<1>5. InOrder(a)
  BY <1>1, <1>2, <1>3, <1>4 DEF InOrder
<1>6. Tickets(a) = Tickets(q) \cup {e.ticket}
  <2>1. ASSUME NEW t \in Tickets(a) PROVE t \in Tickets(q) \cup {e.ticket}
    BY <1>1, <1>2 DEF Tickets
  <2>2. ASSUME NEW t \in Tickets(q) \cup {e.ticket} PROVE t \in Tickets(a)
    BY <1>1, <1>2 DEF Tickets
  <2> QED
    BY <2>1, <2>2
<1>7. Range(a) = Range(q) \cup {e}
  <2>1. ASSUME NEW x \in Range(a) PROVE x \in Range(q) \cup {e}
    BY <1>1, <1>2 DEF Range
  <2>2. ASSUME NEW x \in Range(q) \cup {e} PROVE x \in Range(a)
    BY <1>1, <1>2 DEF Range
  <2> QED
    BY <2>1, <2>2
<1> QED
  BY <1>1, <1>5, <1>6, <1>7 DEF a

\* match.cancel takes one entry out and closes the gap.
LEMMA WithoutInOrder ==
  ASSUME NEW q \in Seq(Entry), InOrder(q), NEW i \in 1..Len(q)
  PROVE  /\ Without(q, i) \in Seq(Entry)
         /\ InOrder(Without(q, i))
         /\ Tickets(Without(q, i)) = Tickets(q) \ {q[i].ticket}
         /\ Range(Without(q, i)) = Range(q) \ {q[i]}
<1> DEFINE a == SubSeq(q, 1, i - 1)
           b == SubSeq(q, i + 1, Len(q))
           w == Without(q, i)
<1> HIDE DEF a, b, w
<1>1. /\ Len(q) \in Nat /\ DOMAIN q = 1..Len(q) /\ i \in Nat /\ 1 <= i /\ i <= Len(q)
      /\ \A k \in 1..Len(q) : q[k] \in Entry /\ q[k].ticket \in Nat
  BY TicketsAre
<1>2. a \in Seq(Entry) /\ Len(a) = i - 1 /\ \A k \in 1..(i - 1) : a[k] = q[k]
  <2>1. \A k \in 1..(i - 1) : q[k] \in Entry
    BY <1>1
  <2>2. /\ a \in Seq(Entry) /\ Len(a) = IF 1 <= i - 1 THEN i - 1 - 1 + 1 ELSE 0
        /\ \A k \in 1..(i - 1 - 1 + 1) : a[k] = q[1 + k - 1]
    BY <1>1, <2>1, SubSeqProperties DEF a
  <2> QED
    BY <1>1, <2>2
<1>3. b \in Seq(Entry) /\ Len(b) = Len(q) - i /\ \A k \in 1..(Len(q) - i) : b[k] = q[i + k]
  <2>1. \A k \in (i + 1)..Len(q) : q[k] \in Entry
    BY <1>1
  <2>2. b \in Seq(Entry) /\ Len(b) = IF i + 1 <= Len(q) THEN Len(q) - (i + 1) + 1 ELSE 0
    BY <1>1, <2>1, SubSeqProperties DEF b
  <2>3. \A k \in 1..(Len(q) - (i + 1) + 1) : b[k] = q[i + 1 + k - 1]
    BY <1>1, <2>1, SubSeqProperties DEF b
  <2>4. Len(q) \in Nat /\ i \in Nat /\ i <= Len(q)
    BY <1>1
  <2>5. Len(b) = Len(q) - i
    BY ONLY <2>2, <2>4
  <2>6. ASSUME NEW k \in 1..(Len(q) - i) PROVE b[k] = q[i + k]
    <3>1. k \in 1..(Len(q) - (i + 1) + 1) /\ i + 1 + k - 1 = i + k
      BY <2>4
    <3> QED
      BY <2>3, <3>1
  <2> QED
    BY <2>2, <2>5, <2>6
<1>4. /\ w \in Seq(Entry) /\ Len(w) = Len(q) - 1
      /\ \A k \in 1..(Len(q) - 1) : w[k] = IF k < i THEN q[k] ELSE q[k + 1]
  <2>1. w = a \o b
    BY DEF a, b, w, Without
  <2>2. /\ w \in Seq(Entry) /\ Len(w) = Len(a) + Len(b)
        /\ \A k \in 1..(Len(a) + Len(b)) : w[k] = IF k <= Len(a) THEN a[k] ELSE b[k - Len(a)]
    BY <1>2, <1>3, <2>1, ConcatProperties
  <2>3. Len(a) + Len(b) = Len(q) - 1
    BY <1>1, <1>2, <1>3
  <2>4. ASSUME NEW k \in 1..(Len(q) - 1) PROVE w[k] = IF k < i THEN q[k] ELSE q[k + 1]
    <3>1. CASE k < i
      BY <1>1, <1>2, <2>2, <2>3, <3>1
    <3>2. CASE ~(k < i)
      <4>1. k - (i - 1) \in 1..(Len(q) - i) /\ i + (k - (i - 1)) = k + 1
        BY <1>1, <3>2
      <4>2. w[k] = b[k - (i - 1)]
        <5>1. ~(k <= i - 1) /\ Len(a) = i - 1 /\ k \in 1..(Len(a) + Len(b))
          BY <1>1, <1>2, <2>3, <3>2
        <5> QED
          BY <2>2, <5>1
      <4> QED
        BY <1>3, <3>2, <4>1, <4>2
    <3> QED
      BY <3>1, <3>2
  <2> QED
    BY <2>2, <2>3, <2>4
<1>5. DOMAIN w = 1..(Len(q) - 1)
  BY <1>4, LenProperties
<1>6. InOrder(w)
  <2>1. ASSUME NEW k \in 1..(Len(q) - 1) PROVE k <= w[k].ticket
    <3>1. k \in 1..Len(q) /\ k + 1 \in 1..Len(q) /\ w[k] \in {q[k], q[k + 1]}
      BY <1>1, <1>4
    <3>2. k <= q[k].ticket /\ k + 1 <= q[k + 1].ticket
      BY <1>1, <3>1 DEF InOrder
    <3> QED
      BY <1>1, <3>1, <3>2
  <2>2. ASSUME NEW k \in 1..(Len(q) - 1), NEW l \in 1..(Len(q) - 1), k < l
        PROVE  w[k].ticket < w[l].ticket
    <3>1. PICK m \in 1..Len(q), n \in 1..Len(q) : w[k] = q[m] /\ w[l] = q[n] /\ m < n
      <4>1. k \in 1..Len(q) /\ l \in 1..Len(q) /\ k + 1 \in 1..Len(q) /\ l + 1 \in 1..Len(q)
        BY <1>1
      <4>2. CASE l < i
        BY <1>1, <1>4, <2>2, <4>1, <4>2
      <4>3. CASE k < i /\ ~(l < i)
        BY <1>1, <1>4, <2>2, <4>1, <4>3
      <4>4. CASE ~(k < i)
        BY <1>1, <1>4, <2>2, <4>1, <4>4
      <4> QED
        BY <1>1, <4>2, <4>3, <4>4
    <3> QED
      BY <1>1, <3>1 DEF InOrder
  <2> QED
    BY <1>5, <2>1, <2>2 DEF InOrder
<1>7. Tickets(w) = Tickets(q) \ {q[i].ticket}
  <2>1. ASSUME NEW t \in Tickets(w) PROVE t \in Tickets(q) \ {q[i].ticket}
    <3>1. PICK k \in 1..(Len(q) - 1) : t = w[k].ticket
      BY <1>5 DEF Tickets
    <3>2. PICK l \in 1..Len(q) : l # i /\ t = q[l].ticket
      <4>1. CASE k < i
        BY <1>1, <1>4, <3>1, <4>1
      <4>2. CASE ~(k < i)
        <5>1. k + 1 \in 1..Len(q) /\ k + 1 # i
          BY <1>1, <4>2
        <5> QED
          BY <1>4, <3>1, <4>2, <5>1
      <4> QED
        BY <4>1, <4>2
    <3> QED
      <4>1. t \in Tickets(q)
        BY <1>1, <3>2 DEF Tickets
      <4>2. t # q[i].ticket
        <5>1. CASE l < i
          BY <1>1, <3>2, <5>1 DEF InOrder
        <5>2. CASE i < l
          BY <1>1, <3>2, <5>2 DEF InOrder
        <5> QED
          BY <3>2, <5>1, <5>2
      <4> QED
        BY <4>1, <4>2
  <2>2. ASSUME NEW t \in Tickets(q) \ {q[i].ticket} PROVE t \in Tickets(w)
    <3>1. PICK l \in 1..Len(q) : l # i /\ t = q[l].ticket
      BY <1>1 DEF Tickets
    <3>2. PICK k \in 1..(Len(q) - 1) : l = IF k < i THEN k ELSE k + 1
      <4>1. CASE l < i
        BY <1>1, <4>1
      <4>2. CASE l > i
        <5>1. l - 1 \in 1..(Len(q) - 1) /\ ~(l - 1 < i) /\ l - 1 + 1 = l
          BY <1>1, <4>2
        <5> QED
          BY <5>1
      <4> QED
        BY <1>1, <3>1, <4>1, <4>2
    <3>3. w[k].ticket = t
      BY <1>4, <3>1, <3>2
    <3> QED
      BY <1>5, <3>3 DEF Tickets
  <2> QED
    BY <2>1, <2>2
<1>8. Range(w) = Range(q) \ {q[i]}
  <2>1. ASSUME NEW x \in Range(w) PROVE x \in Range(q) \ {q[i]}
    <3>1. PICK k \in 1..(Len(q) - 1) : x = w[k]
      BY <1>5 DEF Range
    <3>2. x \in Range(q)
      <4>1. k \in 1..Len(q) /\ k + 1 \in 1..Len(q) /\ x \in {q[k], q[k + 1]}
        BY <1>1, <1>4, <3>1
      <4> QED
        BY <1>1, <4>1 DEF Range
    <3>3. x.ticket \in Tickets(w)
      BY <1>5, <3>1 DEF Tickets
    <3> QED
      BY <1>7, <3>2, <3>3
  <2>2. ASSUME NEW x \in Range(q) \ {q[i]} PROVE x \in Range(w)
    <3>1. PICK l \in 1..Len(q) : l # i /\ x = q[l]
      BY <1>1 DEF Range
    <3>2. CASE l < i
      <4>1. l \in 1..(Len(q) - 1) /\ w[l] = x
        BY <1>1, <1>4, <3>1, <3>2
      <4> QED
        BY <1>5, <4>1 DEF Range
    <3>3. CASE ~(l < i)
      <4>1. l - 1 \in 1..(Len(q) - 1) /\ ~(l - 1 < i) /\ l - 1 + 1 = l
        BY <1>1, <3>1, <3>3
      <4>2. w[l - 1] = x
        BY <1>4, <3>1, <4>1
      <4> QED
        BY <1>5, <4>1, <4>2 DEF Range
    <3> QED
      BY <3>2, <3>3
  <2> QED
    BY <2>1, <2>2
<1> QED
  BY <1>4, <1>6, <1>7, <1>8 DEF w

\* tryMatch cuts a queue in two: what is cut off comes before what is left.
LEMMA CutInOrder ==
  ASSUME NEW q \in Seq(Entry), InOrder(q), NEW n \in 0..Len(q)
  PROVE  LET a == SubSeq(q, 1, n)
             b == SubSeq(q, n + 1, Len(q))
         IN  /\ a \in Seq(Entry) /\ b \in Seq(Entry)
             /\ Len(a) = n
             /\ InOrder(a) /\ InOrder(b)
             /\ Tickets(a) \cup Tickets(b) = Tickets(q)
             /\ \A s \in Tickets(a), t \in Tickets(b) : s < t
             /\ Range(a) \cup Range(b) = Range(q)
<1> DEFINE a == SubSeq(q, 1, n)
           b == SubSeq(q, n + 1, Len(q))
<1> HIDE DEF a, b
<1>1. /\ Len(q) \in Nat /\ DOMAIN q = 1..Len(q) /\ n \in Nat /\ n <= Len(q)
      /\ \A k \in 1..Len(q) : q[k] \in Entry /\ q[k].ticket \in Nat
  BY TicketsAre
<1>2. a \in Seq(Entry) /\ Len(a) = n /\ \A k \in 1..n : a[k] = q[k]
  <2>1. \A k \in 1..n : q[k] \in Entry
    BY <1>1
  <2>2. /\ a \in Seq(Entry) /\ Len(a) = IF 1 <= n THEN n - 1 + 1 ELSE 0
        /\ \A k \in 1..(n - 1 + 1) : a[k] = q[1 + k - 1]
    BY <1>1, <2>1, SubSeqProperties DEF a
  <2> QED
    BY <1>1, <2>2
<1>3. b \in Seq(Entry) /\ Len(b) = Len(q) - n /\ \A k \in 1..(Len(q) - n) : b[k] = q[n + k]
  <2>1. \A k \in (n + 1)..Len(q) : q[k] \in Entry
    BY <1>1
  <2>2. b \in Seq(Entry) /\ Len(b) = IF n + 1 <= Len(q) THEN Len(q) - (n + 1) + 1 ELSE 0
    BY <1>1, <2>1, SubSeqProperties DEF b
  <2>3. \A k \in 1..(Len(q) - (n + 1) + 1) : b[k] = q[n + 1 + k - 1]
    BY <1>1, <2>1, SubSeqProperties DEF b
  <2>4. Len(q) \in Nat /\ n \in Nat /\ n <= Len(q)
    BY <1>1
  <2>5. Len(b) = Len(q) - n
    BY ONLY <2>2, <2>4
  <2>6. ASSUME NEW k \in 1..(Len(q) - n) PROVE b[k] = q[n + k]
    <3>1. k \in 1..(Len(q) - (n + 1) + 1) /\ n + 1 + k - 1 = n + k
      BY <2>4
    <3> QED
      BY <2>3, <3>1
  <2> QED
    BY <2>2, <2>5, <2>6
<1>4. DOMAIN a = 1..n /\ DOMAIN b = 1..(Len(q) - n)
  BY <1>2, <1>3, LenProperties
<1>5. InOrder(a) /\ InOrder(b)
  <2>1. InOrder(a)
    BY <1>1, <1>2, <1>4 DEF InOrder
  <2>2. ASSUME NEW k \in 1..(Len(q) - n)
        PROVE  /\ k <= b[k].ticket
               /\ \A l \in 1..(Len(q) - n) : k < l => b[k].ticket < b[l].ticket
    <3>1. n + k \in 1..Len(q) /\ \A l \in 1..(Len(q) - n) : n + l \in 1..Len(q)
      BY <1>1
    <3> QED
      <4>1. b[k] = q[n + k] /\ n + k <= q[n + k].ticket
        BY <1>1, <1>3, <3>1 DEF InOrder
      <4>2. ASSUME NEW l \in 1..(Len(q) - n), k < l PROVE b[k].ticket < b[l].ticket
        <5>1. n + k < n + l /\ b[l] = q[n + l]
          BY <1>1, <1>3, <4>2
        <5> QED
          BY <1>1, <3>1, <4>1, <5>1 DEF InOrder
      <4> QED
        BY <1>1, <3>1, <4>1, <4>2
  <2> QED
    BY <1>4, <2>1, <2>2 DEF InOrder
<1>6. ASSUME NEW t \in Tickets(a) PROVE \E k \in 1..n : t = q[k].ticket
  BY <1>2, <1>4, <1>6 DEF Tickets
<1>7. ASSUME NEW t \in Tickets(b) PROVE \E k \in (n + 1)..Len(q) : t = q[k].ticket
  <2>1. PICK k \in 1..(Len(q) - n) : t = b[k].ticket
    BY <1>4, <1>7 DEF Tickets
  <2>2. n + k \in (n + 1)..Len(q)
    BY <1>1
  <2> QED
    BY <1>3, <2>1, <2>2
<1>8. \A s \in Tickets(a), t \in Tickets(b) : s < t
  BY <1>1, <1>6, <1>7 DEF InOrder
<1>9. Tickets(a) \cup Tickets(b) \subseteq Tickets(q)
  <2>1. \A t \in Tickets(a) \cup Tickets(b) : \E k \in 1..Len(q) : t = q[k].ticket
    BY <1>1, <1>6, <1>7
  <2> QED
    BY <1>1, <2>1 DEF Tickets
<1>10. ASSUME NEW k \in 1..Len(q) PROVE q[k].ticket \in Tickets(a) \cup Tickets(b)
  <2>1. CASE k <= n
    <3>1. k \in 1..n /\ a[k] = q[k]
      BY <1>1, <1>2, <2>1
    <3> QED
      BY <1>4, <3>1 DEF Tickets
  <2>2. CASE k > n
    <3>1. k - n \in 1..(Len(q) - n) /\ n + (k - n) = k
      BY <1>1, <2>2
    <3> QED
      BY <1>3, <1>4, <3>1 DEF Tickets
  <2> QED
    BY <1>1, <2>1, <2>2
<1>11. Tickets(q) \subseteq Tickets(a) \cup Tickets(b)
  BY <1>1, <1>10 DEF Tickets
<1>12. Range(a) \cup Range(b) = Range(q)
  <2>1. ASSUME NEW x \in Range(a) \cup Range(b) PROVE x \in Range(q)
    <3>1. CASE x \in Range(a)
      <4>1. PICK k \in 1..n : x = a[k]
        BY <1>4, <3>1 DEF Range
      <4>2. k \in 1..Len(q) /\ x = q[k]
        BY <1>1, <1>2, <4>1
      <4> QED
        BY <1>1, <4>2 DEF Range
    <3>2. CASE x \in Range(b)
      <4>1. PICK k \in 1..(Len(q) - n) : x = b[k]
        BY <1>4, <3>2 DEF Range
      <4>2. n + k \in 1..Len(q) /\ x = q[n + k]
        BY <1>1, <1>3, <4>1
      <4> QED
        BY <1>1, <4>2 DEF Range
    <3> QED
      BY <2>1, <3>1, <3>2
  <2>2. ASSUME NEW k \in 1..Len(q) PROVE q[k] \in Range(a) \cup Range(b)
    <3>1. CASE k <= n
      <4>1. k \in 1..n /\ a[k] = q[k]
        BY <1>1, <1>2, <3>1
      <4> QED
        BY <1>4, <4>1 DEF Range
    <3>2. CASE k > n
      <4>1. k - n \in 1..(Len(q) - n) /\ n + (k - n) = k
        BY <1>1, <3>2
      <4>2. b[k - n] = q[k]
        BY <1>3, <4>1
      <4> QED
        BY <1>4, <4>1, <4>2 DEF Range
    <3> QED
      BY <1>1, <3>1, <3>2
  <2>3. Range(q) \subseteq Range(a) \cup Range(b)
    BY <1>1, <2>2 DEF Range
  <2> QED
    BY <2>1, <2>3
<1> QED
  BY <1>2, <1>3, <1>5, <1>8, <1>9, <1>11, <1>12 DEF a, b

-----------------------------------------------------------------------------
(* Where tickets are.                                                      *)

LEMMA QueuesAre ==
  ASSUME TypeOK
  PROVE  /\ \A g \in Names : Waiting(g) \in Seq(Entry)
         /\ \A i \in DOMAIN matches : /\ matches[i].game \in Games
                                      /\ matches[i].group \in Seq(Entry)
<1>1. \A g \in Names : Waiting(g) \in Seq(Entry)
  BY DEF TypeOK, Waiting
<1>2. \A i \in 1..Len(matches) : matches[i] \in Match
  BY ElementOfSeq DEF TypeOK
<1>3. DOMAIN matches = 1..Len(matches)
  BY LenProperties DEF TypeOK
<1> QED
  BY <1>1, <1>2, <1>3 DEF Match

LEMMA TicketsAreIssued ==
  ASSUME CoverInv
  PROVE  /\ cancelled \subseteq 1..issued
         /\ MatchedTickets \subseteq 1..issued
         /\ \A g \in Names : Tickets(Waiting(g)) \subseteq 1..issued
         /\ \A i \in DOMAIN matches : Tickets(matches[i].group) \subseteq MatchedTickets
<1>1. \A i \in DOMAIN matches : Tickets(matches[i].group) \subseteq MatchedTickets
  BY DEF MatchedTickets
<1> QED
  BY <1>1 DEF CoverInv, WaitingTickets

\* The parts of IInv that are about tickets and groups.
TicketsInv == OrderInv /\ CoverInv /\ OnePlaceInv /\ GroupFits

\* Most steps move no ticket: tryMatch copies a queue and puts it back.
LEMMA NothingMoves ==
  ASSUME TicketsInv, \A g \in Names : Waiting(g)' = Waiting(g),
         UNCHANGED <<issued, cancelled, matches>>
  PROVE  TicketsInv'
<1>1. MatchedTickets' = MatchedTickets
  BY DEF MatchedTickets
<1>2. \A g \in Names : Tickets(Waiting(g))' = Tickets(Waiting(g))
  BY DEF Tickets
<1>3. \A i \in DOMAIN matches : Tickets(matches[i].group)' = Tickets(matches[i].group)
  BY DEF Tickets
<1>4. OrderInv'
  <2>1. \A g \in Names : InOrder(Waiting(g))'
    BY DEF TicketsInv, OrderInv, InOrder
  <2>2. \A i \in DOMAIN matches : InOrder(matches[i].group)'
    BY DEF TicketsInv, OrderInv, InOrder
  <2>3. NoOvertaking'
    BY <1>2, <1>3 DEF TicketsInv, OrderInv, NoOvertaking
  <2> QED
    BY <2>1, <2>2, <2>3 DEF OrderInv
<1>5. CoverInv'
  <2>1. WaitingTickets' = WaitingTickets
    BY <1>2 DEF WaitingTickets
  <2> QED
    BY <1>1, <2>1 DEF TicketsInv, CoverInv
<1>6. OnePlaceInv'
  BY <1>1, <1>2, <1>3 DEF TicketsInv, OnePlaceInv
<1>7. GroupFits'
  BY DEF TicketsInv, GroupFits
<1> QED
  BY <1>4, <1>5, <1>6, <1>7 DEF TicketsInv

\* match.start: a new ticket, higher than all, goes to the end of one queue.
LEMMA EnqueueKeepsTickets ==
  ASSUME TypeOK, TicketsInv, NEW p \in Players, NEW g \in Names, Enqueue(p, g)
  PROVE  TypeOK' /\ TicketsInv'
<1> DEFINE e == [player |-> p, ticket |-> issued + 1]
<1>1. issued \in Nat /\ issued + 1 \in 1..MaxTickets /\ issued' = issued + 1
  BY TicketsAssumption DEF TypeOK, Enqueue
<1>2. e \in Entry /\ e.ticket = issued + 1
  BY <1>1 DEF Entry
<1>3. /\ \A h \in Names : Waiting(h) = queues[h] /\ queues[h] \in Seq(Entry)
      /\ \A h \in Names \ {g} : Waiting(h)' = Waiting(h)
      /\ Waiting(g)' = Append(Waiting(g), e)
      /\ UNCHANGED <<cancelled, matches>>
  BY NamesAssumption DEF TypeOK, Enqueue, Waiting, tickVars
<1> HIDE DEF e
<1>4. /\ cancelled \cup MatchedTickets \subseteq 1..issued
      /\ \A h \in Names : Tickets(Waiting(h)) \subseteq 1..issued
      /\ \A i \in DOMAIN matches : Tickets(matches[i].group) \subseteq 1..issued
  BY TicketsAreIssued DEF TicketsInv
<1>5. /\ Append(Waiting(g), e) \in Seq(Entry)
      /\ InOrder(Append(Waiting(g), e))
      /\ Tickets(Append(Waiting(g), e)) = Tickets(Waiting(g)) \cup {issued + 1}
  <2>1. Waiting(g) \in Seq(Entry) /\ InOrder(Waiting(g))
    BY <1>3 DEF TicketsInv, OrderInv
  <2>2. \A t \in Tickets(Waiting(g)) : t < e.ticket
    BY <1>1, <1>2, <1>4
  <2> QED
    BY <1>2, <2>1, <2>2, AppendInOrder
<1>6. /\ \A h \in Names \ {g} : Tickets(Waiting(h))' = Tickets(Waiting(h))
      /\ Tickets(Waiting(g))' = Tickets(Waiting(g)) \cup {issued + 1}
  BY <1>3, <1>5 DEF Tickets
<1>7. /\ MatchedTickets' = MatchedTickets
      /\ \A i \in DOMAIN matches : Tickets(matches[i].group)' = Tickets(matches[i].group)
  BY <1>3 DEF MatchedTickets, Tickets
<1>8. TypeOK'
  <2>1. queues' \in [Names -> Seq(Entry)]
    BY <1>3, <1>5 DEF TypeOK, Enqueue, e
  <2> QED
    BY <1>1, <2>1 DEF TypeOK, Enqueue, tickVars
<1>9. OrderInv'
  <2>1. \A h \in Names : InOrder(Waiting(h))'
    BY <1>3, <1>5 DEF TicketsInv, OrderInv, InOrder
  <2>2. \A i \in DOMAIN matches : InOrder(matches[i].group)'
    BY <1>3 DEF TicketsInv, OrderInv, InOrder
  <2>3. NoOvertaking'
    <3>1. ASSUME NEW h \in Names, NEW i \in DOMAIN matches, matches[i].game = h,
                 NEW s \in Tickets(matches[i].group), NEW t \in Tickets(Waiting(h))'
          PROVE  s < t
      <4>1. CASE t \in Tickets(Waiting(h))
        BY <3>1, <4>1 DEF TicketsInv, OrderInv, NoOvertaking
      <4>2. CASE t = issued + 1
        <5>1. s \in 1..issued
          BY <1>4
        <5> QED
          BY <1>1, <4>2, <5>1
      <4> QED
        BY <1>6, <3>1, <4>1, <4>2
    <3> QED
      BY <1>3, <1>7, <3>1 DEF NoOvertaking
  <2> QED
    BY <1>3, <2>1, <2>2, <2>3 DEF OrderInv
<1>10. CoverInv'
  <2>1. 1..issued' = 1..issued \cup {issued + 1}
    BY <1>1
  <2>2. WaitingTickets' = WaitingTickets \cup {issued + 1}
    <3>1. \A t : t \in WaitingTickets' <=> \E h \in Names : t \in Tickets(Waiting(h))'
      BY DEF WaitingTickets
    <3>2. \A t : t \in WaitingTickets <=> \E h \in Names : t \in Tickets(Waiting(h))
      BY DEF WaitingTickets
    <3>3. \A t : t \in WaitingTickets' <=> t \in WaitingTickets \cup {issued + 1}
      BY <1>6, <3>1, <3>2
    <3> QED
      BY <3>3
  <2> QED
    BY <1>3, <1>6, <1>7, <2>1, <2>2 DEF TicketsInv, CoverInv
<1>11. OnePlaceInv'
  <2>1. issued + 1 \notin 1..issued
    BY <1>1
  <2>2. issued + 1 \notin cancelled \cup MatchedTickets
    BY <1>4, <2>1
  <2>3. \A h \in Names : issued + 1 \notin Tickets(Waiting(h))
    BY <1>4, <2>1
  <2>4. \A h \in Names : Tickets(Waiting(h))' \cap (cancelled \cup MatchedTickets) = {}
    BY <1>6, <2>2 DEF TicketsInv, OnePlaceInv
  <2>5. \A h, f \in Names : f # h => Tickets(Waiting(h))' \cap Tickets(Waiting(f))' = {}
    BY <1>6, <2>3 DEF TicketsInv, OnePlaceInv
  <2> QED
    BY <1>3, <1>7, <2>4, <2>5 DEF TicketsInv, OnePlaceInv
<1>12. GroupFits'
  BY <1>3 DEF TicketsInv, GroupFits
<1> QED
  BY <1>8, <1>9, <1>10, <1>11, <1>12 DEF TicketsInv

\* match.cancel: a ticket leaves one queue and is cancelled.
LEMMA DequeueKeepsTickets ==
  ASSUME TypeOK, TicketsInv, NEW p \in Players, NEW g \in Names, Dequeue(p, g)
  PROVE  TypeOK' /\ TicketsInv'
<1>1. PICK i \in DOMAIN queues[g] :
        /\ queues' = [queues EXCEPT ![g] = Without(@, i)]
        /\ cancelled' = cancelled \cup {queues[g][i].ticket}
  BY DEF Dequeue
<1> DEFINE t == queues[g][i].ticket
<1>2. /\ \A h \in Names : Waiting(h) = queues[h] /\ queues[h] \in Seq(Entry)
      /\ \A h \in Names \ {g} : Waiting(h)' = Waiting(h)
      /\ Waiting(g)' = Without(Waiting(g), i)
      /\ UNCHANGED <<issued, matches>>
  BY <1>1, NamesAssumption DEF TypeOK, Dequeue, Waiting, tickVars
<1>3. i \in 1..Len(Waiting(g)) /\ t \in Tickets(Waiting(g))
  BY <1>2, TicketsAre DEF Tickets
<1>4. /\ Without(Waiting(g), i) \in Seq(Entry)
      /\ InOrder(Without(Waiting(g), i))
      /\ Tickets(Without(Waiting(g), i)) = Tickets(Waiting(g)) \ {t}
  <2>1. Waiting(g) \in Seq(Entry) /\ InOrder(Waiting(g)) /\ Waiting(g)[i].ticket = t
    BY <1>2 DEF TicketsInv, OrderInv
  <2> QED
    BY <1>3, <2>1, WithoutInOrder
<1> HIDE DEF t
<1>5. /\ \A h \in Names \ {g} : Tickets(Waiting(h))' = Tickets(Waiting(h))
      /\ Tickets(Waiting(g))' = Tickets(Waiting(g)) \ {t}
      /\ cancelled' = cancelled \cup {t}
  <2>1. cancelled' = cancelled \cup {t}
    BY <1>1 DEF t
  <2> QED
    BY <1>2, <1>4, <2>1 DEF Tickets
<1>6. /\ MatchedTickets' = MatchedTickets
      /\ \A j \in DOMAIN matches : Tickets(matches[j].group)' = Tickets(matches[j].group)
  BY <1>2 DEF MatchedTickets, Tickets
<1>7. TypeOK'
  <2>1. queues' \in [Names -> Seq(Entry)]
    BY <1>1, <1>2, <1>4 DEF TypeOK
  <2>2. cancelled' \subseteq 1..issued
    BY <1>3, <1>5, TicketsAreIssued DEF TicketsInv
  <2> QED
    BY <1>2, <2>1, <2>2 DEF TypeOK, Dequeue, tickVars
<1>8. OrderInv'
  <2>1. \A h \in Names : InOrder(Waiting(h))'
    BY <1>2, <1>4 DEF TicketsInv, OrderInv, InOrder
  <2>2. \A j \in DOMAIN matches : InOrder(matches[j].group)'
    BY <1>2 DEF TicketsInv, OrderInv, InOrder
  <2>3. NoOvertaking'
    BY <1>2, <1>5, <1>6 DEF TicketsInv, OrderInv, NoOvertaking
  <2> QED
    BY <1>2, <2>1, <2>2, <2>3 DEF OrderInv
<1>9. CoverInv'
  <2>1. WaitingTickets \subseteq WaitingTickets' \cup {t}
    BY <1>5 DEF WaitingTickets
  <2>2. WaitingTickets' \subseteq WaitingTickets /\ t \in WaitingTickets
    BY <1>3, <1>5 DEF WaitingTickets
  <2> QED
    BY <1>2, <1>5, <1>6, <2>1, <2>2 DEF TicketsInv, CoverInv
<1>10. OnePlaceInv'
  <2>1. \A h \in Names : Tickets(Waiting(h))' \subseteq Tickets(Waiting(h))
    BY <1>5
  <2>2. t \notin MatchedTickets /\ \A h \in Names \ {g} : t \notin Tickets(Waiting(h))
    BY <1>3 DEF TicketsInv, OnePlaceInv
  <2>3. \A h \in Names : t \notin Tickets(Waiting(h))'
    BY <1>5, <2>1, <2>2
  <2>4. (cancelled \cap MatchedTickets)' = {}
    BY <1>5, <1>6, <2>2 DEF TicketsInv, OnePlaceInv
  <2>5. \A h \in Names : Tickets(Waiting(h))' \cap (cancelled \cup MatchedTickets)' = {}
    BY <1>5, <1>6, <2>1, <2>3 DEF TicketsInv, OnePlaceInv
  <2>6. \A h, f \in Names : f # h => Tickets(Waiting(h))' \cap Tickets(Waiting(f))' = {}
    BY <2>1 DEF TicketsInv, OnePlaceInv
  <2> QED
    BY <1>2, <1>6, <2>4, <2>5, <2>6 DEF TicketsInv, OnePlaceInv
<1>11. GroupFits'
  BY <1>2 DEF TicketsInv, GroupFits
<1> QED
  BY <1>7, <1>8, <1>9, <1>10, <1>11 DEF TicketsInv
\* The size of a group is within the limits of its game, and of the queue.
LEMMA GroupSizeFits ==
  ASSUME NEW g \in Games, NEW q, Len(q) \in Nat, Enough(g, q)
  PROVE  /\ GroupSize(g, q) \in 0..Len(q)
         /\ GroupSize(g, q) >= MinPlayers[g]
         /\ MaxPlayers[g] > 0 => GroupSize(g, q) <= MaxPlayers[g]
<1>1. /\ MinPlayers[g] \in Nat /\ MaxPlayers[g] \in Nat
      /\ MaxPlayers[g] > 0 => MinPlayers[g] <= MaxPlayers[g]
  BY SizesAssumption
<1> QED
  BY <1>1 DEF GroupSize, Enough

\* tryMatch: the tickets at the head of a queue leave it for a group.
LEMMA CutGroupKeepsTickets ==
  ASSUME TypeOK, TicketsInv, CutGroup
  PROVE  TypeOK' /\ TicketsInv'
<1> PICK g \in Games : g = current
  BY NamesAssumption DEF TypeOK, CutGroup
<1> DEFINE n == GroupSize(g, rest)
           a == SubSeq(rest, 1, n)
           b == SubSeq(rest, n + 1, Len(rest))
           m == [game |-> g, group |-> a]
<1>1. /\ g \in Names /\ current = g /\ rest \in Seq(Entry)
      /\ matches \in Seq(Match) /\ DOMAIN matches = 1..Len(matches) /\ Len(matches) \in Nat
  BY NamesAssumption, LenProperties DEF TypeOK, CutGroup
<1>2. /\ n \in 0..Len(rest) /\ n >= MinPlayers[g]
      /\ MaxPlayers[g] > 0 => n <= MaxPlayers[g]
  <2>1. Len(rest) \in Nat
    BY <1>1, LenProperties
  <2> QED
    BY <1>1, <2>1, GroupSizeFits DEF CutGroup
<1>3. /\ matches' = Append(matches, m) /\ rest' = b
      /\ UNCHANGED <<queues, issued, cancelled, current>>
  BY <1>1 DEF CutGroup
<1>4. /\ Waiting(g) = rest /\ Waiting(g)' = b
      /\ \A h \in Names \ {g} : Waiting(h)' = Waiting(h)
  BY <1>1, <1>3 DEF Waiting
<1>5. /\ a \in Seq(Entry) /\ b \in Seq(Entry) /\ Len(a) = n
      /\ InOrder(a) /\ InOrder(b)
      /\ Tickets(a) \cup Tickets(b) = Tickets(rest)
      /\ \A s \in Tickets(a), t \in Tickets(b) : s < t
  <2>1. InOrder(rest)
    BY <1>1, <1>4 DEF TicketsInv, OrderInv
  <2> HIDE DEF n
  <2> QED
    BY <1>1, <1>2, <2>1, CutInOrder
<1> HIDE DEF n, a, b
<1>6. Tickets(a) \cap Tickets(b) = {}
  <2>1. \A s \in Tickets(a) : s \in 1..MaxTickets
    BY <1>5, TicketsAre
  <2> QED
    BY <1>5, <2>1, TicketsAssumption
<1>7. m \in Match /\ m.game = g /\ m.group = a
  BY <1>1, <1>5 DEF Match
<1> HIDE DEF m
<1>8. /\ matches' \in Seq(Match) /\ DOMAIN matches' = 1..(Len(matches) + 1)
      /\ \A i \in DOMAIN matches : matches'[i] = matches[i]
      /\ matches'[Len(matches) + 1] = m
  <2>1. matches' \in Seq(Match) /\ Len(matches') = Len(matches) + 1
    BY <1>1, <1>3, <1>7, AppendProperties
  <2>2. DOMAIN matches' = 1..(Len(matches) + 1)
    BY <2>1, LenProperties
  <2> QED
    BY <1>1, <1>3, <1>7, <2>1, <2>2, AppendProperties
<1>9. /\ \A h \in Names \ {g} : Tickets(Waiting(h))' = Tickets(Waiting(h))
      /\ Tickets(Waiting(g))' = Tickets(b)
      /\ Tickets(Waiting(g)) = Tickets(rest)
      /\ \A i \in DOMAIN matches : Tickets(matches[i].group)' = Tickets(matches[i].group)
      /\ Tickets(matches'[Len(matches) + 1].group) = Tickets(a)
  BY <1>4, <1>7, <1>8 DEF Tickets
<1>10. \A i \in DOMAIN matches' : i \in DOMAIN matches \/ i = Len(matches) + 1
  BY <1>1, <1>8
<1>11. MatchedTickets' = MatchedTickets \cup Tickets(a)
  <2>1. \A t : t \in MatchedTickets' <=>
                  \E i \in DOMAIN matches' : t \in Tickets(matches'[i].group)
    BY DEF MatchedTickets, Tickets
  <2>2. \A t : t \in MatchedTickets <=> \E i \in DOMAIN matches : t \in Tickets(matches[i].group)
    BY DEF MatchedTickets
  <2>3. \A i \in DOMAIN matches : /\ i \in DOMAIN matches'
                                  /\ Tickets(matches'[i].group) = Tickets(matches[i].group)
    BY <1>1, <1>8
  <2>4. Len(matches) + 1 \in DOMAIN matches'
    BY <1>1, <1>8
  <2>5. \A t : t \in MatchedTickets' <=> t \in MatchedTickets \cup Tickets(a)
    BY <1>9, <1>10, <2>1, <2>2, <2>3, <2>4
  <2> QED
    BY <2>5
<1>12. TypeOK'
  BY <1>1, <1>3, <1>5, <1>8 DEF TypeOK, CutGroup
<1>13. OrderInv'
  <2>1. \A h \in Names : InOrder(Waiting(h))'
    BY <1>4, <1>5 DEF TicketsInv, OrderInv, InOrder
  <2>2. \A i \in DOMAIN matches' : InOrder(matches'[i].group)
    BY <1>5, <1>7, <1>8, <1>10 DEF TicketsInv, OrderInv
  <2>3. ASSUME NEW h \in Names, NEW i \in DOMAIN matches', matches'[i].game = h,
               NEW s \in Tickets(matches'[i].group), NEW t \in Tickets(Waiting(h))'
        PROVE  s < t
    <3>1. t \in Tickets(Waiting(h))
      BY <1>5, <1>9
    <3>2. CASE i \in DOMAIN matches
      BY <1>8, <2>3, <3>1, <3>2 DEF TicketsInv, OrderInv, NoOvertaking
    <3>3. CASE i = Len(matches) + 1
      BY <1>5, <1>7, <1>8, <1>9, <2>3, <3>3
    <3> QED
      BY <1>10, <3>2, <3>3
  <2>4. NoOvertaking'
    BY <2>3 DEF NoOvertaking, Tickets
  <2> QED
    BY <2>1, <2>2, <2>4 DEF OrderInv, InOrder
<1>14. CoverInv'
  <2>1. \A t : t \in WaitingTickets' <=> \E h \in Names : t \in Tickets(Waiting(h))'
    BY DEF WaitingTickets
  <2>2. \A t : t \in WaitingTickets <=> \E h \in Names : t \in Tickets(Waiting(h))
    BY DEF WaitingTickets
  <2>3. \A t : t \in WaitingTickets' \cup Tickets(a) <=> t \in WaitingTickets
    <3>1. ASSUME NEW t \in WaitingTickets' \cup Tickets(a) PROVE t \in WaitingTickets
      BY <1>1, <1>5, <1>9, <2>1, <2>2
    <3>2. ASSUME NEW t \in WaitingTickets PROVE t \in WaitingTickets' \cup Tickets(a)
      <4>1. PICK h \in Names : t \in Tickets(Waiting(h))
        BY <2>2
      <4>2. CASE h = g
        BY <1>1, <1>5, <1>9, <2>1, <4>1, <4>2
      <4>3. CASE h # g
        BY <1>9, <2>1, <4>1, <4>3
      <4> QED
        BY <4>2, <4>3
    <3> QED
      BY <3>1, <3>2
  <2> QED
    BY <1>3, <1>11, <2>3 DEF TicketsInv, CoverInv
<1>15. OnePlaceInv'
  <2>1. \A h \in Names : Tickets(Waiting(h))' \subseteq Tickets(Waiting(h))
    BY <1>5, <1>9
  <2>2. Tickets(a) \subseteq Tickets(Waiting(g))
    BY <1>5, <1>9
  <2>3. /\ Tickets(a) \cap cancelled = {}
        /\ \A i \in DOMAIN matches : Tickets(a) \cap Tickets(matches[i].group) = {}
    BY <1>1, <2>2 DEF TicketsInv, OnePlaceInv, MatchedTickets
  <2>4. \A h \in Names : Tickets(Waiting(h))' \cap Tickets(a) = {}
    BY <1>1, <1>6, <1>9, <2>2 DEF TicketsInv, OnePlaceInv
  <2>5. (cancelled \cap MatchedTickets)' = {}
    BY <1>3, <1>11, <2>3 DEF TicketsInv, OnePlaceInv
  <2>6. \A h \in Names :
          /\ Tickets(Waiting(h))' \cap (cancelled \cup MatchedTickets)' = {}
          /\ \A f \in Names \ {h} : Tickets(Waiting(h))' \cap Tickets(Waiting(f))' = {}
    BY <1>3, <1>11, <2>1, <2>4 DEF TicketsInv, OnePlaceInv
  <2>7. \A i, j \in DOMAIN matches' :
          i # j => Tickets(matches'[i].group) \cap Tickets(matches'[j].group) = {}
    BY <1>8, <1>9, <1>10, <2>3 DEF TicketsInv, OnePlaceInv
  <2> QED
    BY <2>5, <2>6, <2>7 DEF OnePlaceInv, Tickets
<1>16. GroupFits'
  <2>1. \A i \in DOMAIN matches' :
          /\ Len(matches'[i].group) >= MinPlayers[matches'[i].game]
          /\ MaxPlayers[matches'[i].game] > 0 =>
                Len(matches'[i].group) <= MaxPlayers[matches'[i].game]
    BY <1>2, <1>5, <1>7, <1>8, <1>10 DEF TicketsInv, GroupFits
  <2> QED
    BY <2>1 DEF GroupFits
<1> QED
  BY <1>12, <1>13, <1>14, <1>15, <1>16 DEF TicketsInv

\* The other steps of connections and of tryMatch.
LEMMA OthersKeepTickets ==
  ASSUME TypeOK, TicketsInv,
         \/ \E p \in Players : Connect(p) \/ Disconnect(p)
         \/ Tick \/ NextGame \/ StoreRest \/ TickEnd
  PROVE  TypeOK' /\ TicketsInv'
<1> USE NamesAssumption DEF tickVars
<1>1. CASE (\E p \in Players : Connect(p) \/ Disconnect(p)) \/ Tick \/ TickEnd
  <2>1. TypeOK'
    BY <1>1 DEF TypeOK, Connect, Disconnect, Tick, TickEnd
  <2>2. UNCHANGED <<queues, current, rest, issued, cancelled, matches>>
    BY <1>1 DEF Connect, Disconnect, Tick, TickEnd
  <2> QED
    BY <2>1, <2>2, NothingMoves DEF Waiting
<1>2. CASE NextGame
  <2>1. PICK g \in Names :
          /\ g \in todo /\ current = None /\ todo' = todo \ {g}
          /\ current' = IF g \in Games THEN g ELSE None
          /\ rest' = IF g \in Games THEN queues[g] ELSE <<>>
          /\ UNCHANGED <<queues, issued, cancelled, matches, online, busy>>
    BY <1>2 DEF TypeOK, NextGame
  <2>2. queues[g] \in Seq(Entry) /\ <<>> \in Seq(Entry) /\ rest' \in Seq(Entry)
    BY <2>1 DEF TypeOK
  <2>3. TypeOK'
    BY <2>1, <2>2 DEF TypeOK
  <2>4. \A h \in Names : Waiting(h)' = Waiting(h)
    BY <2>1 DEF Waiting
  <2> QED
    BY <2>1, <2>3, <2>4, NothingMoves
<1>3. CASE StoreRest
  <2>1. TypeOK'
    BY <1>3 DEF TypeOK, StoreRest
  <2>2. \A h \in Names : Waiting(h)' = Waiting(h)
    BY <1>3 DEF TypeOK, StoreRest, Waiting
  <2> QED
    BY <1>3, <2>1, <2>2, NothingMoves DEF StoreRest
<1> QED
  BY <1>1, <1>2, <1>3

-----------------------------------------------------------------------------
(* What a tick leaves behind, and the invariant.                           *)

LEMMA StepKeepsDrained ==
  ASSUME TypeOK, DrainInv, Next
  PROVE  DrainInv'
<1> USE DEF TypeOK, DrainInv, tickVars
<1>1. CASE \E p \in Players : Connect(p) \/ Disconnect(p)
  BY <1>1 DEF Connect, Disconnect
<1>2. CASE \E p \in Players, g \in Names : Enqueue(p, g) \/ Dequeue(p, g)
  BY <1>2 DEF Enqueue, Dequeue
<1>3. CASE Tick
  BY <1>3, NamesAssumption DEF Tick
<1>4. CASE NextGame
  BY <1>4, NamesAssumption DEF NextGame
<1>5. CASE CutGroup
  BY <1>5 DEF CutGroup
<1>6. CASE StoreRest
  <2>1. ASSUME busy', NEW g \in Games
        PROVE  g \in todo' \/ g = current' \/ Len(queues'[g]) < MinPlayers[g]
    <3>1. CASE g = current
      <4>1. queues'[g] = rest /\ ~(Len(rest) >= MinPlayers[g])
        BY <1>6, <3>1, NamesAssumption DEF StoreRest, Enough
      <4>2. Len(rest) \in Nat /\ MinPlayers[g] \in Nat
        BY SizesAssumption, LenProperties
      <4> QED
        BY <4>1, <4>2
    <3>2. CASE g # current
      BY <1>6, <2>1, <3>2 DEF StoreRest
    <3> QED
      BY <3>1, <3>2
  <2> QED
    BY <2>1
<1>7. CASE TickEnd
  BY <1>7 DEF TickEnd
<1> QED
  BY <1>1, <1>2, <1>3, <1>4, <1>5, <1>6, <1>7 DEF Next, TickStep

LEMMA InitIInv == Init => IInv
<1> SUFFICES ASSUME Init PROVE IInv
  OBVIOUS
<1> USE DEF Init
<1>1. /\ \A g \in Names : Waiting(g) = <<>> /\ Tickets(Waiting(g)) = {}
      /\ DOMAIN matches = {} /\ MatchedTickets = {} /\ WaitingTickets = {}
  BY DEF Waiting, Tickets, MatchedTickets, WaitingTickets
<1>2. TypeOK
  <2>1. <<>> \in Seq(Entry) /\ <<>> \in Seq(Match)
    BY EmptySeq
  <2>2. queues \in [Names -> Seq(Entry)]
    BY <2>1
  <2>3. issued \in 0..MaxTickets /\ cancelled \subseteq 1..issued
    BY TicketsAssumption
  <2> QED
    BY <2>1, <2>2, <2>3 DEF TypeOK
<1>3. OrderInv
  BY <1>1 DEF OrderInv, InOrder, NoOvertaking
<1>4. CoverInv
  BY <1>1 DEF CoverInv
<1>5. OnePlaceInv
  BY <1>1 DEF OnePlaceInv
<1>6. GroupFits /\ DrainInv
  BY <1>1 DEF GroupFits, DrainInv
<1> QED
  BY <1>2, <1>3, <1>4, <1>5, <1>6 DEF IInv

LEMMA Invariance == Spec => []IInv
<1>1. ASSUME IInv, Next PROVE IInv'
  <2>1. TypeOK /\ TicketsInv /\ DrainInv
    BY <1>1 DEF IInv, TicketsInv
  <2>2. TypeOK' /\ TicketsInv'
    BY <1>1, <2>1, EnqueueKeepsTickets, DequeueKeepsTickets, CutGroupKeepsTickets,
       OthersKeepTickets
       DEF Next, TickStep
  <2>3. DrainInv'
    BY <1>1, <2>1, StepKeepsDrained
  <2> QED
    BY <2>2, <2>3 DEF IInv, TicketsInv
<1>2. ASSUME IInv, UNCHANGED vars PROVE IInv'
  <2>1. TypeOK /\ TicketsInv /\ DrainInv
    BY <1>2 DEF IInv, TicketsInv
  <2>2. TypeOK' /\ DrainInv'
    BY <1>2, <2>1 DEF vars, TypeOK, DrainInv
  <2>3. TicketsInv'
    BY <1>2, <2>1, NothingMoves DEF vars, Waiting
  <2> QED
    BY <2>2, <2>3 DEF IInv, TicketsInv
<1> QED
  BY <1>1, <1>2, InitIInv, PTL DEF Spec

-----------------------------------------------------------------------------
(* Theorems.                                                               *)

\* In an ordered queue an entry is found by its ticket, and its place is a small number.
LEMMA PlaceOfTicket ==
  ASSUME NEW q \in Seq(Entry), InOrder(q), NEW k \in DOMAIN q
  PROVE  /\ k \in 1..MaxTickets
         /\ \A l \in DOMAIN q : q[k].ticket = q[l].ticket => k = l
<1>1. /\ DOMAIN q \subseteq Nat \ {0}
      /\ \A l \in DOMAIN q : q[l].ticket \in 1..MaxTickets
  BY TicketsAre
<1>2. k <= q[k].ticket
  BY DEF InOrder
<1>3. k \in 1..MaxTickets
  BY <1>1, <1>2, TicketsAssumption
<1>4. ASSUME NEW l \in DOMAIN q, q[k].ticket = q[l].ticket PROVE k = l
  <2>1. ~(k < l) /\ ~(l < k)
    BY <1>1, <1>4, TicketsAssumption DEF InOrder
  <2> QED
    BY <1>1, <2>1
<1> QED
  BY <1>3, <1>4

\* Places and tickets are one to one: there are as many matched places as matched tickets.
LEMMA MatchedPlacesAre ==
  ASSUME TypeOK, OrderInv, CoverInv, OnePlaceInv
  PROVE  /\ IsFiniteSet(MatchedTickets)
         /\ Cardinality(MatchedPlaces) = Cardinality(MatchedTickets)
<1> DEFINE f == [x \in MatchedPlaces |-> matches[x[1]].group[x[2]].ticket]
<1>1. issued \in Nat /\ IsFiniteSet(1..issued)
  BY TicketsAssumption, FS_Interval DEF TypeOK
<1>2. IsFiniteSet(MatchedTickets)
  BY <1>1, TicketsAreIssued, FS_Subset
<1>3. \A x \in MatchedPlaces : /\ x[1] \in DOMAIN matches /\ x[2] \in DOMAIN matches[x[1]].group
                              /\ x = <<x[1], x[2]>>
  BY DEF MatchedPlaces
<1>4. \A i \in DOMAIN matches : \A k \in DOMAIN matches[i].group :
        matches[i].group[k].ticket \in Tickets(matches[i].group)
  BY DEF Tickets
<1>5. f \in [MatchedPlaces -> MatchedTickets]
  BY <1>3, <1>4 DEF MatchedTickets
<1>6. ASSUME NEW x \in MatchedPlaces, NEW y \in MatchedPlaces, f[x] = f[y] PROVE x = y
  <2>1. x[1] = y[1]
    BY <1>3, <1>4, <1>6 DEF OnePlaceInv
  <2>2. x[2] = y[2]
    <3>1. /\ x[2] \in DOMAIN matches[x[1]].group /\ y[2] \in DOMAIN matches[x[1]].group
          /\ matches[x[1]].group[x[2]].ticket = matches[x[1]].group[y[2]].ticket
      BY <1>3, <1>6, <2>1
    <3>2. InOrder(matches[x[1]].group) /\ matches[x[1]].group \in Seq(Entry)
      BY <1>3, QueuesAre DEF OrderInv
    <3> QED
      BY <3>1, <3>2, PlaceOfTicket
  <2> QED
    BY <1>3, <2>1, <2>2
<1>7. ASSUME NEW t \in MatchedTickets PROVE \E x \in MatchedPlaces : f[x] = t
  <2>1. PICK i \in DOMAIN matches : t \in Tickets(matches[i].group)
    BY DEF MatchedTickets
  <2>2. PICK k \in DOMAIN matches[i].group : t = matches[i].group[k].ticket
    BY <2>1 DEF Tickets
  <2>3. k \in 1..MaxTickets
    BY <2>2, QueuesAre, PlaceOfTicket DEF OrderInv
  <2>4. <<i, k>> \in MatchedPlaces
    BY <2>3 DEF MatchedPlaces
  <2> QED
    BY <2>2, <2>4
<1> HIDE DEF f
<1>8. f \in Injection(MatchedPlaces, MatchedTickets) /\ f \in Surjection(MatchedPlaces, MatchedTickets)
  BY <1>5, <1>6, <1>7 DEF Injection, IsInjective, Surjection
<1> QED
  BY <1>2, <1>8, FS_Injection

\* So it is with waiting tickets.
LEMMA WaitingPlacesAre ==
  ASSUME TypeOK, OrderInv, CoverInv, OnePlaceInv
  PROVE  /\ IsFiniteSet(WaitingTickets)
         /\ Cardinality(WaitingPlaces) = Cardinality(WaitingTickets)
<1> DEFINE f == [x \in WaitingPlaces |-> Waiting(x[1])[x[2]].ticket]
<1>1. issued \in Nat /\ IsFiniteSet(1..issued)
  BY TicketsAssumption, FS_Interval DEF TypeOK
<1>2. IsFiniteSet(WaitingTickets)
  <2>1. WaitingTickets \in SUBSET (1..issued)
    BY DEF CoverInv
  <2> QED
    BY <1>1, <2>1, FS_Subset
<1>3. \A x \in WaitingPlaces : x[1] \in Names /\ x[2] \in DOMAIN Waiting(x[1]) /\ x = <<x[1], x[2]>>
  BY DEF WaitingPlaces
<1>4. \A g \in Names : \A k \in DOMAIN Waiting(g) : Waiting(g)[k].ticket \in Tickets(Waiting(g))
  BY DEF Tickets
<1>5. f \in [WaitingPlaces -> WaitingTickets]
  BY <1>3, <1>4 DEF WaitingTickets
<1>6. ASSUME NEW x \in WaitingPlaces, NEW y \in WaitingPlaces, f[x] = f[y] PROVE x = y
  <2>1. x[1] = y[1]
    BY <1>3, <1>4, <1>6 DEF OnePlaceInv
  <2>2. x[2] = y[2]
    <3>1. /\ x[2] \in DOMAIN Waiting(x[1]) /\ y[2] \in DOMAIN Waiting(x[1])
          /\ Waiting(x[1])[x[2]].ticket = Waiting(x[1])[y[2]].ticket
      BY <1>3, <1>6, <2>1
    <3>2. InOrder(Waiting(x[1])) /\ Waiting(x[1]) \in Seq(Entry)
      BY <1>3, QueuesAre DEF OrderInv
    <3> QED
      BY <3>1, <3>2, PlaceOfTicket
  <2> QED
    BY <1>3, <2>1, <2>2
<1>7. ASSUME NEW t \in WaitingTickets PROVE \E x \in WaitingPlaces : f[x] = t
  <2>1. PICK g \in Names : t \in Tickets(Waiting(g))
    BY DEF WaitingTickets
  <2>2. PICK k \in DOMAIN Waiting(g) : t = Waiting(g)[k].ticket
    BY <2>1 DEF Tickets
  <2>3. k \in 1..MaxTickets
    BY <2>2, QueuesAre, PlaceOfTicket DEF OrderInv
  <2>4. <<g, k>> \in WaitingPlaces
    BY <2>3 DEF WaitingPlaces
  <2> QED
    BY <2>2, <2>4
<1> HIDE DEF f
<1>8. f \in Injection(WaitingPlaces, WaitingTickets) /\ f \in Surjection(WaitingPlaces, WaitingTickets)
  BY <1>5, <1>6, <1>7 DEF Injection, IsInjective, Surjection
<1> QED
  BY <1>2, <1>8, FS_Injection

\* The state has its types.
THEOREM TypeCorrect == Spec => []TypeOK
<1>1. IInv => TypeOK
  BY DEF IInv
<1> QED
  BY <1>1, Invariance, PTL

\* Every request is waiting, cancelled or in a group, in one place: match.start and
\* match.cancel between two ticks, and tryMatch at every step of a tick, lose none and
\* serve none twice.
THEOREM TicketsAreConserved == Spec => []TicketsConserved
<1>1. ASSUME IInv PROVE TicketsConserved
  <2>1. TypeOK /\ OrderInv /\ CoverInv /\ OnePlaceInv
    BY <1>1 DEF IInv
  <2>2. /\ IsFiniteSet(cancelled)
        /\ IsFiniteSet(MatchedTickets) /\ IsFiniteSet(WaitingTickets)
    <3>1. cancelled \in SUBSET (1..issued) /\ IsFiniteSet(1..issued)
      BY <2>1, TicketsAssumption, FS_Interval DEF TypeOK
    <3> QED
      BY <2>1, <3>1, FS_Subset, MatchedPlacesAre, WaitingPlacesAre
  <2>3. cancelled \cap MatchedTickets = {} /\ (cancelled \cup MatchedTickets) \cap WaitingTickets = {}
    BY <2>1 DEF OnePlaceInv, WaitingTickets
  <2>4. /\ IsFiniteSet(cancelled \cup MatchedTickets)
        /\ Cardinality(cancelled \cup MatchedTickets) =
              Cardinality(cancelled) + Cardinality(MatchedTickets)
    <3>1. /\ IsFiniteSet(cancelled \cup MatchedTickets)
          /\ Cardinality(cancelled \cup MatchedTickets) =
                Cardinality(cancelled) + Cardinality(MatchedTickets) - Cardinality({})
      BY <2>2, <2>3, FS_Union
    <3> QED
      BY <2>2, <3>1, FS_EmptySet, FS_CardinalityType
  <2>5. Cardinality(1..issued) =
            Cardinality(cancelled \cup MatchedTickets) + Cardinality(WaitingTickets)
    <3>1. Cardinality(1..issued) = Cardinality(cancelled \cup MatchedTickets)
                                   + Cardinality(WaitingTickets) - Cardinality({})
      <4> DEFINE A == cancelled \cup MatchedTickets
      <4>1. 1..issued = A \cup WaitingTickets /\ A \cap WaitingTickets = {}
        BY <2>1, <2>3 DEF CoverInv
      <4>2. IsFiniteSet(A) /\ IsFiniteSet(WaitingTickets)
        BY <2>2, <2>4
      <4> HIDE DEF A
      <4>3. Cardinality(A \cup WaitingTickets) =
              Cardinality(A) + Cardinality(WaitingTickets) - Cardinality(A \cap WaitingTickets)
        BY <4>2, FS_Union
      <4> QED
        BY <4>1, <4>3 DEF A
    <3> QED
      BY <2>2, <2>4, <3>1, FS_EmptySet, FS_CardinalityType
  <2>6. Cardinality(1..issued) = issued
    BY <2>1, TicketsAssumption, FS_Interval DEF TypeOK
  <2> QED
    BY <2>1, <2>4, <2>5, <2>6, MatchedPlacesAre, WaitingPlacesAre DEF TicketsConserved, CoverInv
<1> QED
  BY <1>1, Invariance, PTL

\* Nobody waits for a game who came before somebody matched for it, whoever cancels and
\* whenever the tick comes.
THEOREM NobodyIsOvertaken == Spec => []NoOvertaking
<1>1. IInv => NoOvertaking
  BY DEF IInv, OrderInv
<1> QED
  BY <1>1, Invariance, PTL

\* Every group has a size its game allows.
THEOREM GroupsFit == Spec => []GroupFits
<1>1. IInv => GroupFits
  BY DEF IInv
<1> QED
  BY <1>1, Invariance, PTL

\* A tick ends with no full group left in any registered game's queue.
THEOREM TicksDrain == Spec => TickDrains
<1>1. ASSUME IInv, Next, busy, ~busy'
      PROVE  \A g \in Games : Len(queues'[g]) < MinPlayers[g]
  <2>1. CASE TickEnd
    BY <1>1, <2>1, NamesAssumption DEF IInv, DrainInv, TickEnd
  <2>2. CASE ~TickEnd
    BY <1>1, <2>2
       DEF Next, TickStep, Connect, Disconnect, Enqueue, Dequeue, Tick, NextGame, CutGroup, StoreRest,
           tickVars
  <2> QED
    BY <2>1, <2>2
<1>2. IInv /\ [Next]_vars =>
          [busy /\ ~busy' => \A g \in Games : Len(queues'[g]) < MinPlayers[g]]_vars
  BY <1>1
<1> QED
  BY <1>2, Invariance, PTL DEF Spec, TickDrains

-----------------------------------------------------------------------------
(* MatchQueue implements MatchService.                                     *)

AbstractStep == [Service!Next]_(Service!service)

\* The groups announced, without their order.
Groups == {[game |-> matches[i].game, group |-> Range(matches[i].group)] : i \in DOMAIN matches}

LEMMA SameCardinality == \A S : Service!Cardinality(S) = Cardinality(S)
  BY Zenon DEF Service!Cardinality, Cardinality

LEMMA SameGroups ==
  ASSUME matches' = matches
  PROVE  Groups' = Groups
  BY DEF Groups, Range

\* In order, no entry is there twice: a queue is as long as it has entries.
LEMMA LengthIs ==
  ASSUME NEW q \in Seq(Entry), InOrder(q)
  PROVE  /\ IsFiniteSet(Range(q))
         /\ Cardinality(Range(q)) = Len(q)
<1>1. Len(q) \in Nat /\ DOMAIN q = 1..Len(q)
  BY LenProperties
<1>2. q \in Surjection(1..Len(q), Range(q))
  BY <1>1 DEF Surjection, Range
<1>3. q \in Injection(1..Len(q), Range(q))
  BY <1>1, <1>2, PlaceOfTicket DEF Injection, IsInjective, Surjection
<1>4. IsFiniteSet(1..Len(q)) /\ Cardinality(1..Len(q)) = Len(q)
  BY <1>1, FS_Interval
<1> QED
  BY <1>2, <1>3, <1>4, FS_Surjection

LEMMA RangeOfTickets ==
  ASSUME NEW q
  PROVE  /\ \A e \in Range(q) : e.ticket \in Tickets(q)
         /\ \A i \in DOMAIN q : q[i] \in Range(q)
  BY DEF Range, Tickets

\* Connections, and tryMatch when it takes a queue up or puts it back, are seen by nobody.
LEMMA ServiceStutters ==
  ASSUME \A g \in Names : Waiting(g)' = Waiting(g), UNCHANGED <<issued, matches>>
  PROVE  AbstractStep
<1>1. [g \in Names |-> Range(Waiting(g))]' = [g \in Names |-> Range(Waiting(g))]
  BY DEF Range
<1>2. Groups' = Groups
  BY SameGroups
<1>3. UNCHANGED Service!service
  BY <1>1, <1>2 DEF Service!service, Groups
<1> QED
  BY <1>3 DEF AbstractStep

LEMMA EnqueueFiles ==
  ASSUME TypeOK, TicketsInv, NEW p \in Players, NEW g \in Names, Enqueue(p, g)
  PROVE  AbstractStep
<1> DEFINE e == [player |-> p, ticket |-> issued + 1]
<1>1. /\ Waiting(g) \in Seq(Entry) /\ InOrder(Waiting(g))
      /\ \A h \in Names \ {g} : Waiting(h)' = Waiting(h)
      /\ Waiting(g)' = Append(Waiting(g), e)
      /\ issued' = issued + 1 /\ matches' = matches
  BY NamesAssumption DEF TypeOK, TicketsInv, OrderInv, Enqueue, Waiting, tickVars
<1>2. e \in Entry /\ e.ticket = issued + 1 /\ issued \in Nat
  BY TicketsAssumption DEF TypeOK, Enqueue, Entry
<1>3. \A t \in Tickets(Waiting(g)) : t < e.ticket
  BY <1>2, TicketsAreIssued DEF TicketsInv
<1>4. Range(Append(Waiting(g), e)) = Range(Waiting(g)) \cup {e}
  BY <1>1, <1>2, <1>3, AppendInOrder
<1>5. [h \in Names |-> Range(Waiting(h))]' =
          [[h \in Names |-> Range(Waiting(h))] EXCEPT ![g] = @ \cup {e}]
  <2>1. Range(Waiting(g))' = Range(Waiting(g)) \cup {e}
    BY <1>1, <1>4 DEF Range
  <2>2. \A h \in Names \ {g} : Range(Waiting(h))' = Range(Waiting(h))
    BY <1>1 DEF Range
  <2> HIDE DEF e
  <2> QED
    BY <2>1, <2>2
<1>6. Groups' = Groups
  BY <1>1, SameGroups
<1>7. Service!File(p, g)
  BY <1>1, <1>5, <1>6 DEF Service!File, Groups
<1> QED
  BY <1>7 DEF AbstractStep, Service!Next

\* The first entry of a player in a queue that is in order is the player's oldest.
LEMMA DequeueWithdraws ==
  ASSUME TypeOK, TicketsInv, NEW p \in Players, NEW g \in Names, Dequeue(p, g)
  PROVE  AbstractStep
<1>1. PICK i \in DOMAIN queues[g] :
        /\ IsFirstOf(queues[g], i, p)
        /\ queues' = [queues EXCEPT ![g] = Without(@, i)]
  BY DEF Dequeue
<1> DEFINE q == Waiting(g)
           e == q[i]
<1>2. /\ q = queues[g] /\ q \in Seq(Entry) /\ InOrder(q)
      /\ \A h \in Names \ {g} : Waiting(h)' = Waiting(h)
      /\ Waiting(g)' = Without(q, i)
      /\ UNCHANGED <<issued, matches>>
  BY <1>1, NamesAssumption DEF TypeOK, TicketsInv, OrderInv, Dequeue, Waiting, tickVars
<1> HIDE DEF q
<1>3. i \in 1..Len(q) /\ Len(q) \in Nat /\ DOMAIN q = 1..Len(q)
  BY <1>1, <1>2, TicketsAre
<1>4. e \in Range(q) /\ e.player = p
  BY <1>1, <1>2, RangeOfTickets DEF IsFirstOf
<1>5. Range(Without(q, i)) = Range(q) \ {e}
  BY <1>2, <1>3, WithoutInOrder
<1>6. ASSUME NEW f \in Range(q), f.player = p, f # e PROVE e.ticket < f.ticket
  <2>1. PICK j \in 1..Len(q) : f = q[j]
    BY <1>3 DEF Range
  <2>2. ~(j \in 1..(i - 1)) /\ j # i
    BY <1>1, <1>2, <1>6, <2>1 DEF IsFirstOf
  <2>3. i < j
    BY <1>3, <2>2
  <2> QED
    BY <1>2, <1>3, <2>1, <2>3 DEF InOrder
<1>7. [h \in Names |-> Range(Waiting(h))]' =
          [[h \in Names |-> Range(Waiting(h))] EXCEPT ![g] = @ \ {e}]
  <2>1. Range(Waiting(g))' = Range(q) \ {e}
    BY <1>2, <1>5 DEF Range
  <2>2. \A h \in Names \ {g} : Range(Waiting(h))' = Range(Waiting(h))
    BY <1>2 DEF Range
  <2> HIDE DEF e
  <2> QED
    BY <2>1, <2>2 DEF q
<1>8. Groups' = Groups
  BY <1>2, SameGroups
<1>9. Service!ComeFirst({e}, {f \in Range(q) : f.player = p})
  BY <1>6 DEF Service!ComeFirst
<1> HIDE DEF e
<1>10. Service!Withdraw(p, g)
  BY <1>2, <1>4, <1>7, <1>8, <1>9 DEF Service!Withdraw, Groups, q
<1> QED
  BY <1>10 DEF AbstractStep, Service!Next

\* The head that is cut off a queue is what came first, and it is a group that fits.
LEMMA CutGroupServes ==
  ASSUME TypeOK, TicketsInv, CutGroup
  PROVE  AbstractStep
<1> PICK g \in Games : g = current
  BY NamesAssumption DEF TypeOK, CutGroup
<1> DEFINE n == GroupSize(g, rest)
           a == SubSeq(rest, 1, n)
           b == SubSeq(rest, n + 1, Len(rest))
<1>1. /\ g \in Names /\ current = g /\ rest \in Seq(Entry) /\ InOrder(rest)
      /\ Len(rest) \in Nat /\ matches \in Seq(Match)
      /\ Waiting(g) = rest
  BY NamesAssumption, LenProperties DEF TypeOK, TicketsInv, OrderInv, Waiting, CutGroup
<1>2. n \in 0..Len(rest)
  BY <1>1, GroupSizeFits DEF CutGroup
<1>3. /\ matches' = Append(matches, [game |-> g, group |-> a])
      /\ Waiting(g)' = b
      /\ \A h \in Names \ {g} : Waiting(h)' = Waiting(h)
      /\ issued' = issued
  BY <1>1 DEF CutGroup, Waiting
<1>4. Service!Fits(n, Len(rest), g)
  <2>1. /\ MinPlayers[g] \in Nat /\ MaxPlayers[g] \in Nat
        /\ MaxPlayers[g] > 0 => MinPlayers[g] <= MaxPlayers[g]
    BY SizesAssumption
  <2> QED
    BY <1>1, <2>1 DEF Service!Fits, GroupSize
<1>5. /\ a \in Seq(Entry) /\ b \in Seq(Entry) /\ Len(a) = n
      /\ InOrder(a) /\ InOrder(b)
      /\ \A s \in Tickets(a), t \in Tickets(b) : s < t
      /\ Range(a) \cup Range(b) = Range(rest)
  <2> HIDE DEF n
  <2> QED
    BY <1>1, <1>2, CutInOrder
<1> HIDE DEF n, a, b
<1>6. Range(b) = Range(rest) \ Range(a)
  <2>1. \A s \in Tickets(a) : s \in Nat
    BY <1>5, TicketsAre
  <2>2. Range(a) \cap Range(b) = {}
    BY <1>5, <2>1, RangeOfTickets
  <2> QED
    BY <1>5, <2>2
<1>7. Service!ComeFirst(Range(a), Range(rest))
  BY <1>5, RangeOfTickets DEF Service!ComeFirst
<1>8. Service!Fits(Service!Cardinality(Range(a)), Service!Cardinality(Range(rest)), g)
  BY <1>1, <1>4, <1>5, LengthIs, SameCardinality
<1>9. [h \in Names |-> Range(Waiting(h))]' =
          [[h \in Names |-> Range(Waiting(h))] EXCEPT ![g] = @ \ Range(a)]
  <2>1. Range(Waiting(g))' = Range(Waiting(g)) \ Range(a)
    <3>1. Range(Waiting(g))' = Range(b)
      BY <1>3 DEF Range
    <3> QED
      BY <1>1, <1>6, <3>1
  <2>2. \A h \in Names \ {g} : Range(Waiting(h))' = Range(Waiting(h))
    BY <1>3 DEF Range
  <2> QED
    BY <2>1, <2>2
<1>10. Groups' = Groups \cup {[game |-> g, group |-> Range(a)]}
  <2>1. /\ Len(matches) \in Nat /\ DOMAIN matches = 1..Len(matches)
        /\ DOMAIN matches' = 1..(Len(matches) + 1)
        /\ \A i \in 1..Len(matches) : matches'[i] = matches[i]
        /\ matches'[Len(matches) + 1] = [game |-> g, group |-> a]
    <3>1. [game |-> g, group |-> a] \in Match
      BY <1>5 DEF Match
    <3> QED
      BY <1>1, <1>3, <3>1, AppendProperties, LenProperties
  <2>2. Groups' = {[game |-> matches'[i].game, group |-> Range(matches'[i].group)] :
                       i \in DOMAIN matches'}
    BY DEF Groups, Range
  <2>3. \A i \in DOMAIN matches' : i \in DOMAIN matches \/ i = Len(matches) + 1
    BY <2>1
  <2>4. Groups' \subseteq Groups \cup {[game |-> g, group |-> Range(a)]}
    BY <2>1, <2>2, <2>3 DEF Groups
  <2>5. Groups \cup {[game |-> g, group |-> Range(a)]} \subseteq Groups'
    BY <2>1, <2>2 DEF Groups
  <2> QED
    BY <2>4, <2>5
<1>11. Service!Serve(g)
  <2>1. Range(a) \in SUBSET Range(Waiting(g))
    BY <1>1, <1>5
  <2> QED
    BY <1>1, <1>3, <1>7, <1>8, <1>9, <1>10, <2>1 DEF Service!Serve, Groups
<1> QED
  BY <1>11 DEF AbstractStep, Service!Next

LEMMA OthersStutter ==
  ASSUME TypeOK,
         \/ \E p \in Players : Connect(p) \/ Disconnect(p)
         \/ Tick \/ NextGame \/ StoreRest \/ TickEnd
  PROVE  AbstractStep
<1> USE NamesAssumption DEF tickVars
<1>1. UNCHANGED <<issued, matches>>
  BY DEF Connect, Disconnect, Tick, NextGame, StoreRest, TickEnd
<1>2. CASE (\E p \in Players : Connect(p) \/ Disconnect(p)) \/ Tick \/ TickEnd
  <2>1. UNCHANGED <<queues, current, rest>>
    BY <1>2 DEF Connect, Disconnect, Tick, TickEnd
  <2> QED
    BY <1>1, <2>1, ServiceStutters DEF Waiting
<1>3. CASE NextGame
  <2>1. \A h \in Names : Waiting(h)' = Waiting(h)
    BY <1>3 DEF TypeOK, NextGame, Waiting
  <2> QED
    BY <1>1, <2>1, ServiceStutters
<1>4. CASE StoreRest
  <2>1. \A h \in Names : Waiting(h)' = Waiting(h)
    BY <1>4 DEF TypeOK, StoreRest, Waiting
  <2> QED
    BY <1>1, <2>1, ServiceStutters
<1> QED
  BY <1>2, <1>3, <1>4

\* The slices and the tick that cuts them implement a service that files, withdraws and
\* serves requests in single steps, in order of arrival.
THEOREM ImplementsRequests == Spec => ImplementsService
<1>1. Init => Service!Init
  <2> SUFFICES ASSUME Init PROVE Service!Init
    OBVIOUS
  <2>1. \A g \in Names : Range(Waiting(g)) = {}
    BY DEF Init, Waiting, Range
  <2>2. Groups = {}
    BY DEF Init, Groups
  <2> QED
    BY <2>1, <2>2 DEF Init, Service!Init, Groups
<1>2. ASSUME IInv, Next PROVE AbstractStep
  BY <1>2, EnqueueFiles, DequeueWithdraws, CutGroupServes, OthersStutter
     DEF IInv, TicketsInv, Next, TickStep
<1>3. ASSUME UNCHANGED vars PROVE AbstractStep
  BY <1>3, ServiceStutters DEF vars, Waiting
<1>4. IInv /\ [Next]_vars => [Service!Next]_(Service!service)
  BY <1>2, <1>3 DEF AbstractStep
<1> QED
  BY <1>1, <1>4, Invariance, PTL DEF Spec, ImplementsService, Service!Spec
=============================================================================
