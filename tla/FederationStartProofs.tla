------------------------ MODULE FederationStartProofs ------------------------
(***************************************************************************)
(* First the clocks: what the arithmetic of handle_T4_clock_sync_message   *)
(* is worth, and that the readings it combines are those of one round      *)
(* trip, by the inductive invariant ClockInv.  Then the start of a         *)
(* federation: one process per federate id and one start time for all, by  *)
(* the inductive invariant StartInv; that this time is the first thing     *)
(* that comes to a federate that waits for it, by FirstInv; and that the   *)
(* clock thread goes on until the federates have left, by SyncInv.         *)
(***************************************************************************)
EXTENDS FederationStart, FiniteSetTheorems, TLAPS

\* The round trip delay is the time that the T1 and the T4 messages travelled,
\* whatever the difference between the clocks and however long the federate
\* took to answer: s1 and s3 are the times of sending the T1 and the T3 message.
LEMMA DelayIsTravelTime ==
    ASSUME NEW s1 \in Int, NEW s3 \in Int, NEW there \in Nat, NEW back \in Nat
    PROVE  RoundTripDelay(s1, s3 + back, s3 - (s1 + there)) = there + back
  BY DEF RoundTripDelay

\* Half of a delay that is not negative is rounded down.
LEMMA HalfOfNat ==
    ASSUME NEW d \in Nat
    PROVE  /\ Half(d) \in Nat
           /\ 2 * Half(d) <= d /\ d <= 2 * Half(d) + 1
  BY DEF Half

\* Adding the estimated error to the clock of a federate that is ahead of the RTI by
\* "ahead" leaves an error of at most half the difference between the times that
\* the two messages travelled (and a nanosecond of rounding): the offset of the
\* clocks cancels out, and a symmetric network leaves nothing but the rounding.
THEOREM ErrorIsAsymmetry ==
    ASSUME NEW s1 \in Int, NEW s3 \in Int, NEW there \in Nat, NEW back \in Nat,
           NEW ahead \in Int
    PROVE  LET error == EstimatedClockError(s1, s1 + there + ahead, s3 + back,
                                            s3 - (s1 + there))
               left  == ahead + error
           IN  /\ 2 * left <= back - there
               /\ back - there <= 2 * left + 1
<1> DEFINE half  == Half(there + back)
           error == EstimatedClockError(s1, s1 + there + ahead, s3 + back, s3 - (s1 + there))
<1>1. half \in Nat /\ 2 * half <= there + back /\ there + back <= 2 * half + 1
  BY HalfOfNat, there + back \in Nat
<1>2. error = half - ((s1 + there + ahead) - s1)
  BY DelayIsTravelTime DEF EstimatedClockError
<1>3. ahead + error = half - there
  <2> HIDE DEF half, error
  <2> QED  BY <1>1, <1>2
<1>4. 2 * (ahead + error) = 2 * half - 2 * there
  <2> HIDE DEF half, error
  <2> QED  BY <1>1, <1>3
<1> QED
  <2> HIDE DEF half, error
  <2>1. 2 * (ahead + error) <= back - there /\ back - there <= 2 * (ahead + error) + 1
    BY <1>1, <1>4
  <2> QED  BY <2>1 DEF error

-----------------------------------------------------------------------------
(* Sequences of packets.                                                   *)

LEMMA TailFacts ==
    ASSUME NEW S, NEW d \in Seq(S), d # <<>>
    PROVE  /\ Tail(d) \in Seq(S) /\ Len(d) \in Nat /\ Len(d) > 0 /\ Len(Tail(d)) = Len(d) - 1
           /\ Head(d) = d[1] /\ d[1] \in S
           /\ \A i \in 1 .. Len(d) - 1 : Tail(d)[i] = d[i + 1]
           /\ DOMAIN d = 1 .. Len(d) /\ DOMAIN Tail(d) = 1 .. Len(d) - 1
  OBVIOUS

LEMMA AppendFacts ==
    ASSUME NEW S, NEW d \in Seq(S), NEW e \in S
    PROVE  /\ Append(d, e) \in Seq(S) /\ Len(d) \in Nat /\ Len(Append(d, e)) = Len(d) + 1
           /\ Append(d, e)[Len(d) + 1] = e
           /\ \A i \in 1 .. Len(d) : Append(d, e)[i] = d[i]
           /\ DOMAIN d = 1 .. Len(d) /\ DOMAIN Append(d, e) = 1 .. Len(d) + 1
  OBVIOUS

\* Of the packets sent one after the other some arrive, in that order.
LEMMA OneArrives ==
    ASSUME NEW S, NEW d \in Seq(S), NEW a \in S, NEW some \in Arriving(<<a>>)
    PROVE  d \o some = d \/ d \o some = Append(d, a)
<1>1. some = <<>> \/ some = <<a>>
  BY DEF Arriving
<1>2. d \o <<>> = d /\ d \o <<a>> = Append(d, a)
  OBVIOUS
<1> QED
  BY <1>1, <1>2

LEMMA TwoArrive ==
    ASSUME NEW S, NEW d \in Seq(S), NEW a \in S, NEW b \in S, NEW some \in Arriving(<<a, b>>)
    PROVE  d \o some \in {d, Append(d, a), Append(Append(d, a), b)}
<1>1. PICK n \in 0 .. 2 : some = SubSeq(<<a, b>>, 1, n)
  BY DEF Arriving
<1>2. CASE n = 0
  <2>1. some = <<>>
    BY <1>1, <1>2
  <2> QED
    BY <2>1
<1>3. CASE n = 1
  <2>1. some \in Seq(S) /\ Len(some) = 1 /\ some[1] = a
    BY <1>1, <1>3
  <2>2. some = <<a>>
    BY <2>1
  <2> QED
    BY <2>2
<1>4. CASE n = 2
  <2>1. some \in Seq(S) /\ Len(some) = 2 /\ some[1] = a /\ some[2] = b
    BY <1>1, <1>4
  <2>2. some = <<a, b>>
    BY <2>1
  <2> QED
    BY <2>2
<1> QED
  BY <1>2, <1>3, <1>4

-----------------------------------------------------------------------------
(* What happens to the packets on their way to one federate.               *)

\* e is what is left of d when the first packet is received.
RestIs(d, e, n) ==
    /\ e = Tail(d) /\ e \in Seq(Packets) /\ n \in Nat /\ Len(d) = n + 1 /\ Len(e) = n
    /\ Head(d) = d[1] /\ DOMAIN d = 1 .. n + 1 /\ DOMAIN e = 1 .. n
    /\ \A i \in 1 .. n + 1 : d[i].round \in Nat /\ d[i].type \in {"T1", "T4", "probe"}
    /\ \A i \in 1 .. n : /\ e[i] = d[i + 1] /\ i \in 1 .. n + 1
                         /\ i + 1 \in 1 .. n + 1 /\ (i + 1) - 1 = i

\* e is d with the packet p behind it.
LongerIs(d, p, e, n) ==
    /\ e = Append(d, p) /\ e \in Seq(Packets) /\ n \in Nat /\ Len(d) = n /\ Len(e) = n + 1
    /\ DOMAIN d = 1 .. n /\ DOMAIN e = 1 .. n + 1
    /\ e[n + 1] = p /\ \A i \in 1 .. n : e[i] = d[i]
    /\ \A i \in 1 .. n : d[i].round \in Nat /\ d[i].type \in {"T1", "T4", "probe"}
    /\ \A i \in 1 .. n + 1 : i # n + 1 => i \in 1 .. n
    /\ \A i \in 1 .. n + 1 : i > 1 => i - 1 \in 1 .. n
    /\ d = <<>> <=> n = 0

LEMMA RestOf ==
    ASSUME NEW d \in Seq(Packets), d # <<>>
    PROVE  \E e, n : RestIs(d, e, n)
<1>1. PICK e, n : e = Tail(d) /\ n = Len(d) - 1
  OBVIOUS
<1>2. /\ e \in Seq(Packets) /\ Len(d) \in Nat /\ Len(d) > 0 /\ Len(e) = Len(d) - 1
      /\ Head(d) = d[1]
      /\ \A i \in 1 .. Len(d) - 1 : e[i] = d[i + 1]
      /\ DOMAIN d = 1 .. Len(d) /\ DOMAIN e = 1 .. Len(d) - 1
  BY <1>1, TailFacts
<1>3. n \in Nat /\ Len(d) = n + 1 /\ n = Len(d) - 1
  BY <1>1, <1>2
<1>4. \A i \in 1 .. Len(d) : d[i] \in Packets
  OBVIOUS
<1>5. \A i \in 1 .. n + 1 : d[i].round \in Nat /\ d[i].type \in {"T1", "T4", "probe"}
  BY <1>3, <1>4 DEF Packets
<1>6. \A i \in 1 .. n : i \in 1 .. n + 1 /\ i + 1 \in 1 .. n + 1 /\ (i + 1) - 1 = i
  BY <1>3
<1>7. \A i \in 1 .. n : e[i] = d[i + 1]
  BY <1>2, <1>3
<1>8. DOMAIN d = 1 .. n + 1 /\ DOMAIN e = 1 .. n
  BY <1>2, <1>3
<1>9. RestIs(d, e, n)
  BY <1>1, <1>2, <1>3, <1>5, <1>6, <1>7, <1>8 DEF RestIs
<1> QED
  BY <1>9

LEMMA OneMore ==
    ASSUME NEW d \in Seq(Packets), NEW p \in Packets
    PROVE  \E e, n : LongerIs(d, p, e, n)
<1>1. PICK e, n : e = Append(d, p) /\ n = Len(d)
  OBVIOUS
<1>2. /\ e \in Seq(Packets) /\ n \in Nat /\ Len(e) = n + 1 /\ e[n + 1] = p
      /\ \A i \in 1 .. n : e[i] = d[i]
      /\ DOMAIN d = 1 .. n /\ DOMAIN e = 1 .. n + 1
  BY <1>1, AppendFacts
<1>3. \A i \in 1 .. Len(d) : d[i] \in Packets
  OBVIOUS
<1>4. \A i \in 1 .. n : d[i].round \in Nat /\ d[i].type \in {"T1", "T4", "probe"}
  BY <1>1, <1>3 DEF Packets
<1>5. /\ \A i \in 1 .. n + 1 : i # n + 1 => i \in 1 .. n
      /\ \A i \in 1 .. n + 1 : i > 1 => i - 1 \in 1 .. n
  BY <1>2
<1>6. d = <<>> <=> n = 0
  BY <1>1
<1>7. LongerIs(d, p, e, n)
  BY <1>1, <1>2, <1>4, <1>5, <1>6 DEF LongerIs
<1> QED
  BY <1>7

LEMMA OrderedTail ==
    ASSUME NEW d \in Seq(Packets), d # <<>>, NEW T1 \in Nat, NEW last \in Int,
           InOrder(d, T1, last)
    PROVE  /\ InOrder(Tail(d), T1, last)
           /\ d[1].type = "T1" => InOrder(Tail(d), d[1].round, last)
<1>1. PICK e, n : RestIs(d, e, n)
  BY RestOf
<1>2. /\ e = Tail(d) /\ n \in Nat /\ DOMAIN d = 1 .. n + 1 /\ DOMAIN e = 1 .. n
      /\ \A i \in 1 .. n + 1 : d[i].round \in Nat
      /\ \A i \in 1 .. n : /\ e[i] = d[i + 1] /\ i \in 1 .. n + 1
                           /\ i + 1 \in 1 .. n + 1 /\ (i + 1) - 1 = i
  BY <1>1 DEF RestIs
<1>4. \A i \in 1 .. n : e[i].type = "probe" /\ i > 1 => e[i - 1].type = "T4"
  <2> SUFFICES ASSUME NEW i \in 1 .. n, e[i].type = "probe", i > 1 PROVE e[i - 1].type = "T4"
    OBVIOUS
  <2>1. d[i + 1].type = "probe" /\ i + 1 \in 1 .. n + 1 /\ i + 1 > 1 /\ (i + 1) - 1 = i
    BY <1>2
  <2>2. d[i].type = "T4"
    BY <1>2, <2>1 DEF InOrder
  <2>3. i - 1 \in 1 .. n /\ (i - 1) + 1 = i
    BY <1>2
  <2> QED
    BY <1>2, <2>2, <2>3
<1>5. \A i, j \in 1 .. n : i < j /\ e[i].type = "T1" /\ e[j].type = "T1" => e[i].round < e[j].round
  <2> SUFFICES ASSUME NEW i \in 1 .. n, NEW j \in 1 .. n, i < j, e[i].type = "T1", e[j].type = "T1"
               PROVE  e[i].round < e[j].round
    OBVIOUS
  <2>1. /\ i + 1 \in DOMAIN d /\ j + 1 \in DOMAIN d /\ i + 1 < j + 1
        /\ e[i] = d[i + 1] /\ e[j] = d[j + 1]
    BY <1>2
  <2> QED
    BY <2>1 DEF InOrder
<1>6. \A i \in 1 .. n : /\ e[i].type = "T1" => T1 < e[i].round /\ e[i].round <= last
                        /\ e[i].type = "T4" => e[i].round <= T1
  BY <1>2 DEF InOrder
<1>7. InOrder(e, T1, last)
  <2>1. T1 <= last
    BY DEF InOrder
  <2> QED
    BY <1>2, <1>4, <1>5, <1>6, <2>1 DEF InOrder
<1>8. ASSUME d[1].type = "T1" PROVE InOrder(e, d[1].round, last)
  <2>0. 1 \in 1 .. n + 1
    BY <1>2
  <2>1. T1 < d[1].round /\ d[1].round <= last /\ d[1].round \in Nat
    BY <1>2, <1>8, <2>0 DEF InOrder
  <2>2. \A i \in 1 .. n : e[i].type = "T1" => d[1].round < e[i].round
    <3> SUFFICES ASSUME NEW i \in 1 .. n, e[i].type = "T1" PROVE d[1].round < e[i].round
      OBVIOUS
    <3>1. i + 1 \in DOMAIN d /\ 1 \in DOMAIN d /\ 1 < i + 1 /\ e[i] = d[i + 1]
      BY <1>2, <2>0
    <3> QED
      BY <1>8, <3>1 DEF InOrder
  <2>3. \A i \in 1 .. n : e[i].round \in Nat
    BY <1>2
  <2>4. \A i \in 1 .. n : e[i].type = "T4" => e[i].round <= d[1].round
    BY <1>6, <2>1, <2>3
  <2> QED
    BY <1>2, <1>4, <1>5, <1>6, <2>1, <2>2, <2>4 DEF InOrder
<1> QED
  BY <1>2, <1>7, <1>8

\* The T1 message of a new round comes after all others, and a turn without one
\* changes nothing.
LEMMA OrderedT1 ==
    ASSUME NEW d \in Seq(Packets), NEW T1 \in Nat, NEW last \in Int, last + 1 \in Nat,
           InOrder(d, T1, last)
    PROVE  /\ InOrder(d, T1, last + 1)
           /\ InOrder(Append(d, [type |-> "T1", round |-> last + 1]), T1, last + 1)
<1>1. PICK p : p = [type |-> "T1", round |-> last + 1]
  OBVIOUS
<1>3. p \in Packets /\ p.type = "T1" /\ p.round = last + 1
  BY <1>1 DEF Packets
<1>2. PICK e, n : LongerIs(d, p, e, n)
  BY <1>3, OneMore
<1>4. /\ e = Append(d, p) /\ n \in Nat /\ DOMAIN d = 1 .. n /\ DOMAIN e = 1 .. n + 1
      /\ e[n + 1] = p /\ \A i \in 1 .. n : e[i] = d[i]
      /\ \A i \in 1 .. n : d[i].round \in Nat /\ d[i].type \in {"T1", "T4", "probe"}
      /\ \A i \in 1 .. n + 1 : i # n + 1 => i \in 1 .. n
      /\ \A i \in 1 .. n + 1 : i > 1 => i - 1 \in 1 .. n
  BY <1>2 DEF LongerIs
<1>5. T1 <= last + 1 /\ T1 < last + 1
  BY DEF InOrder
<1>6. InOrder(d, T1, last + 1)
  <2>1. \A i \in 1 .. n : d[i].type = "T1" => d[i].round <= last + 1
    <3>1. \A i \in 1 .. n : d[i].type = "T1" => d[i].round <= last
      BY <1>4 DEF InOrder
    <3> QED
      BY <1>4, <3>1
  <2> QED
    BY <1>4, <1>5, <2>1 DEF InOrder
<1>7. ASSUME NEW i \in 1 .. n + 1
      PROVE  /\ e[i].type = "T1" => T1 < e[i].round /\ e[i].round <= last + 1
             /\ e[i].type = "T4" => e[i].round <= T1
             /\ e[i].type = "probe" /\ i > 1 => e[i - 1].type = "T4"
  <2>1. CASE i = n + 1
    <3>1. e[i].type = "T1" /\ e[i].round = last + 1
      BY <1>3, <1>4, <2>1
    <3> QED
      BY <1>5, <3>1
  <2>2. CASE i \in 1 .. n
    <3>1. i > 1 => i - 1 \in 1 .. n
      BY <1>4
    <3>2. e[i] = d[i] /\ (i > 1 => e[i - 1] = d[i - 1])
      BY <1>4, <2>2, <3>1
    <3> QED
      BY <1>4, <1>6, <2>2, <3>2 DEF InOrder
  <2> QED
    BY <1>4, <2>1, <2>2
<1>8. ASSUME NEW i \in 1 .. n + 1, NEW j \in 1 .. n + 1,
             i < j, e[i].type = "T1", e[j].type = "T1"
      PROVE  e[i].round < e[j].round
  <2>1. i \in 1 .. n /\ e[i] = d[i]
    BY <1>4, <1>8
  <2>2. CASE j = n + 1
    <3>1. e[j].round = last + 1 /\ e[i].round <= last /\ e[i].round \in Nat
      BY <1>3, <1>4, <1>8, <2>1, <2>2 DEF InOrder
    <3> QED
      BY <3>1
  <2>3. CASE j \in 1 .. n
    BY <1>4, <1>8, <2>1, <2>3 DEF InOrder
  <2> QED
    BY <1>4, <2>2, <2>3
<1>9. InOrder(e, T1, last + 1)
  BY <1>4, <1>7, <1>8, <1>5 DEF InOrder
<1> QED
  BY <1>1, <1>4, <1>6, <1>9

\* So does a T4 message of a round that was handled, and a probe after it.
LEMMA OrderedAnswer ==
    ASSUME NEW d \in Seq(Packets), NEW T1 \in Nat, NEW last \in Int, InOrder(d, T1, last),
           NEW p \in Packets,
           \/ p.type = "T4" /\ p.round <= T1
           \/ p.type = "probe" /\ (d = <<>> \/ d[Len(d)].type = "T4")
    PROVE  InOrder(Append(d, p), T1, last)
<1>1. PICK e, n : LongerIs(d, p, e, n)
  BY OneMore
<1>2. /\ e = Append(d, p) /\ n \in Nat /\ DOMAIN d = 1 .. n /\ DOMAIN e = 1 .. n + 1
      /\ e[n + 1] = p /\ \A i \in 1 .. n : e[i] = d[i]
      /\ \A i \in 1 .. n + 1 : i # n + 1 => i \in 1 .. n
      /\ \A i \in 1 .. n + 1 : i > 1 => i - 1 \in 1 .. n
      /\ Len(d) = n /\ (d = <<>> <=> n = 0)
  BY <1>1 DEF LongerIs
<1>3. ASSUME NEW i \in 1 .. n + 1
      PROVE  /\ e[i].type = "T1" => T1 < e[i].round /\ e[i].round <= last
             /\ e[i].type = "T4" => e[i].round <= T1
             /\ e[i].type = "probe" /\ i > 1 => e[i - 1].type = "T4"
  <2>1. CASE i = n + 1
    <3>1. e[i] = p
      BY <1>2, <2>1
    <3>2. i > 1 => e[i - 1] = d[n] /\ n # 0
      BY <1>2, <2>1
    <3> QED
      BY <1>2, <3>1, <3>2
  <2>2. CASE i \in 1 .. n
    <3>1. i > 1 => i - 1 \in 1 .. n
      BY <1>2
    <3>2. e[i] = d[i] /\ (i > 1 => e[i - 1] = d[i - 1])
      BY <1>2, <2>2, <3>1
    <3> QED
      BY <1>2, <2>2, <3>2 DEF InOrder
  <2> QED
    BY <1>2, <2>1, <2>2
<1>4. ASSUME NEW i \in 1 .. n + 1, NEW j \in 1 .. n + 1,
             i < j, e[i].type = "T1", e[j].type = "T1"
      PROVE  e[i].round < e[j].round
  <2>1. i # n + 1 /\ j # n + 1
    BY <1>2, <1>4
  <2>2. i \in 1 .. n /\ j \in 1 .. n
    BY <1>2, <2>1
  <2> QED
    BY <1>2, <1>4, <2>2 DEF InOrder
<1> QED
  <2>1. T1 <= last
    BY DEF InOrder
  <2> QED
    BY <1>2, <1>3, <1>4, <2>1 DEF InOrder

-----------------------------------------------------------------------------
(* What keeps a federate in time.                                          *)

\* The T1 message of the next round is sent, or the turn comes without one, when
\* nothing older than the last round is under way.
LEMMA Sent ==
    ASSUME NEW l \in Listeners, NEW d \in Seq(Packets), NEW last \in Int, last + 1 \in Nat,
           InTime(l, d, last),
           \A i \in DOMAIN d : d[i].type = "T1" => d[i].round >= last,
           NEW d2, d2 = d \/ d2 = Append(d, [type |-> "T1", round |-> last + 1])
    PROVE  /\ InTime(l, d2, last + 1)
           /\ Answering(l, d, last) /\ l.T1 >= last => Answering(l, d2, last + 1)
<1>1. PICK p : p = [type |-> "T1", round |-> last + 1]
  OBVIOUS
<1>2. p \in Packets /\ p.type = "T1" /\ p.round = last + 1
  BY <1>1 DEF Packets
<1>3. PICK e, n : LongerIs(d, p, e, n)
  BY <1>2, OneMore
<1>4. /\ e = Append(d, p) /\ n \in Nat /\ DOMAIN d = 1 .. n /\ DOMAIN e = 1 .. n + 1
      /\ e[n + 1] = p /\ \A i \in 1 .. n : e[i] = d[i]
      /\ \A i \in 1 .. n : d[i].round \in Nat
      /\ \A i \in 1 .. n + 1 : i # n + 1 => i \in 1 .. n
      /\ \A i \in 1 .. n + 1 : i > 1 => i - 1 \in 1 .. n
      /\ Len(d) = n /\ Len(e) = n + 1 /\ (d = <<>> <=> n = 0)
  BY <1>3 DEF LongerIs
<1>5. l.T1 \in Nat
  BY DEF Listeners
<1>6. InOrder(d, l.T1, last + 1) /\ InOrder(e, l.T1, last + 1)
  BY <1>1, <1>4, <1>5, OrderedT1 DEF InTime
<1>7. Recent(d, last + 1) /\ Recent(e, last + 1)
  <2>1. \A i \in 1 .. n + 1 : e[i].type = "T1" => e[i].round >= (last + 1) - 1
    <3> SUFFICES ASSUME NEW i \in 1 .. n + 1, e[i].type = "T1"
                 PROVE  e[i].round >= (last + 1) - 1
      OBVIOUS
    <3>1. CASE i = n + 1
      BY <1>2, <1>4, <3>1
    <3>2. CASE i # n + 1
      BY <1>4, <3>2
    <3> QED
      BY <3>1, <3>2
  <2> QED
    BY <1>4, <2>1 DEF Recent
<1>8. Matched(l, e)
  <2> SUFFICES ASSUME NEW i \in 1 .. n + 1, e[i].type = "T4"
               PROVE  /\ i = 1 /\ l.pc = "T4" => e[i].round = l.T1
                      /\ i > 1 /\ e[i - 1].type = "T1" =>
                            e[i - 1].round = e[i].round \/ (i = 2 /\ l.pc = "T4")
    BY <1>4 DEF Matched
  <2>1. i # n + 1
    BY <1>2, <1>4
  <2>2. i \in 1 .. n /\ e[i] = d[i] /\ (i > 1 => e[i - 1] = d[i - 1])
    BY <1>4, <2>1
  <2> QED
    BY <1>4, <2>2 DEF InTime, Matched
<1>9. InTime(l, d2, last + 1)
  BY <1>1, <1>4, <1>6, <1>7, <1>8 DEF InTime
<1>10. ASSUME Answering(l, d, last), l.T1 >= last PROVE Answering(l, d2, last + 1)
  <2>1. l.T1 = last
    BY <1>5, <1>10 DEF InTime, InOrder
  <2>2. l.pc = "T4" /\ d = <<>>
    <3>1. ~(Len(d) = 1 /\ d[1].type = "T1")
      <4> SUFFICES ASSUME Len(d) = 1, d[1].type = "T1" PROVE FALSE
        OBVIOUS
      <4>1. 1 \in DOMAIN d /\ d[1].round \in Nat
        BY <1>4
      <4>2. l.T1 < d[1].round /\ d[1].round <= last
        BY <4>1 DEF InTime, InOrder
      <4> QED
        BY <1>5, <2>1, <4>1, <4>2
    <3> QED
      BY <1>5, <1>10, <2>1, <3>1 DEF Answering
  <2>3. Len(e) = 1 /\ e[1].type = "T1"
    BY <1>2, <1>4, <2>2
  <2>4. l.T1 >= (last + 1) - 1
    BY <2>1
  <2> QED
    BY <1>1, <1>4, <2>2, <2>3, <2>4 DEF Answering
<1> QED
  BY <1>9, <1>10

\* The T4 message and the probe that answer a federate.
LEMMA AnswerSent ==
    ASSUME NEW l \in Listeners, NEW d \in Seq(Packets), NEW last \in Int,
           InTime(l, d, last), Answering(l, d, last),
           NEW d2, d2 \in {d, Append(d, [type |-> "T4", round |-> l.T1]),
                           Append(Append(d, [type |-> "T4", round |-> l.T1]),
                                  [type |-> "probe", round |-> l.T1])}
    PROVE  InTime(l, d2, last)
<1>1. PICK p, q : p = [type |-> "T4", round |-> l.T1] /\ q = [type |-> "probe", round |-> l.T1]
  OBVIOUS
<1>2. l.T1 \in Nat
  BY DEF Listeners
<1>3. /\ p \in Packets /\ p.type = "T4" /\ p.round = l.T1
      /\ q \in Packets /\ q.type = "probe"
  BY <1>1, <1>2 DEF Packets
<1>4. PICK e, n : LongerIs(d, p, e, n)
  BY <1>3, OneMore
<1>5. /\ e = Append(d, p) /\ n \in Nat /\ DOMAIN d = 1 .. n /\ DOMAIN e = 1 .. n + 1
      /\ e[n + 1] = p /\ \A i \in 1 .. n : e[i] = d[i]
      /\ \A i \in 1 .. n + 1 : i # n + 1 => i \in 1 .. n
      /\ \A i \in 1 .. n + 1 : i > 1 => i - 1 \in 1 .. n
      /\ e \in Seq(Packets) /\ Len(e) = n + 1 /\ (d = <<>> <=> n = 0) /\ Len(d) = n
  BY <1>4 DEF LongerIs
<1>6. PICK b, m : LongerIs(e, q, b, m)
  BY <1>3, <1>5, OneMore
<1>7. /\ b = Append(e, q) /\ m \in Nat /\ DOMAIN e = 1 .. m /\ DOMAIN b = 1 .. m + 1
      /\ b[m + 1] = q /\ \A i \in 1 .. m : b[i] = e[i]
      /\ \A i \in 1 .. m + 1 : i # m + 1 => i \in 1 .. m
      /\ \A i \in 1 .. m + 1 : i > 1 => i - 1 \in 1 .. m
  BY <1>6 DEF LongerIs
<1>8. InOrder(e, l.T1, last)
  BY <1>2, <1>3, <1>5, OrderedAnswer DEF InTime
<1>9. InOrder(b, l.T1, last)
  <2>1. e[Len(e)].type = "T4"
    BY <1>3, <1>5
  <2> QED
    BY <1>2, <1>3, <1>5, <1>7, <1>8, <2>1, OrderedAnswer
<1>10. Recent(e, last)
  <2>1. \A i \in 1 .. n + 1 : e[i].type = "T1" => i \in 1 .. n
    BY <1>3, <1>5
  <2> QED
    BY <1>5, <2>1 DEF Recent, InTime
<1>11. Recent(b, last)
  <2>1. \A i \in 1 .. m + 1 : b[i].type = "T1" => i \in 1 .. m
    BY <1>3, <1>7
  <2> QED
    BY <1>7, <1>10, <2>1 DEF Recent
<1>12. Matched(l, e)
  <2> SUFFICES ASSUME NEW i \in 1 .. n + 1, e[i].type = "T4"
               PROVE  /\ i = 1 /\ l.pc = "T4" => e[i].round = l.T1
                      /\ i > 1 /\ e[i - 1].type = "T1" =>
                            e[i - 1].round = e[i].round \/ (i = 2 /\ l.pc = "T4")
    BY <1>5 DEF Matched
  <2>1. CASE i # n + 1
    <3>1. i \in 1 .. n /\ e[i] = d[i] /\ (i > 1 => e[i - 1] = d[i - 1])
      BY <1>5, <2>1
    <3> QED
      BY <1>5, <3>1 DEF InTime, Matched
  <2>2. CASE i = n + 1
    <3>1. e[i].round = l.T1
      BY <1>3, <1>5, <2>2
    <3>2. n = 0 \/ (n = 1 /\ l.pc = "T4")
      BY <1>5 DEF Answering
    <3> QED
      BY <1>5, <2>2, <3>1, <3>2
  <2> QED
    BY <2>1, <2>2
<1>13. Matched(l, b)
  <2> SUFFICES ASSUME NEW i \in 1 .. m + 1, b[i].type = "T4"
               PROVE  /\ i = 1 /\ l.pc = "T4" => b[i].round = l.T1
                      /\ i > 1 /\ b[i - 1].type = "T1" =>
                            b[i - 1].round = b[i].round \/ (i = 2 /\ l.pc = "T4")
    BY <1>7 DEF Matched
  <2>1. i # m + 1
    BY <1>3, <1>7
  <2>2. i \in 1 .. m /\ b[i] = e[i] /\ (i > 1 => b[i - 1] = e[i - 1])
    BY <1>7, <2>1
  <2> QED
    BY <1>7, <1>12, <2>2 DEF Matched
<1>14. InTime(l, e, last) /\ InTime(l, b, last)
  BY <1>8, <1>9, <1>10, <1>11, <1>12, <1>13 DEF InTime
<1> QED
  BY <1>1, <1>5, <1>7, <1>14

\* The first packet is gone, and the listener does not wait for T4, or it never did.
LEMMA GoesOn ==
    ASSUME NEW l \in Listeners, NEW d \in Seq(Packets), NEW last \in Int,
           InTime(l, d, last),
           NEW l2 \in Listeners, l2.pc # "T4", l2.T1 = l.T1, Sampled(l2),
           NEW d2, \/ d # <<>> /\ d2 = Tail(d)
                   \/ d2 = d /\ l.pc # "T4"
    PROVE  InTime(l2, d2, last)
<1>1. l.T1 \in Nat
  BY DEF Listeners
<1>2. CASE d2 = d /\ l.pc # "T4"
  BY <1>2 DEF InTime, Matched
<1>3. CASE d # <<>> /\ d2 = Tail(d)
  <2>1. PICK e, n : RestIs(d, e, n)
    BY <1>3, RestOf
  <2>2. /\ e = Tail(d) /\ n \in Nat /\ DOMAIN d = 1 .. n + 1 /\ DOMAIN e = 1 .. n
        /\ \A i \in 1 .. n : /\ e[i] = d[i + 1] /\ i \in 1 .. n + 1
                             /\ i + 1 \in 1 .. n + 1 /\ (i + 1) - 1 = i
    BY <2>1 DEF RestIs
  <2>3. InOrder(e, l2.T1, last)
    BY <1>1, <1>3, <2>2, OrderedTail DEF InTime
  <2>4. Recent(e, last)
    BY <2>2 DEF Recent, InTime
  <2>5. Matched(l2, e)
    <3> SUFFICES ASSUME NEW i \in 1 .. n, e[i].type = "T4", i > 1, e[i - 1].type = "T1"
                 PROVE  e[i - 1].round = e[i].round
      BY <2>2 DEF Matched
    <3>1. i - 1 \in 1 .. n /\ (i - 1) + 1 = i
      BY <2>2
    <3>2. e[i - 1] = d[i] /\ e[i] = d[i + 1] /\ i + 1 \in DOMAIN d /\ (i + 1) - 1 = i
      BY <2>2, <3>1
    <3>3. i + 1 > 1 /\ i + 1 # 2
      BY <2>2
    <3> QED
      BY <3>2, <3>3 DEF InTime, Matched
  <2> QED
    BY <1>3, <2>2, <2>3, <2>4, <2>5 DEF InTime
<1> QED
  BY <1>2, <1>3

\* A T1 message is handled.
LEMMA Takes ==
    ASSUME NEW l \in Listeners, NEW d \in Seq(Packets), NEW last \in Int,
           InTime(l, d, last), d # <<>>, l.pc = "T1", d[1].type = "T1",
           NEW l2 \in Listeners, l2.pc = "T4", l2.T1 = d[1].round, Sampled(l2)
    PROVE  InTime(l2, Tail(d), last) /\ Answering(l2, Tail(d), last)
<1>1. l.T1 \in Nat
  BY DEF Listeners
<1>2. PICK e, n : RestIs(d, e, n)
  BY RestOf
<1>3. /\ e = Tail(d) /\ n \in Nat /\ DOMAIN d = 1 .. n + 1 /\ DOMAIN e = 1 .. n
      /\ \A i \in 1 .. n + 1 : d[i].round \in Nat /\ d[i].type \in {"T1", "T4", "probe"}
      /\ \A i \in 1 .. n : /\ e[i] = d[i + 1] /\ i \in 1 .. n + 1
                           /\ i + 1 \in 1 .. n + 1 /\ (i + 1) - 1 = i
      /\ Len(e) = n /\ 1 \in 1 .. n + 1 /\ e \in Seq(Packets)
  BY <1>2 DEF RestIs
<1>4. InOrder(e, l2.T1, last)
  BY <1>1, <1>3, OrderedTail DEF InTime
<1>5. Recent(e, last)
  BY <1>3 DEF Recent, InTime
<1>6. Matched(l2, e)
  <2> SUFFICES ASSUME NEW i \in 1 .. n, e[i].type = "T4"
               PROVE  /\ i = 1 => e[i].round = l2.T1
                      /\ i > 1 /\ e[i - 1].type = "T1" => e[i - 1].round = e[i].round
    BY <1>3 DEF Matched
  <2>1. e[i] = d[i + 1] /\ i + 1 \in DOMAIN d /\ (i + 1) - 1 = i /\ i + 1 > 1
    BY <1>3
  <2>2. d[i].type = "T1" => d[i].round = d[i + 1].round
    BY <2>1 DEF InTime, Matched
  <2>3. i > 1 => e[i - 1] = d[i]
    <3> SUFFICES ASSUME i > 1 PROVE e[i - 1] = d[i]
      OBVIOUS
    <3>1. i - 1 \in 1 .. n /\ (i - 1) + 1 = i
      BY <1>3
    <3> QED
      BY <1>3, <3>1
  <2> QED
    BY <2>1, <2>2, <2>3
<1>7. InTime(l2, e, last)
  BY <1>4, <1>5, <1>6 DEF InTime
<1>8. /\ d[1].round \in Nat /\ d[1].round >= last - 1
      /\ l.T1 < d[1].round /\ d[1].round <= last
  BY <1>3 DEF InTime, InOrder, Recent
<1>9. ASSUME n >= 1 PROVE d[2].type = "T1" /\ d[2].round = last
  <2>1. 2 \in DOMAIN d /\ 2 > 1 /\ 2 - 1 = 1 /\ 1 \in DOMAIN d /\ 1 < 2
    BY <1>3, <1>9
  <2>2. d[2].type # "probe"
    BY <2>1 DEF InTime, InOrder
  <2>3. d[2].type # "T4"
    <3> SUFFICES ASSUME d[2].type = "T4" PROVE FALSE
      OBVIOUS
    <3>1. d[2].round = d[1].round
      BY <2>1 DEF InTime, Matched
    <3>2. d[2].round <= l.T1
      BY <2>1 DEF InTime, InOrder
    <3> QED
      BY <1>1, <1>8, <3>1, <3>2
  <2>4. d[2].type = "T1"
    BY <1>3, <2>1, <2>2, <2>3
  <2>5. d[1].round < d[2].round /\ d[2].round <= last /\ d[2].round \in Nat
    BY <1>3, <2>1, <2>4 DEF InTime, InOrder
  <2> QED
    BY <1>8, <2>4, <2>5
<1>10. ~(n >= 2)
  <2> SUFFICES ASSUME n >= 2 PROVE FALSE
    OBVIOUS
  <2>1. 3 \in DOMAIN d /\ 2 \in DOMAIN d /\ 3 > 1 /\ 3 - 1 = 2 /\ 2 < 3 /\ 3 # 2
    BY <1>3
  <2>2. d[2].type = "T1" /\ d[2].round = last
    BY <1>3, <1>9
  <2>3. d[3].type # "probe"
    BY <2>1, <2>2 DEF InTime, InOrder
  <2>4. d[3].type # "T1"
    <3> SUFFICES ASSUME d[3].type = "T1" PROVE FALSE
      OBVIOUS
    <3>1. last < d[3].round /\ d[3].round <= last /\ d[3].round \in Nat
      BY <1>3, <2>1, <2>2 DEF InTime, InOrder
    <3> QED
      BY <3>1
  <2>5. d[3].type # "T4"
    <3> SUFFICES ASSUME d[3].type = "T4" PROVE FALSE
      OBVIOUS
    <3>1. d[2].round = d[3].round
      BY <2>1, <2>2 DEF InTime, Matched
    <3>2. d[3].round <= l.T1
      BY <2>1 DEF InTime, InOrder
    <3> QED
      BY <1>1, <1>8, <2>2, <3>1, <3>2
  <2> QED
    BY <1>3, <2>1, <2>3, <2>4, <2>5
<1>11. Answering(l2, e, last)
  <2>1. CASE n = 0
    <3>1. e = <<>>
      BY <1>3, <2>1
    <3> QED
      BY <1>8, <3>1 DEF Answering
  <2>2. CASE n = 1
    <3>1. 1 \in 1 .. n
      BY <2>2
    <3>2. Len(e) = 1 /\ e[1].type = "T1"
      BY <1>3, <1>9, <2>2, <3>1
    <3> QED
      BY <1>8, <3>2 DEF Answering
  <2> QED
    BY <1>3, <1>10, <2>1, <2>2
<1> QED
  BY <1>3, <1>7, <1>11

\* A federate whose answer is under way can receive but the T1 message of the next
\* round, and gives up waiting.
LEMMA StopsWaiting ==
    ASSUME NEW l \in Listeners, NEW d \in Seq(Packets), NEW last \in Int,
           InTime(l, d, last), Answering(l, d, last), d # <<>>
    PROVE  /\ l.pc = "T4" /\ d[1].type = "T1"
           /\ \A l2 : l2.pc = "T1" /\ l2.T1 = l.T1 => Answering(l2, Tail(d), last)
<1>1. l.pc = "T4" /\ Len(d) = 1 /\ d[1].type = "T1"
  BY DEF Answering
<1>2. Tail(d) = <<>>
  <2>1. PICK e : e = Tail(d)
    OBVIOUS
  <2>2. e \in Seq(Packets) /\ Len(e) = 0
    BY <1>1, <2>1, TailFacts
  <2>3. e = <<>>
    BY <2>2
  <2> QED
    BY <2>1, <2>3
<1>3. l.T1 \in Nat /\ l.T1 >= last - 1
  BY DEF Listeners, Answering
<1>4. 1 \in DOMAIN d /\ d[1] \in Packets
  BY <1>1
<1>5. l.T1 < d[1].round /\ d[1].round <= last /\ d[1].round \in Nat
  BY <1>1, <1>4 DEF InTime, InOrder, Packets
<1>6. last = l.T1 + 1
  BY <1>3, <1>5
<1> QED
  BY <1>1, <1>2, <1>3, <1>6 DEF Answering

-----------------------------------------------------------------------------
(* The steps of the clock thread and of the listeners.                     *)

LEMMA NextTurns ==
    ASSUME NEW S, NEW t \in ClockThreads(S)
    PROVE  /\ NextTurn(t) \in ClockThreads(S)
           /\ NextTurn(t).order = t.order /\ NextTurn(t).round = t.round
           /\ \/ /\ t.at < Len(t.order) /\ NextTurn(t).pc = "send"
                 /\ NextTurn(t).at = t.at + 1 /\ NextTurn(t).at \in DOMAIN t.order
              \/ /\ ~(t.at < Len(t.order)) /\ NextTurn(t).pc \in {"sleep", "done"}
                 /\ NextTurn(t).at = 0
<1>1. t.order \in Seq(S) /\ t.at \in Nat /\ t.round \in Nat
  BY DEF ClockThreads
<1>2. Len(t.order) \in Nat /\ DOMAIN t.order = 1 .. Len(t.order)
  BY <1>1
<1>3. CASE t.at < Len(t.order)
  <2>1. NextTurn(t) = [t EXCEPT !.pc = "send", !.at = @ + 1]
    BY <1>3 DEF NextTurn
  <2>2. t.at + 1 \in 1 .. Len(t.order)
    BY <1>1, <1>2, <1>3
  <2>3. PICK next : next = t.at + 1
    OBVIOUS
  <2>4. next \in Nat
    BY <1>1, <2>3
  <2>5. PICK r : r = [t EXCEPT !.pc = "send", !.at = next]
    OBVIOUS
  <2>6. /\ r \in ClockThreads(S) /\ r.order = t.order /\ r.round = t.round
        /\ r.pc = "send" /\ r.at = next
    BY <2>4, <2>5 DEF ClockThreads
  <2>7. NextTurn(t) = r
    BY <2>1, <2>3, <2>5
  <2> QED
    BY <1>2, <1>3, <2>2, <2>3, <2>6, <2>7
<1>4. CASE ~(t.at < Len(t.order))
  <2>1. NextTurn(t) = [t EXCEPT !.pc = IF t.any THEN "sleep" ELSE "done", !.at = 0]
    BY <1>4 DEF NextTurn
  <2>2. PICK pc : pc = IF t.any THEN "sleep" ELSE "done"
    OBVIOUS
  <2>3. pc \in {"sleep", "done"}
    BY <2>2
  <2>4. PICK r : r = [t EXCEPT !.pc = pc, !.at = 0]
    OBVIOUS
  <2>5. /\ r \in ClockThreads(S) /\ r.order = t.order /\ r.round = t.round
        /\ r.pc = pc /\ r.at = 0
    BY <1>1, <2>3, <2>4 DEF ClockThreads
  <2> QED
    BY <1>4, <2>1, <2>2, <2>3, <2>4, <2>5
<1> QED
  BY <1>3, <1>4

\* What a turn of the thread leaves as it is.
ThreadKept ==
    /\ thread' \in ClockThreads(DOMAIN listener) /\ thread'.order = thread.order
    /\ thread'.pc \in {"off", "sleep"} => thread'.at = 0
    /\ thread'.pc \in {"send", "read"} => thread'.at \in DOMAIN thread.order

LEMMA ThreadTypes ==
    ASSUME ClockTypeOK
    PROVE  /\ thread \in ClockThreads(DOMAIN listener)
           /\ thread.at \in Nat /\ thread.round \in Nat /\ thread.left \in Int
           /\ thread.order \in Seq(DOMAIN listener) /\ Len(thread.order) \in Nat
           /\ DOMAIN thread.order = 1 .. Len(thread.order)
           /\ \A k \in DOMAIN thread.order : /\ thread.order[k] \in DOMAIN listener
                                             /\ k \in Nat /\ LastTurn(k) \in Int
                                             /\ LastTurn(k) + 1 \in Nat
<1>1. /\ thread.at \in Nat /\ thread.round \in Nat /\ thread.left \in Int
      /\ thread.order \in Seq(DOMAIN listener)
  BY DEF ClockTypeOK, ClockThreads
<1>2. Len(thread.order) \in Nat /\ DOMAIN thread.order = 1 .. Len(thread.order)
  BY <1>1
<1>3. \A k \in DOMAIN thread.order : thread.order[k] \in DOMAIN listener
  BY <1>1
<1>4. \A k \in DOMAIN thread.order : LastTurn(k) \in Int /\ LastTurn(k) + 1 \in Nat
  BY <1>1, <1>2 DEF LastTurn
<1> QED
  BY <1>1, <1>2, <1>3, <1>4 DEF ClockTypeOK

LEMMA StartKeepsTurns ==
    ASSUME ClockTypeOK, StartThread
    PROVE  ThreadKept /\ \A k \in DOMAIN thread.order : LastTurn(k)' = LastTurn(k)
<1>1. /\ thread \in ClockThreads(DOMAIN listener) /\ thread.pc = "off" /\ thread.at = 0
      /\ thread' = [thread EXCEPT !.pc = "sleep", !.any = TRUE]
  BY DEF ClockTypeOK, StartThread
<1>2. /\ thread' \in ClockThreads(DOMAIN listener) /\ thread'.pc = "sleep" /\ thread'.at = 0
      /\ thread'.order = thread.order /\ thread'.round = thread.round
  BY <1>1 DEF ClockThreads
<1> QED
  BY <1>1, <1>2 DEF ThreadKept, LastTurn

LEMMA BeginKeepsTurns ==
    ASSUME ClockTypeOK, BeginRound
    PROVE  ThreadKept /\ \A k \in DOMAIN thread.order : LastTurn(k)' = LastTurn(k)
<1>1. /\ thread \in ClockThreads(DOMAIN listener) /\ thread.pc = "sleep" /\ thread.at = 0
  BY DEF ClockTypeOK, BeginRound
<1>0. PICK next : next = thread.round + 1
  OBVIOUS
<1>2. PICK t : t = [thread EXCEPT !.any = FALSE, !.round = next]
  OBVIOUS
<1>3. thread' = NextTurn(t)
  <2>1. thread' = NextTurn([thread EXCEPT !.any = FALSE, !.round = @ + 1])
    BY DEF BeginRound
  <2> QED
    BY <1>0, <1>2, <2>1
<1>4. /\ t \in ClockThreads(DOMAIN listener) /\ t.order = thread.order /\ t.at = 0
      /\ t.round = thread.round + 1
  <2>1. next \in Nat
    BY <1>0, ThreadTypes
  <2> QED
    BY <1>0, <1>1, <1>2, <2>1 DEF ClockThreads
<1>5. /\ thread' \in ClockThreads(DOMAIN listener) /\ thread'.order = t.order
      /\ thread'.round = t.round
      /\ \/ /\ t.at < Len(t.order) /\ thread'.pc = "send"
            /\ thread'.at = t.at + 1 /\ thread'.at \in DOMAIN t.order
         \/ /\ ~(t.at < Len(t.order)) /\ thread'.pc \in {"sleep", "done"} /\ thread'.at = 0
  BY <1>3, <1>4, NextTurns
<1>6. ThreadKept
  BY <1>4, <1>5 DEF ThreadKept
<1>7. ASSUME NEW k \in DOMAIN thread.order PROVE LastTurn(k)' = LastTurn(k)
  <2>1. k \in 1 .. Len(thread.order) /\ thread.round \in Nat
    BY ThreadTypes
  <2>2. thread'.pc = "send" /\ thread'.at = 1 /\ thread'.round = thread.round + 1
    BY <1>4, <1>5, <2>1
  <2>3. LastTurn(k)' = (thread.round + 1) - 1
    BY <2>1, <2>2 DEF LastTurn
  <2>4. LastTurn(k) = thread.round
    BY <1>1 DEF LastTurn
  <2> QED
    BY <2>1, <2>3, <2>4
<1> QED
  BY <1>6, <1>7

\* A federate's turn comes.
LEMMA TurnComes ==
    ASSUME ClockTypeOK, NEW enabled, SendT1(enabled)
    PROVE  /\ ThreadKept
           /\ thread.at \in DOMAIN thread.order /\ LastTurn(thread.at) = thread.round - 1
           /\ \A k \in DOMAIN thread.order :
                 LastTurn(k)' = IF k = thread.at THEN LastTurn(k) + 1 ELSE LastTurn(k)
<1>1. /\ thread \in ClockThreads(DOMAIN listener) /\ thread.pc = "send"
      /\ thread.at \in DOMAIN thread.order
  BY DEF ClockTypeOK, SendT1
<1>2. /\ thread.at \in Nat /\ thread.round \in Nat
      /\ DOMAIN thread.order = 1 .. Len(thread.order) /\ Len(thread.order) \in Nat
  BY ThreadTypes
<1>3. LastTurn(thread.at) = thread.round - 1
  BY <1>1, <1>2 DEF LastTurn
<1>4. CASE Current \in enabled
  <2>1. thread' = [thread EXCEPT !.pc = "read", !.left = Attempts]
    BY <1>4 DEF SendT1
  <2>2. Attempts \in Int
    BY ClockSyncAssumption
  <2>3. /\ thread' \in ClockThreads(DOMAIN listener) /\ thread'.pc = "read"
        /\ thread'.at = thread.at /\ thread'.order = thread.order
        /\ thread'.round = thread.round
    BY <1>1, <2>1, <2>2 DEF ClockThreads
  <2>4. \A k \in DOMAIN thread.order :
           LastTurn(k)' = IF k = thread.at THEN LastTurn(k) + 1 ELSE LastTurn(k)
    BY <1>1, <1>2, <2>3 DEF LastTurn
  <2> QED
    BY <1>1, <1>3, <2>3, <2>4 DEF ThreadKept
<1>5. CASE Current \notin enabled
  <2>1. thread' = NextTurn(thread)
    BY <1>5 DEF SendT1
  <2>2. /\ thread' \in ClockThreads(DOMAIN listener) /\ thread'.order = thread.order
        /\ thread'.round = thread.round
        /\ \/ /\ thread.at < Len(thread.order) /\ thread'.pc = "send"
              /\ thread'.at = thread.at + 1 /\ thread'.at \in DOMAIN thread.order
           \/ /\ ~(thread.at < Len(thread.order)) /\ thread'.pc \in {"sleep", "done"}
              /\ thread'.at = 0
    BY <1>1, <2>1, NextTurns
  <2>3. \A k \in DOMAIN thread.order :
           LastTurn(k)' = IF k = thread.at THEN LastTurn(k) + 1 ELSE LastTurn(k)
    BY <1>1, <1>2, <2>2 DEF LastTurn
  <2> QED
    BY <1>1, <1>3, <2>2, <2>3 DEF ThreadKept
<1> QED
  BY <1>4, <1>5

\* It is over.
LEMMA TurnEnds ==
    ASSUME ClockTypeOK, thread.pc = "read",
           NEW t \in ClockThreads(DOMAIN listener),
           t.order = thread.order, t.at = thread.at, t.round = thread.round,
           \/ thread' = NextTurn(t)
           \/ thread' = t /\ t.pc = "read"
    PROVE  /\ ThreadKept
           /\ thread.at \in DOMAIN thread.order /\ LastTurn(thread.at) = thread.round
           /\ \A k \in DOMAIN thread.order : LastTurn(k)' = LastTurn(k)
<1>1. thread.at \in DOMAIN thread.order
  BY DEF ClockTypeOK
<1>2. /\ thread.at \in Nat /\ thread.round \in Nat
      /\ DOMAIN thread.order = 1 .. Len(thread.order) /\ Len(thread.order) \in Nat
  BY ThreadTypes
<1>3. LastTurn(thread.at) = thread.round
  BY <1>1, <1>2 DEF LastTurn
<1>4. CASE thread' = t /\ t.pc = "read"
  BY <1>1, <1>3, <1>4 DEF ThreadKept, LastTurn
<1>5. CASE thread' = NextTurn(t)
  <2>1. /\ thread' \in ClockThreads(DOMAIN listener) /\ thread'.order = thread.order
        /\ thread'.round = thread.round
        /\ \/ /\ thread.at < Len(thread.order) /\ thread'.pc = "send"
              /\ thread'.at = thread.at + 1 /\ thread'.at \in DOMAIN thread.order
           \/ /\ ~(thread.at < Len(thread.order)) /\ thread'.pc \in {"sleep", "done"}
              /\ thread'.at = 0
    BY <1>5, NextTurns
  <2>2. \A k \in DOMAIN thread.order : LastTurn(k)' = LastTurn(k)
    BY <1>2, <2>1 DEF LastTurn
  <2> QED
    BY <1>1, <1>3, <2>1, <2>2 DEF ThreadKept
<1> QED
  BY <1>4, <1>5

Answers(federates) == [from : federates, round : Nat]

\* The state of one federate, f, may change, and what is under way to it and from it.
LEMMA OneFederate ==
    ASSUME ClockInv, ThreadKept,
           NEW f \in DOMAIN listener, NEW l2 \in Listeners, NEW d2 \in Seq(Packets),
           listener' = [listener EXCEPT ![f] = l2], down' = [down EXCEPT ![f] = d2],
           up' \in Seq(Answers(DOMAIN listener)),
           overdue' \in BOOLEAN, overdue => overdue',
           \A k \in DOMAIN thread.order : thread.order[k] # f => LastTurn(k)' = LastTurn(k),
           \A j \in DOMAIN up' : up'[j].from # f => \E i \in DOMAIN up : up[i] = up'[j],
           ~overdue' => OneAnswer',
           \A k \in DOMAIN thread.order : ~overdue' /\ thread.order[k] = f =>
              /\ InTime(l2, d2, LastTurn(k)')
              /\ \A j \in DOMAIN up' : up'[j].from = f =>
                    up'[j].round = l2.T1 /\ Answering(l2, d2, LastTurn(k)')
    PROVE  ClockInv'
<1>1. ClockTypeOK /\ EachOnce
  BY DEF ClockInv
<1>2. /\ listener \in [DOMAIN listener -> Listeners]
      /\ down \in [DOMAIN listener -> Seq(Packets)]
  BY <1>1 DEF ClockTypeOK
<1>3. /\ DOMAIN listener' = DOMAIN listener
      /\ listener' \in [DOMAIN listener -> Listeners]
      /\ down' \in [DOMAIN listener -> Seq(Packets)]
      /\ \A g \in DOMAIN listener : /\ listener'[g] = IF g = f THEN l2 ELSE listener[g]
                                    /\ down'[g] = IF g = f THEN d2 ELSE down[g]
  BY <1>2
<1>4. thread'.order = thread.order
  BY DEF ThreadKept
<1>5. ClockTypeOK'
  BY <1>3, <1>4 DEF ClockTypeOK, ThreadKept, Answers
<1>6. EachOnce'
  BY <1>1, <1>3, <1>4 DEF EachOnce
<1>7. ASSUME ~overdue', NEW k \in DOMAIN thread.order
      PROVE  /\ InTime(listener'[thread.order[k]], down'[thread.order[k]], LastTurn(k)')
             /\ \A j \in DOMAIN up' : up'[j].from = thread.order[k] =>
                   /\ up'[j].round = listener'[thread.order[k]].T1
                   /\ Answering(listener'[thread.order[k]], down'[thread.order[k]], LastTurn(k)')
  <2>1. thread.order[k] \in DOMAIN listener
    BY <1>1, ThreadTypes
  <2>2. CASE thread.order[k] = f
    BY <1>3, <1>7, <2>1, <2>2
  <2>3. CASE thread.order[k] # f
    <3>1. /\ listener'[thread.order[k]] = listener[thread.order[k]]
          /\ down'[thread.order[k]] = down[thread.order[k]]
          /\ LastTurn(k)' = LastTurn(k)
      BY <1>3, <2>1, <2>3
    <3>2. /\ InTime(listener[thread.order[k]], down[thread.order[k]], LastTurn(k))
          /\ AnswersHold(k)
      BY <1>7 DEF ClockInv
    <3>3. ASSUME NEW j \in DOMAIN up', up'[j].from = thread.order[k]
          PROVE  /\ up'[j].round = listener[thread.order[k]].T1
                 /\ Answering(listener[thread.order[k]], down[thread.order[k]], LastTurn(k))
      <4>1. PICK i \in DOMAIN up : up[i] = up'[j]
        BY <2>3, <3>3
      <4> QED
        BY <3>2, <3>3, <4>1 DEF AnswersHold
    <3> QED
      BY <3>1, <3>2, <3>3
  <2> QED
    BY <2>2, <2>3
<1>8. \A k \in DOMAIN thread.order : ~overdue' => AnswersHold(k)'
  BY <1>4, <1>7 DEF AnswersHold
<1>9. overdue' \/ /\ OneAnswer'
                  /\ \A k \in DOMAIN thread'.order :
                        /\ InTime(listener'[thread'.order[k]], down'[thread'.order[k]], LastTurn(k)')
                        /\ AnswersHold(k)'
  BY <1>4, <1>7, <1>8
<1> QED
  BY <1>5, <1>6, <1>9 DEF ClockInv

\* Nothing changes but the turn, and an answer may be gone.
LEMMA NoFederate ==
    ASSUME ClockInv, ThreadKept, UNCHANGED <<listener, down, overdue>>,
           up' = up \/ (up # <<>> /\ up' = Tail(up)),
           \A k \in DOMAIN thread.order : LastTurn(k)' = LastTurn(k)
    PROVE  ClockInv'
<1>1. ClockTypeOK /\ EachOnce
  BY DEF ClockInv
<1>2. thread'.order = thread.order
  BY DEF ThreadKept
<1>3. /\ up' \in Seq(Answers(DOMAIN listener))
      /\ \A j \in DOMAIN up' : \E i \in DOMAIN up : up[i] = up'[j]
      /\ OneAnswer => OneAnswer'
  <2>1. up \in Seq(Answers(DOMAIN listener))
    BY <1>1 DEF ClockTypeOK, Answers
  <2>2. CASE up' = up
    BY <2>1, <2>2 DEF OneAnswer
  <2>3. CASE up # <<>> /\ up' = Tail(up)
    <3>1. PICK n : n = Len(up)
      OBVIOUS
    <3>2. /\ up' \in Seq(Answers(DOMAIN listener)) /\ n \in Nat
          /\ DOMAIN up = 1 .. n /\ DOMAIN up' = 1 .. n - 1
          /\ \A i \in 1 .. n - 1 : up'[i] = up[i + 1]
      BY <2>1, <2>3, <3>1, TailFacts
    <3>3. \A i \in 1 .. n - 1 : i + 1 \in 1 .. n
      BY <3>2
    <3>4. \A j \in DOMAIN up' : \E i \in DOMAIN up : up[i] = up'[j]
      BY <3>2, <3>3
    <3>5. ASSUME OneAnswer PROVE OneAnswer'
      <4> SUFFICES ASSUME NEW i \in 1 .. n - 1, NEW j \in 1 .. n - 1, up'[i].from = up'[j].from
                   PROVE  i = j
        BY <3>2 DEF OneAnswer
      <4>1. PICK s, t : s = i + 1 /\ t = j + 1
        OBVIOUS
      <4>2. s \in DOMAIN up /\ t \in DOMAIN up
        BY <3>2, <3>3, <4>1
      <4>3. up[s].from = up[t].from
        BY <3>2, <4>1
      <4>4. s = t
        BY <3>5, <4>2, <4>3 DEF OneAnswer
      <4> QED
        BY <4>1, <4>4
    <3> QED
      BY <3>2, <3>4, <3>5
  <2> QED
    BY <2>2, <2>3
<1>4. ClockTypeOK'
  BY <1>1, <1>2, <1>3 DEF ClockTypeOK, ThreadKept, Answers
<1>5. EachOnce'
  BY <1>1, <1>2 DEF EachOnce
<1>6. ASSUME ~overdue, NEW k \in DOMAIN thread.order
      PROVE  /\ InTime(listener[thread.order[k]], down[thread.order[k]], LastTurn(k))
             /\ AnswersHold(k)'
  <2>1. /\ InTime(listener[thread.order[k]], down[thread.order[k]], LastTurn(k))
        /\ AnswersHold(k)
    BY <1>6 DEF ClockInv
  <2>2. LastTurn(k)' = LastTurn(k)
    OBVIOUS
  <2> QED
    BY <1>2, <1>3, <2>1, <2>2 DEF AnswersHold
<1>7. overdue' \/ /\ OneAnswer'
                  /\ \A k \in DOMAIN thread'.order :
                        /\ InTime(listener'[thread'.order[k]], down'[thread'.order[k]], LastTurn(k)')
                        /\ AnswersHold(k)'
  <2>1. overdue \/ OneAnswer
    BY DEF ClockInv
  <2> QED
    BY <1>2, <1>3, <1>6, <2>1
<1> QED
  BY <1>4, <1>5, <1>7 DEF ClockInv

LEMMA SendsOne ==
    ASSUME ClockTypeOK, NEW f \in DOMAIN listener, NEW p \in Packets, Send(f, <<p>>)
    PROVE  \E d2 \in Seq(Packets) : /\ d2 = down[f] \/ d2 = Append(down[f], p)
                                    /\ down' = [down EXCEPT ![f] = d2]
<1>1. down[f] \in Seq(Packets)
  BY DEF ClockTypeOK
<1>2. PICK some \in Arriving(<<p>>) : down' = [down EXCEPT ![f] = @ \o some]
  BY DEF Send
<1>3. PICK d2 : d2 = down[f] \o some
  OBVIOUS
<1>4. d2 = down[f] \/ d2 = Append(down[f], p)
  BY <1>1, <1>3, OneArrives
<1>5. d2 \in Seq(Packets)
  BY <1>1, <1>4
<1> QED
  BY <1>2, <1>3, <1>4, <1>5

LEMMA SendsTwo ==
    ASSUME ClockTypeOK, NEW f \in DOMAIN listener, NEW p \in Packets, NEW q \in Packets,
           Send(f, <<p, q>>)
    PROVE  \E d2 \in Seq(Packets) :
              /\ d2 \in {down[f], Append(down[f], p), Append(Append(down[f], p), q)}
              /\ down' = [down EXCEPT ![f] = d2]
<1>1. down[f] \in Seq(Packets)
  BY DEF ClockTypeOK
<1>2. PICK some \in Arriving(<<p, q>>) : down' = [down EXCEPT ![f] = @ \o some]
  BY DEF Send
<1>3. PICK d2 : d2 = down[f] \o some
  OBVIOUS
<1>4. d2 \in {down[f], Append(down[f], p), Append(Append(down[f], p), q)}
  BY <1>1, <1>3, TwoArrive
<1>5. d2 \in Seq(Packets)
  <2>1. PICK e : e = Append(down[f], p)
    OBVIOUS
  <2>2. e \in Seq(Packets)
    BY <1>1, <2>1
  <2>3. Append(e, q) \in Seq(Packets)
    BY <2>2
  <2> QED
    BY <1>1, <1>4, <2>1, <2>2, <2>3
<1> QED
  BY <1>2, <1>3, <1>4, <1>5

LEMMA SendsNone ==
    ASSUME ClockTypeOK, NEW f \in DOMAIN listener, Send(f, <<>>)
    PROVE  down' = [down EXCEPT ![f] = down[f]]
<1>1. down[f] \in Seq(Packets)
  BY DEF ClockTypeOK
<1>2. PICK some \in Arriving(<<>>) : down' = [down EXCEPT ![f] = @ \o some]
  BY DEF Send
<1>3. some = <<>>
  BY <1>2 DEF Arriving
<1>4. down[f] \o <<>> = down[f]
  BY <1>1
<1> QED
  BY <1>2, <1>3, <1>4

LEMMA StartKeeps ==
    ASSUME ClockInv, StartThread
    PROVE  ClockInv'
  BY StartKeepsTurns, NoFederate DEF ClockInv, StartThread

LEMMA BeginKeeps ==
    ASSUME ClockInv, BeginRound
    PROVE  ClockInv'
  BY BeginKeepsTurns, NoFederate DEF ClockInv, BeginRound

LEMMA SendT1Keeps ==
    ASSUME ClockInv, NEW enabled, SendT1(enabled)
    PROVE  ClockInv'
<1>1. ClockTypeOK /\ EachOnce
  BY DEF ClockInv
<1>2. PICK at, f, last : at = thread.at /\ f = thread.order[at] /\ last = thread.round - 1
  OBVIOUS
<1>3. /\ ThreadKept
      /\ at \in DOMAIN thread.order /\ LastTurn(at) = last
      /\ LastTurn(at)' = last + 1
      /\ \A k \in DOMAIN thread.order : k # at => LastTurn(k)' = LastTurn(k)
  BY <1>1, <1>2, TurnComes
<1>4. /\ f \in DOMAIN listener /\ Current = f
      /\ last \in Int /\ last + 1 \in Nat /\ last + 1 = thread.round /\ thread.round - 1 = last
  BY <1>1, <1>2, <1>3, ThreadTypes DEF Current
<1>5. PICK p : p = [type |-> "T1", round |-> last + 1]
  OBVIOUS
<1>6. p \in Packets
  BY <1>4, <1>5 DEF Packets
<1>7. /\ down \in [DOMAIN listener -> Seq(Packets)] /\ down[f] \in Seq(Packets)
      /\ listener \in [DOMAIN listener -> Listeners] /\ listener[f] \in Listeners
      /\ up \in Seq(Answers(DOMAIN listener))
      /\ overdue \in BOOLEAN
  BY <1>1, <1>4 DEF ClockTypeOK, Answers
<1>8. PICK d2 \in Seq(Packets) : /\ d2 = down[f] \/ d2 = Append(down[f], p)
                                 /\ down' = [down EXCEPT ![f] = d2]
  <2>1. CASE Current \in enabled
    <3>1. Send(f, <<p>>)
      BY <1>4, <1>5, <2>1 DEF SendT1
    <3> QED
      BY <1>1, <1>4, <1>6, <3>1, SendsOne
  <2>2. CASE Current \notin enabled
    <3>1. down' = down
      BY <2>2 DEF SendT1
    <3>2. down = [down EXCEPT ![f] = down[f]]
      BY <1>4, <1>7
    <3> QED
      BY <1>7, <3>1, <3>2
  <2> QED
    BY <2>1, <2>2
<1>9. /\ listener' = listener /\ up' = up
      /\ overdue' = (overdue \/ \E round \in UnderWay(f) : round < last)
  BY <1>4 DEF SendT1
<1>10. ASSUME ~overdue'
       PROVE  /\ ~overdue
              /\ \A i \in DOMAIN down[f] : down[f][i].type = "T1" => down[f][i].round >= last
              /\ \A j \in DOMAIN up : up[j].from = f => up[j].round >= last
  <2>1. ~overdue /\ \A round \in UnderWay(f) : ~(round < last)
    BY <1>9, <1>10
  <2>2. ASSUME NEW i \in DOMAIN down[f], down[f][i].type = "T1" PROVE down[f][i].round >= last
    <3>1. down[f][i].round \in UnderWay(f)
      BY <2>2 DEF UnderWay
    <3>2. down[f][i] \in Packets
      BY <1>7
    <3>3. down[f][i].round \in Nat
      BY <3>2 DEF Packets
    <3> QED
      BY <1>4, <2>1, <3>1, <3>3
  <2>3. ASSUME NEW j \in DOMAIN up, up[j].from = f PROVE up[j].round >= last
    <3>1. up[j].round \in UnderWay(f)
      BY <2>3 DEF UnderWay
    <3>2. up[j] \in Answers(DOMAIN listener)
      BY <1>7
    <3>3. up[j].round \in Nat
      BY <3>2 DEF Answers
    <3> QED
      BY <1>4, <2>1, <3>1, <3>3
  <2> QED
    BY <2>1, <2>2, <2>3
<1>11. ASSUME NEW k \in DOMAIN thread.order, ~overdue', thread.order[k] = f
       PROVE  /\ InTime(listener[f], d2, LastTurn(k)')
              /\ \A j \in DOMAIN up : up[j].from = f =>
                    up[j].round = listener[f].T1 /\ Answering(listener[f], d2, LastTurn(k)')
  <2>1. k = at
    BY <1>1, <1>2, <1>3, <1>11 DEF EachOnce
  <2>2. InTime(listener[f], down[f], last) /\ AnswersHold(at)
    BY <1>2, <1>3, <1>10, <1>11 DEF ClockInv
  <2>3. /\ InTime(listener[f], d2, last + 1)
        /\ Answering(listener[f], down[f], last) /\ listener[f].T1 >= last =>
              Answering(listener[f], d2, last + 1)
    BY <1>4, <1>5, <1>7, <1>8, <1>10, <1>11, <2>2, Sent
  <2>4. ASSUME NEW j \in DOMAIN up, up[j].from = f
        PROVE  up[j].round = listener[f].T1 /\ Answering(listener[f], d2, last + 1)
    <3>1. up[j].round = listener[f].T1 /\ Answering(listener[f], down[f], last)
      BY <1>2, <1>3, <2>2, <2>4 DEF AnswersHold
    <3>2. up[j].round >= last
      BY <1>10, <1>11, <2>4
    <3> QED
      BY <2>3, <3>1, <3>2
  <2> QED
    BY <1>3, <2>1, <2>3, <2>4
<1>12. ~overdue' => OneAnswer'
  <2>1. OneAnswer' <=> OneAnswer
    BY <1>9 DEF OneAnswer
  <2> QED
    BY <1>10, <2>1 DEF ClockInv
<1>13. listener' = [listener EXCEPT ![f] = listener[f]]
  BY <1>4, <1>7, <1>9
<1>14. \A k \in DOMAIN thread.order : thread.order[k] # f => LastTurn(k)' = LastTurn(k)
  BY <1>2, <1>3
<1>15. overdue' \in BOOLEAN /\ (overdue => overdue')
  BY <1>7, <1>9
<1> QED
  BY <1>3, <1>4, <1>7, <1>8, <1>9, <1>11, <1>12, <1>13, <1>14, <1>15, OneFederate

LEMMA TimeoutKeeps ==
    ASSUME ClockInv, NEW gone, ReadTimeout(gone)
    PROVE  ClockInv'
<1>1. ClockTypeOK /\ thread \in ClockThreads(DOMAIN listener)
  BY DEF ClockInv, ClockTypeOK
<1>2. /\ thread.pc = "read" /\ thread' = NextTurn(thread)
      /\ UNCHANGED <<listener, down, up, overdue>>
  BY DEF ReadTimeout
<1>3. ThreadKept /\ \A k \in DOMAIN thread.order : LastTurn(k)' = LastTurn(k)
  BY <1>1, <1>2, TurnEnds
<1> QED
  BY <1>2, <1>3, NoFederate

LEMMA ReadT3Keeps ==
    ASSUME ClockInv, NEW enabled, ReadT3(enabled)
    PROVE  ClockInv'
<1>1. ClockTypeOK /\ EachOnce /\ thread \in ClockThreads(DOMAIN listener)
  BY DEF ClockInv, ClockTypeOK
<1>2. PICK at, f, last : at = thread.at /\ f = thread.order[at] /\ last = thread.round
  OBVIOUS
<1>3. PICK left, x : left = thread.left - 1 /\ x = Head(up).round
  OBVIOUS
<1>4. PICK t : t = [thread EXCEPT !.left = left]
  OBVIOUS
<1>5. /\ t \in ClockThreads(DOMAIN listener) /\ t.order = thread.order /\ t.at = at
      /\ t.round = thread.round /\ t.pc = "read" /\ t.left = left
  <2>1. left \in Int
    BY <1>1, <1>3, ThreadTypes
  <2> QED
    BY <1>1, <1>2, <1>4, <2>1 DEF ClockThreads, ReadT3
<1>6. /\ thread.pc = "read" /\ up # <<>> /\ up' = Tail(up) /\ UNCHANGED <<listener, overdue>>
      /\ \/ /\ Head(up).from = Current
            /\ thread' = NextTurn([t EXCEPT !.any = @ \/ t.left > 0])
            /\ Send(Current, IF Current \notin enabled THEN <<>>
                             ELSE <<[type |-> "T4", round |-> x], [type |-> "probe", round |-> x]>>)
         \/ /\ Head(up).from # Current
            /\ thread' = IF t.left > 0 THEN t ELSE NextTurn(t)
            /\ UNCHANGED down
  BY <1>3, <1>4 DEF ReadT3
<1>7. CASE Head(up).from # Current
  <2>1. ThreadKept /\ \A k \in DOMAIN thread.order : LastTurn(k)' = LastTurn(k)
    BY <1>1, <1>2, <1>5, <1>6, <1>7, TurnEnds
  <2> QED
    BY <1>6, <1>7, <2>1, NoFederate
<1>8. CASE Head(up).from = Current
  <2>1. PICK any : any = (t.any \/ t.left > 0)
    OBVIOUS
  <2>2. PICK t2 : t2 = [t EXCEPT !.any = any]
    OBVIOUS
  <2>3. /\ t2 \in ClockThreads(DOMAIN listener) /\ t2.order = thread.order /\ t2.at = at
        /\ t2.round = thread.round
    <3>1. any \in BOOLEAN
      BY <2>1
    <3> QED
      BY <1>5, <2>2, <3>1 DEF ClockThreads
  <2>4. thread' = NextTurn(t2)
    BY <1>6, <1>8, <2>1, <2>2
  <2>5. /\ ThreadKept /\ at \in DOMAIN thread.order /\ LastTurn(at) = last
        /\ \A k \in DOMAIN thread.order : LastTurn(k)' = LastTurn(k)
    BY <1>1, <1>2, <1>6, <2>3, <2>4, TurnEnds
  <2>6. /\ f \in DOMAIN listener /\ Current = f /\ last \in Int
    BY <1>1, <1>2, <2>5, ThreadTypes DEF Current
  <2>7. /\ down[f] \in Seq(Packets) /\ listener \in [DOMAIN listener -> Listeners]
        /\ listener[f] \in Listeners /\ up \in Seq(Answers(DOMAIN listener))
        /\ overdue \in BOOLEAN
    BY <1>1, <2>6 DEF ClockTypeOK, Answers
  <2>8. PICK n : n = Len(up)
    OBVIOUS
  <2>9. /\ up' \in Seq(Answers(DOMAIN listener)) /\ n \in Nat /\ n > 0
        /\ DOMAIN up = 1 .. n /\ DOMAIN up' = 1 .. n - 1
        /\ \A i \in 1 .. n - 1 : up'[i] = up[i + 1]
        /\ Head(up) = up[1] /\ up[1] \in Answers(DOMAIN listener)
    BY <1>6, <2>7, <2>8, TailFacts
  <2>10. x \in Nat /\ up[1].from = f /\ up[1].round = x
    BY <1>3, <1>8, <2>6, <2>9 DEF Answers
  <2>11. PICK p, q : p = [type |-> "T4", round |-> x] /\ q = [type |-> "probe", round |-> x]
    OBVIOUS
  <2>12. p \in Packets /\ q \in Packets
    BY <2>10, <2>11 DEF Packets
  <2>13. PICK d2 \in Seq(Packets) :
            /\ d2 \in {down[f], Append(down[f], p), Append(Append(down[f], p), q)}
            /\ down' = [down EXCEPT ![f] = d2]
    <3>1. CASE Current \in enabled
      <4>1. Send(f, <<p, q>>)
        BY <1>6, <1>8, <2>6, <2>11, <3>1
      <4> QED
        BY <1>1, <2>6, <2>12, <4>1, SendsTwo
    <3>2. CASE Current \notin enabled
      <4>1. Send(f, <<>>)
        BY <1>6, <1>8, <2>6, <3>2
      <4>2. down' = [down EXCEPT ![f] = down[f]]
        BY <1>1, <2>6, <4>1, SendsNone
      <4> QED
        BY <2>7, <4>2
    <3> QED
      BY <3>1, <3>2
  <2>14. \A j \in DOMAIN up' : \E i \in DOMAIN up : up[i] = up'[j]
    <3> SUFFICES ASSUME NEW j \in DOMAIN up' PROVE \E i \in DOMAIN up : up[i] = up'[j]
      OBVIOUS
    <3>1. j \in 1 .. n - 1 /\ j + 1 \in 1 .. n
      BY <2>9
    <3>2. up'[j] = up[j + 1] /\ j + 1 \in DOMAIN up
      BY <2>9, <3>1
    <3> QED
      BY <3>2
  <2>15. ASSUME ~overdue PROVE OneAnswer' /\ \A j \in DOMAIN up' : up'[j].from # f
    <3>1. \A i, j \in DOMAIN up : up[i].from = up[j].from => i = j
      BY <2>15 DEF ClockInv, OneAnswer
    <3>2. \A i \in 1 .. n - 1 : i + 1 \in DOMAIN up /\ 1 \in DOMAIN up /\ i + 1 # 1
      BY <2>9
    <3>3. ASSUME NEW j \in 1 .. n - 1 PROVE up'[j].from # f
      <4>1. j + 1 \in DOMAIN up /\ 1 \in DOMAIN up /\ j + 1 # 1
        BY <3>2
      <4>2. up[j + 1].from # up[1].from
        BY <3>1, <4>1
      <4>3. up'[j] = up[j + 1]
        BY <2>9
      <4>4. up[1].from = f
        BY <2>10
      <4> QED
        BY <4>2, <4>3, <4>4
    <3>4. ASSUME NEW i \in 1 .. n - 1, NEW j \in 1 .. n - 1, up'[i].from = up'[j].from
          PROVE  i = j
      <4>1. up'[i] = up[i + 1] /\ up'[j] = up[j + 1]
        BY <2>9
      <4>2. i + 1 \in DOMAIN up /\ j + 1 \in DOMAIN up
        BY <3>2
      <4>3. i + 1 = j + 1
        BY <3>1, <3>4, <4>1, <4>2
      <4> QED
        BY <2>9, <4>3
    <3> QED
      BY <2>9, <3>3, <3>4 DEF OneAnswer
  <2>16. ASSUME NEW k \in DOMAIN thread.order, ~overdue, thread.order[k] = f
         PROVE  InTime(listener[f], d2, LastTurn(k)')
    <3>1. k = at
      BY <1>1, <1>2, <2>5, <2>16 DEF EachOnce
    <3>2. InTime(listener[f], down[f], last) /\ AnswersHold(at)
      BY <1>2, <2>5, <2>16 DEF ClockInv
    <3>3. x = listener[f].T1 /\ Answering(listener[f], down[f], last)
      <4>1. 1 \in DOMAIN up
        BY <2>9
      <4> QED
        BY <1>2, <2>5, <2>10, <3>2, <4>1 DEF AnswersHold
    <3>4. InTime(listener[f], d2, last)
      BY <2>6, <2>7, <2>11, <2>13, <3>2, <3>3, AnswerSent
    <3> QED
      BY <2>5, <3>1, <3>4
  <2>17. listener' = [listener EXCEPT ![f] = listener[f]] /\ overdue' = overdue
    BY <1>6, <2>6, <2>7
  <2> QED
    BY <2>5, <2>6, <2>7, <2>9, <2>13, <2>14, <2>15, <2>16, <2>17, OneFederate
<1> QED
  BY <1>7, <1>8

\* What a listener receives.
LEMMA ReceivesFirst ==
    ASSUME ClockTypeOK, NEW f \in DOMAIN listener, NEW types, Receives(f, types)
    PROVE  /\ down[f] \in Seq(Packets) /\ down[f] # <<>>
           /\ Head(down[f]) = down[f][1] /\ down[f][1] \in Packets /\ down[f][1].type \in types
           /\ down[f][1].round \in Nat
           /\ Tail(down[f]) \in Seq(Packets) /\ down' = [down EXCEPT ![f] = Tail(down[f])]
           /\ UNCHANGED <<thread, overdue>>
<1>1. down[f] \in Seq(Packets) /\ down[f] # <<>>
  BY DEF ClockTypeOK, Receives
<1>2. PICK d : d = down[f]
  OBVIOUS
<1>3. Head(d) = d[1] /\ d[1] \in Packets /\ Tail(d) \in Seq(Packets)
  BY <1>1, <1>2, TailFacts
<1>4. d[1].round \in Nat
  BY <1>3 DEF Packets
<1> QED
  BY <1>1, <1>2, <1>3, <1>4 DEF Receives

\* A step of a listener without an answer: it does not wait for T4 afterwards.
LEMMA ListenerGoesOn ==
    ASSUME ClockInv, UNCHANGED <<thread, up, overdue>>,
           NEW f \in DOMAIN listener, NEW l2 \in Listeners, NEW d2 \in Seq(Packets),
           listener' = [listener EXCEPT ![f] = l2], down' = [down EXCEPT ![f] = d2],
           l2.pc # "T4", l2.T1 = listener[f].T1,
           \A k \in DOMAIN thread.order :
              InTime(listener[f], down[f], LastTurn(k)) => Sampled(l2),
           \/ down[f] # <<>> /\ d2 = Tail(down[f])
           \/ d2 = down[f] /\ listener[f].pc # "T4",
           \/ l2.pc = "T1" /\ down[f] # <<>> /\ d2 = Tail(down[f])
           \/ ~(listener[f].pc \in {"T1", "T4"})
           \/ down[f] # <<>> /\ down[f][1].type # "T1"
    PROVE  ClockInv'
<1>1. ClockTypeOK /\ EachOnce
  BY DEF ClockInv
<1>2. /\ down[f] \in Seq(Packets) /\ listener[f] \in Listeners
      /\ up \in Seq(Answers(DOMAIN listener)) /\ overdue \in BOOLEAN
  BY <1>1 DEF ClockTypeOK, Answers
<1>3. ThreadKept
  BY <1>1 DEF ThreadKept, ClockTypeOK
<1>4. \A k \in DOMAIN thread.order : LastTurn(k)' = LastTurn(k)
  BY DEF LastTurn
<1>5. ASSUME NEW k \in DOMAIN thread.order, ~overdue, thread.order[k] = f
      PROVE  /\ InTime(l2, d2, LastTurn(k)')
             /\ \A j \in DOMAIN up : up[j].from = f =>
                   up[j].round = l2.T1 /\ Answering(l2, d2, LastTurn(k)')
  <2>1. InTime(listener[f], down[f], LastTurn(k)) /\ AnswersHold(k) /\ LastTurn(k) \in Int
    BY <1>1, <1>5, ThreadTypes DEF ClockInv
  <2>2. InTime(l2, d2, LastTurn(k))
    BY <1>2, <2>1, GoesOn
  <2>3. ASSUME NEW j \in DOMAIN up, up[j].from = f
        PROVE  up[j].round = l2.T1 /\ Answering(l2, d2, LastTurn(k))
    <3>1. up[j].round = l2.T1 /\ Answering(listener[f], down[f], LastTurn(k))
      BY <1>5, <2>1, <2>3 DEF AnswersHold
    <3>2. CASE down[f] # <<>>
      <4>1. /\ listener[f].pc = "T4" /\ down[f][1].type = "T1"
            /\ l2.pc = "T1" => Answering(l2, Tail(down[f]), LastTurn(k))
        BY <1>2, <2>1, <3>1, <3>2, StopsWaiting
      <4> QED
        BY <3>1, <4>1
    <3>3. CASE down[f] = <<>>
      BY <3>1, <3>3 DEF Answering
    <3> QED
      BY <3>2, <3>3
  <2> QED
    BY <1>4, <2>2, <2>3
<1>6. ~overdue => OneAnswer'
  BY DEF ClockInv, OneAnswer
<1> QED
  BY <1>2, <1>3, <1>4, <1>5, <1>6, OneFederate

LEMMA HandleT1Keeps ==
    ASSUME ClockInv, NEW f \in DOMAIN listener, HandleT1(f)
    PROVE  ClockInv'
<1>1. ClockTypeOK /\ EachOnce
  BY DEF ClockInv
<1>2. /\ down[f] \in Seq(Packets) /\ listener[f] \in Listeners
      /\ up \in Seq(Answers(DOMAIN listener)) /\ overdue \in BOOLEAN
  BY <1>1 DEF ClockTypeOK, Answers
<1>3. PICK d, l : d = down[f] /\ l = listener[f]
  OBVIOUS
<1>4. /\ d \in Seq(Packets) /\ d # <<>> /\ Head(d) = d[1] /\ d[1].type = "T1"
      /\ d[1].round \in Nat /\ Tail(d) \in Seq(Packets)
      /\ down' = [down EXCEPT ![f] = Tail(d)] /\ UNCHANGED <<thread, overdue>>
  BY <1>1, <1>3, ReceivesFirst DEF HandleT1
<1>5. PICK r : r = d[1].round
  OBVIOUS
<1>6. PICK l2 : l2 = [l EXCEPT !.pc = "T4", !.T1 = r]
  OBVIOUS
<1>7. /\ l2 \in Listeners /\ l2.pc = "T4" /\ l2.T1 = r
      /\ l2.history = l.history /\ l2.offset = l.offset
  BY <1>2, <1>3, <1>4, <1>5, <1>6 DEF Listeners
<1>8. listener' = [listener EXCEPT ![f] = l2] /\ l.pc = "T1"
  BY <1>3, <1>4, <1>5, <1>6 DEF HandleT1
<1>9. PICK a : a = [from |-> f, round |-> r]
  OBVIOUS
<1>10. a \in Answers(DOMAIN listener) /\ a.from = f /\ a.round = r
  BY <1>4, <1>5, <1>9 DEF Answers
<1>11. up' = up \/ up' = Append(up, a)
  <2>1. PICK some \in Arriving(<<a>>) : up' = up \o some
    BY <1>3, <1>4, <1>5, <1>9 DEF HandleT1
  <2> QED
    BY <1>2, <1>10, <2>1, OneArrives
<1>12. PICK n : n = Len(up)
  OBVIOUS
<1>13. /\ n \in Nat /\ DOMAIN up = 1 .. n /\ up' \in Seq(Answers(DOMAIN listener))
       /\ DOMAIN up' = 1 .. n \/ (DOMAIN up' = 1 .. n + 1 /\ up'[n + 1] = a)
       /\ \A i \in 1 .. n : up'[i] = up[i]
  BY <1>2, <1>10, <1>11, <1>12, AppendFacts
<1>14. ThreadKept
  BY <1>1, <1>4 DEF ThreadKept, ClockTypeOK
<1>15. \A k \in DOMAIN thread.order : LastTurn(k)' = LastTurn(k)
  BY <1>4 DEF LastTurn
<1>16. ASSUME NEW j \in DOMAIN up', up'[j].from # f
       PROVE  \E i \in DOMAIN up : up[i] = up'[j]
  <2>1. j \in 1 .. n
    BY <1>10, <1>13, <1>16
  <2> QED
    BY <1>13, <2>1
<1>17. ASSUME NEW k \in DOMAIN thread.order, ~overdue, thread.order[k] = f
       PROVE  /\ InTime(l2, Tail(d), LastTurn(k)) /\ Answering(l2, Tail(d), LastTurn(k))
              /\ \A j \in DOMAIN up : up[j].from # f
  <2>1. InTime(l, d, LastTurn(k)) /\ AnswersHold(k) /\ LastTurn(k) \in Int
    BY <1>1, <1>3, <1>17, ThreadTypes DEF ClockInv
  <2>2. Sampled(l2)
    BY <1>7, <2>1 DEF InTime, Sampled
  <2>3. InTime(l2, Tail(d), LastTurn(k)) /\ Answering(l2, Tail(d), LastTurn(k))
    BY <1>2, <1>3, <1>4, <1>5, <1>7, <1>8, <2>1, <2>2, Takes
  <2>4. ASSUME NEW j \in DOMAIN up, up[j].from = f PROVE FALSE
    BY <1>3, <1>4, <1>8, <1>17, <2>1, <2>4 DEF AnswersHold, Answering
  <2> QED
    BY <2>3, <2>4
<1>18. ASSUME NEW k \in DOMAIN thread.order, ~overdue', thread.order[k] = f
       PROVE  /\ InTime(l2, Tail(d), LastTurn(k)')
              /\ \A j \in DOMAIN up' : up'[j].from = f =>
                    up'[j].round = l2.T1 /\ Answering(l2, Tail(d), LastTurn(k)')
  <2>1. /\ InTime(l2, Tail(d), LastTurn(k)) /\ Answering(l2, Tail(d), LastTurn(k))
        /\ \A j \in DOMAIN up : up[j].from # f
    BY <1>4, <1>17, <1>18
  <2>2. ASSUME NEW j \in DOMAIN up', up'[j].from = f PROVE up'[j].round = l2.T1
    <3>1. j \notin 1 .. n
      BY <1>13, <2>1, <2>2
    <3>2. j = n + 1 /\ up'[n + 1] = a
      BY <1>13, <2>2, <3>1
    <3> QED
      BY <1>7, <1>10, <3>2
  <2> QED
    BY <1>15, <2>1, <2>2
<1>19. ASSUME ~overdue' PROVE OneAnswer'
  <2>1. OneAnswer /\ ~overdue
    BY <1>4, <1>19 DEF ClockInv
  <2>2. PICK k \in DOMAIN thread.order : thread.order[k] = f
    BY <1>1 DEF EachOnce
  <2>3. \A j \in DOMAIN up : up[j].from # f
    BY <1>17, <2>1, <2>2
  <2> SUFFICES ASSUME NEW i \in DOMAIN up', NEW j \in DOMAIN up', up'[i].from = up'[j].from
               PROVE  i = j
    BY DEF OneAnswer
  <2>4. CASE i \in 1 .. n /\ j \in 1 .. n
    BY <1>13, <2>1, <2>4 DEF OneAnswer
  <2>5. CASE i \notin 1 .. n
    <3>1. i = n + 1 /\ up'[n + 1] = a
      BY <1>13, <2>5
    <3>2. up'[j].from = f
      BY <1>10, <3>1
    <3>3. j \notin 1 .. n
      BY <1>13, <2>3, <3>2
    <3> QED
      BY <1>13, <3>1, <3>3
  <2>6. CASE j \notin 1 .. n
    <3>1. j = n + 1 /\ up'[n + 1] = a
      BY <1>13, <2>6
    <3>2. up'[i].from = f
      BY <1>10, <3>1
    <3>3. i \notin 1 .. n
      BY <1>13, <2>3, <3>2
    <3> QED
      BY <1>13, <3>1, <3>3
  <2> QED
    BY <2>4, <2>5, <2>6
<1> QED
  BY <1>2, <1>4, <1>7, <1>8, <1>13, <1>14, <1>15, <1>16, <1>18, <1>19, OneFederate

LEMMA HandleT4Keeps ==
    ASSUME ClockInv, NEW f \in DOMAIN listener, HandleT4(f)
    PROVE  ClockInv'
<1>1. ClockTypeOK /\ EachOnce
  BY DEF ClockInv
<1>2. PICK d, l : d = down[f] /\ l = listener[f]
  OBVIOUS
<1>3. l \in Listeners
  BY <1>1, <1>2 DEF ClockTypeOK
<1>4. /\ d \in Seq(Packets) /\ d # <<>> /\ Head(d) = d[1] /\ d[1].type = "T4"
      /\ d[1].round \in Nat /\ Tail(d) \in Seq(Packets)
      /\ down' = [down EXCEPT ![f] = Tail(d)] /\ UNCHANGED <<thread, overdue>>
  BY <1>1, <1>2, ReceivesFirst DEF HandleT4
<1>5. PICK r, m : r = d[1].round /\ m = l.received + 1
  OBVIOUS
<1>6. PICK l2 : l2 = [l EXCEPT !.pc = "probe", !.received = m, !.T4 = r]
  OBVIOUS
<1>7. m \in Int
  BY <1>3, <1>5 DEF Listeners
<1>8. /\ l2 \in Listeners /\ l2.pc = "probe" /\ l2.T4 = r /\ l2.T1 = l.T1
      /\ l2.history = l.history /\ l2.offset = l.offset
  BY <1>3, <1>4, <1>5, <1>6, <1>7 DEF Listeners
<1>9. /\ listener' = [listener EXCEPT ![f] = l2] /\ l.pc = "T4" /\ up' = up
  <2>1. listener' = [listener EXCEPT ![f].pc = "probe", ![f].received = @ + 1,
                                     ![f].T4 = Head(down[f]).round]
    BY DEF HandleT4
  <2>2. listener \in [DOMAIN listener -> Listeners]
    BY <1>1 DEF ClockTypeOK
  <2> QED
    BY <1>2, <1>4, <1>5, <1>6, <2>1, <2>2 DEF HandleT4
<1>10. ASSUME NEW k \in DOMAIN thread.order, InTime(l, d, LastTurn(k)) PROVE Sampled(l2)
  <2>1. 1 \in DOMAIN d
    BY <1>4
  <2>2. d[1].round = l.T1
    BY <1>4, <1>9, <1>10, <2>1 DEF InTime, Matched
  <2> QED
    BY <1>5, <1>8, <1>10, <2>2 DEF InTime, Sampled
<1> QED
  BY <1>2, <1>4, <1>8, <1>9, <1>10, ListenerGoesOn

LEMMA DropKeeps ==
    ASSUME ClockInv, NEW f \in DOMAIN listener, DropPacket(f)
    PROVE  ClockInv'
<1>1. ClockTypeOK /\ EachOnce
  BY DEF ClockInv
<1>2. PICK d, l : d = down[f] /\ l = listener[f]
  OBVIOUS
<1>3. l \in Listeners
  BY <1>1, <1>2 DEF ClockTypeOK
<1>4. /\ d # <<>> /\ Tail(d) \in Seq(Packets)
      /\ down' = [down EXCEPT ![f] = Tail(d)] /\ UNCHANGED <<thread, overdue>>
  BY <1>1, <1>2, ReceivesFirst DEF DropPacket
<1>5. PICK l2 : l2 = [l EXCEPT !.pc = "T1"]
  OBVIOUS
<1>6. /\ l2 \in Listeners /\ l2.pc = "T1" /\ l2.T1 = l.T1
      /\ l2.history = l.history /\ l2.offset = l.offset
  BY <1>3, <1>5 DEF Listeners
<1>7. listener' = [listener EXCEPT ![f] = l2] /\ up' = up
  BY <1>2, <1>5 DEF DropPacket
<1>8. \A k \in DOMAIN thread.order : InTime(l, d, LastTurn(k)) => Sampled(l2)
  BY <1>6 DEF InTime, Sampled
<1> QED
  BY <1>2, <1>4, <1>6, <1>7, <1>8, ListenerGoesOn

LEMMA NoProbeKeeps ==
    ASSUME ClockInv, NEW f \in DOMAIN listener, NoProbe(f)
    PROVE  ClockInv'
<1>1. ClockTypeOK /\ EachOnce
  BY DEF ClockInv
<1>2. PICK d, l : d = down[f] /\ l = listener[f]
  OBVIOUS
<1>3. l \in Listeners /\ l.pc = "probe" /\ d \in Seq(Packets)
  BY <1>1, <1>2 DEF ClockTypeOK, NoProbe
<1>4. PICK d2 \in Seq(Packets) :
         /\ d2 = d \/ (d # <<>> /\ d2 = Tail(d))
         /\ down' = [down EXCEPT ![f] = d2] /\ UNCHANGED <<thread, overdue>>
  <2>1. CASE Receives(f, {"T1", "T4"})
    BY <1>1, <1>2, <2>1, ReceivesFirst
  <2>2. CASE UNCHANGED <<thread, down, overdue>>
    <3>1. down = [down EXCEPT ![f] = d]
      BY <1>1, <1>2 DEF ClockTypeOK
    <3> QED
      BY <1>3, <2>2, <3>1
  <2> QED
    BY <2>1, <2>2 DEF NoProbe
<1>5. PICK l2 : l2 = [l EXCEPT !.pc = "T1"]
  OBVIOUS
<1>6. /\ l2 \in Listeners /\ l2.pc = "T1" /\ l2.T1 = l.T1
      /\ l2.history = l.history /\ l2.offset = l.offset
  BY <1>3, <1>5 DEF Listeners
<1>7. listener' = [listener EXCEPT ![f] = l2] /\ up' = up
  BY <1>2, <1>5 DEF NoProbe
<1>8. \A k \in DOMAIN thread.order : InTime(l, d, LastTurn(k)) => Sampled(l2)
  BY <1>6 DEF InTime, Sampled
<1> QED
  BY <1>2, <1>3, <1>4, <1>6, <1>7, <1>8, ListenerGoesOn

\* What the coded probe makes of a listener: its samples are the earlier ones, and
\* maybe the one of its T1 and T4 messages.
LEMMA Probed ==
    ASSUME NEW l0 \in Listeners, NEW congested \in BOOLEAN, NEW noisy \in BOOLEAN,
           NEW l2, l2 = AfterProbe(l0, congested, noisy)
    PROVE  /\ l2 \in Listeners /\ l2.pc = "T1" /\ l2.T1 = l0.T1
           /\ l2.history \cup l2.offset \subseteq
                 l0.history \cup l0.offset \cup {<<l0.T1, l0.T4>>}
<1>1. PICK l : l = [l0 EXCEPT !.pc = "T1"]
  OBVIOUS
<1>2. /\ l \in Listeners /\ l.pc = "T1" /\ l.T1 = l0.T1 /\ l.T4 = l0.T4
      /\ l.history = l0.history /\ l.offset = l0.offset /\ l.received \in Int
  BY <1>1 DEF Listeners
<1>3. PICK samples, less : samples = l.history \cup {<<l.T1, l.T4>>} /\ less = l.received - 1
  OBVIOUS
<1>4. samples \in SUBSET (Nat \X Nat) /\ less \in Int
  <2>1. l.T1 \in Nat /\ l.T4 \in Nat /\ l.history \in SUBSET (Nat \X Nat)
    BY <1>2 DEF Listeners
  <2> QED
    BY <1>2, <1>3, <2>1
<1>5. PICK sum : sum = [l EXCEPT !.history = samples]
  OBVIOUS
<1>6. /\ sum \in Listeners /\ sum.pc = "T1" /\ sum.T1 = l0.T1
      /\ sum.history = samples /\ sum.offset = l0.offset
  BY <1>2, <1>4, <1>5 DEF Listeners
<1>0. PICK none, zero : none = {} /\ zero = 0
  OBVIOUS
<1>7. PICK reset : reset = [sum EXCEPT !.received = zero, !.history = none]
  OBVIOUS
<1>8. /\ reset \in Listeners /\ reset.pc = "T1" /\ reset.T1 = l0.T1
      /\ reset.history = {} /\ reset.offset = l0.offset
  <2>1. none \in SUBSET (Nat \X Nat) /\ zero \in Int
    BY <1>0
  <2> QED
    BY <1>0, <1>6, <1>7, <2>1 DEF Listeners
<1>9. \/ l2 = [l EXCEPT !.received = less]
      \/ l2 = sum
      \/ l2 = reset
      \/ l2 = [reset EXCEPT !.offset = samples]
  <2>1. sum = [l EXCEPT !.history = @ \cup {<<l.T1, l.T4>>}]
    BY <1>3, <1>5
  <2>2. [l EXCEPT !.received = less] = [l EXCEPT !.received = @ - 1]
    BY <1>3
  <2>3. Reset(sum) = reset
    BY <1>0, <1>7 DEF Reset
  <2> QED
    BY <1>1, <1>6, <2>1, <2>2, <2>3 DEF AfterProbe
<1>10. CASE l2 = [l EXCEPT !.received = less]
  <2>1. /\ l2 \in Listeners /\ l2.pc = "T1" /\ l2.T1 = l0.T1
        /\ l2.history = l0.history /\ l2.offset = l0.offset
    BY <1>2, <1>4, <1>10 DEF Listeners
  <2> QED
    BY <2>1
<1>11. CASE l2 = sum
  BY <1>2, <1>3, <1>6, <1>11
<1>12. CASE l2 = reset
  BY <1>8, <1>12
<1>13. CASE l2 = [reset EXCEPT !.offset = samples]
  <2>1. /\ l2 \in Listeners /\ l2.pc = "T1" /\ l2.T1 = l0.T1
        /\ l2.history = {} /\ l2.offset = samples
    BY <1>4, <1>8, <1>13 DEF Listeners
  <2> QED
    BY <1>2, <1>3, <2>1
<1> QED
  BY <1>9, <1>10, <1>11, <1>12, <1>13

LEMMA ProbeKeeps ==
    ASSUME ClockInv, NEW f \in DOMAIN listener, HandleProbe(f)
    PROVE  ClockInv'
<1>1. ClockTypeOK /\ EachOnce
  BY DEF ClockInv
<1>2. PICK d, l : d = down[f] /\ l = listener[f]
  OBVIOUS
<1>3. l \in Listeners /\ l.pc = "probe"
  BY <1>1, <1>2 DEF ClockTypeOK, HandleProbe
<1>4. /\ d # <<>> /\ Tail(d) \in Seq(Packets)
      /\ down' = [down EXCEPT ![f] = Tail(d)] /\ UNCHANGED <<thread, overdue>>
  BY <1>1, <1>2, ReceivesFirst DEF HandleProbe
<1>5. PICK l2 : /\ listener' = [listener EXCEPT ![f] = l2]
                /\ l2 \in Listeners /\ l2.pc = "T1" /\ l2.T1 = l.T1
                /\ l2.history \cup l2.offset \subseteq
                      l.history \cup l.offset \cup {<<l.T1, l.T4>>}
  <2>1. PICK congested \in BOOLEAN, noisy \in BOOLEAN :
          listener' = [listener EXCEPT ![f] = AfterProbe(@, congested, noisy)]
    BY DEF HandleProbe
  <2>2. PICK l2 : l2 = AfterProbe(l, congested, noisy)
    OBVIOUS
  <2>3. listener' = [listener EXCEPT ![f] = l2]
    BY <1>2, <2>1, <2>2
  <2>4. /\ l2 \in Listeners /\ l2.pc = "T1" /\ l2.T1 = l.T1
        /\ l2.history \cup l2.offset \subseteq l.history \cup l.offset \cup {<<l.T1, l.T4>>}
    BY <1>3, <2>2, Probed
  <2> QED
    BY <2>3, <2>4
<1>6. ASSUME NEW k \in DOMAIN thread.order, InTime(l, d, LastTurn(k)) PROVE Sampled(l2)
  <2>1. l.T1 = l.T4 /\ \A s \in l.history \cup l.offset : s[1] = s[2]
    BY <1>3, <1>6 DEF InTime, Sampled
  <2>2. \A s \in l.history \cup l.offset \cup {<<l.T1, l.T4>>} : s[1] = s[2]
    BY <2>1
  <2> QED
    BY <1>5, <2>2 DEF Sampled
<1>7. up' = up
  BY DEF HandleProbe
<1> QED
  BY <1>2, <1>3, <1>4, <1>5, <1>6, <1>7, ListenerGoesOn

-----------------------------------------------------------------------------

LEMMA ClockInvHolds ==
    ASSUME NEW S, NEW order \in Seq(S),
           \A j, k \in DOMAIN order : order[j] = order[k] => j = k,
           ClockInit(order)
    PROVE  ClockInv
<1>1. PICK F : F = {order[i] : i \in DOMAIN order}
  OBVIOUS
<1>2. /\ thread = [order |-> order, pc |-> "off", at |-> 0, left |-> 0, round |-> 0, any |-> FALSE]
      /\ listener = [f \in F |-> [pc |-> "T1", T1 |-> 0, T4 |-> 0, received |-> 0,
                                  history |-> {}, offset |-> {}]]
      /\ DOMAIN listener = F /\ down = [f \in F |-> <<>>] /\ up = <<>> /\ overdue = FALSE
  BY <1>1 DEF ClockInit
<1>3. order \in Seq(F) /\ DOMAIN order = 1 .. Len(order) /\ Len(order) \in Nat
  BY <1>1
<1>4. thread \in ClockThreads(F)
  BY <1>2, <1>3 DEF ClockThreads
<1>5. PICK l : l = [pc |-> "T1", T1 |-> 0, T4 |-> 0, received |-> 0, history |-> {}, offset |-> {}]
  OBVIOUS
<1>6. l \in Listeners /\ l.pc = "T1" /\ l.T1 = 0 /\ l.history = {} /\ l.offset = {}
  BY <1>5 DEF Listeners
<1>7. listener \in [F -> Listeners] /\ \A f \in F : listener[f] = l /\ down[f] = <<>>
  BY <1>2, <1>5, <1>6
<1>8. down \in [F -> Seq(Packets)] /\ up \in Seq([from : F, round : Nat])
  BY <1>2
<1>9. ClockTypeOK
  BY <1>2, <1>4, <1>7, <1>8 DEF ClockTypeOK
<1>10. EachOnce
  BY <1>1, <1>2 DEF EachOnce
<1>11. OneAnswer
  BY <1>2 DEF OneAnswer
<1>12. ASSUME NEW k \in DOMAIN thread.order
       PROVE  /\ InTime(listener[thread.order[k]], down[thread.order[k]], LastTurn(k))
              /\ AnswersHold(k)
  <2>1. thread.order[k] \in F
    BY <1>1, <1>2
  <2>2. LastTurn(k) = 0
    BY <1>2 DEF LastTurn
  <2>3. DOMAIN <<>> = {}
    OBVIOUS
  <2>4. InTime(l, <<>>, 0)
    BY <1>6, <2>3 DEF InTime, InOrder, Recent, Matched, Sampled
  <2>5. InTime(listener[thread.order[k]], down[thread.order[k]], LastTurn(k))
    BY <1>7, <2>1, <2>2, <2>4
  <2>6. DOMAIN up = {}
    BY <1>2, <2>3
  <2> QED
    BY <2>5, <2>6 DEF AnswersHold
<1> QED
  BY <1>9, <1>10, <1>11, <1>12 DEF ClockInv

\* A step of the clock thread or of a listener.
LEMMA ClockStep ==
    ASSUME ClockInv,
           \/ StartThread \/ BeginRound
           \/ \E enabled, gone : SendT1(enabled) \/ ReadT3(enabled) \/ ReadTimeout(gone)
           \/ \E f \in DOMAIN listener : Listener(f)
           \/ UNCHANGED clockVars
    PROVE  ClockInv'
<1>1. CASE UNCHANGED clockVars
  <2>1. ClockTypeOK
    BY DEF ClockInv
  <2>2. ThreadKept
    BY <1>1, <2>1 DEF clockVars, ThreadKept, ClockTypeOK
  <2>3. \A k \in DOMAIN thread.order : LastTurn(k)' = LastTurn(k)
    BY <1>1 DEF clockVars, LastTurn
  <2> QED
    BY <1>1, <2>2, <2>3, NoFederate DEF clockVars
<1>2. CASE \E enabled, gone : SendT1(enabled) \/ ReadT3(enabled) \/ ReadTimeout(gone)
  BY <1>2, SendT1Keeps, ReadT3Keeps, TimeoutKeeps
<1>3. CASE \E f \in DOMAIN listener : Listener(f)
  BY <1>3, HandleT1Keeps, HandleT4Keeps, DropKeeps, ProbeKeeps, NoProbeKeeps DEF Listener
<1> QED
  BY <1>1, <1>2, <1>3, StartKeeps, BeginKeeps

LEMMA InvSamples ==
    ASSUME ClockInv
    PROVE  RoundTripsInTime
<1>1. ASSUME ~overdue, NEW f \in DOMAIN listener PROVE Sampled(listener[f])
  <2>1. PICK k \in DOMAIN thread.order : thread.order[k] = f
    BY DEF ClockInv, EachOnce
  <2> QED
    BY <1>1, <2>1 DEF ClockInv, InTime
<1> QED
  BY <1>1 DEF RoundTripsInTime, SamplesAreRoundTrips, Sampled

\* Clock synchronization by itself (core/federated/clock-sync.c and the clock thread of
\* rti.c), with any number of federates, attempts, exchanges and rounds: as long as no
\* packet takes longer than the round after its own, every sample of the clock is
\* a round trip, whichever packets are lost and however the threads are scheduled.
THEOREM RoundTrips ==
    ASSUME NEW CONSTANT S, NEW CONSTANT order \in Seq(S),
           \A j, k \in DOMAIN order : order[j] = order[k] => j = k
    PROVE  ClockInit(order) /\ [][ClockNext]_clockVars => []RoundTripsInTime
<1>1. ClockInit(order) => ClockInv
  BY ClockInvHolds
<1>2. ClockInv /\ [ClockNext]_clockVars => ClockInv'
  BY ClockStep DEF ClockNext
<1>3. ClockInv => RoundTripsInTime
  BY InvSamples
<1> QED
  BY <1>1, <1>2, <1>3, PTL

\* It is so in every federation that starts.
LEMMA StartKeepsClocks ==
    ASSUME ClockInv, [Next]_vars
    PROVE  ClockInv'
<1>1. CASE UNCHANGED vars
  BY <1>1, ClockStep DEF vars
<1>2. ASSUME NEW p, Process(p) PROVE ClockInv'
  <2>1. UNCHANGED clockVars
    BY <1>2 DEF Process, Connect, Answered, InitialSync, Serve, QueryPeer, PeerPort,
                ConnectPeer, PeerAnswered, StartTime, Is
  <2> QED
    BY <2>1, ClockStep
<1>3. ASSUME NEW p, AcceptPeer(p) \/ Execute(p) \/ Resign(p) PROVE ClockInv'
  <2>1. UNCHANGED clockVars
    BY <1>3 DEF AcceptPeer, Execute, Resign, Is
  <2> QED
    BY <2>1, ClockStep
<1>4. ASSUME NEW p, ListenUDP(p) PROVE ClockInv'
  BY <1>4, ClockStep DEF ListenUDP
<1>5. ASSUME NEW n, NEW p, Thread(n, p) PROVE ClockInv'
  <2>1. UNCHANGED clockVars
    BY <1>5 DEF Thread, HandleTimestamp, SendStartTime, HandleAddress, Forward, HandleResign,
                Threads
  <2> QED
    BY <2>1, ClockStep
<1>6. ASSUME NEW n, MainThread(n) \/ Respond(n) \/ RespondTimeout(n) PROVE ClockInv'
  <2>1. UNCHANGED clockVars
    BY <1>6 DEF MainThread, StartRTI, Accept, Handshake, Shutdown, Respond, RespondTimeout
  <2> QED
    BY <2>1, ClockStep
<1>7. CASE ClockThread
  BY <1>7, ClockStep DEF ClockThread, StartClockThread
<1> QED
  BY <1>1, <1>2, <1>3, <1>4, <1>5, <1>6, <1>7 DEF Next

\* The clock exchange within a federation that starts, serves and stops
\* (rti.c, federate.c): for every launch, every sample is a round trip in time.
THEOREM StartRoundTrips == Spec => []RoundTripsInTime
<1>1. Init => ClockInv
  BY ScenariosAssumption, ClockInvHolds DEF Init
<1>2. ClockInv /\ [Next]_vars => ClockInv'
  BY StartKeepsClocks
<1>3. ClockInv => RoundTripsInTime
  BY InvSamples
<1> QED
  BY <1>1, <1>2, <1>3, PTL DEF Spec

-----------------------------------------------------------------------------
(* The start of a federation.  First the queues between the processes.     *)

\* What the queues between processes are: sequences of something.
LEMMA Queues ==
    ASSUME NEW S, NEW s \in Seq(S)
    PROVE  s \in Seq(ToSet(s))
<1>1. Len(s) \in Nat /\ DOMAIN s = 1 .. Len(s)
  OBVIOUS
<1>2. s = [j \in 1 .. Len(s) |-> s[j]] /\ \A j \in 1 .. Len(s) : s[j] \in ToSet(s)
  BY <1>1 DEF ToSet
<1> QED
  BY <1>1, <1>2

LEMMA QueueAppend ==
    ASSUME NEW s, s \in Seq(ToSet(s)), NEW m
    PROVE  /\ Append(s, m) \in Seq(ToSet(Append(s, m)))
           /\ ToSet(Append(s, m)) = ToSet(s) \cup {m}
           /\ Len(s) \in Nat /\ Len(Append(s, m)) = Len(s) + 1
           /\ DOMAIN s = 1 .. Len(s) /\ DOMAIN Append(s, m) = 1 .. Len(s) + 1
           /\ \A j \in 1 .. Len(s) : Append(s, m)[j] = s[j]
           /\ Append(s, m)[Len(s) + 1] = m
<1> DEFINE S == ToSet(s) \cup {m}
<1>1. s \in Seq(S) /\ m \in S
  OBVIOUS
<1>2. /\ Append(s, m) \in Seq(S) /\ Len(s) \in Nat /\ Len(Append(s, m)) = Len(s) + 1
      /\ DOMAIN s = 1 .. Len(s) /\ DOMAIN Append(s, m) = 1 .. Len(s) + 1
      /\ \A j \in 1 .. Len(s) : Append(s, m)[j] = s[j]
      /\ Append(s, m)[Len(s) + 1] = m
  BY <1>1
<1>3. ToSet(Append(s, m)) = S
  BY <1>2 DEF ToSet
<1> QED
  BY <1>2, <1>3, Queues

LEMMA QueueTail ==
    ASSUME NEW s, s \in Seq(ToSet(s)), s # <<>>
    PROVE  /\ Tail(s) \in Seq(ToSet(Tail(s))) /\ ToSet(Tail(s)) \subseteq ToSet(s)
           /\ Len(s) \in Nat /\ Len(s) > 0 /\ Len(Tail(s)) = Len(s) - 1
           /\ DOMAIN s = 1 .. Len(s) /\ DOMAIN Tail(s) = 1 .. Len(s) - 1
           /\ \A j \in 1 .. Len(s) - 1 : Tail(s)[j] = s[j + 1]
           /\ Head(s) = s[1] /\ Head(s) \in ToSet(s)
<1>1. /\ Tail(s) \in Seq(ToSet(s)) /\ Len(s) \in Nat /\ Len(s) > 0
      /\ Len(Tail(s)) = Len(s) - 1
      /\ DOMAIN s = 1 .. Len(s) /\ DOMAIN Tail(s) = 1 .. Len(s) - 1
      /\ \A j \in 1 .. Len(s) - 1 : Tail(s)[j] = s[j + 1]
      /\ Head(s) = s[1] /\ s[1] \in ToSet(s)
  OBVIOUS
<1>2. ToSet(Tail(s)) \subseteq ToSet(s)
  BY <1>1 DEF ToSet
<1> QED
  BY <1>1, <1>2, Queues

\* Two messages one after the other.
LEMMA QueueTwo ==
    ASSUME NEW s, s \in Seq(ToSet(s)), NEW a, NEW b
    PROVE  s \o <<a>> = Append(s, a) /\ s \o <<a, b>> = Append(Append(s, a), b)
<1> DEFINE S == ToSet(s) \cup {a, b}
<1>1. s \in Seq(S) /\ a \in S /\ b \in S
  OBVIOUS
<1> QED
  BY <1>1

LEMMA LargerOfTwo ==
    ASSUME NEW a \in Nat, NEW b \in Nat
    PROVE  Max({a, b}) \in Nat /\ Max({a, b}) >= a /\ Max({a, b}) >= b
<1>1. \E x \in {a, b} : \A y \in {a, b} : x >= y
  OBVIOUS
<1>2. Max({a, b}) \in {a, b} /\ \A y \in {a, b} : Max({a, b}) >= y
  BY <1>1 DEF Max
<1> QED
  BY <1>2

-----------------------------------------------------------------------------
(* A step keeps StartInv if it keeps what it touches.                      *)

PlacesOK == port \in [Ports -> Owners \cup {NoOne}] /\ backlog \in [Owners -> Seq(Procs)]

IsQueue(s) == s \in Seq(ToSet(s))

LEMMA InvNext ==
    ASSUME StartInv, UNCHANGED scenario, PlacesOK',
           DOMAIN rti' = Federations, proc' \in [Procs -> Processes],
           DOMAIN toProc' = Procs, DOMAIN toRTI' = Procs,
           \A n \in Federations : rti'[n] \in Servers(n) /\ ServerHolds(n, rti'[n]),
           \A p \in Procs : /\ IsQueue(toProc'[p]) /\ IsQueue(toRTI'[p])
                            /\ ProcessHolds(rti'[p.fed], p, proc'[p], toProc'[p], toRTI'[p])
    PROVE  StartInv'
<1>1. StartTypeOK'
  BY DEF StartInv, StartTypeOK, PlacesOK, IsQueue, Federations, Procs, Servers, Ids, Owners
<1>2. ASSUME NEW n \in Federations' PROVE ServerHolds(n, rti[n])'
  <2>1. n \in Federations
    BY DEF Federations
  <2>2. ServerHolds(n, rti'[n])
    BY <2>1
  <2> QED
    BY <2>2 DEF ServerHolds, SocketsHold, JoiningHolds, ProposalsHold, Ids, Procs, Agreed,
                TalksTo, Joining, Newcomer
<1>3. ASSUME NEW p \in Procs'
      PROVE  ProcessHolds(rti[p.fed], p, proc[p], toProc[p], toRTI[p])'
  <2>1. p \in Procs
    BY DEF Procs
  <2>2. ProcessHolds(rti'[p.fed], p, proc'[p], toProc'[p], toRTI'[p])
    BY <2>1
  <2> QED
    BY <2>2 DEF ProcessHolds, TalkHolds, DataHold, ProposalHolds, StartHolds, CountedHolds,
                Ids, Procs, Agreed, TalksTo, Has
<1> QED
  BY <1>1, <1>2, <1>3 DEF StartInv

\* A step of process p, which changes its own state and what is under way from and to it.
LEMMA ProcessStep ==
    ASSUME StartInv, UNCHANGED <<scenario, rti>>, PlacesOK',
           NEW p \in Procs, proc' \in [Procs -> Processes],
           DOMAIN toProc' = Procs, DOMAIN toRTI' = Procs,
           \A q \in Procs \ {p} : /\ proc'[q] = proc[q]
                                 /\ toProc'[q] = toProc[q] /\ toRTI'[q] = toRTI[q],
           IsQueue(toProc'[p]), IsQueue(toRTI'[p]),
           ProcessHolds(rti[p.fed], p, proc'[p], toProc'[p], toRTI'[p])
    PROVE  StartInv'
<1>2. \A n \in Federations : rti'[n] \in Servers(n) /\ ServerHolds(n, rti'[n])
  BY DEF StartInv, StartTypeOK
<1>3. ASSUME NEW q \in Procs
      PROVE  /\ IsQueue(toProc'[q]) /\ IsQueue(toRTI'[q])
             /\ ProcessHolds(rti'[q.fed], q, proc'[q], toProc'[q], toRTI'[q])
  <2>1. CASE q = p
    BY <2>1
  <2>2. CASE q # p
    BY <2>2 DEF StartInv, StartTypeOK, IsQueue
  <2> QED
    BY <2>1, <2>2
<1>4. DOMAIN rti' = Federations
  BY DEF StartInv, StartTypeOK
<1> QED
  BY <1>2, <1>3, <1>4, InvNext

\* What StartInv says of one process.
LEMMA OfProcess ==
    ASSUME StartInv, NEW p \in Procs
    PROVE  /\ scenario \in Scenarios /\ p.fed \in Federations /\ rti[p.fed] \in Servers(p.fed)
           /\ ServerHolds(p.fed, rti[p.fed])
           /\ ProcessHolds(rti[p.fed], p, proc[p], toProc[p], toRTI[p])
           /\ proc \in [Procs -> Processes] /\ proc[p] \in Processes /\ IsQueue(toProc[p]) /\ IsQueue(toRTI[p])
           /\ DOMAIN toProc = Procs /\ DOMAIN toRTI = Procs
           /\ scenario.peers[p] \in Seq(Ids(p.fed)) /\ scenario.proposal[p] \in Nat
  BY ScenariosAssumption DEF StartInv, StartTypeOK, Procs, Federations, IsQueue, Ids

\* A process goes on, without a start time and without asking for one.
LEMMA Moves ==
    ASSUME NEW R, NEW p, NEW me, NEW in, NEW out, ProcessHolds(R, p, me, in, out),
           NEW next, next.start = me.start,
           next.pc \notin {"connect", "await", "quit"} =>
               me.pc \notin {"connect", "await", "quit"} \/ Has(in, "ACK"),
           next.pc \in {"running", "left"} => me.pc \in {"running", "left"},
           me.pc \in {"start", "quit"} => next.pc \in {"start", "quit"},
           me.pc \in {"running", "left"} => next.pc \in {"running", "left"}
    PROVE  ProcessHolds(R, p, next, in, out)
  BY DEF ProcessHolds, TalkHolds, ProposalHolds, StartHolds, CountedHolds

\* It has read something, or something was written to it that binds nobody.
LEMMA InboxKeeps ==
    ASSUME NEW R, NEW p, NEW me, NEW in, NEW out, ProcessHolds(R, p, me, in, out),
           NEW rest,
           \A m \in ToSet(rest) : m \in ToSet(in) \/ m.type \notin {"ACK", "TIMESTAMP", "PORT"}
    PROVE  ProcessHolds(R, p, me, rest, out)
<1>1. \A type \in {"ACK", "TIMESTAMP"} : Has(rest, type) => Has(in, type)
  BY DEF Has
<1>2. \A m \in ToSet(rest) : m.type \in {"TIMESTAMP", "PORT"} => m \in ToSet(in)
  OBVIOUS
<1> QED
  BY <1>1, <1>2 DEF ProcessHolds, TalkHolds, DataHold, StartHolds

\* A message that may be written to p.
Welcome(R, p, m) ==
    /\ m.type = "ACK" => TalksTo(R, p)
    /\ m.type = "PORT" => m.data \in Ports \cup {NoPort}
    /\ m.type = "TIMESTAMP" => Agreed(p.fed, R) /\ m.data = R.maxStart + DELAY_START

LEMMA InboxGets ==
    ASSUME NEW R, NEW p, NEW me, NEW in, NEW out, ProcessHolds(R, p, me, in, out),
           IsQueue(in), NEW m, Welcome(R, p, m)
    PROVE  ProcessHolds(R, p, me, Append(in, m), out) /\ IsQueue(Append(in, m))
<1>1. ToSet(Append(in, m)) = ToSet(in) \cup {m} /\ IsQueue(Append(in, m))
  BY QueueAppend DEF IsQueue
<1>2. \A type : Has(Append(in, m), type) => Has(in, type) \/ m.type = type
  BY <1>1 DEF Has
<1> QED
  BY <1>1, <1>2 DEF ProcessHolds, TalkHolds, DataHold, StartHolds, Welcome

\* Its RTI has read something.
LEMMA OutboxRead ==
    ASSUME NEW R, NEW p, NEW me, NEW in, NEW out, ProcessHolds(R, p, me, in, out),
           IsQueue(out), out # <<>>
    PROVE  ProcessHolds(R, p, me, in, Tail(out))
<1>1. /\ ToSet(Tail(out)) \subseteq ToSet(out) /\ Len(out) \in Nat
      /\ DOMAIN out = 1 .. Len(out) /\ DOMAIN Tail(out) = 1 .. Len(out) - 1
      /\ Len(Tail(out)) = Len(out) - 1
      /\ \A j \in 1 .. Len(out) - 1 : Tail(out)[j] = out[j + 1]
  BY QueueTail DEF IsQueue
<1>2. \A type : Has(Tail(out), type) => Has(out, type)
  BY <1>1 DEF Has
<1>3. ProposalHolds(p, me, Tail(out))
  BY <1>1 DEF ProcessHolds, ProposalHolds
<1> QED
  BY <1>1, <1>2, <1>3 DEF ProcessHolds, DataHold, StartHolds, CountedHolds

\* It writes to its RTI, other than a proposal, and not after one.
LEMMA OutboxWritten ==
    ASSUME NEW R, NEW p, NEW me, NEW in, NEW out, ProcessHolds(R, p, me, in, out),
           IsQueue(out), NEW m, m.type # "TIMESTAMP", me.pc \notin {"start", "quit"},
           m.type = "RESIGN" => Agreed(p.fed, R),
           m.type = "ADDRESS_AD" => m.data \in Ports, m.type = "QUERY" => m.data \in Ids(p.fed)
    PROVE  ProcessHolds(R, p, me, in, Append(out, m)) /\ IsQueue(Append(out, m))
<1>1. /\ ToSet(Append(out, m)) = ToSet(out) \cup {m} /\ Len(out) \in Nat
      /\ DOMAIN out = 1 .. Len(out) /\ DOMAIN Append(out, m) = 1 .. Len(out) + 1
      /\ \A j \in 1 .. Len(out) : Append(out, m)[j] = out[j]
      /\ Append(out, m)[Len(out) + 1] = m /\ IsQueue(Append(out, m))
  BY QueueAppend DEF IsQueue
<1>2. \A type : Has(Append(out, m), type) => Has(out, type) \/ m.type = type
  BY <1>1 DEF Has
<1>3. \A j \in 1 .. Len(out) + 1 : j \in 1 .. Len(out) \/ j = Len(out) + 1
  BY <1>1
<1>4. ProposalHolds(p, me, Append(out, m))
  BY <1>1, <1>3 DEF ProcessHolds, ProposalHolds
<1> QED
  BY <1>1, <1>2, <1>4 DEF ProcessHolds, DataHold, StartHolds, CountedHolds

-----------------------------------------------------------------------------
(* The steps of a process.                                                 *)

\* A process that listens is found at a port.
LEMMA Listening ==
    ASSUME StartInv, NEW owner \in Owners, Listen(owner)
    PROVE  /\ port' \in [Ports -> Owners \cup {NoOne}]
           /\ (CHOOSE q \in Ports : port'[q] = owner) \in Ports
  BY DEF Listen, StartInv, StartTypeOK

LEMMA Queued ==
    ASSUME StartInv, NEW p \in Procs, NEW at, Listens(at), Queue(p, at)
    PROVE  backlog' \in [Owners -> Seq(Procs)]
<1>1. port[at] \in Owners
  BY DEF Listens, StartInv, StartTypeOK
<1> QED
  BY <1>1 DEF Queue, StartInv, StartTypeOK

\* Of all processes only p goes to another state, with the same start time.
OnlyMoves(p) ==
    /\ proc' \in [Procs -> Processes] /\ \A q \in Procs \ {p} : proc'[q] = proc[q]
    /\ proc'[p].start = proc[p].start

LEMMA MovesTo ==
    ASSUME proc \in [Procs -> Processes], NEW p \in Procs, NEW me \in Processes,
           me.start = proc[p].start, proc' = [proc EXCEPT ![p] = me]
    PROVE  OnlyMoves(p) /\ proc'[p] = me
  BY DEF OnlyMoves

LEMMA GoesTo ==
    ASSUME StartInv, NEW p \in Procs, NEW pc \in {"await", "T1", "T4", "serve", "peers", "port",
               "knock", "peer", "start", "left", "quit"}, Goes(p, pc)
    PROVE  OnlyMoves(p) /\ proc'[p].pc = pc
<1>1. proc \in [Procs -> Processes]
  BY DEF StartInv, StartTypeOK
<1> QED
  BY <1>1 DEF OnlyMoves, Goes, Processes

LEMMA TwoFields ==
    ASSUME proc \in [Procs -> Processes], NEW p \in Procs, NEW left \in Int,
           NEW pc \in {"T1", "serve"},
           proc' = [proc EXCEPT ![p].left = left, ![p].pc = pc]
    PROVE  OnlyMoves(p) /\ proc'[p].pc = pc
<1>1. PICK old \in Processes : old = proc[p]
  OBVIOUS
<1>2. PICK me : me = [old EXCEPT !.left = left, !.pc = pc]
  OBVIOUS
<1>3. me \in Processes /\ me.start = proc[p].start /\ me.pc = pc
  BY <1>1, <1>2 DEF Processes
<1>4. proc' = [proc EXCEPT ![p] = me]
  BY <1>1, <1>2
<1> QED
  BY <1>3, <1>4, MovesTo

LEMMA NextPort ==
    ASSUME proc \in [Procs -> Processes], NEW p \in Procs, NEW uport \in Nat,
           proc' = [proc EXCEPT ![p].uport = uport, ![p].pc = "connect"]
    PROVE  OnlyMoves(p) /\ proc'[p].pc = "connect"
<1>1. PICK old \in Processes : old = proc[p]
  OBVIOUS
<1>2. PICK me : me = [old EXCEPT !.uport = uport, !.pc = "connect"]
  OBVIOUS
<1>3. me \in Processes /\ me.start = proc[p].start /\ me.pc = "connect"
  BY <1>1, <1>2 DEF Processes
<1>4. proc' = [proc EXCEPT ![p] = me]
  BY <1>1, <1>2
<1> QED
  BY <1>3, <1>4, MovesTo

LEMMA NextPeer ==
    ASSUME proc \in [Procs -> Processes], NEW p \in Procs, NEW next \in Nat \ {0},
           proc' = [proc EXCEPT ![p].next = next, ![p].pc = "peers"]
    PROVE  OnlyMoves(p) /\ proc'[p].pc = "peers"
<1>1. PICK old \in Processes : old = proc[p]
  OBVIOUS
<1>2. PICK me : me = [old EXCEPT !.next = next, !.pc = "peers"]
  OBVIOUS
<1>3. me \in Processes /\ me.start = proc[p].start /\ me.pc = "peers"
  BY <1>1, <1>2 DEF Processes
<1>4. proc' = [proc EXCEPT ![p] = me]
  BY <1>1, <1>2
<1> QED
  BY <1>3, <1>4, MovesTo

LEMMA PortKnown ==
    ASSUME proc \in [Procs -> Processes], NEW p \in Procs,
           NEW peerPort \in Ports \cup {NoPort}, NEW pc \in {"peers", "knock"},
           proc' = [proc EXCEPT ![p].peerPort = peerPort, ![p].pc = pc]
    PROVE  OnlyMoves(p) /\ proc'[p].pc = pc
<1>1. PICK old \in Processes : old = proc[p]
  OBVIOUS
<1>2. PICK me : me = [old EXCEPT !.peerPort = peerPort, !.pc = pc]
  OBVIOUS
<1>3. me \in Processes /\ me.start = proc[p].start /\ me.pc = pc
  BY <1>1, <1>2 DEF Processes
<1>4. proc' = [proc EXCEPT ![p] = me]
  BY <1>1, <1>2
<1> QED
  BY <1>3, <1>4, MovesTo

\* A message is read from the RTI or a peer.
LEMMA Heard ==
    ASSUME StartInv, NEW p \in Procs, NEW type, Hears(p, type)
    PROVE  /\ DOMAIN toProc' = Procs /\ \A q \in Procs \ {p} : toProc'[q] = toProc[q]
           /\ IsQueue(toProc'[p]) /\ ToSet(toProc'[p]) \subseteq ToSet(toProc[p])
           /\ Head(toProc[p]) \in ToSet(toProc[p]) /\ Head(toProc[p]).type = type
           /\ Has(toProc[p], type)
<1>1. DOMAIN toProc = Procs /\ IsQueue(toProc[p])
  BY OfProcess
<1>2. toProc[p] # <<>> /\ Head(toProc[p]).type = type
      /\ toProc' = [toProc EXCEPT ![p] = Tail(toProc[p])]
  BY DEF Hears
<1>3. /\ IsQueue(Tail(toProc[p])) /\ ToSet(Tail(toProc[p])) \subseteq ToSet(toProc[p])
      /\ Head(toProc[p]) \in ToSet(toProc[p])
  BY <1>1, <1>2, QueueTail DEF IsQueue
<1> QED
  BY <1>1, <1>2, <1>3 DEF Has

\* A message is written to the RTI.
LEMMA Written ==
    ASSUME StartInv, NEW p \in Procs, NEW m, Write(p, <<m>>)
    PROVE  /\ DOMAIN toRTI' = Procs /\ \A q \in Procs \ {p} : toRTI'[q] = toRTI[q]
           /\ toRTI'[p] = Append(toRTI[p], m)
<1>1. DOMAIN toRTI = Procs /\ IsQueue(toRTI[p])
  BY OfProcess
<1>2. toRTI[p] \o <<m>> = Append(toRTI[p], m)
  BY <1>1, QueueTwo DEF IsQueue
<1> QED
  BY <1>1, <1>2 DEF Write

\* What a process does alone, when the places are as they were.
LEMMA QuietStep ==
    ASSUME StartInv, UNCHANGED <<scenario, rti, port, backlog>>, NEW p \in Procs, OnlyMoves(p),
           DOMAIN toProc' = Procs, DOMAIN toRTI' = Procs,
           \A q \in Procs \ {p} : toProc'[q] = toProc[q] /\ toRTI'[q] = toRTI[q],
           IsQueue(toProc'[p]), IsQueue(toRTI'[p]),
           ProcessHolds(rti[p.fed], p, proc'[p], toProc'[p], toRTI'[p])
    PROVE  StartInv'
<1>1. PlacesOK'
  BY DEF PlacesOK, StartInv, StartTypeOK, Owners, Federations, Procs, Ports
<1> QED
  BY <1>1, ProcessStep DEF OnlyMoves

LEMMA ConnectKeeps ==
    ASSUME StartInv, NEW p \in Procs, Connect(p)
    PROVE  StartInv'
<1>1. /\ scenario \in Scenarios /\ proc \in [Procs -> Processes] /\ IsQueue(toProc[p])
      /\ IsQueue(toRTI[p]) /\ DOMAIN toProc = Procs /\ DOMAIN toRTI = Procs
      /\ ProcessHolds(rti[p.fed], p, proc[p], toProc[p], toRTI[p])
  BY OfProcess
<1>2. UNCHANGED <<scenario, rti, port, toProc, toRTI>> /\ proc[p].pc = "connect"
  BY DEF Connect, Is
<1>3. OnlyMoves(p) /\ proc'[p].pc \in {"connect", "await"}
  <2>1. CASE Listens(proc[p].uport)
    BY <2>1, GoesTo DEF Connect
  <2>2. CASE ~Listens(proc[p].uport)
    <3>1. PICK next \in Nat : proc' = [proc EXCEPT ![p].uport = next]
      BY <1>1, <2>2 DEF Connect, Processes
    <3> QED
      BY <1>1, <1>2, <3>1 DEF Processes, OnlyMoves
  <2> QED
    BY <2>1, <2>2
<1>4. backlog' \in [Owners -> Seq(Procs)]
  <2>1. CASE Listens(proc[p].uport)
    BY <2>1, Queued DEF Connect
  <2>2. CASE ~Listens(proc[p].uport)
    BY <2>2 DEF Connect, StartInv, StartTypeOK
  <2> QED
    BY <2>1, <2>2
<1>5. PlacesOK'
  BY <1>2, <1>4 DEF PlacesOK, StartInv, StartTypeOK, Owners, Federations, Procs, Ports
<1>6. ProcessHolds(rti[p.fed], p, proc'[p], toProc[p], toRTI[p])
  BY <1>1, <1>2, <1>3, Moves DEF OnlyMoves
<1> QED
  BY <1>1, <1>2, <1>3, <1>5, <1>6, ProcessStep DEF OnlyMoves

LEMMA AnsweredKeeps ==
    ASSUME StartInv, NEW p \in Procs, Answered(p)
    PROVE  StartInv'
<1>1. /\ proc \in [Procs -> Processes] /\ IsQueue(toProc[p]) /\ IsQueue(toRTI[p])
      /\ DOMAIN toProc = Procs /\ DOMAIN toRTI = Procs
      /\ ProcessHolds(rti[p.fed], p, proc[p], toProc[p], toRTI[p])
  BY OfProcess
<1>2. UNCHANGED <<scenario, rti, port, backlog>> /\ proc[p].pc = "await"
  BY DEF Answered, Is
<1>3. CASE Hears(p, "ACK")
  <2>1. /\ DOMAIN toProc' = Procs /\ \A q \in Procs \ {p} : toProc'[q] = toProc[q]
        /\ IsQueue(toProc'[p]) /\ ToSet(toProc'[p]) \subseteq ToSet(toProc[p])
        /\ Has(toProc[p], "ACK") /\ Head(toProc[p]).type = "ACK"
    BY <1>3, Heard
  <2>2. \A type \in {"REJECT", "CLOSED"} : ~Hears(p, type)
    BY <2>1 DEF Hears
  <2> DEFINE a == Message("NEIGHBORS", 0)
             b == Message("UDP_PORT", scenario.sync[p.fed])
  <2>3. /\ Write(p, <<a, b>>)
        /\ proc' = [proc EXCEPT ![p].left = Exchanges,
                ![p].pc = IF scenario.sync[p.fed] = "off" THEN "serve" ELSE "T1"]
    BY <2>2 DEF Answered
  <2>4. OnlyMoves(p) /\ proc'[p].pc \in {"serve", "T1"}
    <3>1. Exchanges \in Int /\ (IF scenario.sync[p.fed] = "off" THEN "serve" ELSE "T1")
                                  \in {"serve", "T1"}
      BY ClockSyncAssumption
    <3>2. PICK left \in Int, pc \in {"serve", "T1"} :
              proc' = [proc EXCEPT ![p].left = left, ![p].pc = pc]
      BY <2>3, <3>1
    <3> QED
      BY <1>1, <3>2, TwoFields
  <2>5. toRTI[p] \o <<a, b>> = Append(Append(toRTI[p], a), b)
    BY <1>1, QueueTwo DEF IsQueue
  <2>6. /\ DOMAIN toRTI' = Procs /\ \A q \in Procs \ {p} : toRTI'[q] = toRTI[q]
        /\ toRTI'[p] = Append(Append(toRTI[p], a), b)
    BY <1>1, <2>3, <2>5 DEF Write
  <2>7. a.type = "NEIGHBORS" /\ b.type = "UDP_PORT"
    BY DEF Message
  <2> HIDE DEF a, b
  <2>8. /\ ProcessHolds(rti[p.fed], p, proc[p], toProc[p], Append(toRTI[p], a))
        /\ IsQueue(Append(toRTI[p], a))
    BY <1>1, <1>2, <2>7, OutboxWritten
  <2>9. ProcessHolds(rti[p.fed], p, proc[p], toProc[p], toRTI'[p]) /\ IsQueue(toRTI'[p])
    BY <1>2, <2>6, <2>7, <2>8, OutboxWritten
  <2>10. ProcessHolds(rti[p.fed], p, proc'[p], toProc[p], toRTI'[p])
    BY <1>2, <2>1, <2>4, <2>9, Moves DEF OnlyMoves
  <2>11. ProcessHolds(rti[p.fed], p, proc'[p], toProc'[p], toRTI'[p])
    BY <2>1, <2>10, InboxKeeps
  <2> QED
    BY <1>2, <2>1, <2>4, <2>6, <2>9, <2>11, QuietStep
<1>4. ASSUME NEW type, Hears(p, type), type # "ACK"
      PROVE  StartInv'
  <2>1. /\ DOMAIN toProc' = Procs /\ \A q \in Procs \ {p} : toProc'[q] = toProc[q]
        /\ IsQueue(toProc'[p]) /\ ToSet(toProc'[p]) \subseteq ToSet(toProc[p])
        /\ Head(toProc[p]).type = type
    BY <1>4, Heard
  <2>2. ~Hears(p, "ACK")
    BY <1>4, <2>1 DEF Hears
  <2>3. UNCHANGED toRTI
    BY <2>2 DEF Answered
  <2>4. OnlyMoves(p) /\ proc'[p].pc \in {"connect", "quit"}
    <3>1. \/ proc' = [proc EXCEPT ![p].uport = @ + 1, ![p].pc = "connect"]
          \/ Goes(p, "quit")
      BY <2>2 DEF Answered
    <3>2. CASE proc' = [proc EXCEPT ![p].uport = @ + 1, ![p].pc = "connect"]
      <4>1. proc[p].uport + 1 \in Nat
        BY <1>1 DEF Processes
      <4>2. PICK uport \in Nat : proc' = [proc EXCEPT ![p].uport = uport, ![p].pc = "connect"]
        BY <3>2, <4>1
      <4> QED
        BY <1>1, <4>2, NextPort
    <3> QED
      BY <3>1, <3>2, GoesTo
  <2>5. ProcessHolds(rti[p.fed], p, proc'[p], toProc[p], toRTI[p])
    BY <1>1, <1>2, <2>4, Moves DEF OnlyMoves
  <2>6. ProcessHolds(rti[p.fed], p, proc'[p], toProc'[p], toRTI'[p])
    BY <2>1, <2>3, <2>5, InboxKeeps
  <2> QED
    BY <1>1, <1>2, <2>1, <2>3, <2>4, <2>6, QuietStep
<1> QED
  BY <1>3, <1>4 DEF Answered

LEMMA InitialSyncKeeps ==
    ASSUME StartInv, NEW p \in Procs, InitialSync(p)
    PROVE  StartInv'
<1>1. /\ proc \in [Procs -> Processes] /\ IsQueue(toProc[p]) /\ IsQueue(toRTI[p])
      /\ DOMAIN toProc = Procs /\ DOMAIN toRTI = Procs
      /\ ProcessHolds(rti[p.fed], p, proc[p], toProc[p], toRTI[p])
  BY OfProcess
<1>2. UNCHANGED <<scenario, rti, port, backlog>> /\ proc[p].pc \in {"T1", "T4"}
  BY DEF InitialSync, Is
<1>3. /\ DOMAIN toProc' = Procs /\ \A q \in Procs \ {p} : toProc'[q] = toProc[q]
      /\ IsQueue(toProc'[p]) /\ ToSet(toProc'[p]) \subseteq ToSet(toProc[p])
  BY Heard DEF InitialSync
<1>4. OnlyMoves(p) /\ proc'[p].pc \in {"T4", "T1", "serve"}
  <2>1. \/ Goes(p, "T4")
        \/ proc' = [proc EXCEPT ![p].left = @ - 1,
                        ![p].pc = IF proc[p].left > 1 THEN "T1" ELSE "serve"]
    BY DEF InitialSync
  <2>2. ASSUME proc' = [proc EXCEPT ![p].left = @ - 1,
                           ![p].pc = IF proc[p].left > 1 THEN "T1" ELSE "serve"]
        PROVE  OnlyMoves(p) /\ proc'[p].pc \in {"T1", "serve"}
    <3>1. proc[p].left - 1 \in Int
      BY <1>1 DEF Processes
    <3>2. PICK left \in Int, pc \in {"T1", "serve"} :
              proc' = [proc EXCEPT ![p].left = left, ![p].pc = pc]
      BY <2>2, <3>1
    <3> QED
      BY <1>1, <3>2, TwoFields
  <2> QED
    BY <2>1, <2>2, GoesTo
<1>5. /\ DOMAIN toRTI' = Procs /\ \A q \in Procs \ {p} : toRTI'[q] = toRTI[q]
      /\ ProcessHolds(rti[p.fed], p, proc[p], toProc[p], toRTI'[p]) /\ IsQueue(toRTI'[p])
  <2>1. CASE UNCHANGED toRTI
    BY <1>1, <2>1
  <2>2. CASE Write(p, <<Message("T3", p.id)>>)
    <3> DEFINE m == Message("T3", p.id)
    <3>1. m.type = "T3" /\ Write(p, <<m>>)
      BY <2>2 DEF Message
    <3> HIDE DEF m
    <3>2. /\ DOMAIN toRTI' = Procs /\ \A q \in Procs \ {p} : toRTI'[q] = toRTI[q]
          /\ toRTI'[p] = Append(toRTI[p], m)
      BY <3>1, Written
    <3> QED
      BY <1>1, <1>2, <3>1, <3>2, OutboxWritten
  <2> QED
    BY <2>1, <2>2 DEF InitialSync
<1>6. ProcessHolds(rti[p.fed], p, proc'[p], toProc[p], toRTI'[p])
  BY <1>2, <1>4, <1>5, Moves DEF OnlyMoves
<1>7. ProcessHolds(rti[p.fed], p, proc'[p], toProc'[p], toRTI'[p])
  BY <1>3, <1>6, InboxKeeps
<1> QED
  BY <1>2, <1>3, <1>4, <1>5, <1>7, QuietStep

LEMMA ServeKeeps ==
    ASSUME StartInv, NEW p \in Procs, Serve(p)
    PROVE  StartInv'
<1>1. /\ IsQueue(toProc[p]) /\ IsQueue(toRTI[p])
      /\ DOMAIN toProc = Procs /\ DOMAIN toRTI = Procs
      /\ ProcessHolds(rti[p.fed], p, proc[p], toProc[p], toRTI[p])
  BY OfProcess
<1>2. UNCHANGED <<scenario, rti, backlog, toProc>> /\ proc[p].pc = "serve" /\ Goes(p, "peers")
  BY DEF Serve, Is
<1>3. OnlyMoves(p) /\ proc'[p].pc = "peers"
  BY <1>2, GoesTo
<1>4. /\ port' \in [Ports -> Owners \cup {NoOne}]
      /\ DOMAIN toRTI' = Procs /\ \A q \in Procs \ {p} : toRTI'[q] = toRTI[q]
      /\ ProcessHolds(rti[p.fed], p, proc[p], toProc[p], toRTI'[p]) /\ IsQueue(toRTI'[p])
  <2>1. CASE UNCHANGED <<port, toRTI>>
    BY <1>1, <2>1 DEF StartInv, StartTypeOK
  <2>2. CASE Listen(p) /\ Write(p, <<Message("ADDRESS_AD", CHOOSE q \in Ports : port'[q] = p)>>)
    <3> DEFINE m == Message("ADDRESS_AD", CHOOSE q \in Ports : port'[q] = p)
    <3>1. p \in Owners
      BY DEF Owners
    <3>2. port' \in [Ports -> Owners \cup {NoOne}] /\ m.type = "ADDRESS_AD" /\ m.data \in Ports
      BY <2>2, <3>1, Listening DEF Message
    <3>3. Write(p, <<m>>)
      BY <2>2
    <3> HIDE DEF m
    <3>4. /\ DOMAIN toRTI' = Procs /\ \A q \in Procs \ {p} : toRTI'[q] = toRTI[q]
          /\ toRTI'[p] = Append(toRTI[p], m)
      BY <3>3, Written
    <3> QED
      BY <1>1, <1>2, <3>2, <3>4, OutboxWritten
  <2> QED
    BY <2>1, <2>2 DEF Serve
<1>5. ProcessHolds(rti[p.fed], p, proc'[p], toProc'[p], toRTI'[p])
  BY <1>2, <1>3, <1>4, Moves DEF OnlyMoves
<1>6. PlacesOK'
  BY <1>2, <1>4 DEF PlacesOK, StartInv, StartTypeOK, Owners, Federations, Procs, Ports
<1> QED
  BY <1>1, <1>2, <1>3, <1>4, <1>5, <1>6, ProcessStep DEF OnlyMoves

\* The proposal of a process, which is in nobody's count yet.
LEMMA Proposes ==
    ASSUME NEW R, NEW p, NEW me, NEW in, NEW out, ProcessHolds(R, p, me, in, out),
           IsQueue(out), me.pc = "peers", NEW next, next.pc = "start", next.start = me.start,
           NEW m, m.type = "TIMESTAMP", m.data = scenario.proposal[p]
    PROVE  ProcessHolds(R, p, next, in, Append(out, m)) /\ IsQueue(Append(out, m))
<1>1. /\ ToSet(Append(out, m)) = ToSet(out) \cup {m} /\ Len(out) \in Nat
      /\ Len(Append(out, m)) = Len(out) + 1
      /\ DOMAIN out = 1 .. Len(out) /\ DOMAIN Append(out, m) = 1 .. Len(out) + 1
      /\ \A j \in 1 .. Len(out) : Append(out, m)[j] = out[j]
      /\ Append(out, m)[Len(out) + 1] = m /\ IsQueue(Append(out, m))
  BY QueueAppend DEF IsQueue
<1>2. \A j \in 1 .. Len(out) + 1 : j \in 1 .. Len(out) \/ j = Len(out) + 1
  BY <1>1
<1>3. ProposalHolds(p, next, Append(out, m))
  BY <1>1, <1>2 DEF ProcessHolds, ProposalHolds
<1>4. ~(p \in R.proposing \/ (Agreed(p.fed, R) /\ TalksTo(R, p)))
  BY DEF ProcessHolds, CountedHolds
<1>5. Has(Append(out, m), "RESIGN") => Has(out, "RESIGN")
  BY <1>1 DEF Has
<1>6. StartHolds(R, p, next, in, Append(out, m)) /\ TalkHolds(R, p, next, in)
  BY <1>5 DEF ProcessHolds, StartHolds, TalkHolds
<1>7. DataHold(p, in, Append(out, m))
  BY <1>1 DEF ProcessHolds, DataHold
<1> QED
  BY <1>1, <1>3, <1>4, <1>6, <1>7 DEF ProcessHolds, CountedHolds

LEMMA QueryPeerKeeps ==
    ASSUME StartInv, NEW p \in Procs, QueryPeer(p)
    PROVE  StartInv'
<1>1. /\ IsQueue(toProc[p]) /\ IsQueue(toRTI[p]) /\ proc[p] \in Processes
      /\ DOMAIN toProc = Procs /\ DOMAIN toRTI = Procs
      /\ ProcessHolds(rti[p.fed], p, proc[p], toProc[p], toRTI[p])
      /\ scenario.peers[p] \in Seq(Ids(p.fed))
  BY OfProcess
<1>2. UNCHANGED <<scenario, rti, port, backlog, toProc>> /\ proc[p].pc = "peers"
  BY DEF QueryPeer, Is
<1>3. CASE proc[p].next <= Len(scenario.peers[p])
  <2> DEFINE m == Message("QUERY", scenario.peers[p][proc[p].next])
  <2>1. Write(p, <<m>>) /\ Goes(p, "port")
    BY <1>3 DEF QueryPeer
  <2>2. m.type = "QUERY" /\ m.data = scenario.peers[p][proc[p].next]
    BY DEF Message
  <2>3. scenario.peers[p][proc[p].next] \in Ids(p.fed)
    <3>1. proc[p].next \in Nat \ {0}
      BY <1>1 DEF Processes
    <3>2. proc[p].next \in 1 .. Len(scenario.peers[p])
      BY <1>1, <1>3, <3>1
    <3> QED
      BY <1>1, <3>2
  <2> HIDE DEF m
  <2>4. /\ DOMAIN toRTI' = Procs /\ \A q \in Procs \ {p} : toRTI'[q] = toRTI[q]
        /\ toRTI'[p] = Append(toRTI[p], m)
    BY <2>1, Written
  <2>5. ProcessHolds(rti[p.fed], p, proc[p], toProc[p], toRTI'[p]) /\ IsQueue(toRTI'[p])
    BY <1>1, <1>2, <2>2, <2>3, <2>4, OutboxWritten
  <2>6. OnlyMoves(p) /\ proc'[p].pc = "port"
    BY <2>1, GoesTo
  <2>7. ProcessHolds(rti[p.fed], p, proc'[p], toProc[p], toRTI'[p])
    BY <1>2, <2>5, <2>6, Moves DEF OnlyMoves
  <2> QED
    BY <1>1, <1>2, <2>4, <2>5, <2>6, <2>7, QuietStep
<1>4. CASE ~(proc[p].next <= Len(scenario.peers[p]))
  <2> DEFINE m == Message("TIMESTAMP", scenario.proposal[p])
  <2>1. Write(p, <<m>>) /\ Goes(p, "start")
    BY <1>4 DEF QueryPeer
  <2>2. m.type = "TIMESTAMP" /\ m.data = scenario.proposal[p]
    BY DEF Message
  <2> HIDE DEF m
  <2>3. /\ DOMAIN toRTI' = Procs /\ \A q \in Procs \ {p} : toRTI'[q] = toRTI[q]
        /\ toRTI'[p] = Append(toRTI[p], m)
    BY <2>1, Written
  <2>4. OnlyMoves(p) /\ proc'[p].pc = "start"
    BY <2>1, GoesTo
  <2>5. ProcessHolds(rti[p.fed], p, proc'[p], toProc[p], toRTI'[p]) /\ IsQueue(toRTI'[p])
    <3>1. ProcessHolds(rti[p.fed], p, proc[p], toProc[p], toRTI[p]) /\ IsQueue(toRTI[p])
      BY <1>1, <1>2
    <3>2. proc[p].pc = "peers" /\ proc'[p].start = proc[p].start /\ toRTI'[p] = Append(toRTI[p], m)
      BY <1>1, <1>2, <2>3, <2>4 DEF OnlyMoves
    <3> QED
      BY <2>2, <2>4, <3>1, <3>2, Proposes
  <2> QED
    BY <1>1, <1>2, <2>3, <2>4, <2>5, QuietStep
<1> QED
  BY <1>3, <1>4

LEMMA PeerPortKeeps ==
    ASSUME StartInv, NEW p \in Procs, PeerPort(p)
    PROVE  StartInv'
<1>1. /\ proc \in [Procs -> Processes] /\ IsQueue(toProc[p]) /\ IsQueue(toRTI[p])
      /\ DOMAIN toProc = Procs /\ DOMAIN toRTI = Procs
      /\ ProcessHolds(rti[p.fed], p, proc[p], toProc[p], toRTI[p])
  BY OfProcess
<1>2. UNCHANGED <<scenario, rti, port, backlog, toRTI>> /\ proc[p].pc = "port"
      /\ Hears(p, "PORT")
  BY DEF PeerPort, Is
<1>3. /\ DOMAIN toProc' = Procs /\ \A q \in Procs \ {p} : toProc'[q] = toProc[q]
      /\ IsQueue(toProc'[p]) /\ ToSet(toProc'[p]) \subseteq ToSet(toProc[p])
      /\ Head(toProc[p]) \in ToSet(toProc[p]) /\ Head(toProc[p]).type = "PORT"
  BY <1>2, Heard
<1>4. Data(p) \in Ports \cup {NoPort}
  BY <1>1, <1>3 DEF ProcessHolds, DataHold, Data
<1>5. OnlyMoves(p) /\ proc'[p].pc \in {"peers", "knock"}
  <2>1. (IF Data(p) = NoPort THEN "peers" ELSE "knock") \in {"peers", "knock"}
    OBVIOUS
  <2>2. PICK peerPort \in Ports \cup {NoPort}, pc \in {"peers", "knock"} :
            proc' = [proc EXCEPT ![p].peerPort = peerPort, ![p].pc = pc]
    BY <1>4, <2>1 DEF PeerPort
  <2> QED
    BY <1>1, <2>2, PortKnown
<1>6. ProcessHolds(rti[p.fed], p, proc'[p], toProc[p], toRTI[p])
  BY <1>1, <1>2, <1>5, Moves DEF OnlyMoves
<1>7. ProcessHolds(rti[p.fed], p, proc'[p], toProc'[p], toRTI'[p])
  BY <1>2, <1>3, <1>6, InboxKeeps
<1> QED
  BY <1>1, <1>2, <1>3, <1>5, <1>7, QuietStep

LEMMA ConnectPeerKeeps ==
    ASSUME StartInv, NEW p \in Procs, ConnectPeer(p)
    PROVE  StartInv'
<1>1. /\ IsQueue(toProc[p]) /\ IsQueue(toRTI[p])
      /\ DOMAIN toProc = Procs /\ DOMAIN toRTI = Procs
      /\ ProcessHolds(rti[p.fed], p, proc[p], toProc[p], toRTI[p])
  BY OfProcess
<1>2. UNCHANGED <<scenario, rti, port, toProc, toRTI>> /\ proc[p].pc = "knock"
  BY DEF ConnectPeer, Is
<1>3. OnlyMoves(p) /\ proc'[p].pc = "peer"
  BY GoesTo DEF ConnectPeer
<1>4. backlog' \in [Owners -> Seq(Procs)]
  BY Queued DEF ConnectPeer
<1>5. PlacesOK'
  BY <1>2, <1>4 DEF PlacesOK, StartInv, StartTypeOK, Owners, Federations, Procs, Ports
<1>6. ProcessHolds(rti[p.fed], p, proc'[p], toProc[p], toRTI[p])
  BY <1>1, <1>2, <1>3, Moves DEF OnlyMoves
<1> QED
  BY <1>1, <1>2, <1>3, <1>5, <1>6, ProcessStep DEF OnlyMoves

LEMMA PeerAnsweredKeeps ==
    ASSUME StartInv, NEW p \in Procs, PeerAnswered(p)
    PROVE  StartInv'
<1>1. /\ proc \in [Procs -> Processes] /\ IsQueue(toProc[p]) /\ IsQueue(toRTI[p])
      /\ DOMAIN toProc = Procs /\ DOMAIN toRTI = Procs
      /\ ProcessHolds(rti[p.fed], p, proc[p], toProc[p], toRTI[p])
  BY OfProcess
<1>2. UNCHANGED <<scenario, rti, port, backlog, toRTI>> /\ proc[p].pc = "peer"
  BY DEF PeerAnswered, Is
<1>3. /\ DOMAIN toProc' = Procs /\ \A q \in Procs \ {p} : toProc'[q] = toProc[q]
      /\ IsQueue(toProc'[p]) /\ ToSet(toProc'[p]) \subseteq ToSet(toProc[p])
  BY Heard DEF PeerAnswered
<1>4. OnlyMoves(p) /\ proc'[p].pc \in {"peers", "knock", "quit"}
  <2>1. CASE proc' = [proc EXCEPT ![p].next = @ + 1, ![p].pc = "peers"]
    <3>1. proc[p].next + 1 \in Nat \ {0}
      <4>1. proc[p].next \in Nat \ {0}
        BY <1>1 DEF Processes
      <4> QED
        BY <4>1
    <3>2. PICK next \in Nat \ {0} : proc' = [proc EXCEPT ![p].next = next, ![p].pc = "peers"]
      BY <2>1, <3>1
    <3> QED
      BY <1>1, <3>2, NextPeer
  <2> QED
    BY <2>1, GoesTo DEF PeerAnswered
<1>5. ProcessHolds(rti[p.fed], p, proc'[p], toProc[p], toRTI[p])
  BY <1>1, <1>2, <1>4, Moves DEF OnlyMoves
<1>6. ProcessHolds(rti[p.fed], p, proc'[p], toProc'[p], toRTI'[p])
  BY <1>2, <1>3, <1>5, InboxKeeps
<1> QED
  BY <1>1, <1>2, <1>3, <1>4, <1>6, QuietStep

\* The start time comes.
LEMMA Starts ==
    ASSUME NEW R, NEW p, NEW me, NEW in, NEW out, ProcessHolds(R, p, me, in, out),
           me.pc = "start", Agreed(p.fed, R), NEW next, next.pc = "running",
           next.start = R.maxStart + DELAY_START
    PROVE  ProcessHolds(R, p, next, in, out)
<1>1. TalksTo(R, p)
  BY DEF ProcessHolds, TalkHolds
<1>2. ~Has(out, "TIMESTAMP")
  BY <1>1 DEF ProcessHolds, CountedHolds
<1>3. ProposalHolds(p, next, out)
  BY <1>2 DEF ProposalHolds, Has, ToSet
<1> QED
  BY <1>1, <1>3 DEF ProcessHolds, TalkHolds, StartHolds, CountedHolds

LEMMA NewStart ==
    ASSUME proc \in [Procs -> Processes], NEW p \in Procs, NEW start \in Nat,
           proc' = [proc EXCEPT ![p].start = start, ![p].pc = "running"]
    PROVE  /\ proc' \in [Procs -> Processes] /\ \A q \in Procs \ {p} : proc'[q] = proc[q]
           /\ proc'[p].start = start /\ proc'[p].pc = "running"
<1>1. PICK old \in Processes : old = proc[p]
  OBVIOUS
<1>2. PICK me : me = [old EXCEPT !.start = start, !.pc = "running"]
  OBVIOUS
<1>3. me \in Processes /\ me.start = start /\ me.pc = "running"
  BY <1>2 DEF Processes
<1>4. proc' = [proc EXCEPT ![p] = me]
  BY <1>1, <1>2
<1> QED
  BY <1>3, <1>4

LEMMA StartTimeKeeps ==
    ASSUME StartInv, NEW p \in Procs, StartTime(p)
    PROVE  StartInv'
<1>1. /\ proc \in [Procs -> Processes] /\ IsQueue(toProc[p]) /\ IsQueue(toRTI[p])
      /\ DOMAIN toProc = Procs /\ DOMAIN toRTI = Procs
      /\ ProcessHolds(rti[p.fed], p, proc[p], toProc[p], toRTI[p])
      /\ rti[p.fed] \in Servers(p.fed)
  BY OfProcess
<1>2. UNCHANGED <<scenario, rti, port, backlog, toRTI>> /\ proc[p].pc = "start"
  BY DEF StartTime, Is
<1>3. Hears(p, Head(toProc[p]).type)
  BY DEF StartTime, Hears
<1>4. /\ DOMAIN toProc' = Procs /\ \A q \in Procs \ {p} : toProc'[q] = toProc[q]
      /\ IsQueue(toProc'[p]) /\ ToSet(toProc'[p]) \subseteq ToSet(toProc[p])
      /\ Head(toProc[p]) \in ToSet(toProc[p]) /\ Has(toProc[p], Head(toProc[p]).type)
  BY <1>3, Heard
<1>5. CASE Head(toProc[p]).type = "TIMESTAMP"
  <2>1. Agreed(p.fed, rti[p.fed]) /\ Data(p) = rti[p.fed].maxStart + DELAY_START
    BY <1>1, <1>4, <1>5 DEF ProcessHolds, StartHolds, Data
  <2>2. Data(p) \in Nat
    <3>1. rti[p.fed].maxStart \in Nat
      BY <1>1 DEF Servers
    <3> QED
      BY <2>1, <3>1, StartAssumption
  <2>3. proc' = [proc EXCEPT ![p].start = Data(p), ![p].pc = "running"]
    BY <1>5 DEF StartTime
  <2>4. /\ proc' \in [Procs -> Processes] /\ \A q \in Procs \ {p} : proc'[q] = proc[q]
        /\ proc'[p].start = Data(p) /\ proc'[p].pc = "running"
    BY <1>1, <2>2, <2>3, NewStart
  <2>5. ProcessHolds(rti[p.fed], p, proc'[p], toProc[p], toRTI[p])
    BY <1>1, <1>2, <2>1, <2>4, Starts
  <2>6. ProcessHolds(rti[p.fed], p, proc'[p], toProc'[p], toRTI'[p])
    BY <1>2, <1>4, <2>5, InboxKeeps
  <2>7. PlacesOK'
    BY <1>2 DEF PlacesOK, StartInv, StartTypeOK, Owners, Federations, Procs, Ports
  <2> QED
    BY <1>1, <1>2, <1>4, <2>4, <2>6, <2>7, ProcessStep
<1>6. CASE Head(toProc[p]).type # "TIMESTAMP"
  <2>1. Goes(p, "quit")
    BY <1>6 DEF StartTime, Goes
  <2>2. OnlyMoves(p) /\ proc'[p].pc = "quit"
    BY <2>1, GoesTo
  <2>3. ProcessHolds(rti[p.fed], p, proc'[p], toProc[p], toRTI[p])
    BY <1>1, <1>2, <2>2, Moves DEF OnlyMoves
  <2>4. ProcessHolds(rti[p.fed], p, proc'[p], toProc'[p], toRTI'[p])
    BY <1>2, <1>4, <2>3, InboxKeeps
  <2> QED
    BY <1>1, <1>2, <1>4, <2>2, <2>4, QuietStep
<1> QED
  BY <1>5, <1>6

LEMMA ExecuteKeeps ==
    ASSUME StartInv, NEW p \in Procs, Execute(p)
    PROVE  StartInv'
<1>1. /\ proc \in [Procs -> Processes] /\ IsQueue(toProc[p]) /\ IsQueue(toRTI[p])
      /\ DOMAIN toProc = Procs /\ DOMAIN toRTI = Procs
      /\ ProcessHolds(rti[p.fed], p, proc[p], toProc[p], toRTI[p])
      /\ scenario \in Scenarios
  BY OfProcess
<1>2. UNCHANGED <<scenario, rti, port, backlog, proc>> /\ proc[p].pc = "running"
  BY DEF Execute, Is
<1>3. OnlyMoves(p)
  BY <1>1, <1>2 DEF OnlyMoves
<1>4. CASE UNCHANGED toProc /\ \E type \in scenario.sends : \E q \in Procs \ {p} :
               Write(p, <<Message(type, q.id)>>)
  <2>1. PICK type \in scenario.sends, q \in Procs \ {p} : Write(p, <<Message(type, q.id)>>)
    BY <1>4
  <2> DEFINE m == Message(type, q.id)
  <2>2. m.type \in {"MSG", "STOP_REQUEST"}
    BY <1>1, ScenariosAssumption DEF Message
  <2>3. Write(p, <<m>>)
    BY <2>1
  <2> HIDE DEF m
  <2>4. /\ DOMAIN toRTI' = Procs /\ \A r \in Procs \ {p} : toRTI'[r] = toRTI[r]
        /\ toRTI'[p] = Append(toRTI[p], m)
    BY <2>3, Written
  <2>5. ProcessHolds(rti[p.fed], p, proc[p], toProc[p], toRTI'[p]) /\ IsQueue(toRTI'[p])
    BY <1>1, <1>2, <2>2, <2>4, OutboxWritten
  <2> QED
    BY <1>1, <1>2, <1>3, <1>4, <2>4, <2>5, QuietStep
<1>5. CASE UNCHANGED toRTI /\ toProc[p] # <<>> /\ toProc' = [toProc EXCEPT ![p] = Tail(@)]
  <2>1. Hears(p, Head(toProc[p]).type)
    BY <1>5 DEF Hears
  <2>2. /\ DOMAIN toProc' = Procs /\ \A q \in Procs \ {p} : toProc'[q] = toProc[q]
        /\ IsQueue(toProc'[p]) /\ ToSet(toProc'[p]) \subseteq ToSet(toProc[p])
    BY <2>1, Heard
  <2>3. ProcessHolds(rti[p.fed], p, proc'[p], toProc'[p], toRTI'[p])
    BY <1>1, <1>2, <1>5, <2>2, InboxKeeps
  <2> QED
    BY <1>1, <1>2, <1>3, <1>5, <2>2, <2>3, QuietStep
<1> QED
  BY <1>4, <1>5 DEF Execute

\* The server of an owner closes.
LEMMA Closed ==
    ASSUME StartInv, NEW owner \in Owners, UNCHANGED scenario, Close(owner)
    PROVE  /\ PlacesOK' /\ DOMAIN toProc' = Procs
           /\ \A q \in Procs :
                 /\ IsQueue(toProc'[q])
                 /\ \A me, out : ProcessHolds(rti[q.fed], q, me, toProc[q], out) =>
                                 ProcessHolds(rti[q.fed], q, me, toProc'[q], out)
<1>1. PlacesOK'
  <2>1. backlog \in [Owners -> Seq(Procs)] /\ port \in [Ports -> Owners \cup {NoOne}]
    BY DEF StartInv, StartTypeOK
  <2>2. backlog' \in [Owners -> Seq(Procs)] /\ port' \in [Ports -> Owners \cup {NoOne}]
    BY <2>1 DEF Close
  <2> QED
    BY <2>2 DEF PlacesOK, Owners, Federations, Procs, Ports
<1> DEFINE m == Message("CLOSED", 0)
<1>2. m.type = "CLOSED"
  BY DEF Message
<1>3. DOMAIN toProc' = Procs
      /\ \A q \in Procs : toProc'[q] = toProc[q] \/ toProc'[q] = Append(toProc[q], m)
  BY DEF Close
<1> HIDE DEF m
<1>4. ASSUME NEW q \in Procs
      PROVE  /\ IsQueue(toProc'[q])
             /\ \A me, out : ProcessHolds(rti[q.fed], q, me, toProc[q], out) =>
                             ProcessHolds(rti[q.fed], q, me, toProc'[q], out)
  <2>1. IsQueue(toProc[q])
    BY OfProcess
  <2>2. Welcome(rti[q.fed], q, m)
    BY <1>2 DEF Welcome
  <2>3. IsQueue(Append(toProc[q], m))
    BY <2>1, QueueAppend DEF IsQueue
  <2>4. ASSUME NEW me, NEW out, ProcessHolds(rti[q.fed], q, me, toProc[q], out)
        PROVE  ProcessHolds(rti[q.fed], q, me, Append(toProc[q], m), out)
    BY <2>1, <2>2, <2>4, InboxGets
  <2> QED
    BY <1>3, <2>1, <2>3, <2>4
<1> QED
  BY <1>1, <1>3, <1>4

LEMMA ResignKeeps ==
    ASSUME StartInv, NEW p \in Procs, Resign(p)
    PROVE  StartInv'
<1>1. /\ IsQueue(toRTI[p]) /\ DOMAIN toRTI = Procs /\ p \in Owners
      /\ ProcessHolds(rti[p.fed], p, proc[p], toProc[p], toRTI[p])
  BY OfProcess DEF Owners
<1>2. UNCHANGED <<scenario, rti>> /\ proc[p].pc = "running" /\ Close(p)
  BY DEF Resign, Is
<1>3. OnlyMoves(p) /\ proc'[p].pc = "left"
  BY GoesTo DEF Resign
<1>4. /\ PlacesOK' /\ DOMAIN toProc' = Procs
      /\ \A q \in Procs :
            /\ IsQueue(toProc'[q])
            /\ \A me, out : ProcessHolds(rti[q.fed], q, me, toProc[q], out) =>
                            ProcessHolds(rti[q.fed], q, me, toProc'[q], out)
  BY <1>1, <1>2, Closed
<1> DEFINE m == Message("RESIGN", 0)
<1>5. m.type = "RESIGN" /\ Write(p, <<m>>)
  BY DEF Resign, Message
<1> HIDE DEF m
<1>6. /\ DOMAIN toRTI' = Procs /\ \A q \in Procs \ {p} : toRTI'[q] = toRTI[q]
      /\ toRTI'[p] = Append(toRTI[p], m)
  BY <1>5, Written
<1>7. Agreed(p.fed, rti[p.fed])
  BY <1>1, <1>2 DEF ProcessHolds, StartHolds
<1>8. ProcessHolds(rti[p.fed], p, proc[p], toProc[p], toRTI'[p]) /\ IsQueue(toRTI'[p])
  BY <1>1, <1>2, <1>5, <1>6, <1>7, OutboxWritten
<1>9. ProcessHolds(rti[p.fed], p, proc'[p], toProc[p], toRTI'[p])
  BY <1>2, <1>3, <1>8, Moves DEF OnlyMoves
<1>10. ASSUME NEW q \in Procs
       PROVE  /\ IsQueue(toRTI'[q])
              /\ ProcessHolds(rti[q.fed], q, proc'[q], toProc[q], toRTI'[q])
  <2>1. IsQueue(toRTI[q]) /\ ProcessHolds(rti[q.fed], q, proc[q], toProc[q], toRTI[q])
    BY OfProcess
  <2> QED
    BY <1>3, <1>6, <1>8, <1>9, <2>1 DEF OnlyMoves
<1>11. /\ DOMAIN rti' = Federations
       /\ \A n \in Federations : rti'[n] \in Servers(n) /\ ServerHolds(n, rti'[n])
  BY <1>2 DEF StartInv, StartTypeOK
<1> QED
  BY <1>2, <1>3, <1>4, <1>6, <1>10, <1>11, InvNext DEF OnlyMoves

LEMMA AcceptPeerKeeps ==
    ASSUME StartInv, NEW p \in Procs, AcceptPeer(p)
    PROVE  StartInv'
<1>1. /\ proc \in [Procs -> Processes] /\ backlog \in [Owners -> Seq(Procs)] /\ p \in Owners
      /\ DOMAIN toProc = Procs /\ DOMAIN toRTI = Procs
  BY DEF StartInv, StartTypeOK, Owners
<1>2. UNCHANGED <<scenario, rti, port, toRTI>> /\ backlog[p] # <<>>
      /\ backlog' = [backlog EXCEPT ![p] = Tail(backlog[p])]
  BY DEF AcceptPeer
<1> DEFINE q == Head(backlog[p])
<1>3. q \in Procs /\ Tail(backlog[p]) \in Seq(Procs)
  <2>1. backlog[p] \in Seq(Procs)
    BY <1>1
  <2> QED
    BY <1>2, <2>1
<1>4. PlacesOK'
  <2>1. backlog' \in [Owners -> Seq(Procs)]
    BY <1>1, <1>2, <1>3
  <2> QED
    BY <1>2, <2>1 DEF PlacesOK, StartInv, StartTypeOK, Owners, Federations, Procs, Ports
<1>5. /\ proc' \in [Procs -> Processes]
      /\ \A r \in Procs : proc'[r].pc = proc[r].pc /\ proc'[r].start = proc[r].start
  <2>1. CASE proc' = [proc EXCEPT ![p].accepted = @ + 1]
    <3>1. proc[p].accepted + 1 \in Nat
      BY <1>1 DEF Processes
    <3>2. PICK accepted \in Nat : proc' = [proc EXCEPT ![p].accepted = accepted]
      BY <2>1, <3>1
    <3>3. PICK old \in Processes : old = proc[p]
      BY <1>1
    <3>4. PICK me : me = [old EXCEPT !.accepted = accepted]
      OBVIOUS
    <3>5. me \in Processes /\ me.pc = proc[p].pc /\ me.start = proc[p].start
      BY <3>3, <3>4 DEF Processes
    <3>6. proc' = [proc EXCEPT ![p] = me]
      BY <3>2, <3>3, <3>4
    <3> QED
      BY <1>1, <3>5, <3>6
  <2>2. CASE UNCHANGED proc
    BY <1>1, <2>2
  <2> QED
    BY <2>1, <2>2 DEF AcceptPeer
<1>6. ProcessHolds(rti[q.fed], q, proc[q], toProc[q], toRTI[q]) /\ IsQueue(toProc[q])
  BY <1>3, OfProcess
<1>7. PICK m : toProc' = [toProc EXCEPT ![q] = Append(toProc[q], m)] /\ Welcome(rti[q.fed], q, m)
  <2>1. CASE proc[q].pc = "peer" /\ q.fed = p.fed
    <3> DEFINE m == Message("ACK", p.id)
    <3>1. toProc' = [toProc EXCEPT ![q] = Append(toProc[q], m)]
      BY <2>1 DEF AcceptPeer, Tell
    <3>2. m.type = "ACK"
      BY DEF Message
    <3>3. TalksTo(rti[q.fed], q)
      BY <1>6, <2>1 DEF ProcessHolds, TalkHolds
    <3>4. Welcome(rti[q.fed], q, m)
      BY <3>2, <3>3 DEF Welcome
    <3> QED
      BY <3>1, <3>4
  <2>2. CASE ~(proc[q].pc = "peer" /\ q.fed = p.fed)
    <3> DEFINE m == Message("REJECT", IF proc[q].pc # "peer" THEN "WRONG_SERVER"
                                      ELSE "FEDERATION_ID_DOES_NOT_MATCH")
    <3>1. toProc' = [toProc EXCEPT ![q] = Append(toProc[q], m)]
      BY <2>2 DEF AcceptPeer, Tell
    <3>2. m.type = "REJECT"
      BY DEF Message
    <3>3. Welcome(rti[q.fed], q, m)
      BY <3>2 DEF Welcome
    <3> QED
      BY <3>1, <3>3
  <2> QED
    BY <2>1, <2>2
<1> HIDE DEF q
<1>8. /\ ProcessHolds(rti[q.fed], q, proc[q], Append(toProc[q], m), toRTI[q])
      /\ IsQueue(Append(toProc[q], m))
  BY <1>6, <1>7, InboxGets
<1>9. DOMAIN toProc' = Procs /\ toProc'[q] = Append(toProc[q], m)
      /\ \A r \in Procs \ {q} : toProc'[r] = toProc[r]
  BY <1>1, <1>3, <1>7
<1>10. ASSUME NEW r \in Procs
       PROVE  /\ IsQueue(toProc'[r]) /\ IsQueue(toRTI'[r])
              /\ ProcessHolds(rti'[r.fed], r, proc'[r], toProc'[r], toRTI'[r])
  <2>1. /\ IsQueue(toProc[r]) /\ IsQueue(toRTI[r])
        /\ ProcessHolds(rti[r.fed], r, proc[r], toProc[r], toRTI[r])
    BY OfProcess
  <2>2. ProcessHolds(rti[r.fed], r, proc[r], toProc'[r], toRTI[r]) /\ IsQueue(toProc'[r])
    BY <1>8, <1>9, <2>1
  <2>3. ProcessHolds(rti[r.fed], r, proc'[r], toProc'[r], toRTI[r])
    BY <1>5, <2>2, Moves
  <2> QED
    BY <1>2, <2>1, <2>2, <2>3
<1>11. /\ DOMAIN rti' = Federations /\ DOMAIN toRTI' = Procs
       /\ \A n \in Federations : rti'[n] \in Servers(n) /\ ServerHolds(n, rti'[n])
  BY <1>1, <1>2 DEF StartInv, StartTypeOK
<1> QED
  BY <1>2, <1>4, <1>5, <1>9, <1>10, <1>11, InvNext

-----------------------------------------------------------------------------
(* The steps of an RTI.                                                    *)

LEMMA OfServer ==
    ASSUME StartInv, NEW n \in Federations
    PROVE  /\ DOMAIN rti = Federations /\ rti[n] \in Servers(n) /\ ServerHolds(n, rti[n])
           /\ scenario.size[n] \in Nat \ {0} /\ n # "none" /\ RTIOf(n) \in Owners
           /\ proc \in [Procs -> Processes] /\ DOMAIN toProc = Procs /\ DOMAIN toRTI = Procs
           /\ backlog \in [Owners -> Seq(Procs)] /\ port \in [Ports -> Owners \cup {NoOne}]
<1>1. RTIOf(n) \in Owners
  BY DEF Owners
<1> QED
  BY <1>1, ScenariosAssumption DEF StartInv, StartTypeOK, Federations

\* The processes an RTI deals with are of its federation.
LEMMA OwnProcess ==
    ASSUME StartInv, NEW n \in Federations,
           NEW p \in rti[n].served \cup rti[n].proposing \cup Newcomer(rti[n])
    PROVE  p \in Procs /\ p.fed = n /\ p.id \in Ids(n) /\ TalksTo(rti[n], p)
<1>1. SocketsHold(n, rti[n]) /\ rti[n] \in Servers(n)
  BY OfServer DEF ServerHolds
<1>2. p \in Procs /\ TalksTo(rti[n], p)
  BY <1>1 DEF SocketsHold
<1>3. p.fed \in Federations
  BY <1>2, OfProcess
<1>4. p # NoOne
  <2>1. NoOne.fed = "none"
    BY DEF NoOne, RTIOf
  <2> QED
    BY <1>3, <2>1, OfServer
<1>5. p.id \in Ids(n)
  BY <1>1, <1>2 DEF TalksTo, Servers
<1> QED
  BY <1>1, <1>2, <1>4, <1>5 DEF SocketsHold, TalksTo

\* What is under way to the processes, and what is under way from them, is well.
InboxesHold ==
    /\ DOMAIN toProc' = Procs
    /\ \A q \in Procs :
          /\ IsQueue(toProc'[q])
          /\ \A me, out : ProcessHolds(rti[q.fed], q, me, toProc[q], out) =>
                          ProcessHolds(rti[q.fed], q, me, toProc'[q], out)

OutboxesHold ==
    /\ DOMAIN toRTI' = Procs
    /\ \A q \in Procs :
          /\ IsQueue(toRTI'[q])
          /\ \A me, in : ProcessHolds(rti[q.fed], q, me, in, toRTI[q]) =>
                         ProcessHolds(rti[q.fed], q, me, in, toRTI'[q])

LEMMA NothingSaid ==
    ASSUME StartInv
    PROVE  /\ UNCHANGED toProc => InboxesHold
           /\ UNCHANGED toRTI => OutboxesHold
  BY DEF InboxesHold, OutboxesHold, StartInv, StartTypeOK, IsQueue

LEMMA Told ==
    ASSUME StartInv, NEW p, NEW type, NEW data, Tell(p, type, data),
           p \in Procs => Welcome(rti[p.fed], p, Message(type, data))
    PROVE  InboxesHold
<1> DEFINE m == Message(type, data)
<1>1. DOMAIN toProc = Procs /\ \A q \in Procs : IsQueue(toProc[q])
  BY DEF StartInv, StartTypeOK, IsQueue
<1>2. /\ toProc' = [toProc EXCEPT ![p] = Append(@, m)]
      /\ p \in Procs => Welcome(rti[p.fed], p, m)
  BY DEF Tell
<1> HIDE DEF m
<1>3. ASSUME NEW q \in Procs
      PROVE  /\ IsQueue(toProc'[q])
             /\ \A me, out : ProcessHolds(rti[q.fed], q, me, toProc[q], out) =>
                             ProcessHolds(rti[q.fed], q, me, toProc'[q], out)
  <2>1. CASE q = p
    <3>1. toProc'[q] = Append(toProc[q], m)
      BY <1>1, <1>2, <2>1
    <3>2. IsQueue(Append(toProc[q], m))
      BY <1>1, QueueAppend DEF IsQueue
    <3>3. ASSUME NEW me, NEW out, ProcessHolds(rti[q.fed], q, me, toProc[q], out)
          PROVE  ProcessHolds(rti[q.fed], q, me, Append(toProc[q], m), out)
      BY <1>1, <1>2, <2>1, <3>3, InboxGets
    <3> QED
      BY <3>1, <3>2, <3>3
  <2>2. CASE q # p
    BY <1>1, <1>2, <2>2
  <2> QED
    BY <2>1, <2>2
<1> QED
  BY <1>1, <1>2, <1>3 DEF InboxesHold

LEMMA WasRead ==
    ASSUME StartInv, NEW n, NEW p \in Procs, NEW type, Reads(n, p, type)
    PROVE  /\ OutboxesHold /\ toRTI[p] # <<>>
           /\ Head(toRTI[p]) \in ToSet(toRTI[p]) /\ Head(toRTI[p]).type = type
           /\ Has(toRTI[p], type)
<1>1. DOMAIN toRTI = Procs /\ \A q \in Procs : IsQueue(toRTI[q])
  BY DEF StartInv, StartTypeOK, IsQueue
<1>2. toRTI[p] # <<>> /\ Head(toRTI[p]).type = type
      /\ toRTI' = [toRTI EXCEPT ![p] = Tail(toRTI[p])]
  BY DEF Reads
<1>3. IsQueue(Tail(toRTI[p])) /\ Head(toRTI[p]) \in ToSet(toRTI[p])
  BY <1>1, <1>2, QueueTail DEF IsQueue
<1>4. ASSUME NEW q \in Procs
      PROVE  /\ IsQueue(toRTI'[q])
             /\ \A me, in : ProcessHolds(rti[q.fed], q, me, in, toRTI[q]) =>
                            ProcessHolds(rti[q.fed], q, me, in, toRTI'[q])
  <2>1. CASE q = p
    <3>1. ASSUME NEW me, NEW in, ProcessHolds(rti[p.fed], p, me, in, toRTI[p])
          PROVE  ProcessHolds(rti[p.fed], p, me, in, Tail(toRTI[p]))
      BY <1>1, <1>2, <3>1, OutboxRead
    <3> QED
      BY <1>1, <1>2, <1>3, <2>1, <3>1
  <2>2. CASE q # p
    BY <1>1, <1>2, <2>2
  <2> QED
    BY <2>1, <2>2
<1> QED
  BY <1>1, <1>2, <1>3, <1>4 DEF OutboxesHold, Has

\* A step in which the RTI says and hears something and stays as it is.
LEMMA SameServer ==
    ASSUME StartInv, UNCHANGED <<scenario, proc, rti>>, PlacesOK', InboxesHold, OutboxesHold
    PROVE  StartInv'
<1>1. ASSUME NEW q \in Procs
      PROVE  /\ IsQueue(toProc'[q]) /\ IsQueue(toRTI'[q])
             /\ ProcessHolds(rti'[q.fed], q, proc'[q], toProc'[q], toRTI'[q])
  <2>1. ProcessHolds(rti[q.fed], q, proc[q], toProc[q], toRTI[q])
    BY OfProcess
  <2>2. ProcessHolds(rti[q.fed], q, proc[q], toProc'[q], toRTI[q])
    BY <2>1 DEF InboxesHold
  <2>3. ProcessHolds(rti[q.fed], q, proc[q], toProc'[q], toRTI'[q])
    BY <2>2 DEF OutboxesHold
  <2> QED
    BY <2>3 DEF InboxesHold, OutboxesHold
<1>2. /\ DOMAIN rti' = Federations /\ proc' \in [Procs -> Processes]
      /\ \A n \in Federations : rti'[n] \in Servers(n) /\ ServerHolds(n, rti'[n])
  BY DEF StartInv, StartTypeOK
<1> QED
  BY <1>1, <1>2, InvNext DEF InboxesHold, OutboxesHold

\* A step after which its processes find the RTI as before.
LEMMA SimilarServer ==
    ASSUME StartInv, UNCHANGED <<scenario, proc>>, PlacesOK', InboxesHold, OutboxesHold,
           NEW n \in Federations, NEW R \in Servers(n), rti' = [rti EXCEPT ![n] = R],
           ServerHolds(n, R), R.socket = rti[n].socket, R.proposing \subseteq rti[n].proposing,
           R.proposed = rti[n].proposed, R.maxStart = rti[n].maxStart
    PROVE  StartInv'
<1>1. /\ DOMAIN rti' = Federations /\ rti'[n] = R
      /\ \A m \in Federations \ {n} : rti'[m] = rti[m]
  BY DEF StartInv, StartTypeOK
<1>2. ASSUME NEW m \in Federations PROVE rti'[m] \in Servers(m) /\ ServerHolds(m, rti'[m])
  <2>1. CASE m = n
    BY <1>1, <2>1
  <2>2. CASE m # n
    BY <1>1, <2>2 DEF StartInv, StartTypeOK
  <2> QED
    BY <2>1, <2>2
<1>3. ASSUME NEW q \in Procs
      PROVE  /\ IsQueue(toProc'[q]) /\ IsQueue(toRTI'[q])
             /\ ProcessHolds(rti'[q.fed], q, proc'[q], toProc'[q], toRTI'[q])
  <2>1. ProcessHolds(rti[q.fed], q, proc[q], toProc[q], toRTI[q]) /\ q.fed \in Federations
    BY OfProcess
  <2>2. ProcessHolds(rti[q.fed], q, proc[q], toProc'[q], toRTI[q])
    BY <2>1 DEF InboxesHold
  <2>3. ProcessHolds(rti[q.fed], q, proc[q], toProc'[q], toRTI'[q])
    BY <2>2 DEF OutboxesHold
  <2>4. CASE q.fed = n
    <3>1. ProcessHolds(rti[n], q, proc[q], toProc'[q], toRTI'[q])
      BY <2>3, <2>4
    <3>2. ProcessHolds(R, q, proc[q], toProc'[q], toRTI'[q])
      BY <3>1 DEF ProcessHolds, TalkHolds, StartHolds, CountedHolds, TalksTo, Agreed
    <3> QED
      BY <1>1, <2>4, <3>2 DEF InboxesHold, OutboxesHold
  <2>5. CASE q.fed # n
    BY <1>1, <2>1, <2>3, <2>5 DEF InboxesHold, OutboxesHold
  <2> QED
    BY <2>4, <2>5
<1>4. proc' \in [Procs -> Processes]
  BY DEF StartInv, StartTypeOK
<1> QED
  BY <1>1, <1>2, <1>3, <1>4, InvNext DEF InboxesHold, OutboxesHold

LEMMA SamePlaces ==
    ASSUME StartInv, UNCHANGED <<scenario, port, backlog>>
    PROVE  PlacesOK'
  BY DEF PlacesOK, StartInv, StartTypeOK, Owners, Federations, Procs, Ports

\* What ServerHolds says does not depend on the rest of the record.
LEMMA ServerRest ==
    ASSUME NEW n, NEW R, ServerHolds(n, R), NEW S, S.pc = R.pc, S.i = R.i, S.with = R.with,
           S.state = R.state, S.socket = R.socket, S.served = R.served,
           S.proposing = R.proposing, S.proposed = R.proposed
    PROVE  ServerHolds(n, S)
  BY DEF ServerHolds, SocketsHold, JoiningHolds, ProposalsHold, TalksTo, Joining, Agreed, Newcomer

LEMMA StartRTIKeeps ==
    ASSUME StartInv, NEW n \in Federations, StartRTI(n)
    PROVE  StartInv'
<1>1. rti[n] \in Servers(n) /\ ServerHolds(n, rti[n]) /\ RTIOf(n) \in Owners
  BY OfServer
<1>2. UNCHANGED <<scenario, backlog, proc, toProc, toRTI>> /\ rti[n].pc = "down"
      /\ Listen(RTIOf(n))
  BY DEF StartRTI
<1> DEFINE R == [rti[n] EXCEPT !.pc = "accept"]
<1>3. rti' = [rti EXCEPT ![n] = R]
  BY DEF StartRTI
<1>4. /\ R \in Servers(n) /\ R.pc = "accept" /\ R.i = rti[n].i /\ R.with = rti[n].with
      /\ R.state = rti[n].state /\ R.socket = rti[n].socket /\ R.served = rti[n].served
      /\ R.proposing = rti[n].proposing /\ R.proposed = rti[n].proposed
      /\ R.maxStart = rti[n].maxStart
  BY <1>1 DEF Servers
<1> HIDE DEF R
<1>5. ServerHolds(n, R)
  BY <1>1, <1>2, <1>4 DEF ServerHolds, SocketsHold, JoiningHolds, ProposalsHold, TalksTo, Joining,
                         Agreed, Newcomer
<1>6. port' \in [Ports -> Owners \cup {NoOne}]
  BY <1>1, <1>2, Listening
<1>7. PlacesOK'
  BY <1>2, <1>6, OfServer DEF PlacesOK, Owners, Federations, Procs, Ports
<1> QED
  BY <1>2, <1>3, <1>4, <1>5, <1>7, NothingSaid, SimilarServer

\* The next connection is that of a process.
LEMMA NextConnection ==
    ASSUME StartInv, NEW n \in Federations, UNCHANGED <<scenario, port>>,
           backlog[RTIOf(n)] # <<>>,
           backlog' = [backlog EXCEPT ![RTIOf(n)] = Tail(@)]
    PROVE  PlacesOK' /\ Head(backlog[RTIOf(n)]) \in Procs
<1>1. backlog[RTIOf(n)] \in Seq(Procs) /\ backlog \in [Owners -> Seq(Procs)]
  BY OfServer
<1>2. Tail(backlog[RTIOf(n)]) \in Seq(Procs) /\ Head(backlog[RTIOf(n)]) \in Procs
  BY <1>1
<1>3. backlog' \in [Owners -> Seq(Procs)]
  BY <1>1, <1>2
<1> QED
  BY <1>2, <1>3, OfServer DEF PlacesOK, Owners, Federations, Procs, Ports

LEMMA RespondKeeps ==
    ASSUME StartInv, NEW n \in Federations, Respond(n)
    PROVE  StartInv'
<1> DEFINE p == Head(backlog[RTIOf(n)])
<1>1. UNCHANGED <<scenario, port, rti, proc, toRTI>>
      /\ Tell(p, "REJECT", "FEDERATION_ID_DOES_NOT_MATCH")
  BY DEF Respond
<1>2. PlacesOK'
  BY NextConnection DEF Respond
<1>3. Welcome(rti[p.fed], p, Message("REJECT", "FEDERATION_ID_DOES_NOT_MATCH"))
  BY DEF Welcome, Message
<1> HIDE DEF p
<1>4. InboxesHold
  BY <1>1, <1>3, Told
<1> QED
  BY <1>1, <1>2, <1>4, NothingSaid, SameServer

LEMMA RespondTimeoutKeeps ==
    ASSUME StartInv, NEW n \in Federations, RespondTimeout(n)
    PROVE  StartInv'
<1>1. rti[n] \in Servers(n) /\ ServerHolds(n, rti[n])
  BY OfServer
<1>2. UNCHANGED <<scenario, port, backlog, proc, toProc, toRTI>>
  BY DEF RespondTimeout
<1> DEFINE R == [rti[n] EXCEPT !.responder = "over"]
<1>3. rti' = [rti EXCEPT ![n] = R]
  BY DEF RespondTimeout
<1>4. /\ R \in Servers(n) /\ R.pc = rti[n].pc /\ R.i = rti[n].i /\ R.with = rti[n].with
      /\ R.state = rti[n].state /\ R.socket = rti[n].socket /\ R.served = rti[n].served
      /\ R.proposing = rti[n].proposing /\ R.proposed = rti[n].proposed
      /\ R.maxStart = rti[n].maxStart
  BY <1>1 DEF Servers
<1> HIDE DEF R
<1>5. ServerHolds(n, R)
  BY <1>1, <1>4, ServerRest
<1> QED
  BY <1>2, <1>3, <1>4, <1>5, NothingSaid, SamePlaces, SimilarServer

LEMMA SendStartTimeKeeps ==
    ASSUME StartInv, NEW n \in Federations, NEW p, SendStartTime(n, p)
    PROVE  StartInv'
<1>1. rti[n] \in Servers(n) /\ ServerHolds(n, rti[n])
  BY OfServer
<1>2. UNCHANGED <<scenario, port, backlog, proc, toRTI>> /\ p \in rti[n].proposing
      /\ Agreed(n, rti[n])
  BY DEF SendStartTime, Agreed
<1>3. p \in Procs /\ p.fed = n /\ p.id \in Ids(n) /\ TalksTo(rti[n], p)
  BY <1>2, OwnProcess
<1>4. CASE p \notin rti[n].answered
  <2> DEFINE R == [rti[n] EXCEPT !.answered = rti[n].answered \cup {p}]
  <2>1. rti' = [rti EXCEPT ![n] = R]
        /\ Tell(p, "TIMESTAMP", rti[n].maxStart + DELAY_START)
    BY <1>4 DEF SendStartTime
  <2>2. /\ R \in Servers(n) /\ R.pc = rti[n].pc /\ R.i = rti[n].i /\ R.with = rti[n].with
        /\ R.state = rti[n].state /\ R.socket = rti[n].socket /\ R.served = rti[n].served
        /\ R.proposing = rti[n].proposing /\ R.proposed = rti[n].proposed
        /\ R.maxStart = rti[n].maxStart
    <3>1. PICK S \in Servers(n) : S = rti[n]
      BY <1>1
    <3>2. PICK answered \in SUBSET Procs : answered = S.answered \cup {p}
      <4>1. S.answered \subseteq Procs
        BY <3>1 DEF Servers
      <4> QED
        BY <1>3, <4>1
    <3>3. R = [S EXCEPT !.answered = answered]
      BY <3>1, <3>2
    <3> QED
      BY <3>1, <3>3 DEF Servers
  <2> HIDE DEF R
  <2>3. ServerHolds(n, R)
    BY <1>1, <2>2, ServerRest
  <2>4. Welcome(rti[p.fed], p, Message("TIMESTAMP", rti[n].maxStart + DELAY_START))
    BY <1>2, <1>3 DEF Welcome, Message
  <2>5. InboxesHold
    BY <2>1, <2>4, Told
  <2> QED
    BY <1>2, <2>1, <2>2, <2>3, <2>5, NothingSaid, SamePlaces, SimilarServer
<1>5. CASE p \in rti[n].answered
  <2> DEFINE R == [rti[n] EXCEPT !.state[p.id] = "GRANTED",
                                 !.proposing = rti[n].proposing \ {p}]
  <2>1. rti' = [rti EXCEPT ![n] = R] /\ UNCHANGED toProc
    BY <1>5 DEF SendStartTime
  <2>2. /\ R \in Servers(n) /\ R.pc = rti[n].pc /\ R.i = rti[n].i /\ R.with = rti[n].with
        /\ R.socket = rti[n].socket /\ R.served = rti[n].served
        /\ R.proposing = rti[n].proposing \ {p} /\ R.proposed = rti[n].proposed
        /\ R.maxStart = rti[n].maxStart
    <3>1. PICK S \in Servers(n) : S = rti[n]
      BY <1>1
    <3>2. PICK state \in [Ids(n) -> {"NOT_CONNECTED", "PENDING", "GRANTED"}] :
             state = [S.state EXCEPT ![p.id] = "GRANTED"]
      BY <3>1, <1>3 DEF Servers
    <3>3. PICK proposing \in SUBSET Procs : proposing = S.proposing \ {p}
      <4>1. S.proposing \subseteq Procs
        BY <3>1 DEF Servers
      <4> QED
        BY <4>1
    <3>4. R = [S EXCEPT !.state = state, !.proposing = proposing]
      BY <3>1, <3>2, <3>3
    <3> QED
      BY <3>1, <3>3, <3>4 DEF Servers
  <2> HIDE DEF R
  <2>3. ServerHolds(n, R)
    BY <1>1, <1>2, <2>2 DEF ServerHolds, SocketsHold, JoiningHolds, ProposalsHold, TalksTo,
                           Joining, Agreed, Newcomer
  <2> QED
    BY <1>2, <2>1, <2>2, <2>3, NothingSaid, SamePlaces, SimilarServer
<1> QED
  BY <1>4, <1>5

LEMMA HandleAddressKeeps ==
    ASSUME StartInv, NEW n \in Federations, NEW p, HandleAddress(n, p)
    PROVE  StartInv'
<1>1. rti[n] \in Servers(n) /\ ServerHolds(n, rti[n])
  BY OfServer
<1>2. UNCHANGED <<scenario, port, backlog, proc>> /\ p \in rti[n].served
  BY DEF HandleAddress, Threads
<1>3. p \in Procs /\ p.fed = n /\ p.id \in Ids(n) /\ TalksTo(rti[n], p)
  BY <1>2, OwnProcess
<1>4. DataHold(p, toProc[p], toRTI[p])
  BY <1>3, OfProcess DEF ProcessHolds
<1>5. CASE Reads(n, p, "QUERY") /\ UNCHANGED rti
           /\ Tell(p, "PORT", rti[n].server[Head(toRTI[p]).data])
  <2>1. OutboxesHold /\ Head(toRTI[p]) \in ToSet(toRTI[p]) /\ Head(toRTI[p]).type = "QUERY"
    BY <1>3, <1>5, WasRead
  <2>2. Head(toRTI[p]).data \in Ids(n)
    BY <1>3, <1>4, <2>1 DEF DataHold
  <2>3. rti[n].server[Head(toRTI[p]).data] \in Ports \cup {NoPort}
    BY <1>1, <2>2 DEF Servers
  <2>4. Welcome(rti[p.fed], p, Message("PORT", rti[n].server[Head(toRTI[p]).data]))
    BY <2>3 DEF Welcome, Message
  <2>5. InboxesHold
    BY <1>5, <2>4, Told
  <2> QED
    BY <1>2, <1>5, <2>1, <2>5, SamePlaces, SameServer
<1>6. CASE Reads(n, p, "ADDRESS_AD") /\ UNCHANGED toProc
           /\ rti' = [rti EXCEPT ![n].server[p.id] = Head(toRTI[p]).data]
  <2>1. OutboxesHold /\ Head(toRTI[p]) \in ToSet(toRTI[p])
        /\ Head(toRTI[p]).type = "ADDRESS_AD"
    BY <1>3, <1>6, WasRead
  <2>2. Head(toRTI[p]).data \in Ports
    BY <1>4, <2>1 DEF DataHold
  <2> DEFINE R == [rti[n] EXCEPT !.server[p.id] = Head(toRTI[p]).data]
  <2>3. rti' = [rti EXCEPT ![n] = R]
    BY <1>6
  <2>4. /\ R \in Servers(n) /\ R.pc = rti[n].pc /\ R.i = rti[n].i /\ R.with = rti[n].with
        /\ R.state = rti[n].state /\ R.socket = rti[n].socket /\ R.served = rti[n].served
        /\ R.proposing = rti[n].proposing /\ R.proposed = rti[n].proposed
        /\ R.maxStart = rti[n].maxStart
    BY <1>1, <1>3, <2>2 DEF Servers
  <2> HIDE DEF R
  <2>5. ServerHolds(n, R)
    BY <1>1, <2>4, ServerRest
  <2> QED
    BY <1>2, <1>6, <2>1, <2>3, <2>4, <2>5, NothingSaid, SamePlaces, SimilarServer
<1> QED
  BY <1>5, <1>6 DEF HandleAddress

LEMMA ForwardKeeps ==
    ASSUME StartInv, NEW n \in Federations, NEW p, Forward(n, p)
    PROVE  StartInv'
<1>1. UNCHANGED <<scenario, port, backlog, proc, rti>> /\ p \in rti[n].served
  BY DEF Forward, Threads
<1>2. p \in Procs
  BY <1>1, OwnProcess
<1>3. OutboxesHold
  BY <1>2, WasRead DEF Forward
<1>4. ASSUME NEW q, NEW type \in {"MSG", "STOP_REQUEST"}, Tell(q, type, p.id)
      PROVE  InboxesHold
  <2>1. Welcome(rti[q.fed], q, Message(type, p.id))
    BY DEF Welcome, Message
  <2> QED
    BY <1>4, <2>1, Told
<1>5. UNCHANGED toProc
      \/ \E q : \E type \in {"MSG", "STOP_REQUEST"} : Tell(q, type, p.id)
  BY DEF Forward
<1>6. InboxesHold
  BY <1>4, <1>5, NothingSaid
<1> QED
  BY <1>1, <1>3, <1>6, SamePlaces, SameServer

LEMMA HandleResignKeeps ==
    ASSUME StartInv, NEW n \in Federations, NEW p, HandleResign(n, p)
    PROVE  StartInv'
<1>1. rti[n] \in Servers(n) /\ ServerHolds(n, rti[n])
  BY OfServer
<1>2. UNCHANGED <<scenario, port, backlog, proc, toProc>> /\ p \in rti[n].served
      /\ Reads(n, p, "RESIGN")
  BY DEF HandleResign, Threads
<1>3. p \in Procs /\ p.fed = n /\ p.id \in Ids(n) /\ TalksTo(rti[n], p)
  BY <1>2, OwnProcess
<1>4. OutboxesHold /\ Has(toRTI[p], "RESIGN")
  BY <1>2, <1>3, WasRead
<1>5. Agreed(n, rti[n])
  BY <1>3, <1>4, OfProcess DEF ProcessHolds, StartHolds
<1> DEFINE R == [rti[n] EXCEPT !.state[p.id] = "NOT_CONNECTED", !.served = rti[n].served \ {p}]
<1>6. rti' = [rti EXCEPT ![n] = R]
  BY DEF HandleResign
<1>7. /\ R \in Servers(n) /\ R.pc = rti[n].pc /\ R.i = rti[n].i /\ R.with = rti[n].with
      /\ R.socket = rti[n].socket /\ R.served = rti[n].served \ {p}
      /\ R.proposing = rti[n].proposing /\ R.proposed = rti[n].proposed
      /\ R.maxStart = rti[n].maxStart
  <2>1. PICK S \in Servers(n) : S = rti[n]
    BY <1>1
  <2>2. PICK state \in [Ids(n) -> {"NOT_CONNECTED", "PENDING", "GRANTED"}] :
           state = [S.state EXCEPT ![p.id] = "NOT_CONNECTED"]
    BY <1>3 DEF Servers
  <2>3. PICK served \in SUBSET Procs : served = S.served \ {p}
    BY DEF Servers
  <2>4. R = [S EXCEPT !.state = state, !.served = served]
    BY <2>1, <2>2, <2>3
  <2> QED
    BY <2>1, <2>3, <2>4 DEF Servers
<1> HIDE DEF R
<1>8. ServerHolds(n, R)
  BY <1>1, <1>5, <1>7 DEF ServerHolds, SocketsHold, JoiningHolds, ProposalsHold, TalksTo,
                         Joining, Agreed, Newcomer
<1> QED
  BY <1>2, <1>4, <1>6, <1>7, <1>8, NothingSaid, SamePlaces, SimilarServer

LEMMA ShutdownKeeps ==
    ASSUME StartInv, NEW n \in Federations, Shutdown(n)
    PROVE  StartInv'
<1>1. rti[n] \in Servers(n) /\ ServerHolds(n, rti[n]) /\ RTIOf(n) \in Owners
      /\ scenario.size[n] \in Nat \ {0}
  BY OfServer
<1>2. UNCHANGED <<scenario, proc, toRTI>> /\ Close(RTIOf(n)) /\ rti[n].pc = "respond"
      /\ rti[n].served = {}
  BY DEF Shutdown
<1>3. Agreed(n, rti[n])
  <2>1. Cardinality({}) = 0
    BY FS_EmptySet
  <2> QED
    BY <1>1, <1>2, <2>1 DEF ServerHolds, ProposalsHold
<1>4. PlacesOK' /\ InboxesHold
  BY <1>1, <1>2, Closed DEF InboxesHold
<1> DEFINE R == [rti[n] EXCEPT !.pc = "closed", !.responder = "off"]
<1>5. rti' = [rti EXCEPT ![n] = R]
  BY DEF Shutdown
<1>6. /\ R \in Servers(n) /\ R.pc = "closed" /\ R.i = rti[n].i /\ R.with = rti[n].with
      /\ R.state = rti[n].state /\ R.socket = rti[n].socket /\ R.served = rti[n].served
      /\ R.proposing = rti[n].proposing /\ R.proposed = rti[n].proposed
      /\ R.maxStart = rti[n].maxStart
  BY <1>1 DEF Servers
<1> HIDE DEF R
<1>7. ServerHolds(n, R)
  BY <1>1, <1>2, <1>3, <1>6 DEF ServerHolds, SocketsHold, JoiningHolds, ProposalsHold, TalksTo,
                               Joining, Agreed, Newcomer
<1> QED
  BY <1>2, <1>4, <1>5, <1>6, <1>7, NothingSaid, SimilarServer

LEMMA ToldTwo ==
    ASSUME StartInv, NEW p \in Procs, NEW a, NEW b,
           toProc' = [toProc EXCEPT ![p] = @ \o <<a, b>>],
           Welcome(rti[p.fed], p, a), Welcome(rti[p.fed], p, b)
    PROVE  InboxesHold
<1>1. DOMAIN toProc = Procs /\ \A q \in Procs : IsQueue(toProc[q])
  BY DEF StartInv, StartTypeOK, IsQueue
<1>0. PICK one : one = Append(toProc[p], a)
  OBVIOUS
<1>2. toProc[p] \o <<a, b>> = Append(one, b)
  BY <1>0, <1>1, QueueTwo DEF IsQueue
<1>3. toProc'[p] = Append(one, b) /\ DOMAIN toProc' = Procs
      /\ \A q \in Procs \ {p} : toProc'[q] = toProc[q]
  BY <1>1, <1>2
<1>4. IsQueue(one)
  BY <1>0, <1>1, QueueAppend DEF IsQueue
<1>5. ASSUME NEW me, NEW out, ProcessHolds(rti[p.fed], p, me, toProc[p], out)
      PROVE  ProcessHolds(rti[p.fed], p, me, one, out)
  BY <1>0, <1>1, <1>5, InboxGets
<1>6. IsQueue(Append(one, b))
  <2>1. Append(one, b) \in Seq(ToSet(Append(one, b)))
    BY <1>4, QueueAppend DEF IsQueue
  <2> QED
    BY <2>1 DEF IsQueue
<1>7. ASSUME NEW me, NEW out, ProcessHolds(rti[p.fed], p, me, one, out)
      PROVE  ProcessHolds(rti[p.fed], p, me, Append(one, b), out)
  BY <1>4, <1>7, InboxGets
<1>8. ASSUME NEW q \in Procs
      PROVE  /\ IsQueue(toProc'[q])
             /\ \A me, out : ProcessHolds(rti[q.fed], q, me, toProc[q], out) =>
                             ProcessHolds(rti[q.fed], q, me, toProc'[q], out)
  <2>1. CASE q = p
    BY <1>3, <1>5, <1>6, <1>7, <2>1
  <2>2. CASE q # p
    BY <1>1, <1>3, <2>2
  <2> QED
    BY <2>1, <2>2
<1> QED
  BY <1>3, <1>8 DEF InboxesHold

\* A federate has joined.
LEMMA JoinedHolds ==
    ASSUME StartInv, NEW n \in Federations, NEW R \in Servers(n), ServerHolds(n, R),
           R.pc \in {"udp", "T3"}
    PROVE  LET S == Joined(R)
           IN  /\ S \in Servers(n) /\ ServerHolds(n, S)
               /\ S.socket = R.socket /\ S.proposing = R.proposing
               /\ S.proposed = R.proposed /\ S.maxStart = R.maxStart
<1>1. scenario.size[n] \in Nat \ {0}
  BY OfServer
<1>2. Cardinality(DOMAIN R.state) = scenario.size[n]
  <2>1. DOMAIN R.state = 0 .. scenario.size[n] - 1
    BY DEF Servers, Ids
  <2>2. PICK last \in Nat : last = scenario.size[n] - 1
    BY <1>1
  <2>3. Cardinality(0 .. last) = last + 1
    BY FS_Interval
  <2> QED
    BY <1>1, <2>1, <2>2, <2>3
<1>3. /\ ~Agreed(n, R) /\ R.i < scenario.size[n] /\ R.with \notin R.served
      /\ IsFiniteSet(R.served) /\ R.i = Cardinality(R.served) /\ R.i \in Nat
      /\ R.with \in Procs
  BY DEF ServerHolds, SocketsHold, JoiningHolds, ProposalsHold, Joining, Newcomer, Servers
<1>4. /\ IsFiniteSet(R.served \cup {R.with})
      /\ Cardinality(R.served \cup {R.with}) = R.i + 1
  BY <1>3, FS_AddElement
<1> DEFINE S == Joined(R)
<1>5. /\ S \in Servers(n) /\ S.i = R.i + 1 /\ S.with = R.with
      /\ S.pc = (IF R.i + 1 = scenario.size[n] THEN "respond" ELSE "accept")
      /\ S.state = R.state /\ S.socket = R.socket /\ S.served = R.served \cup {R.with}
      /\ S.proposing = R.proposing /\ S.proposed = R.proposed /\ S.maxStart = R.maxStart
  <2> DEFINE last == R.i + 1 = Cardinality(DOMAIN R.state)
  <2>1. PICK i \in Nat, pc \in {"respond", "accept"}, responder \in {"on", "off"},
             served \in SUBSET Procs :
            /\ i = R.i + 1 /\ served = R.served \cup {R.with}
            /\ pc = (IF last THEN "respond" ELSE "accept")
            /\ responder = (IF last THEN "on" ELSE "off")
    <3>1. R.i + 1 \in Nat /\ R.served \cup {R.with} \in SUBSET Procs
      BY <1>3 DEF Servers
    <3> QED
      BY <3>1
  <2>2. S = [R EXCEPT !.i = i, !.served = served, !.pc = pc, !.responder = responder]
    BY <2>1 DEF Joined
  <2> HIDE DEF S
  <2>3. /\ S \in Servers(n) /\ S.i = i /\ S.with = R.with /\ S.pc = pc
        /\ S.state = R.state /\ S.socket = R.socket /\ S.served = served
        /\ S.proposing = R.proposing /\ S.proposed = R.proposed /\ S.maxStart = R.maxStart
    BY <2>2 DEF Servers
  <2> QED
    BY <1>2, <2>1, <2>3
<1> HIDE DEF S
<1>6. SocketsHold(n, S)
  BY <1>5 DEF ServerHolds, SocketsHold, TalksTo, Newcomer
<1>7. JoiningHolds(n, S)
  BY <1>1, <1>3, <1>5 DEF ServerHolds, JoiningHolds, Joining, Agreed
<1>8. ProposalsHold(n, S)
  BY <1>1, <1>3, <1>4, <1>5 DEF ServerHolds, ProposalsHold, Newcomer, Agreed
<1> QED
  BY <1>5, <1>6, <1>7, <1>8 DEF ServerHolds, S

LEMMA HandshakeKeeps ==
    ASSUME StartInv, NEW n \in Federations, Handshake(n)
    PROVE  StartInv'
<1>1. rti[n] \in Servers(n) /\ ServerHolds(n, rti[n])
  BY OfServer
<1> DEFINE p == rti[n].with
<1>2. UNCHANGED <<scenario, port, backlog, proc>> /\ rti[n].pc \in {"neighbors", "udp", "T3"}
  BY DEF Handshake
<1>3. p \in Procs /\ p.fed = n /\ p.id \in Ids(n)
  BY <1>2, OwnProcess DEF Newcomer
<1>4. PlacesOK' /\ OutboxesHold
  BY <1>2, <1>3, SamePlaces, WasRead DEF Handshake
<1>5. ASSUME NEW pc \in {"udp", "T3"}, NEW left \in Int,
             rti' = [rti EXCEPT ![n] = [rti[n] EXCEPT !.pc = pc, !.left = left]], InboxesHold
      PROVE  StartInv'
  <2> DEFINE R == [rti[n] EXCEPT !.pc = pc, !.left = left]
  <2>1. /\ R \in Servers(n) /\ R.pc = pc /\ R.i = rti[n].i /\ R.with = rti[n].with
        /\ R.state = rti[n].state /\ R.socket = rti[n].socket /\ R.served = rti[n].served
        /\ R.proposing = rti[n].proposing /\ R.proposed = rti[n].proposed
        /\ R.maxStart = rti[n].maxStart
    BY <1>1 DEF Servers
  <2>2. rti' = [rti EXCEPT ![n] = R]
    BY <1>5
  <2> HIDE DEF R
  <2>3. ServerHolds(n, R)
    BY <1>1, <1>2, <2>1 DEF ServerHolds, SocketsHold, JoiningHolds, ProposalsHold, TalksTo,
                           Joining, Agreed, Newcomer
  <2> QED
    BY <1>2, <1>4, <1>5, <2>1, <2>2, <2>3, SimilarServer
<1>6. ASSUME NEW R \in Servers(n), ServerHolds(n, R), R.pc \in {"udp", "T3"},
             R.socket = rti[n].socket, R.proposing = rti[n].proposing,
             R.proposed = rti[n].proposed, R.maxStart = rti[n].maxStart,
             rti' = [rti EXCEPT ![n] = Joined(R)], InboxesHold
      PROVE  StartInv'
  <2> DEFINE S == Joined(R)
  <2>1. /\ S \in Servers(n) /\ ServerHolds(n, S) /\ S.socket = rti[n].socket
        /\ S.proposing = rti[n].proposing /\ S.proposed = rti[n].proposed
        /\ S.maxStart = rti[n].maxStart
    BY <1>6, JoinedHolds
  <2>2. rti' = [rti EXCEPT ![n] = S]
    BY <1>6
  <2> HIDE DEF S
  <2> QED
    BY <1>2, <1>4, <1>6, <2>1, <2>2, SimilarServer
<1> DEFINE off == [rti[n] EXCEPT !.enabled[p.id] = FALSE]
<1>7. /\ off \in Servers(n) /\ off.pc = rti[n].pc /\ ServerHolds(n, off)
      /\ off.socket = rti[n].socket /\ off.proposing = rti[n].proposing
      /\ off.proposed = rti[n].proposed /\ off.maxStart = rti[n].maxStart
  <2>1. /\ off \in Servers(n) /\ off.pc = rti[n].pc /\ off.i = rti[n].i
        /\ off.with = rti[n].with /\ off.state = rti[n].state
        /\ off.socket = rti[n].socket /\ off.served = rti[n].served
        /\ off.proposing = rti[n].proposing /\ off.proposed = rti[n].proposed
        /\ off.maxStart = rti[n].maxStart
    BY <1>1, <1>3 DEF Servers
  <2> HIDE DEF off
  <2> QED
    BY <1>1, <2>1, ServerRest
<1>8. ASSUME NEW type \in {"T1", "T4"}, Tell(p, type, 0) PROVE InboxesHold
  <2>1. Welcome(rti[p.fed], p, Message(type, 0))
    BY DEF Welcome, Message
  <2> HIDE DEF p
  <2> QED
    BY <1>8, <2>1, Told
<1>9. CASE rti[n].pc = "neighbors"
  <2>1. UNCHANGED toProc /\ rti' = [rti EXCEPT ![n].pc = "udp"]
    BY <1>9 DEF Handshake
  <2>2. rti[n].left \in Int
        /\ [rti[n] EXCEPT !.pc = "udp"] = [rti[n] EXCEPT !.pc = "udp", !.left = rti[n].left]
    BY <1>1 DEF Servers
  <2>3. rti' = [rti EXCEPT ![n] = [rti[n] EXCEPT !.pc = "udp", !.left = rti[n].left]]
    BY <2>1, <2>2
  <2> QED
    BY <1>5, <2>1, <2>2, <2>3, NothingSaid
<1>10. CASE rti[n].pc = "udp"
  <2>1. CASE scenario.sync[n] = "off"
    <3>1. UNCHANGED toProc /\ rti' = [rti EXCEPT ![n] = Joined(off)]
      BY <1>10, <2>1 DEF Handshake
    <3> HIDE DEF off
    <3> QED
      BY <1>6, <1>7, <1>10, <3>1, NothingSaid
  <2>2. CASE scenario.sync[n] # "off"
    <3>1. Tell(p, "T1", 0)
          /\ rti' = [rti EXCEPT ![n] = [rti[n] EXCEPT !.pc = "T3", !.left = Exchanges]]
      BY <1>10, <2>2 DEF Handshake
    <3>2. InboxesHold
      BY <1>8, <3>1
    <3>3. PICK left \in Int : left = Exchanges
      BY ClockSyncAssumption
    <3> QED
      BY <1>5, <3>1, <3>2, <3>3
  <2> QED
    BY <2>1, <2>2
<1>11. CASE rti[n].pc = "T3"
  <2>1. CASE rti[n].left > 1
    <3>1. /\ toProc' = [toProc EXCEPT ![p] = @ \o <<Message("T4", 0), Message("T1", 0)>>]
          /\ rti' = [rti EXCEPT ![n].left = @ - 1]
      BY <1>11, <2>1 DEF Handshake
    <3>2. PICK left \in Int : left = rti[n].left - 1
      BY <1>1 DEF Servers
    <3>3. rti' = [rti EXCEPT ![n] = [rti[n] EXCEPT !.pc = "T3", !.left = left]]
      <4>1. rti' = [rti EXCEPT ![n] = [rti[n] EXCEPT !.left = left]]
        BY <3>1, <3>2
      <4>2. [rti[n] EXCEPT !.left = left] = [rti[n] EXCEPT !.pc = "T3", !.left = left]
        BY <1>1, <1>11 DEF Servers
      <4> QED
        BY <4>1, <4>2
    <3>4. /\ Welcome(rti[p.fed], p, Message("T4", 0))
          /\ Welcome(rti[p.fed], p, Message("T1", 0))
      BY DEF Welcome, Message
    <3> HIDE DEF p
    <3>5. InboxesHold
      BY <1>3, <3>1, <3>4, ToldTwo
    <3> QED
      BY <1>5, <3>2, <3>3, <3>5
  <2>2. CASE ~(rti[n].left > 1)
    <3>1. Tell(p, "T4", 0)
          /\ rti' = [rti EXCEPT ![n] = Joined(IF scenario.sync[n] = "on" THEN rti[n] ELSE off)]
      BY <1>11, <2>2 DEF Handshake
    <3>2. InboxesHold
      BY <1>8, <3>1
    <3> HIDE DEF off
    <3>3. rti' = [rti EXCEPT ![n] = Joined(rti[n])] \/ rti' = [rti EXCEPT ![n] = Joined(off)]
      BY <3>1
    <3> QED
      BY <1>1, <1>6, <1>7, <1>11, <3>2, <3>3
  <2> QED
    BY <2>1, <2>2
<1> QED
  BY <1>2, <1>9, <1>10, <1>11

\* A step after which an RTI is in another state, with what its processes know of it.
LEMMA ServerChanges ==
    ASSUME StartInv, UNCHANGED <<scenario, proc>>, PlacesOK',
           NEW n \in Federations, NEW R \in Servers(n), rti' = [rti EXCEPT ![n] = R],
           ServerHolds(n, R), DOMAIN toProc' = Procs, DOMAIN toRTI' = Procs,
           \A q \in Procs : IsQueue(toProc'[q]) /\ IsQueue(toRTI'[q]),
           \A q \in Procs : q.fed = n =>
               ProcessHolds(R, q, proc[q], toProc'[q], toRTI'[q]),
           \A q \in Procs : q.fed # n => toProc'[q] = toProc[q] /\ toRTI'[q] = toRTI[q]
    PROVE  StartInv'
<1>1. /\ DOMAIN rti' = Federations /\ rti'[n] = R
      /\ \A m \in Federations \ {n} : rti'[m] = rti[m]
  BY DEF StartInv, StartTypeOK
<1>2. ASSUME NEW m \in Federations PROVE rti'[m] \in Servers(m) /\ ServerHolds(m, rti'[m])
  <2>1. CASE m = n
    BY <1>1, <2>1
  <2>2. CASE m # n
    BY <1>1, <2>2 DEF StartInv, StartTypeOK
  <2> QED
    BY <2>1, <2>2
<1>3. ASSUME NEW q \in Procs
      PROVE  ProcessHolds(rti'[q.fed], q, proc'[q], toProc'[q], toRTI'[q])
  <2>1. ProcessHolds(rti[q.fed], q, proc[q], toProc[q], toRTI[q]) /\ q.fed \in Federations
    BY OfProcess
  <2>2. CASE q.fed = n
    BY <1>1, <2>2
  <2>3. CASE q.fed # n
    BY <1>1, <2>1, <2>3
  <2> QED
    BY <2>2, <2>3
<1>4. proc' \in [Procs -> Processes]
  BY DEF StartInv, StartTypeOK
<1> QED
  BY <1>1, <1>2, <1>3, <1>4, InvNext

\* The record of an RTI that turns to a newcomer is one.
LEMMA Welcoming ==
    ASSUME NEW n, NEW S \in Servers(n), NEW p \in Procs,
           NEW state \in [Ids(n) -> {"NOT_CONNECTED", "PENDING", "GRANTED"}],
           NEW socket \in [Ids(n) -> Procs \cup {NoOne}]
    PROVE  [S EXCEPT !.pc = "neighbors", !.with = p, !.state = state, !.socket = socket]
             \in Servers(n)
  BY ZenonT(30) DEF Servers

\* A process is accepted under an id that is free.
LEMMA AcceptedKeeps ==
    ASSUME StartInv, NEW n \in Federations, NEW p \in Procs, PlacesOK',
           UNCHANGED <<scenario, proc, toRTI>>, Tell(p, "ACK", 0), rti[n].pc = "accept",
           p.fed = n, p.id \in Ids(n), rti[n].state[p.id] = "NOT_CONNECTED",
           rti' = [rti EXCEPT ![n].pc = "neighbors", ![n].with = p,
                              ![n].state[p.id] = "PENDING", ![n].socket[p.id] = p]
    PROVE  StartInv'
<1>1. rti[n] \in Servers(n) /\ ServerHolds(n, rti[n]) /\ n # "none"
  BY OfServer
<1>2. /\ ~Agreed(n, rti[n]) /\ rti[n].i < scenario.size[n]
      /\ rti[n].socket[p.id] = NoOne
  BY <1>1 DEF ServerHolds, JoiningHolds, Joining
<1>3. NoOne.fed = "none"
  BY DEF NoOne, RTIOf
<1>4. ASSUME NEW q, q.fed = n, TalksTo(rti[n], q) PROVE q.id # p.id
  BY <1>1, <1>2, <1>3, <1>4 DEF TalksTo
<1> DEFINE R == [rti[n] EXCEPT !.pc = "neighbors", !.with = p,
                               !.state[p.id] = "PENDING", !.socket[p.id] = p]
<1>5. rti' = [rti EXCEPT ![n] = R]
  <2>1. n \in DOMAIN rti
    BY OfServer
  <2>2. PICK id : id = p.id
    OBVIOUS
  <2>3. R = [rti[n] EXCEPT !.pc = "neighbors", !.with = p,
                           !.state[id] = "PENDING", !.socket[id] = p]
    BY <2>2
  <2>4. rti' = [rti EXCEPT ![n].pc = "neighbors", ![n].with = p,
                           ![n].state[id] = "PENDING", ![n].socket[id] = p]
    BY <2>2
  <2> HIDE DEF R
  <2> QED
    BY <2>1, <2>3, <2>4, ZenonT(60)
<1>6. /\ R \in Servers(n) /\ R.pc = "neighbors" /\ R.i = rti[n].i /\ R.with = p
      /\ R.state = [rti[n].state EXCEPT ![p.id] = "PENDING"]
      /\ R.socket = [rti[n].socket EXCEPT ![p.id] = p] /\ R.served = rti[n].served
      /\ R.proposing = rti[n].proposing /\ R.proposed = rti[n].proposed
      /\ R.maxStart = rti[n].maxStart
  <2>1. PICK S \in Servers(n) : S = rti[n]
    BY <1>1
  <2> PICK state : state = [S.state EXCEPT ![p.id] = "PENDING"]
    OBVIOUS
  <2> PICK socket : socket = [S.socket EXCEPT ![p.id] = p]
    OBVIOUS
  <2>2. /\ state \in [Ids(n) -> {"NOT_CONNECTED", "PENDING", "GRANTED"}]
        /\ socket \in [Ids(n) -> Procs \cup {NoOne}]
    BY DEF Servers
  <2>3. PICK id : id = p.id
    OBVIOUS
  <2>4. R = [S EXCEPT !.pc = "neighbors", !.with = p, !.state[id] = "PENDING", !.socket[id] = p]
    BY <2>1, <2>3
  <2>5. state = [S.state EXCEPT ![id] = "PENDING"] /\ socket = [S.socket EXCEPT ![id] = p]
    BY <2>3
  <2> HIDE DEF R
  <2>6. R = [S EXCEPT !.pc = "neighbors", !.with = p, !.state = state, !.socket = socket]
    BY <2>4, <2>5 DEF Servers
  <2>7. R \in Servers(n)
    BY <2>2, <2>6, Welcoming
  <2> QED
    BY <2>1, <2>6, <2>7 DEF Servers
<1> HIDE DEF R
<1>7. /\ R.state[p.id] = "PENDING" /\ R.socket[p.id] = p
      /\ DOMAIN R.socket = Ids(n)
      /\ \A id \in Ids(n) \ {p.id} : R.state[id] = rti[n].state[id]
                                     /\ R.socket[id] = rti[n].socket[id]
      /\ DOMAIN rti[n].socket = Ids(n)
  BY <1>1, <1>6 DEF Servers
<1>8. ASSUME NEW q, q.fed = n, TalksTo(rti[n], q) PROVE TalksTo(R, q)
  BY <1>4, <1>7, <1>8 DEF TalksTo
<1>9. TalksTo(R, p)
  BY <1>7 DEF TalksTo
<1>10. p \notin rti[n].served
  BY <1>4, OwnProcess
<1>11. SocketsHold(n, R)
  <2>1. ASSUME NEW id \in Ids(n), R.socket[id] # NoOne
        PROVE  R.socket[id].fed = n /\ R.socket[id].id = id
    BY <1>1, <1>7, <2>1 DEF ServerHolds, SocketsHold
  <2>2. ASSUME NEW q \in rti[n].served \cup rti[n].proposing PROVE q \in Procs /\ TalksTo(R, q)
    <3>1. q \in Procs /\ q.fed = n /\ TalksTo(rti[n], q)
      BY OwnProcess
    <3> QED
      BY <1>8, <3>1
  <2>3. Newcomer(R) = {p}
    BY <1>6 DEF Newcomer
  <2> QED
    BY <1>6, <1>9, <2>1, <2>2, <2>3 DEF SocketsHold
<1>12. JoiningHolds(n, R)
  <2>1. \A id \in Ids(n) : R.state[id] = "NOT_CONNECTED" => R.socket[id] = NoOne
    BY <1>1, <1>7 DEF ServerHolds, JoiningHolds, Joining
  <2> QED
    BY <1>2, <1>6, <1>10, <2>1 DEF JoiningHolds, Agreed
<1>13. ProposalsHold(n, R)
  <2>1. Newcomer(R) = {p} /\ Newcomer(rti[n]) = {}
    BY <1>6 DEF Newcomer
  <2>2. \A id \in Ids(n) : R.socket[id] \in R.served \cup {p} \cup {NoOne}
    BY <1>1, <1>2, <1>6, <1>7, <2>1 DEF ServerHolds, ProposalsHold
  <2> QED
    BY <1>1, <1>2, <1>6, <2>1, <2>2 DEF ServerHolds, ProposalsHold
<1>14. ASSUME NEW q \in Procs, q.fed = n, NEW in, NEW out, NEW me,
              ProcessHolds(rti[n], q, me, in, out)
       PROVE  ProcessHolds(R, q, me, in, out)
  <2>1. TalksTo(rti[n], q) => TalksTo(R, q)
    BY <1>8, <1>14
  <2>2. ~Agreed(n, R) /\ ~Agreed(n, rti[n])
    BY <1>2, <1>6 DEF Agreed
  <2> QED
    BY <1>6, <1>14, <2>1, <2>2 DEF ProcessHolds, TalkHolds, StartHolds, CountedHolds
<1> DEFINE m == Message("ACK", 0)
<1>15. toProc' = [toProc EXCEPT ![p] = Append(toProc[p], m)] /\ Welcome(R, p, m)
  BY <1>9 DEF Tell, Welcome, Message
<1> HIDE DEF m
<1>16. /\ DOMAIN toProc' = Procs /\ toProc'[p] = Append(toProc[p], m)
       /\ DOMAIN toRTI' = Procs /\ \A q \in Procs \ {p} : toProc'[q] = toProc[q]
  BY <1>15, OfServer
<1>17. ASSUME NEW q \in Procs
       PROVE  /\ IsQueue(toProc'[q]) /\ IsQueue(toRTI'[q])
              /\ q.fed = n => ProcessHolds(R, q, proc[q], toProc'[q], toRTI'[q])
  <2>1. /\ ProcessHolds(rti[q.fed], q, proc[q], toProc[q], toRTI[q])
        /\ IsQueue(toProc[q]) /\ IsQueue(toRTI[q])
    BY OfProcess
  <2>2. q.fed = n => ProcessHolds(R, q, proc[q], toProc[q], toRTI[q])
    BY <1>14, <2>1
  <2>3. CASE q = p
    <3>1. ProcessHolds(R, p, proc[p], Append(toProc[p], m), toRTI[p])
          /\ IsQueue(Append(toProc[p], m))
      BY <1>15, <2>1, <2>2, <2>3, InboxGets
    <3> QED
      BY <1>16, <2>1, <2>3, <3>1
  <2>4. CASE q # p
    BY <1>16, <2>1, <2>2, <2>4
  <2> QED
    BY <2>3, <2>4
<1>18. ServerHolds(n, R)
  BY <1>11, <1>12, <1>13 DEF ServerHolds
<1> QED
  <2>1. \A q \in Procs : IsQueue(toProc'[q]) /\ IsQueue(toRTI'[q])
    BY <1>17
  <2>2. \A q \in Procs : q.fed = n => ProcessHolds(R, q, proc[q], toProc'[q], toRTI'[q])
    BY <1>17
  <2>3. \A q \in Procs : q.fed # n => toProc'[q] = toProc[q] /\ toRTI'[q] = toRTI[q]
    BY <1>16
  <2>4. R \in Servers(n) /\ DOMAIN toProc' = Procs /\ DOMAIN toRTI' = Procs
    BY <1>6, <1>16
  <2> QED
    BY <1>5, <1>18, <2>1, <2>2, <2>3, <2>4, ServerChanges

LEMMA AcceptKeeps ==
    ASSUME StartInv, NEW n \in Federations, Accept(n)
    PROVE  StartInv'
<1> DEFINE p == Head(backlog[RTIOf(n)])
<1>1. UNCHANGED <<scenario, port, proc, toRTI>> /\ rti[n].pc = "accept"
  BY DEF Accept
<1>2. PlacesOK' /\ p \in Procs
  BY NextConnection DEF Accept
<1>3. CASE Cause(n, p) = "none"
  <2>1. /\ Tell(p, "ACK", 0)
        /\ rti' = [rti EXCEPT ![n].pc = "neighbors", ![n].with = p,
                              ![n].state[p.id] = "PENDING", ![n].socket[p.id] = p]
    BY <1>3 DEF Accept
  <2> HIDE DEF p
  <2>2. p.fed = n /\ p.id \in Ids(n) /\ rti[n].state[p.id] = "NOT_CONNECTED"
    BY <1>3 DEF Cause
  <2> QED
    BY <1>1, <1>2, <2>1, <2>2, AcceptedKeeps
<1>4. CASE Cause(n, p) # "none"
  <2>1. Tell(p, "REJECT", Cause(n, p)) /\ UNCHANGED rti
    BY <1>4 DEF Accept
  <2>2. Welcome(rti[p.fed], p, Message("REJECT", Cause(n, p)))
    BY DEF Welcome, Message
  <2> HIDE DEF p
  <2>3. InboxesHold
    BY <2>1, <2>2, Told
  <2> QED
    BY <1>1, <1>2, <2>1, <2>3, NothingSaid, SameServer
<1> QED
  BY <1>3, <1>4

\* The number of those who have proposed is that of the federates only when all have.
LEMMA ProposalCounted ==
    ASSUME StartInv, NEW n \in Federations, NEW p \in rti[n].served \ rti[n].proposing,
           ~Agreed(n, rti[n]), NEW R \in Servers(n),
           R.pc = rti[n].pc, R.i = rti[n].i, R.with = rti[n].with, R.state = rti[n].state,
           R.socket = rti[n].socket, R.served = rti[n].served,
           R.proposed = rti[n].proposed + 1, R.proposing = rti[n].proposing \cup {p}
    PROVE  /\ ServerHolds(n, R)
           /\ Agreed(n, R) => \A q : q.fed = n /\ TalksTo(R, q) => q \in R.proposing
<1>1. rti[n] \in Servers(n) /\ ServerHolds(n, rti[n]) /\ scenario.size[n] \in Nat \ {0}
      /\ n # "none"
  BY OfServer
<1>2. /\ IsFiniteSet(rti[n].served) /\ rti[n].i = Cardinality(rti[n].served)
      /\ rti[n].proposing \subseteq rti[n].served
      /\ rti[n].proposed = Cardinality(rti[n].proposing)
      /\ rti[n].pc = "respond" => rti[n].i = scenario.size[n]
      /\ rti[n].pc # "closed"
      /\ \A id \in Ids(n) : rti[n].socket[id] \in rti[n].served \cup Newcomer(rti[n]) \cup {NoOne}
  BY <1>1 DEF ServerHolds, ProposalsHold
<1>3. IsFiniteSet(rti[n].proposing)
  BY <1>2, FS_Subset
<1>4. /\ IsFiniteSet(R.proposing) /\ R.proposing \subseteq R.served
      /\ R.proposed = Cardinality(R.proposing)
  BY <1>2, <1>3, FS_AddElement
<1>5. Cardinality(R.proposing) \in Nat /\ Cardinality(R.served) \in Nat
      /\ R.proposed <= R.i /\ R.i \in Nat
      /\ (R.proposing # R.served => Cardinality(R.proposing) < Cardinality(R.served))
  BY <1>2, <1>4, FS_Subset, FS_CardinalityType
<1>6. Joining(R) => ~Agreed(n, R)
  BY <1>1, <1>5 DEF ServerHolds, JoiningHolds, Joining, Agreed
<1>7. SocketsHold(n, R)
  BY <1>1 DEF ServerHolds, SocketsHold, TalksTo, Newcomer
<1>8. JoiningHolds(n, R)
  BY <1>1, <1>6 DEF ServerHolds, JoiningHolds, Joining
<1>9. ProposalsHold(n, R)
  BY <1>2, <1>4 DEF ProposalsHold, Newcomer
<1>10. ASSUME Agreed(n, R), NEW q, q.fed = n, TalksTo(R, q)
       PROVE  q \in R.proposing
  <2>1. R.pc = "respond" /\ R.i = scenario.size[n]
    BY <1>1, <1>2, <1>6, <1>10 DEF Joining, Servers
  <2>2. R.proposing = R.served
    BY <1>2, <1>4, <1>5, <1>10, <2>1 DEF Agreed
  <2>3. q \in rti[n].served \cup Newcomer(rti[n]) \cup {NoOne}
    BY <1>1, <1>2, <1>10 DEF TalksTo, Servers
  <2>4. q # NoOne /\ Newcomer(rti[n]) = {}
    BY <1>1, <1>10, <2>1 DEF Newcomer, NoOne, RTIOf
  <2> QED
    BY <2>2, <2>3, <2>4
<1> QED
  BY <1>7, <1>8, <1>9, <1>10 DEF ServerHolds

LEMMA HandleTimestampKeeps ==
    ASSUME StartInv, NEW n \in Federations, NEW p, HandleTimestamp(n, p)
    PROVE  StartInv'
<1>1. /\ rti[n] \in Servers(n) /\ ServerHolds(n, rti[n])
      /\ DOMAIN toProc = Procs /\ DOMAIN toRTI = Procs
  BY OfServer
<1>2. /\ UNCHANGED <<scenario, port, backlog, proc, toProc>>
      /\ p \in rti[n].served \ rti[n].proposing /\ Reads(n, p, "TIMESTAMP")
  BY DEF HandleTimestamp, Threads
<1>3. p \in Procs /\ p.fed = n /\ p.id \in Ids(n) /\ TalksTo(rti[n], p)
  BY <1>2, OwnProcess
<1>4. /\ OutboxesHold /\ Has(toRTI[p], "TIMESTAMP") /\ toRTI[p] # <<>>
      /\ Head(toRTI[p]).type = "TIMESTAMP"
  BY <1>2, <1>3, WasRead
<1>5. /\ ProcessHolds(rti[n], p, proc[p], toProc[p], toRTI[p]) /\ IsQueue(toRTI[p])
      /\ proc[p] \in Processes /\ scenario.proposal[p] \in Nat
  BY <1>3, OfProcess
<1>6. ~Agreed(n, rti[n])
  BY <1>3, <1>4, <1>5 DEF ProcessHolds, CountedHolds
<1>7. /\ Head(toRTI[p]).data = scenario.proposal[p] /\ proc[p].pc \in {"start", "quit"}
      /\ ~Has(Tail(toRTI[p]), "TIMESTAMP")
  <2>1. /\ Len(toRTI[p]) \in Nat /\ Len(toRTI[p]) > 0 /\ DOMAIN toRTI[p] = 1 .. Len(toRTI[p])
        /\ Head(toRTI[p]) = toRTI[p][1] /\ DOMAIN Tail(toRTI[p]) = 1 .. Len(toRTI[p]) - 1
    BY <1>4, <1>5, QueueTail DEF IsQueue
  <2>2. ProposalHolds(p, proc[p], toRTI[p]) /\ 1 \in DOMAIN toRTI[p]
    BY <1>5, <2>1 DEF ProcessHolds
  <2>3. toRTI[p][1].type = "TIMESTAMP"
    BY <1>4, <2>1
  <2>4. 1 = Len(toRTI[p]) /\ toRTI[p][1].data = scenario.proposal[p]
        /\ proc[p].pc \in {"start", "quit"}
    BY <2>2, <2>3 DEF ProposalHolds
  <2>5. Len(toRTI[p]) - 1 = 0
    BY <2>4
  <2>6. DOMAIN Tail(toRTI[p]) = 1 .. 0
    BY <2>1, <2>5, Zenon
  <2>7. ToSet(Tail(toRTI[p])) = {}
    BY <2>6 DEF ToSet
  <2> QED
    BY <2>1, <2>4, <2>7 DEF Has
<1>8. PICK max \in Nat : /\ max = Max({rti[n].maxStart, Head(toRTI[p]).data})
                         /\ max >= rti[n].maxStart /\ max >= scenario.proposal[p]
  <2>1. rti[n].maxStart \in Nat /\ Head(toRTI[p]).data \in Nat
    BY <1>1, <1>5, <1>7 DEF Servers
  <2> QED
    BY <1>7, <2>1, LargerOfTwo
<1>9. PICK proposed \in Nat : proposed = rti[n].proposed + 1
  BY <1>1 DEF Servers
<1>10. PICK proposing \in SUBSET Procs : proposing = rti[n].proposing \cup {p}
  <2>1. rti[n].proposing \in SUBSET Procs
    BY <1>1 DEF Servers
  <2>2. rti[n].proposing \cup {p} \in SUBSET Procs
    BY <1>3, <2>1
  <2> QED
    BY <2>2
<1> DEFINE R == [rti[n] EXCEPT !.proposed = proposed, !.proposing = proposing, !.maxStart = max]
<1>11. rti' = [rti EXCEPT ![n] = R]
  <2>1. rti' = [rti EXCEPT ![n].proposed = @ + 1, ![n].proposing = @ \cup {p},
                           ![n].maxStart = Max({@, Head(toRTI[p]).data})]
    BY DEF HandleTimestamp
  <2>2. rti' = [rti EXCEPT ![n].proposed = proposed, ![n].proposing = proposing,
                           ![n].maxStart = max]
    BY <1>1, <1>8, <1>9, <1>10, <2>1
  <2> QED
    BY <2>2
<1>12. /\ R \in Servers(n) /\ R.pc = rti[n].pc /\ R.i = rti[n].i /\ R.with = rti[n].with
       /\ R.state = rti[n].state /\ R.socket = rti[n].socket /\ R.served = rti[n].served
       /\ R.proposing = proposing /\ R.proposed = proposed /\ R.maxStart = max
  BY <1>1 DEF Servers
<1> HIDE DEF R
<1>13. /\ ServerHolds(n, R)
       /\ Agreed(n, R) => \A q : q.fed = n /\ TalksTo(R, q) => q \in R.proposing
  BY <1>2, <1>6, <1>9, <1>10, <1>12, ProposalCounted
<1>14. ASSUME NEW q \in Procs, q.fed = n
       PROVE  ProcessHolds(R, q, proc[q], toProc[q], toRTI'[q])
  <2>1. ProcessHolds(rti[n], q, proc[q], toProc[q], toRTI[q]) /\ proc[q] \in Processes
    BY <1>14, OfProcess
  <2>2. ProcessHolds(rti[n], q, proc[q], toProc[q], toRTI'[q])
    BY <1>4, <1>14, <2>1 DEF OutboxesHold
  <2>3. TalkHolds(R, q, proc[q], toProc[q])
    BY <1>12, <2>2 DEF ProcessHolds, TalkHolds, TalksTo
  <2>4. StartHolds(R, q, proc[q], toProc[q], toRTI'[q])
    BY <1>6, <1>14, <2>2 DEF ProcessHolds, StartHolds, Has
  <2>5. CountedHolds(R, q, proc[q], toRTI'[q])
    <3> SUFFICES ASSUME q \in R.proposing
                 PROVE  /\ scenario.proposal[q] <= R.maxStart
                        /\ ~Has(toRTI'[q], "TIMESTAMP")
                        /\ proc[q].pc \in {"start", "running", "left", "quit"}
      BY <1>13, <1>14 DEF CountedHolds
    <3>1. CASE q = p
      <4>1. toRTI'[p] = Tail(toRTI[p])
        BY <1>1, <1>2, <1>3 DEF Reads
      <4> QED
        BY <1>5, <1>7, <1>8, <1>12, <3>1, <4>1
    <3>2. CASE q # p
      <4>1. q \in rti[n].proposing
        BY <1>10, <1>12, <3>2
      <4>2. /\ scenario.proposal[q] <= rti[n].maxStart
            /\ ~Has(toRTI'[q], "TIMESTAMP")
            /\ proc[q].pc \in {"start", "running", "left", "quit"}
        BY <2>2, <4>1 DEF ProcessHolds, CountedHolds
      <4>3. scenario.proposal[q] \in Nat /\ rti[n].maxStart \in Nat
        BY <1>1, OfProcess DEF Servers
      <4> QED
        BY <1>8, <1>12, <4>2, <4>3
    <3> QED
      BY <3>1, <3>2
  <2> QED
    BY <2>2, <2>3, <2>4, <2>5 DEF ProcessHolds
<1>15. \A q \in Procs : q.fed # n => toRTI'[q] = toRTI[q]
  BY <1>1, <1>2, <1>3 DEF Reads
<1>16. DOMAIN toRTI' = Procs
       /\ \A q \in Procs : IsQueue(toProc'[q]) /\ IsQueue(toRTI'[q])
  BY <1>2, <1>4, OfProcess DEF OutboxesHold
<1>17. PlacesOK'
  BY <1>2, SamePlaces
<1> QED
  BY <1>1, <1>2, <1>11, <1>12, <1>13, <1>14, <1>15, <1>16, <1>17, ServerChanges

-----------------------------------------------------------------------------
(* The invariant holds at first and after every step.                      *)

LEMMA StartInit == Init => StartInv
<1> SUFFICES ASSUME Init PROVE StartInv
  OBVIOUS
<1>1. /\ scenario \in Scenarios /\ port = [p \in Ports |-> NoOne]
      /\ backlog = [o \in Owners |-> <<>>]
      /\ rti = [n \in Federations |-> InitRTIServer(scenario.size[n])]
      /\ proc = [p \in Procs |-> InitProc]
      /\ toProc = [p \in Procs |-> <<>>] /\ toRTI = [p \in Procs |-> <<>>]
  BY DEF Init, Owners
<1>2. \A n \in Federations : scenario.size[n] \in Nat \ {0}
  BY <1>1, ScenariosAssumption DEF Federations
<1>3. ASSUME NEW n \in Federations PROVE rti[n] \in Servers(n)
  BY <1>1, <1>2 DEF InitRTIServer, Servers, Ids
<1>4. IsQueue(<<>>) /\ \A type : ~Has(<<>>, type) /\ DOMAIN <<>> = {} /\ ToSet(<<>>) = {}
  BY DEF IsQueue, Has, ToSet
<1>5. InitProc \in Processes /\ InitProc.pc = "connect" /\ InitProc.start = 0
  BY DEF InitProc, Processes
<1>6. StartTypeOK
  BY <1>1, <1>3, <1>4, <1>5 DEF StartTypeOK, IsQueue
<1>7. ASSUME NEW n \in Federations PROVE ServerHolds(n, rti[n]) /\ ~Agreed(n, rti[n])
  <2> DEFINE R == rti[n]
  <2>1. /\ R.pc = "down" /\ R.i = 0 /\ R.served = {} /\ R.proposing = {} /\ R.proposed = 0
        /\ \A id \in Ids(n) : R.socket[id] = NoOne
    BY <1>1 DEF InitRTIServer, Ids
  <2> HIDE DEF R
  <2>2. Cardinality({}) = 0 /\ IsFiniteSet({})
    BY FS_EmptySet
  <2>3. ~Agreed(n, R) /\ R.i < scenario.size[n] /\ Newcomer(R) = {}
    BY <1>2, <2>1 DEF Agreed, Newcomer
  <2>4. ServerHolds(n, R)
    BY <2>1, <2>2, <2>3 DEF ServerHolds, SocketsHold, JoiningHolds, ProposalsHold
  <2> QED
    BY <2>3, <2>4 DEF R
<1>8. ASSUME NEW p \in Procs
      PROVE  ProcessHolds(rti[p.fed], p, proc[p], toProc[p], toRTI[p])
  <2>1. p.fed \in Federations /\ ~Agreed(p.fed, rti[p.fed])
    BY <1>1, <1>7, ScenariosAssumption DEF Federations, Procs
  <2>2. rti[p.fed].proposing = {}
    BY <1>1, <2>1 DEF InitRTIServer
  <2>3. proc[p] = InitProc /\ toProc[p] = <<>> /\ toRTI[p] = <<>>
    BY <1>1
  <2> QED
    BY <1>4, <1>5, <2>1, <2>2, <2>3 DEF ProcessHolds, TalkHolds, DataHold, ProposalHolds,
                                      StartHolds, CountedHolds
<1> QED
  BY <1>6, <1>7, <1>8 DEF StartInv

LEMMA ProcessKeeps ==
    ASSUME StartInv, NEW p, Process(p)
    PROVE  StartInv'
<1>1. p \in Procs
  BY DEF Process, Connect, Answered, InitialSync, Serve, QueryPeer, PeerPort, ConnectPeer,
         PeerAnswered, StartTime, Is
<1> QED
  BY <1>1, ConnectKeeps, AnsweredKeeps, InitialSyncKeeps, ServeKeeps, QueryPeerKeeps,
     PeerPortKeeps, ConnectPeerKeeps, PeerAnsweredKeeps, StartTimeKeeps DEF Process

LEMMA ServerKeeps ==
    ASSUME StartInv, NEW n,
           \/ MainThread(n) \/ Respond(n) \/ RespondTimeout(n)
           \/ \E p \in AllProcs : Thread(n, p)
    PROVE  StartInv'
<1>1. n \in Federations
  BY DEF MainThread, StartRTI, Accept, Handshake, Shutdown, Respond, RespondTimeout, Thread,
         HandleTimestamp, SendStartTime, HandleAddress, Forward, HandleResign, Threads
<1> QED
  BY <1>1, StartRTIKeeps, AcceptKeeps, HandshakeKeeps, ShutdownKeeps, RespondKeeps,
     RespondTimeoutKeeps, HandleTimestampKeeps, SendStartTimeKeeps, HandleAddressKeeps,
     ForwardKeeps, HandleResignKeeps DEF MainThread, Thread

\* The synchronization of clocks has nothing to do with the start.
LEMMA ClockKeeps ==
    ASSUME StartInv, UNCHANGED startVars
    PROVE  StartInv'
<1>1. UNCHANGED <<scenario, port, backlog, rti, proc, toProc, toRTI>>
  BY DEF startVars
<1> QED
  BY <1>1, SamePlaces, NothingSaid, SameServer

LEMMA StartStep == StartInv /\ [Next]_vars => StartInv'
<1> SUFFICES ASSUME StartInv, [Next]_vars PROVE StartInv'
  OBVIOUS
<1>1. ASSUME NEW p, Process(p) PROVE StartInv'
  BY <1>1, ProcessKeeps
<1>2. ASSUME NEW p, AcceptPeer(p) \/ Execute(p) \/ Resign(p) PROVE StartInv'
  <2>1. p \in Procs
    BY <1>2 DEF AcceptPeer, Execute, Resign, Is
  <2> QED
    BY <1>2, <2>1, AcceptPeerKeeps, ExecuteKeeps, ResignKeeps
<1>3. ASSUME NEW n,
             \/ MainThread(n) \/ Respond(n) \/ RespondTimeout(n)
             \/ \E p \in AllProcs : Thread(n, p)
      PROVE  StartInv'
  BY <1>3, ServerKeeps
<1>4. CASE ClockThread \/ (\E p : ListenUDP(p)) \/ UNCHANGED vars
  <2>1. UNCHANGED startVars
    BY <1>4 DEF ClockThread, ListenUDP, vars
  <2> QED
    BY <2>1, ClockKeeps
<1> QED
  BY <1>1, <1>2, <1>3, <1>4 DEF Next

-----------------------------------------------------------------------------
(* What follows.                                                           *)

\* The bookkeeping of every RTI is right, whatever is launched: nobody gets an id that was
\* given away, and the proposals are counted and their maximum kept until all are there
\* (connect_to_federates, handle_timestamp).
THEOREM StartInvariant == Spec => []StartInv
<1> QED
  BY StartInit, StartStep, PTL DEF Spec

\* The state of every RTI and federate is well typed: each listener has a port of the
\* range, each socket is that of a process.
THEOREM StartTypeCorrect == Spec => []StartTypeOK
<1>1. StartInv => StartTypeOK
  BY DEF StartInv
<1> QED
  BY <1>1, StartInvariant, PTL

\* Of the processes with the same federate id one passes the check of its id
\* (receive_and_check_fed_id_message), the one its RTI talks to.
THEOREM StartOneProcessPerId == Spec => []OneProcessPerId
<1>1. ASSUME StartInv PROVE OneProcessPerId
  <2>1. ASSUME NEW p \in Procs, proc[p].pc \notin {"connect", "await", "quit"}
        PROVE  rti[p.fed].socket[p.id] = p
    <3>1. TalkHolds(rti[p.fed], p, proc[p], toProc[p])
      BY <1>1, OfProcess DEF ProcessHolds
    <3> QED
      BY <2>1, <3>1 DEF TalkHolds, TalksTo
  <2> QED
    BY <2>1 DEF OneProcessPerId
<1> QED
  BY <1>1, StartInvariant, PTL

\* All federates of a federation start at the same time, DELAY_START or more after every
\* time proposed to their RTI (handle_timestamp, get_start_time_from_rti).
THEOREM StartIsAgreed == Spec => []StartAgreed
<1>1. ASSUME StartInv PROVE StartAgreed
  <2>1. ASSUME NEW p \in Procs, Started(p)
        PROVE  Agreed(p.fed, rti[p.fed]) /\ proc[p].start = rti[p.fed].maxStart + DELAY_START
    <3>1. StartHolds(rti[p.fed], p, proc[p], toProc[p], toRTI[p]) /\ proc[p].start # 0
      BY <1>1, <2>1, OfProcess DEF ProcessHolds, Started
    <3> QED
      BY <3>1 DEF StartHolds
  <2>2. ASSUME NEW p \in Procs, Started(p), NEW q \in Procs, Started(q), q.fed = p.fed
        PROVE  proc[p].start = proc[q].start
    BY <2>1, <2>2
  <2>3. ASSUME NEW p \in Procs, Started(p), NEW q \in ToSet(rti[p.fed].socket), q # NoOne
        PROVE  scenario.proposal[q] + DELAY_START <= proc[p].start
    <3> DEFINE n == p.fed
    <3>1. n \in Federations /\ rti[n] \in Servers(n) /\ SocketsHold(n, rti[n])
      BY <1>1, OfProcess DEF ServerHolds
    <3>2. PICK id \in Ids(n) : rti[n].socket[id] = q
      BY <2>3, <3>1 DEF ToSet, Servers
    <3>3. q \in Procs /\ q.fed = n /\ TalksTo(rti[n], q)
      BY <2>3, <3>1, <3>2 DEF SocketsHold, Servers, TalksTo
    <3>4. Agreed(n, rti[n]) /\ proc[p].start = rti[n].maxStart + DELAY_START
      BY <2>1, <2>3
    <3>5. scenario.proposal[q] \in Nat
          /\ CountedHolds(rti[n], q, proc[q], toRTI[q])
      BY <1>1, <3>3, OfProcess DEF ProcessHolds
    <3>6. scenario.proposal[q] <= rti[n].maxStart
      BY <3>3, <3>4, <3>5 DEF CountedHolds
    <3>7. rti[n].maxStart \in Nat
      BY <3>1 DEF Servers
    <3> HIDE DEF n
    <3> QED
      BY <3>4, <3>5, <3>6, <3>7, StartAssumption
  <2> QED
    BY <2>2, <2>3 DEF StartAgreed
<1> QED
  BY <1>1, StartInvariant, PTL

-----------------------------------------------------------------------------
(* The start time comes first: the invariant FirstInv.  First what a queue *)
(* of one or two messages is.                                              *)

LEMMA OneMessage ==
    ASSUME NEW m
    PROVE  LET s == Append(<<>>, m) IN s # <<>> /\ Len(s) = 1 /\ s[1] = m /\ Head(s) = m
  OBVIOUS

LEMMA TwoMessages ==
    ASSUME NEW in, IsQueue(in), Len(in) = 0, NEW a, NEW b, NEW s, s = in \o <<a, b>>
    PROVE  Len(s) = 2 /\ s[1] = a /\ s[2] = b
<1>1. PICK q : q = in
  OBVIOUS
<1>2. PICK S : S = ToSet(q) \cup {a, b}
  OBVIOUS
<1>3. q \in Seq(S) /\ Len(q) = 0 /\ a \in S /\ b \in S
  <2>1. q \in Seq(ToSet(q)) /\ Len(q) = 0
    BY <1>1 DEF IsQueue
  <2> QED
    BY <1>2, <2>1
<1>4. s = q \o <<a, b>>
  BY <1>1, Zenon
<1> QED
  BY <1>3, <1>4

LEMMA ShortQueue ==
    ASSUME NEW s, IsQueue(s)
    PROVE  /\ Len(s) = 1 => s # <<>> /\ Tail(s) = <<>> /\ Head(s) = s[1]
           /\ Len(s) = 2 => /\ s # <<>> /\ Len(Tail(s)) = 1 /\ Head(s) = s[1]
                            /\ Tail(s)[1] = s[2]
<1>1. s # <<>> => /\ Len(Tail(s)) = Len(s) - 1 /\ Head(s) = s[1] /\ Len(s) \in Nat
                  /\ \A j \in 1 .. Len(s) - 1 : Tail(s)[j] = s[j + 1]
                  /\ Tail(s) \in Seq(ToSet(Tail(s)))
  BY QueueTail DEF IsQueue
<1>2. s = <<>> => Len(s) = 0
  OBVIOUS
<1>3. CASE Len(s) = 1
  <2>1. Len(Tail(s)) = 0 /\ Tail(s) \in Seq(ToSet(Tail(s)))
    BY <1>1, <1>2, <1>3
  <2>2. \A S : \A t \in Seq(S) : Len(t) = 0 => t = <<>>
    OBVIOUS
  <2>3. Tail(s) = <<>>
    BY <2>1, <2>2, Zenon
  <2> QED
    BY <1>1, <1>2, <1>3, <2>3
<1>4. CASE Len(s) = 2
  BY <1>1, <1>2, <1>4
<1> QED
  BY <1>3, <1>4

\* Nothing that is under way asks for an answer.
Quiet(p, out) == \A j \in DOMAIN out : ~Question(p, out[j])

LEMMA WasQuiet ==
    ASSUME NEW R, NEW p, NEW me, NEW in, NEW out, TurnHolds(R, p, me, in, out),
           in # <<>> \/ me.pc \notin {"T1", "T4", "port"}
    PROVE  Quiet(p, out)
  BY DEF TurnHolds, QuestionsHold, Quiet

\* The process that asked m waits for the answer.
Asker(me, in, m) ==
    /\ in = <<>>
    /\ \/ m.type = "UDP_PORT" /\ me.pc = "T1" /\ me.left = Exchanges
       \/ m.type = "T3" /\ me.pc = "T4"
       \/ m.type = "QUERY" /\ me.pc = "port"

LEMMA QuietHolds ==
    ASSUME NEW p, NEW me, NEW in, NEW out, Quiet(p, out)
    PROVE  QuestionsHold(p, me, in, out)
  BY DEF Quiet, QuestionsHold

LEMMA SaysOne ==
    ASSUME NEW p, NEW out, IsQueue(out), Quiet(p, out), SentHold(p, out),
           NEW m, m.type # "STOP_REQUEST", m.type = "MSG" => m.data \in Ids(p.fed)
    PROVE  /\ SentHold(p, Append(out, m)) /\ IsQueue(Append(out, m))
           /\ ~Question(p, m) => Quiet(p, Append(out, m))
           /\ \A me, in : Asker(me, in, m) => QuestionsHold(p, me, in, Append(out, m))
<1>1. /\ ToSet(Append(out, m)) = ToSet(out) \cup {m} /\ Len(out) \in Nat
      /\ Len(Append(out, m)) = Len(out) + 1
      /\ DOMAIN out = 1 .. Len(out) /\ DOMAIN Append(out, m) = 1 .. Len(out) + 1
      /\ \A j \in 1 .. Len(out) : Append(out, m)[j] = out[j]
      /\ Append(out, m)[Len(out) + 1] = m /\ IsQueue(Append(out, m))
  BY QueueAppend DEF IsQueue
<1>2. \A j \in DOMAIN Append(out, m) : j \in 1 .. Len(out) \/ j = Len(out) + 1
  BY <1>1
<1>3. SentHold(p, Append(out, m))
  BY <1>1 DEF SentHold
<1>4. ASSUME ~Question(p, m) PROVE Quiet(p, Append(out, m))
  BY <1>1, <1>2, <1>4 DEF Quiet
<1>5. ASSUME NEW me, NEW in, Asker(me, in, m) PROVE QuestionsHold(p, me, in, Append(out, m))
  <2>1. \A j \in DOMAIN Append(out, m) : Question(p, Append(out, m)[j]) =>
            j = Len(out) + 1 /\ Append(out, m)[j] = m
    BY <1>1, <1>2 DEF Quiet
  <2> QED
    BY <1>1, <1>5, <2>1 DEF QuestionsHold, Asker
<1> QED
  BY <1>1, <1>3, <1>4, <1>5

\* What is left when the RTI has read a message.
LEMMA ReadOne ==
    ASSUME NEW p, NEW me, NEW in, NEW out, IsQueue(out), out # <<>>,
           QuestionsHold(p, me, in, out), SentHold(p, out)
    PROVE  /\ SentHold(p, Tail(out)) /\ QuestionsHold(p, me, in, Tail(out))
           /\ Question(p, Head(out)) => Quiet(p, Tail(out)) /\ Asker(me, in, Head(out))
<1>1. /\ ToSet(Tail(out)) \subseteq ToSet(out) /\ Len(out) \in Nat
      /\ DOMAIN out = 1 .. Len(out) /\ DOMAIN Tail(out) = 1 .. Len(out) - 1
      /\ Len(Tail(out)) = Len(out) - 1 /\ Head(out) = out[1] /\ Len(out) > 0
      /\ \A j \in 1 .. Len(out) - 1 : Tail(out)[j] = out[j + 1]
  BY QueueTail DEF IsQueue
<1>2. SentHold(p, Tail(out))
  BY <1>1 DEF SentHold
<1>3. \A j \in DOMAIN Tail(out) : j + 1 \in DOMAIN out /\ Tail(out)[j] = out[j + 1]
                                  /\ j \in Nat \ {0}
  BY <1>1
<1>4. QuestionsHold(p, me, in, Tail(out))
  <2> SUFFICES ASSUME NEW j \in DOMAIN Tail(out), Question(p, Tail(out)[j])
               PROVE  /\ j = Len(Tail(out)) /\ in = <<>>
                      /\ \/ Tail(out)[j].type = "UDP_PORT" /\ me.pc = "T1"
                            /\ me.left = Exchanges
                         \/ Tail(out)[j].type = "T3" /\ me.pc = "T4"
                         \/ Tail(out)[j].type = "QUERY" /\ me.pc = "port"
    BY DEF QuestionsHold
  <2>1. j + 1 \in DOMAIN out /\ Tail(out)[j] = out[j + 1] /\ j \in Nat
    BY <1>3
  <2>2. j + 1 = Len(out)
    BY <2>1 DEF QuestionsHold
  <2>3. j = Len(Tail(out))
    <3>1. PICK l \in Nat : l = Len(out) /\ Len(Tail(out)) = l - 1
      BY <1>1
    <3> QED
      BY <2>1, <2>2, <3>1
  <2> QED
    BY <2>1, <2>3 DEF QuestionsHold
<1>5. ASSUME Question(p, Head(out)) PROVE Quiet(p, Tail(out)) /\ Asker(me, in, Head(out))
  <2>1. 1 \in DOMAIN out
    BY <1>1
  <2>2. Len(out) = 1 /\ Asker(me, in, Head(out))
    BY <1>1, <1>5, <2>1 DEF QuestionsHold, Asker
  <2>3. DOMAIN Tail(out) = {}
    BY <1>1, <2>2
  <2> QED
    BY <2>2, <2>3 DEF Quiet
<1> QED
  BY <1>2, <1>4, <1>5

-----------------------------------------------------------------------------
(* A step keeps FirstInv if it keeps what it touches.                      *)

LEMMA FirstNext ==
    ASSUME FirstInv, UNCHANGED scenario, ConnectionsHold',
           \A n \in Federations : TimesHold(n, rti'[n]),
           \A p \in Procs : TurnHolds(rti'[p.fed], p, proc'[p], toProc'[p], toRTI'[p])
    PROVE  FirstInv'
<1>1. "STOP_REQUEST" \notin scenario'.sends
  BY DEF FirstInv
<1>2. ASSUME NEW n \in Federations' PROVE TimesHold(n, rti[n])'
  <2>1. TimesHold(n, rti'[n])
    BY <1>2 DEF Federations
  <2> QED
    BY <2>1 DEF TimesHold, TalksTo, Agreed, Ids
<1>3. ASSUME NEW p \in Procs' PROVE TurnHolds(rti[p.fed], p, proc[p], toProc[p], toRTI[p])'
  <2>1. TurnHolds(rti'[p.fed], p, proc'[p], toProc'[p], toRTI'[p])
    BY <1>3 DEF Procs
  <2> QED
    BY <2>1 DEF TurnHolds, QuestionsHold, Question, RepliesHold, Awaits, ExchangesHold, Syncing,
                FirstHolds, SentHold, Ids
<1> QED
  BY <1>1, <1>2, <1>3 DEF FirstInv

\* What FirstInv says of one process.
LEMMA OfTurn ==
    ASSUME FirstInv, NEW p \in Procs
    PROVE  TurnHolds(rti[p.fed], p, proc[p], toProc[p], toRTI[p])
  BY DEF FirstInv

\* Every connection in a backlog is that of a process.
LEMMA Connection ==
    ASSUME StartInv, FirstInv, NEW o \in Owners, NEW i \in DOMAIN backlog[o]
    PROVE  /\ backlog[o][i] \in Procs
           /\ proc[backlog[o][i]].pc \in {"await", "peer"} /\ toProc[backlog[o][i]] = <<>>
           /\ \A u \in Owners : \A j \in DOMAIN backlog[u] :
                 backlog[o][i] = backlog[u][j] => o = u /\ i = j
<1>1. backlog[o] \in Seq(Procs)
  BY DEF StartInv, StartTypeOK
<1>2. backlog[o][i] \in Procs
  BY <1>1
<1> QED
  BY <1>2 DEF FirstInv, ConnectionsHold

\* A process that does something waits at no server.
Busy(p) == toProc[p] # <<>> \/ proc[p].pc \notin {"await", "peer"}

LEMMA SameConnections ==
    ASSUME StartInv, FirstInv, UNCHANGED <<scenario, backlog>>,
           \A q \in Procs : Busy(q) \/ (proc'[q].pc = proc[q].pc /\ toProc'[q] = toProc[q])
    PROVE  ConnectionsHold'
<1>1. Owners' = Owners
  BY DEF Owners, Federations, Procs
<1>2. ASSUME NEW o \in Owners, NEW i \in DOMAIN backlog[o]
      PROVE  /\ proc'[backlog[o][i]].pc \in {"await", "peer"} /\ toProc'[backlog[o][i]] = <<>>
             /\ \A u \in Owners : \A j \in DOMAIN backlog[u] :
                   backlog[o][i] = backlog[u][j] => o = u /\ i = j
  BY <1>2, Connection DEF Busy
<1> QED
  BY <1>1, <1>2 DEF ConnectionsHold

\* A process connects to a server.
LEMMA Connects ==
    ASSUME StartInv, FirstInv, UNCHANGED scenario, NEW p \in Procs, Busy(p),
           NEW owner \in Owners, backlog' = [backlog EXCEPT ![owner] = Append(@, p)],
           proc'[p].pc \in {"await", "peer"}, toProc'[p] = <<>>,
           \A q \in Procs \ {p} : proc'[q].pc = proc[q].pc /\ toProc'[q] = toProc[q]
    PROVE  ConnectionsHold'
<1>1. Owners' = Owners /\ backlog \in [Owners -> Seq(Procs)]
  BY DEF Owners, Federations, Procs, StartInv, StartTypeOK
<1> PICK n, s : s = backlog[owner] /\ n = Len(s)
  OBVIOUS
<1>2. /\ n \in Nat /\ DOMAIN s = 1 .. n /\ DOMAIN Append(s, p) = 1 .. n + 1
      /\ \A j \in 1 .. n : Append(s, p)[j] = s[j]
      /\ Append(s, p)[n + 1] = p
  <2>1. s \in Seq(Procs)
    BY <1>1
  <2> QED
    BY <2>1, AppendFacts
<1>3. backlog'[owner] = Append(s, p) /\ \A o \in Owners \ {owner} : backlog'[o] = backlog[o]
  BY <1>1
<1>4. ASSUME NEW o \in Owners, NEW i \in DOMAIN backlog'[o]
      PROVE  \/ o = owner /\ i = n + 1 /\ backlog'[o][i] = p
             \/ /\ i \in DOMAIN backlog[o] /\ backlog'[o][i] = backlog[o][i]
                /\ backlog[o][i] \in Procs \ {p}
  <2>1. i \in DOMAIN backlog[o] => backlog[o][i] \in Procs \ {p}
    BY Connection DEF Busy
  <2>2. CASE o = owner
    <3>1. i \in 1 .. n + 1
      BY <1>2, <1>3, <2>2
    <3>2. i \in 1 .. n \/ i = n + 1
      BY <1>2, <3>1
    <3> QED
      BY <1>2, <1>3, <2>1, <2>2, <3>2
  <2>3. CASE o # owner
    BY <1>3, <2>1, <2>3
  <2> QED
    BY <2>2, <2>3
<1>5. ASSUME NEW o \in Owners, NEW i \in DOMAIN backlog'[o]
      PROVE  /\ proc'[backlog'[o][i]].pc \in {"await", "peer"} /\ toProc'[backlog'[o][i]] = <<>>
             /\ \A u \in Owners : \A j \in DOMAIN backlog'[u] :
                   backlog'[o][i] = backlog'[u][j] => o = u /\ i = j
  <2>1. proc'[backlog'[o][i]].pc \in {"await", "peer"} /\ toProc'[backlog'[o][i]] = <<>>
    BY <1>4, Connection
  <2>2. ASSUME NEW u \in Owners, NEW j \in DOMAIN backlog'[u], backlog'[o][i] = backlog'[u][j]
        PROVE  o = u /\ i = j
    <3>1. CASE backlog'[o][i] = p
      BY <1>4, <2>2, <3>1
    <3>2. CASE backlog'[o][i] # p
      <4>1. /\ i \in DOMAIN backlog[o] /\ j \in DOMAIN backlog[u]
            /\ backlog[o][i] = backlog[u][j]
        BY <1>4, <2>2, <3>2
      <4> QED
        BY <4>1, Connection
    <3> QED
      BY <3>1, <3>2
  <2> QED
    BY <2>1, <2>2
<1> QED
  BY <1>1, <1>5 DEF ConnectionsHold

\* A server takes the next connection: whoever it is waits nowhere else.
LEMMA TakesNext ==
    ASSUME StartInv, FirstInv, UNCHANGED scenario, NEW owner \in Owners,
           backlog[owner] # <<>>, backlog' = [backlog EXCEPT ![owner] = Tail(@)],
           NEW q, q = Head(backlog[owner]),
           \A r \in Procs : proc'[r].pc = proc[r].pc,
           \A r \in Procs \ {q} : toProc'[r] = toProc[r]
    PROVE  /\ ConnectionsHold' /\ q \in Procs
           /\ proc[q].pc \in {"await", "peer"} /\ toProc[q] = <<>>
<1>1. Owners' = Owners /\ backlog \in [Owners -> Seq(Procs)]
  BY DEF Owners, Federations, Procs, StartInv, StartTypeOK
<1> PICK n, s : s = backlog[owner] /\ n = Len(s)
  OBVIOUS
<1>2. /\ n \in Nat /\ n > 0 /\ DOMAIN s = 1 .. n /\ DOMAIN Tail(s) = 1 .. n - 1
      /\ \A j \in 1 .. n - 1 : Tail(s)[j] = s[j + 1]
      /\ Head(s) = s[1]
  <2>1. s \in Seq(Procs) /\ s # <<>>
    BY <1>1
  <2> QED
    BY <2>1, TailFacts
<1>3. backlog'[owner] = Tail(s) /\ \A o \in Owners \ {owner} : backlog'[o] = backlog[o]
  BY <1>1
<1>4. 1 \in DOMAIN backlog[owner] /\ q = backlog[owner][1]
  BY <1>2
<1>5. \A j \in 1 .. n - 1 : j \in Int /\ j + 1 \in 1 .. n /\ j + 1 # 1
  BY <1>2
<1> DEFINE At(o, i) == IF o = owner THEN i + 1 ELSE i
<1>6. ASSUME NEW o \in Owners, NEW i \in DOMAIN backlog'[o]
      PROVE  /\ At(o, i) \in DOMAIN backlog[o] /\ backlog'[o][i] = backlog[o][At(o, i)]
             /\ backlog'[o][i] \in Procs \ {q}
  <2>1. At(o, i) \in DOMAIN backlog[o] /\ backlog'[o][i] = backlog[o][At(o, i)]
        /\ (o = owner => At(o, i) # 1)
    BY <1>2, <1>3, <1>5
  <2> HIDE DEF At
  <2> QED
    BY <1>4, <2>1, Connection
<1>7. ASSUME NEW o \in Owners, NEW i \in DOMAIN backlog'[o]
      PROVE  /\ proc'[backlog'[o][i]].pc \in {"await", "peer"} /\ toProc'[backlog'[o][i]] = <<>>
             /\ \A u \in Owners : \A j \in DOMAIN backlog'[u] :
                   backlog'[o][i] = backlog'[u][j] => o = u /\ i = j
  <2>1. proc'[backlog'[o][i]].pc \in {"await", "peer"} /\ toProc'[backlog'[o][i]] = <<>>
    <3> HIDE DEF At
    <3> QED
      BY <1>6, Connection
  <2>2. ASSUME NEW u \in Owners, NEW j \in DOMAIN backlog'[u], backlog'[o][i] = backlog'[u][j]
        PROVE  o = u /\ i = j
    <3>1. o = u /\ At(o, i) = At(u, j)
      <4> HIDE DEF At
      <4> QED
        BY <1>6, <2>2, Connection
    <3>2. o = owner => i \in Int /\ j \in Int
      BY <1>2, <1>3, <1>5, <3>1
    <3> QED
      BY <3>1, <3>2
  <2> QED
    BY <2>1, <2>2
<1>8. ConnectionsHold'
  BY <1>1, <1>7 DEF ConnectionsHold
<1> QED
  BY <1>4, <1>8, Connection

\* A server closes: those that waited there get an answer.
LEMMA Disconnects ==
    ASSUME StartInv, FirstInv, UNCHANGED scenario, NEW owner \in Owners, Close(owner),
           \A q \in Procs : Busy(q) \/ proc'[q].pc = proc[q].pc
    PROVE  /\ ConnectionsHold'
           /\ \A q \in Procs : \/ toProc'[q] = toProc[q]
                               \/ /\ toProc'[q] = Append(toProc[q], Message("CLOSED", 0))
                                  /\ toProc[q] = <<>> /\ proc[q].pc \in {"await", "peer"}
<1>1. Owners' = Owners /\ backlog \in [Owners -> Seq(Procs)]
  BY DEF Owners, Federations, Procs, StartInv, StartTypeOK
<1>2. backlog'[owner] = <<>> /\ \A o \in Owners \ {owner} : backlog'[o] = backlog[o]
  BY <1>1 DEF Close
<1>3. ASSUME NEW q \in ToSet(backlog[owner])
      PROVE  /\ q \in Procs /\ toProc[q] = <<>> /\ proc[q].pc \in {"await", "peer"}
             /\ \A o \in Owners : \A i \in DOMAIN backlog[o] : backlog[o][i] = q => o = owner
  <2>1. PICK i \in DOMAIN backlog[owner] : q = backlog[owner][i]
    BY <1>3 DEF ToSet
  <2> QED
    BY <2>1, Connection
<1>4. \A q \in Procs : \/ toProc'[q] = toProc[q]
                       \/ /\ toProc'[q] = Append(toProc[q], Message("CLOSED", 0))
                          /\ q \in ToSet(backlog[owner])
  BY DEF Close
<1>5. ASSUME NEW o \in Owners, NEW i \in DOMAIN backlog'[o]
      PROVE  /\ proc'[backlog'[o][i]].pc \in {"await", "peer"} /\ toProc'[backlog'[o][i]] = <<>>
             /\ \A u \in Owners : \A j \in DOMAIN backlog'[u] :
                   backlog'[o][i] = backlog'[u][j] => o = u /\ i = j
  <2>1. \A u \in Owners : u = owner => DOMAIN backlog'[u] = {}
    BY <1>2
  <2>2. \A u \in Owners : \A j \in DOMAIN backlog'[u] :
            u # owner /\ j \in DOMAIN backlog[u] /\ backlog'[u][j] = backlog[u][j]
    BY <1>2, <2>1
  <2>3. i \in DOMAIN backlog[o] /\ backlog'[o][i] = backlog[o][i] /\ o # owner
    BY <2>2
  <2>4. backlog[o][i] \in Procs /\ ~Busy(backlog[o][i])
        /\ backlog[o][i] \notin ToSet(backlog[owner])
    BY <1>3, <2>3, Connection DEF Busy
  <2>5. proc'[backlog'[o][i]].pc \in {"await", "peer"} /\ toProc'[backlog'[o][i]] = <<>>
    BY <1>4, <2>3, <2>4, Connection
  <2>6. \A u \in Owners : \A j \in DOMAIN backlog'[u] :
            backlog'[o][i] = backlog'[u][j] => o = u /\ i = j
    BY <2>2, <2>3, Connection
  <2> QED
    BY <2>5, <2>6
<1>6. ConnectionsHold'
  BY <1>1, <1>5 DEF ConnectionsHold
<1> QED
  BY <1>3, <1>4, <1>6

-----------------------------------------------------------------------------
(* The steps of a process, again.                                          *)

LEMMA TurnStep ==
    ASSUME StartInv, FirstInv, UNCHANGED <<scenario, rti>>, ConnectionsHold', NEW p \in Procs,
           \A q \in Procs \ {p} : /\ proc'[q] = proc[q]
                                 /\ toProc'[q] = toProc[q] /\ toRTI'[q] = toRTI[q],
           TurnHolds(rti[p.fed], p, proc'[p], toProc'[p], toRTI'[p])
    PROVE  FirstInv'
<1>1. \A n \in Federations : TimesHold(n, rti'[n])
  BY DEF FirstInv
<1>2. ASSUME NEW q \in Procs
      PROVE  TurnHolds(rti'[q.fed], q, proc'[q], toProc'[q], toRTI'[q])
  <2>1. CASE q = p
    BY <2>1
  <2>2. CASE q # p
    BY <2>2, OfTurn
  <2> QED
    BY <2>1, <2>2
<1> QED
  BY <1>1, <1>2, FirstNext

\* The same for a process that waits at no server.
LEMMA BusyStep ==
    ASSUME StartInv, FirstInv, UNCHANGED <<scenario, rti, backlog>>, NEW p \in Procs, Busy(p),
           \A q \in Procs \ {p} : /\ proc'[q] = proc[q]
                                 /\ toProc'[q] = toProc[q] /\ toRTI'[q] = toRTI[q],
           TurnHolds(rti[p.fed], p, proc'[p], toProc'[p], toRTI'[p])
    PROVE  FirstInv'
<1>1. ConnectionsHold'
  BY SameConnections
<1> QED
  BY <1>1, TurnStep

\* Nothing is under way that a process would have to answer for.
LEMMA Settled ==
    ASSUME NEW R, NEW p, NEW me, NEW in, NEW out, Quiet(p, out), SentHold(p, out),
           in = <<>> \/ me.pc \in {"running", "left", "quit"},
           me.pc = "start" => p \notin R.answered,
           me.pc \in {"connect", "await", "T1", "T4"} => ~Syncing(R, p)
    PROVE  TurnHolds(R, p, me, in, out)
<1>1. QuestionsHold(p, me, in, out)
  BY QuietHolds
<1>2. in = <<>> => Len(in) = 0
  OBVIOUS
<1>3. ExchangesHold(R, p, me, in)
  BY <1>2 DEF ExchangesHold
<1> QED
  BY <1>1, <1>3 DEF TurnHolds, RepliesHold, FirstHolds

\* It has nothing to read as long as it asks nothing.
LEMMA Unasked ==
    ASSUME NEW R, NEW p, NEW me, NEW in, NEW out, TurnHolds(R, p, me, in, out),
           me.pc \in {"connect", "serve", "peers", "knock"}
    PROVE  in = <<>> /\ Quiet(p, out) /\ SentHold(p, out)
<1>1. Quiet(p, out)
  BY WasQuiet
<1> QED
  BY <1>1 DEF TurnHolds, RepliesHold, Awaits

\* The process reads the answer it waits for.
LEMMA Replied ==
    ASSUME StartInv, FirstInv, NEW p \in Procs, NEW type, Hears(p, type),
           proc[p].pc \in {"await", "T1", "port", "peer"}
    PROVE  /\ toProc'[p] = <<>> /\ \A q \in Procs \ {p} : toProc'[q] = toProc[q]
           /\ Quiet(p, toRTI[p]) /\ SentHold(p, toRTI[p]) /\ Busy(p)
<1>1. /\ DOMAIN toProc = Procs /\ IsQueue(toProc[p])
      /\ TurnHolds(rti[p.fed], p, proc[p], toProc[p], toRTI[p])
  BY OfProcess, OfTurn
<1>2. toProc[p] # <<>> /\ toProc' = [toProc EXCEPT ![p] = Tail(toProc[p])]
  BY DEF Hears
<1>3. Len(toProc[p]) = 1
  BY <1>1, <1>2 DEF TurnHolds, RepliesHold
<1>4. Tail(toProc[p]) = <<>>
  BY <1>1, <1>3, ShortQueue
<1>5. Quiet(p, toRTI[p])
  BY <1>1, <1>2, WasQuiet
<1> QED
  BY <1>1, <1>2, <1>4, <1>5 DEF TurnHolds, Busy

LEMMA ConnectFirst ==
    ASSUME StartInv, FirstInv, NEW p \in Procs, Connect(p)
    PROVE  FirstInv'
<1>1. /\ TurnHolds(rti[p.fed], p, proc[p], toProc[p], toRTI[p]) /\ proc \in [Procs -> Processes]
      /\ proc[p] \in Processes
  BY OfTurn, OfProcess
<1>2. UNCHANGED <<scenario, rti, port, toProc, toRTI>> /\ proc[p].pc = "connect"
  BY DEF Connect, Is
<1>3. toProc[p] = <<>> /\ Quiet(p, toRTI[p]) /\ SentHold(p, toRTI[p]) /\ Busy(p)
  BY <1>1, <1>2, Unasked DEF Busy
<1>4. ~Syncing(rti[p.fed], p)
  BY <1>1, <1>2 DEF TurnHolds, ExchangesHold
<1>5. CASE Listens(proc[p].uport)
  <2>1. Queue(p, proc[p].uport) /\ Goes(p, "await")
    BY <1>5 DEF Connect
  <2>2. OnlyMoves(p) /\ proc'[p].pc = "await"
    BY <2>1, GoesTo
  <2>3. port[proc[p].uport] \in Owners
    BY <1>5 DEF Listens, StartInv, StartTypeOK
  <2>4. ConnectionsHold'
    BY <1>2, <1>3, <2>1, <2>2, <2>3, Connects DEF Queue, OnlyMoves
  <2>5. TurnHolds(rti[p.fed], p, proc'[p], toProc[p], toRTI[p])
    BY <1>3, <1>4, <2>2, Settled
  <2> QED
    BY <1>2, <2>2, <2>4, <2>5, TurnStep DEF OnlyMoves
<1>6. CASE ~Listens(proc[p].uport)
  <2>1. UNCHANGED backlog /\ \E next : proc' = [proc EXCEPT ![p].uport = next]
    BY <1>6 DEF Connect
  <2>2. PICK next : proc' = [proc EXCEPT ![p].uport = next]
    BY <2>1
  <2>3. proc'[p].pc = "connect" /\ \A q \in Procs \ {p} : proc'[q] = proc[q]
    BY <1>1, <1>2, <2>2 DEF Processes
  <2>4. TurnHolds(rti[p.fed], p, proc'[p], toProc[p], toRTI[p])
    BY <1>3, <1>4, <2>3, Settled
  <2> QED
    BY <1>2, <1>3, <2>1, <2>3, <2>4, BusyStep
<1> QED
  BY <1>5, <1>6

LEMMA AnsweredFirst ==
    ASSUME StartInv, FirstInv, NEW p \in Procs, Answered(p)
    PROVE  FirstInv'
<1>1. /\ TurnHolds(rti[p.fed], p, proc[p], toProc[p], toRTI[p]) /\ proc \in [Procs -> Processes]
      /\ proc[p] \in Processes /\ IsQueue(toRTI[p]) /\ DOMAIN toRTI = Procs
  BY OfTurn, OfProcess
<1>2. UNCHANGED <<scenario, rti, port, backlog>> /\ proc[p].pc = "await"
      /\ \E type : Hears(p, type)
  BY DEF Answered, Is
<1>3. /\ toProc'[p] = <<>> /\ \A q \in Procs \ {p} : toProc'[q] = toProc[q]
      /\ Quiet(p, toRTI[p]) /\ SentHold(p, toRTI[p]) /\ Busy(p)
  BY <1>2, Replied
<1>4. ~Syncing(rti[p.fed], p)
  BY <1>1, <1>2 DEF TurnHolds, ExchangesHold
<1>5. CASE Hears(p, "ACK")
  <2>1. \A type \in {"REJECT", "CLOSED"} : ~Hears(p, type)
    BY <1>5 DEF Hears
  <2> DEFINE a == Message("NEIGHBORS", 0)
             b == Message("UDP_PORT", scenario.sync[p.fed])
  <2>2. /\ Write(p, <<a, b>>)
        /\ proc' = [proc EXCEPT ![p].left = Exchanges,
                ![p].pc = IF scenario.sync[p.fed] = "off" THEN "serve" ELSE "T1"]
    BY <2>1 DEF Answered
  <2>3. /\ proc'[p].left = Exchanges /\ \A q \in Procs \ {p} : proc'[q] = proc[q]
        /\ proc'[p].pc = (IF scenario.sync[p.fed] = "off" THEN "serve" ELSE "T1")
    BY <1>1, <2>2 DEF Processes
  <2>4. toRTI[p] \o <<a, b>> = Append(Append(toRTI[p], a), b)
    BY <1>1, QueueTwo DEF IsQueue
  <2>5. /\ \A q \in Procs \ {p} : toRTI'[q] = toRTI[q]
        /\ toRTI'[p] = Append(Append(toRTI[p], a), b)
    BY <1>1, <2>2, <2>4 DEF Write
  <2>6. a.type = "NEIGHBORS" /\ b.type = "UDP_PORT" /\ ~Question(p, a)
        /\ (Question(p, b) <=> scenario.sync[p.fed] # "off")
    BY DEF Message, Question
  <2> HIDE DEF a, b
  <2>7. Quiet(p, Append(toRTI[p], a)) /\ SentHold(p, Append(toRTI[p], a))
        /\ IsQueue(Append(toRTI[p], a))
    BY <1>1, <1>3, <2>6, SaysOne
  <2>8. /\ SentHold(p, toRTI'[p])
        /\ ~Question(p, b) => Quiet(p, toRTI'[p])
        /\ \A me, in : Asker(me, in, b) => QuestionsHold(p, me, in, toRTI'[p])
    BY <2>5, <2>6, <2>7, SaysOne
  <2>9. TurnHolds(rti[p.fed], p, proc'[p], toProc'[p], toRTI'[p])
    <3>1. CASE scenario.sync[p.fed] = "off"
      <4>1. proc'[p].pc = "serve" /\ Quiet(p, toRTI'[p])
        BY <2>3, <2>6, <2>8, <3>1
      <4> QED
        BY <1>3, <2>8, <4>1, Settled
    <3>2. CASE scenario.sync[p.fed] # "off"
      <4>1. proc'[p].pc = "T1" /\ proc'[p].left = Exchanges
        BY <2>3, <3>2
      <4>2. QuestionsHold(p, proc'[p], toProc'[p], toRTI'[p])
        BY <1>3, <2>6, <2>8, <4>1 DEF Asker
      <4> QED
        BY <1>3, <1>4, <2>8, <4>1, <4>2 DEF TurnHolds, RepliesHold, ExchangesHold, FirstHolds
    <3> QED
      BY <3>1, <3>2
  <2> QED
    BY <1>2, <1>3, <2>3, <2>5, <2>9, BusyStep
<1>6. CASE ~Hears(p, "ACK")
  <2>1. UNCHANGED toRTI /\ (\/ proc' = [proc EXCEPT ![p].uport = @ + 1, ![p].pc = "connect"]
                            \/ Goes(p, "quit"))
    BY <1>6 DEF Answered
  <2>2. proc'[p].pc \in {"connect", "quit"} /\ \A q \in Procs \ {p} : proc'[q] = proc[q]
    BY <1>1, <2>1 DEF Processes, Goes
  <2>3. TurnHolds(rti[p.fed], p, proc'[p], toProc'[p], toRTI'[p])
    BY <1>3, <1>4, <2>1, <2>2, Settled
  <2> QED
    BY <1>2, <1>3, <2>1, <2>2, <2>3, BusyStep
<1> QED
  BY <1>5, <1>6

LEMMA InitialSyncFirst ==
    ASSUME StartInv, FirstInv, NEW p \in Procs, InitialSync(p)
    PROVE  FirstInv'
<1> DEFINE R == rti[p.fed]
<1>1. /\ TurnHolds(R, p, proc[p], toProc[p], toRTI[p]) /\ proc \in [Procs -> Processes]
      /\ proc[p] \in Processes /\ IsQueue(toRTI[p]) /\ IsQueue(toProc[p])
      /\ DOMAIN toRTI = Procs /\ DOMAIN toProc = Procs /\ R \in Servers(p.fed)
  BY OfTurn, OfProcess
<1>2. UNCHANGED <<scenario, rti, port, backlog>>
  BY DEF InitialSync, Is
<1> HIDE DEF R
<1>3. CASE Is(p, "T1") /\ Hears(p, "T1") /\ Goes(p, "T4") /\ Write(p, <<Message("T3", p.id)>>)
  <2> DEFINE m == Message("T3", p.id)
  <2>1. proc[p].pc = "T1" /\ Goes(p, "T4") /\ Write(p, <<m>>)
    BY <1>3 DEF Is
  <2>2. m.type = "T3"
    BY DEF Message
  <2> HIDE DEF m
  <2>3. /\ toProc'[p] = <<>> /\ \A q \in Procs \ {p} : toProc'[q] = toProc[q]
        /\ Quiet(p, toRTI[p]) /\ SentHold(p, toRTI[p]) /\ Busy(p)
    BY <1>3, <2>1, Replied
  <2>4. /\ proc'[p].pc = "T4" /\ proc'[p].left = proc[p].left
        /\ \A q \in Procs \ {p} : proc'[q] = proc[q]
    BY <1>1, <2>1 DEF Goes, Processes
  <2>5. toRTI'[p] = Append(toRTI[p], m) /\ \A q \in Procs \ {p} : toRTI'[q] = toRTI[q]
    BY <2>1, Written
  <2>6. Asker(proc'[p], toProc'[p], m)
    BY <2>2, <2>3, <2>4 DEF Asker
  <2>7. SentHold(p, toRTI'[p]) /\ QuestionsHold(p, proc'[p], toProc'[p], toRTI'[p])
    BY <1>1, <2>2, <2>3, <2>5, <2>6, SaysOne
  <2>8. ExchangesHold(R, p, proc'[p], toProc'[p])
    <3>1. Len(toProc'[p]) = 0
      BY <2>3
    <3> QED
      BY <1>1, <2>1, <2>4, <3>1 DEF TurnHolds, ExchangesHold
  <2>9. TurnHolds(R, p, proc'[p], toProc'[p], toRTI'[p])
    BY <2>3, <2>4, <2>7, <2>8 DEF TurnHolds, RepliesHold, FirstHolds
  <2> QED
    BY <1>2, <2>3, <2>4, <2>5, <2>9, BusyStep DEF R
<1>4. CASE Is(p, "T4") /\ Hears(p, "T4") /\ UNCHANGED toRTI
           /\ proc' = [proc EXCEPT ![p].left = @ - 1,
                           ![p].pc = IF proc[p].left > 1 THEN "T1" ELSE "serve"]
  <2>1. /\ proc[p].pc = "T4" /\ toProc[p] # <<>>
        /\ toProc' = [toProc EXCEPT ![p] = Tail(toProc[p])]
    BY <1>4 DEF Is, Hears
  <2>2. /\ proc'[p].pc = (IF proc[p].left > 1 THEN "T1" ELSE "serve")
        /\ proc'[p].left = proc[p].left - 1 /\ \A q \in Procs \ {p} : proc'[q] = proc[q]
    BY <1>1, <1>4 DEF Processes
  <2>3. toProc'[p] = Tail(toProc[p]) /\ (\A q \in Procs \ {p} : toProc'[q] = toProc[q]) /\ Busy(p)
    BY <1>1, <2>1 DEF Busy
  <2>4. Quiet(p, toRTI[p]) /\ SentHold(p, toRTI[p])
    BY <1>1, <2>1, WasQuiet DEF TurnHolds
  <2>5. \/ Len(toProc[p]) = 1
        \/ Len(toProc[p]) = 2 /\ toProc[p][1].type = "T4" /\ toProc[p][2].type = "T1"
    BY <1>1, <2>1 DEF TurnHolds, RepliesHold
  <2>6. CASE Len(toProc[p]) = 1
    <3>1. toProc'[p] = <<>>
      BY <1>1, <2>3, <2>6, ShortQueue
    <3>2. ~Syncing(R, p)
      BY <1>1, <2>1, <2>6 DEF TurnHolds, ExchangesHold
    <3>3. proc'[p].pc # "start" /\ toRTI'[p] = toRTI[p]
      BY <1>4, <2>2
    <3>4. TurnHolds(R, p, proc'[p], toProc'[p], toRTI'[p])
      BY <2>4, <3>1, <3>2, <3>3, Settled
    <3> QED
      BY <1>2, <1>4, <2>2, <2>3, <3>4, BusyStep DEF R
  <2>7. CASE Len(toProc[p]) = 2 /\ toProc[p][2].type = "T1"
    <3>1. Len(toProc'[p]) = 1 /\ toProc'[p][1].type = "T1"
      BY <1>1, <2>3, <2>7, ShortQueue
    <3>2. proc[p].left > 1 /\ (Syncing(R, p) => R.left < proc[p].left)
      BY <1>1, <2>1, <2>7 DEF TurnHolds, ExchangesHold
    <3>3. proc[p].left \in Int /\ R.left \in Int
      BY <1>1 DEF Processes, Servers
    <3>4. proc'[p].pc = "T1" /\ (Syncing(R, p) => R.left <= proc'[p].left)
      BY <2>2, <3>2, <3>3
    <3>5. QuestionsHold(p, proc'[p], toProc'[p], toRTI'[p])
      BY <1>4, <2>4, QuietHolds
    <3>6. TurnHolds(R, p, proc'[p], toProc'[p], toRTI'[p])
      BY <1>4, <2>4, <3>1, <3>4, <3>5
         DEF TurnHolds, RepliesHold, Awaits, ExchangesHold, FirstHolds
    <3> QED
      BY <1>2, <1>4, <2>2, <2>3, <3>6, BusyStep DEF R
  <2> QED
    BY <2>5, <2>6, <2>7
<1> QED
  BY <1>3, <1>4 DEF InitialSync

LEMMA ServeFirst ==
    ASSUME StartInv, FirstInv, NEW p \in Procs, Serve(p)
    PROVE  FirstInv'
<1>1. TurnHolds(rti[p.fed], p, proc[p], toProc[p], toRTI[p]) /\ IsQueue(toRTI[p])
  BY OfTurn, OfProcess
<1>2. UNCHANGED <<scenario, rti, backlog, toProc>> /\ proc[p].pc = "serve" /\ Goes(p, "peers")
  BY DEF Serve, Is
<1>3. toProc[p] = <<>> /\ Quiet(p, toRTI[p]) /\ SentHold(p, toRTI[p]) /\ Busy(p)
  BY <1>1, <1>2, Unasked DEF Busy
<1>4. OnlyMoves(p) /\ proc'[p].pc = "peers"
  BY <1>2, GoesTo
<1>5. /\ \A q \in Procs \ {p} : toRTI'[q] = toRTI[q]
      /\ Quiet(p, toRTI'[p]) /\ SentHold(p, toRTI'[p])
  <2>1. CASE UNCHANGED toRTI
    BY <1>3, <2>1
  <2>2. CASE \E at : Write(p, <<Message("ADDRESS_AD", at)>>)
    <3> PICK at : Write(p, <<Message("ADDRESS_AD", at)>>)
      BY <2>2
    <3> DEFINE m == Message("ADDRESS_AD", at)
    <3>1. m.type = "ADDRESS_AD" /\ ~Question(p, m) /\ Write(p, <<m>>)
      BY DEF Message, Question
    <3> HIDE DEF m
    <3>2. toRTI'[p] = Append(toRTI[p], m) /\ \A q \in Procs \ {p} : toRTI'[q] = toRTI[q]
      BY <3>1, Written
    <3> QED
      BY <1>1, <1>3, <3>1, <3>2, SaysOne
  <2> QED
    BY <2>1, <2>2 DEF Serve
<1>6. TurnHolds(rti[p.fed], p, proc'[p], toProc'[p], toRTI'[p])
  BY <1>2, <1>3, <1>4, <1>5, Settled
<1> QED
  BY <1>2, <1>3, <1>4, <1>5, <1>6, BusyStep DEF OnlyMoves

\* Nobody has the start time who has not asked for it.
LEMMA NotAnswered ==
    ASSUME StartInv, FirstInv, NEW p \in Procs,
           proc[p].pc \notin {"start", "running", "left", "quit"}
    PROVE  p \notin rti[p.fed].answered
<1>1. CountedHolds(rti[p.fed], p, proc[p], toRTI[p]) /\ p.fed \in Federations
  BY OfProcess DEF ProcessHolds
<1>2. TimesHold(p.fed, rti[p.fed])
  BY <1>1 DEF FirstInv
<1> QED
  BY <1>1, <1>2 DEF CountedHolds, TimesHold

LEMMA QueryPeerFirst ==
    ASSUME StartInv, FirstInv, NEW p \in Procs, QueryPeer(p)
    PROVE  FirstInv'
<1>1. TurnHolds(rti[p.fed], p, proc[p], toProc[p], toRTI[p]) /\ IsQueue(toRTI[p])
  BY OfTurn, OfProcess
<1>2. UNCHANGED <<scenario, rti, backlog, toProc>> /\ proc[p].pc = "peers"
  BY DEF QueryPeer, Is
<1>3. toProc[p] = <<>> /\ Quiet(p, toRTI[p]) /\ SentHold(p, toRTI[p]) /\ Busy(p)
  BY <1>1, <1>2, Unasked DEF Busy
<1>4. CASE Write(p, <<Message("QUERY", scenario.peers[p][proc[p].next])>>) /\ Goes(p, "port")
  <2> DEFINE m == Message("QUERY", scenario.peers[p][proc[p].next])
  <2>1. m.type = "QUERY" /\ Write(p, <<m>>)
    BY <1>4 DEF Message
  <2> HIDE DEF m
  <2>2. toRTI'[p] = Append(toRTI[p], m) /\ \A q \in Procs \ {p} : toRTI'[q] = toRTI[q]
    BY <2>1, Written
  <2>3. OnlyMoves(p) /\ proc'[p].pc = "port"
    BY <1>4, GoesTo
  <2>4. Asker(proc'[p], toProc'[p], m)
    BY <1>2, <1>3, <2>1, <2>3 DEF Asker
  <2>5. SentHold(p, toRTI'[p]) /\ QuestionsHold(p, proc'[p], toProc'[p], toRTI'[p])
    BY <1>1, <1>3, <2>1, <2>2, <2>4, SaysOne
  <2>6. TurnHolds(rti[p.fed], p, proc'[p], toProc'[p], toRTI'[p])
    BY <1>2, <1>3, <2>3, <2>5 DEF TurnHolds, RepliesHold, ExchangesHold, FirstHolds
  <2> QED
    BY <1>2, <1>3, <2>2, <2>3, <2>6, BusyStep DEF OnlyMoves
<1>5. CASE Write(p, <<Message("TIMESTAMP", scenario.proposal[p])>>) /\ Goes(p, "start")
  <2> DEFINE m == Message("TIMESTAMP", scenario.proposal[p])
  <2>1. m.type = "TIMESTAMP" /\ ~Question(p, m) /\ Write(p, <<m>>)
    BY <1>5 DEF Message, Question
  <2> HIDE DEF m
  <2>2. toRTI'[p] = Append(toRTI[p], m) /\ \A q \in Procs \ {p} : toRTI'[q] = toRTI[q]
    BY <2>1, Written
  <2>3. OnlyMoves(p) /\ proc'[p].pc = "start"
    BY <1>5, GoesTo
  <2>4. SentHold(p, toRTI'[p]) /\ Quiet(p, toRTI'[p])
    BY <1>1, <1>3, <2>1, <2>2, SaysOne
  <2>5. p \notin rti[p.fed].answered
    BY <1>2, NotAnswered
  <2>6. TurnHolds(rti[p.fed], p, proc'[p], toProc'[p], toRTI'[p])
    BY <1>2, <1>3, <2>3, <2>4, <2>5, Settled
  <2> QED
    BY <1>2, <1>3, <2>2, <2>3, <2>6, BusyStep DEF OnlyMoves
<1> QED
  BY <1>4, <1>5 DEF QueryPeer

LEMMA PeerPortFirst ==
    ASSUME StartInv, FirstInv, NEW p \in Procs, PeerPort(p)
    PROVE  FirstInv'
<1>1. UNCHANGED <<scenario, rti, backlog, toRTI>> /\ proc[p].pc = "port" /\ Hears(p, "PORT")
      /\ proc \in [Procs -> Processes]
  BY OfProcess DEF PeerPort, Is
<1>2. /\ toProc'[p] = <<>> /\ \A q \in Procs \ {p} : toProc'[q] = toProc[q]
      /\ Quiet(p, toRTI[p]) /\ SentHold(p, toRTI[p]) /\ Busy(p)
  BY <1>1, Replied
<1>3. proc'[p].pc \in {"peers", "knock"} /\ \A q \in Procs \ {p} : proc'[q] = proc[q]
  <2>1. PICK pc \in {"peers", "knock"} : pc = IF Data(p) = NoPort THEN "peers" ELSE "knock"
    OBVIOUS
  <2>2. proc' = [proc EXCEPT ![p].peerPort = Data(p), ![p].pc = pc]
    BY <2>1 DEF PeerPort
  <2> QED
    BY <1>1, <2>2 DEF Processes
<1>4. TurnHolds(rti[p.fed], p, proc'[p], toProc'[p], toRTI'[p])
  BY <1>1, <1>2, <1>3, Settled
<1> QED
  BY <1>1, <1>2, <1>3, <1>4, BusyStep

LEMMA ConnectPeerFirst ==
    ASSUME StartInv, FirstInv, NEW p \in Procs, ConnectPeer(p)
    PROVE  FirstInv'
<1>1. UNCHANGED <<scenario, rti, toProc, toRTI>> /\ proc[p].pc = "knock"
      /\ Listens(proc[p].peerPort) /\ Queue(p, proc[p].peerPort) /\ Goes(p, "peer")
  BY DEF ConnectPeer, Is
<1>2. toProc[p] = <<>> /\ Quiet(p, toRTI[p]) /\ SentHold(p, toRTI[p]) /\ Busy(p)
  BY <1>1, Unasked, OfTurn DEF Busy
<1>3. OnlyMoves(p) /\ proc'[p].pc = "peer"
  BY <1>1, GoesTo
<1>4. port[proc[p].peerPort] \in Owners
  BY <1>1 DEF Listens, StartInv, StartTypeOK
<1>5. ConnectionsHold'
  BY <1>1, <1>2, <1>3, <1>4, Connects DEF Queue, OnlyMoves
<1>6. TurnHolds(rti[p.fed], p, proc'[p], toProc'[p], toRTI'[p])
  BY <1>1, <1>2, <1>3, Settled
<1> QED
  BY <1>1, <1>3, <1>5, <1>6, TurnStep DEF OnlyMoves

LEMMA PeerAnsweredFirst ==
    ASSUME StartInv, FirstInv, NEW p \in Procs, PeerAnswered(p)
    PROVE  FirstInv'
<1>1. UNCHANGED <<scenario, rti, backlog, toRTI>> /\ proc[p].pc = "peer"
      /\ (\E type : Hears(p, type)) /\ proc \in [Procs -> Processes]
  BY OfProcess DEF PeerAnswered, Is
<1>2. /\ toProc'[p] = <<>> /\ \A q \in Procs \ {p} : toProc'[q] = toProc[q]
      /\ Quiet(p, toRTI[p]) /\ SentHold(p, toRTI[p]) /\ Busy(p)
  BY <1>1, Replied
<1>3. proc'[p].pc \in {"peers", "knock", "quit"} /\ \A q \in Procs \ {p} : proc'[q] = proc[q]
  <2>1. \/ \E next : proc' = [proc EXCEPT ![p].next = next, ![p].pc = "peers"]
        \/ Goes(p, "knock") \/ Goes(p, "quit")
    BY DEF PeerAnswered
  <2> QED
    BY <1>1, <2>1 DEF Processes, Goes
<1>4. TurnHolds(rti[p.fed], p, proc'[p], toProc'[p], toRTI'[p])
  BY <1>1, <1>2, <1>3, Settled
<1> QED
  BY <1>1, <1>2, <1>3, <1>4, BusyStep

LEMMA StartTimeFirst ==
    ASSUME StartInv, FirstInv, NEW p \in Procs, StartTime(p)
    PROVE  FirstInv'
<1>1. UNCHANGED <<scenario, rti, backlog, toRTI>> /\ proc[p].pc = "start"
      /\ proc \in [Procs -> Processes] /\ DOMAIN toProc = Procs
  BY OfProcess DEF StartTime, Is
<1>2. TurnHolds(rti[p.fed], p, proc[p], toProc[p], toRTI[p]) /\ Busy(p)
  BY <1>1, OfTurn DEF Busy
<1>3. Quiet(p, toRTI[p]) /\ SentHold(p, toRTI[p])
  BY <1>1, <1>2, WasQuiet DEF TurnHolds
<1>4. \A q \in Procs \ {p} : toProc'[q] = toProc[q]
  BY <1>1 DEF StartTime
<1>5. proc'[p].pc \in {"running", "quit"} /\ \A q \in Procs \ {p} : proc'[q] = proc[q]
  <2>1. \/ \E start : proc' = [proc EXCEPT ![p].start = start, ![p].pc = "running"]
        \/ proc' = [proc EXCEPT ![p].pc = "quit"]
    BY DEF StartTime
  <2> QED
    BY <1>1, <2>1 DEF Processes
<1>6. TurnHolds(rti[p.fed], p, proc'[p], toProc'[p], toRTI'[p])
  BY <1>1, <1>3, <1>5, Settled
<1> QED
  BY <1>1, <1>2, <1>4, <1>5, <1>6, BusyStep

LEMMA ExecuteFirst ==
    ASSUME StartInv, FirstInv, NEW p \in Procs, Execute(p)
    PROVE  FirstInv'
<1>1. UNCHANGED <<scenario, rti, backlog, proc>> /\ proc[p].pc = "running"
      /\ DOMAIN toProc = Procs /\ IsQueue(toRTI[p]) /\ scenario \in Scenarios
  BY OfProcess DEF Execute, Is
<1>2. TurnHolds(rti[p.fed], p, proc[p], toProc[p], toRTI[p]) /\ Busy(p)
  BY <1>1, OfTurn DEF Busy
<1>3. Quiet(p, toRTI[p]) /\ SentHold(p, toRTI[p])
  BY <1>1, <1>2, WasQuiet DEF TurnHolds
<1>4. /\ \A q \in Procs \ {p} : toProc'[q] = toProc[q] /\ toRTI'[q] = toRTI[q]
      /\ Quiet(p, toRTI'[p]) /\ SentHold(p, toRTI'[p])
  <2>1. CASE UNCHANGED toProc /\ \E type \in scenario.sends : \E q \in Procs \ {p} :
                 q.id \in Ids(p.fed) /\ Write(p, <<Message(type, q.id)>>)
    <3>1. PICK type \in scenario.sends, q \in Procs \ {p} :
              q.id \in Ids(p.fed) /\ Write(p, <<Message(type, q.id)>>)
      BY <2>1
    <3> DEFINE m == Message(type, q.id)
    <3>2. type = "MSG"
      BY <1>1, ScenariosAssumption DEF FirstInv
    <3>3. m.type = "MSG" /\ m.data \in Ids(p.fed) /\ ~Question(p, m) /\ Write(p, <<m>>)
      BY <3>1, <3>2 DEF Message, Question
    <3> HIDE DEF m
    <3>4. toRTI'[p] = Append(toRTI[p], m) /\ \A r \in Procs \ {p} : toRTI'[r] = toRTI[r]
      BY <3>3, Written
    <3> QED
      BY <1>1, <1>3, <2>1, <3>3, <3>4, SaysOne
  <2>2. CASE UNCHANGED toRTI /\ toProc' = [toProc EXCEPT ![p] = Tail(@)]
    BY <1>1, <1>3, <2>2
  <2> QED
    BY <2>1, <2>2 DEF Execute
<1>5. TurnHolds(rti[p.fed], p, proc'[p], toProc'[p], toRTI'[p])
  BY <1>1, <1>4, Settled
<1> QED
  BY <1>1, <1>2, <1>4, <1>5, BusyStep

\* A process that waits at a server gets an answer.
LEMMA GetsAnswer ==
    ASSUME NEW R, NEW p, NEW me, NEW in, NEW out, TurnHolds(R, p, me, in, out),
           me.pc \in {"await", "peer"}, NEW s, Len(s) = 1,
           s[1].type \in {"ACK", "REJECT", "CLOSED"}
    PROVE  TurnHolds(R, p, me, s, out)
<1>1. QuestionsHold(p, me, s, out)
  BY WasQuiet, QuietHolds
<1>2. RepliesHold(me, s)
  BY DEF RepliesHold, Awaits
<1>3. ExchangesHold(R, p, me, s)
  BY DEF TurnHolds, ExchangesHold
<1> QED
  BY <1>1, <1>2, <1>3 DEF TurnHolds, FirstHolds

LEMMA AnswersTo ==
    ASSUME FirstInv, NEW q \in Procs, toProc[q] = <<>>, proc[q].pc \in {"await", "peer"},
           NEW m, m.type \in {"ACK", "REJECT", "CLOSED"}, toProc'[q] = Append(toProc[q], m)
    PROVE  TurnHolds(rti[q.fed], q, proc[q], toProc'[q], toRTI[q])
<1>1. TurnHolds(rti[q.fed], q, proc[q], toProc[q], toRTI[q])
  BY OfTurn
<1>2. PICK s : s = toProc'[q] /\ Len(s) = 1 /\ s[1] = m
  BY OneMessage
<1>3. TurnHolds(rti[q.fed], q, proc[q], s, toRTI[q])
  BY <1>1, <1>2, GetsAnswer
<1> QED
  BY <1>2, <1>3

\* Its state is the same, as far as questions and answers go.
LEMMA SameTurn ==
    ASSUME NEW R, NEW p, NEW me, NEW in, NEW out, TurnHolds(R, p, me, in, out),
           NEW next, next.pc = me.pc, next.left = me.left
    PROVE  TurnHolds(R, p, next, in, out)
<1>1. QuestionsHold(p, next, in, out) /\ RepliesHold(next, in)
  BY DEF TurnHolds, QuestionsHold, RepliesHold
<1>2. ExchangesHold(R, p, next, in) /\ FirstHolds(R, p, next, in)
  BY DEF TurnHolds, ExchangesHold, FirstHolds
<1> QED
  BY <1>1, <1>2 DEF TurnHolds

LEMMA AcceptPeerFirst ==
    ASSUME StartInv, FirstInv, NEW p \in Procs, AcceptPeer(p)
    PROVE  FirstInv'
<1>1. /\ UNCHANGED <<scenario, rti, toRTI>> /\ backlog[p] # <<>>
      /\ backlog' = [backlog EXCEPT ![p] = Tail(@)] /\ p \in Owners
  BY DEF AcceptPeer, Owners
<1> PICK q : q = Head(backlog[p])
  OBVIOUS
<1>2. \E m : /\ toProc' = [toProc EXCEPT ![q] = Append(@, m)]
             /\ m.type \in {"ACK", "REJECT"}
  <2>1. Tell(q, "ACK", p.id) \/ \E cause : Tell(q, "REJECT", cause)
    BY DEF AcceptPeer
  <2>2. ASSUME NEW type \in {"ACK", "REJECT"}, NEW data, Tell(q, type, data)
        PROVE  \E m : /\ toProc' = [toProc EXCEPT ![q] = Append(@, m)]
                      /\ m.type \in {"ACK", "REJECT"}
    <3>1. PICK m : m = Message(type, data)
      OBVIOUS
    <3>2. m.type = type
      BY <3>1 DEF Message
    <3> QED
      BY <2>2, <3>1, <3>2 DEF Tell
  <2> QED
    BY <2>1, <2>2
<1> PICK m : toProc' = [toProc EXCEPT ![q] = Append(@, m)] /\ m.type \in {"ACK", "REJECT"}
  BY <1>2
<1>3. \A r \in Procs : proc'[r].pc = proc[r].pc /\ proc'[r].left = proc[r].left
  <2>1. UNCHANGED proc \/ proc' = [proc EXCEPT ![p].accepted = @ + 1]
    BY DEF AcceptPeer
  <2>2. PICK accepted : UNCHANGED proc \/ proc' = [proc EXCEPT ![p].accepted = accepted]
    BY <2>1
  <2>3. proc \in [Procs -> Processes]
    BY OfProcess
  <2> QED
    BY <2>2, <2>3 DEF Processes
<1>4. DOMAIN toProc = Procs /\ \A r \in Procs \ {q} : toProc'[r] = toProc[r]
  BY OfProcess
<1>5. /\ ConnectionsHold' /\ q \in Procs
      /\ proc[q].pc \in {"await", "peer"} /\ toProc[q] = <<>>
  BY <1>1, <1>3, <1>4, TakesNext
<1>6. TurnHolds(rti[q.fed], q, proc[q], toProc'[q], toRTI[q])
  <2>1. toProc'[q] = Append(toProc[q], m)
    BY <1>4, <1>5
  <2>2. PICK s : s = toProc'[q] /\ Len(s) = 1 /\ s[1] = m
    BY <1>5, <2>1, OneMessage
  <2>3. TurnHolds(rti[q.fed], q, proc[q], toProc[q], toRTI[q])
    BY <1>5, OfTurn
  <2>4. TurnHolds(rti[q.fed], q, proc[q], s, toRTI[q])
    BY <1>5, <2>2, <2>3, GetsAnswer
  <2> QED
    BY <2>2, <2>4
<1>7. ASSUME NEW r \in Procs
      PROVE  TurnHolds(rti'[r.fed], r, proc'[r], toProc'[r], toRTI'[r])
  <2>1. TurnHolds(rti[r.fed], r, proc[r], toProc'[r], toRTI[r])
    BY <1>4, <1>6, OfTurn
  <2> QED
    BY <1>1, <1>3, <2>1, SameTurn
<1>8. \A n \in Federations : TimesHold(n, rti'[n])
  BY <1>1 DEF FirstInv
<1> QED
  BY <1>1, <1>5, <1>7, <1>8, FirstNext

LEMMA ResignFirst ==
    ASSUME StartInv, FirstInv, NEW p \in Procs, Resign(p)
    PROVE  FirstInv'
<1>1. UNCHANGED <<scenario, rti>> /\ proc[p].pc = "running" /\ Close(p) /\ Goes(p, "left")
      /\ p \in Owners /\ IsQueue(toRTI[p])
  BY OfProcess DEF Resign, Is, Owners
<1>2. TurnHolds(rti[p.fed], p, proc[p], toProc[p], toRTI[p]) /\ Busy(p)
  BY <1>1, OfTurn DEF Busy
<1>3. Quiet(p, toRTI[p]) /\ SentHold(p, toRTI[p])
  BY <1>1, <1>2, WasQuiet DEF TurnHolds
<1>4. OnlyMoves(p) /\ proc'[p].pc = "left"
  BY <1>1, GoesTo
<1> DEFINE m == Message("RESIGN", 0)
<1>5. m.type = "RESIGN" /\ ~Question(p, m) /\ Write(p, <<m>>)
  BY DEF Resign, Message, Question
<1> HIDE DEF m
<1>6. toRTI'[p] = Append(toRTI[p], m) /\ \A q \in Procs \ {p} : toRTI'[q] = toRTI[q]
  BY <1>5, Written
<1>7. Quiet(p, toRTI'[p]) /\ SentHold(p, toRTI'[p])
  BY <1>1, <1>3, <1>5, <1>6, SaysOne
<1>8. /\ ConnectionsHold'
      /\ \A q \in Procs : \/ toProc'[q] = toProc[q]
                          \/ /\ toProc'[q] = Append(toProc[q], Message("CLOSED", 0))
                             /\ toProc[q] = <<>> /\ proc[q].pc \in {"await", "peer"}
  BY <1>1, <1>2, <1>4, Disconnects DEF OnlyMoves
<1>9. ASSUME NEW q \in Procs
      PROVE  TurnHolds(rti'[q.fed], q, proc'[q], toProc'[q], toRTI'[q])
  <2>1. CASE q = p
    BY <1>4, <1>7, <2>1, Settled
  <2>2. CASE q # p
    <3>1. proc'[q] = proc[q] /\ toRTI'[q] = toRTI[q]
      BY <1>4, <1>6, <2>2 DEF OnlyMoves
    <3>2. Message("CLOSED", 0).type = "CLOSED"
      BY DEF Message
    <3>3. TurnHolds(rti[q.fed], q, proc[q], toProc[q], toRTI[q])
      BY OfTurn
    <3>4. PICK c : c = Message("CLOSED", 0) /\ c.type \in {"ACK", "REJECT", "CLOSED"}
      BY <3>2
    <3>5. \/ toProc'[q] = toProc[q]
          \/ toProc'[q] = Append(toProc[q], c) /\ toProc[q] = <<>>
             /\ proc[q].pc \in {"await", "peer"}
      BY <1>8, <3>4
    <3>6. TurnHolds(rti[q.fed], q, proc[q], toProc'[q], toRTI[q])
      BY <3>3, <3>4, <3>5, AnswersTo
    <3> QED
      BY <1>1, <3>1, <3>6
  <2> QED
    BY <2>1, <2>2
<1>10. \A n \in Federations : TimesHold(n, rti'[n])
  BY <1>1 DEF FirstInv
<1> QED
  BY <1>1, <1>8, <1>9, <1>10, FirstNext

-----------------------------------------------------------------------------
(* The steps of an RTI, again.                                             *)

\* An RTI is in another state, in which it synchronizes no other process.
LEMMA OtherServer ==
    ASSUME NEW R, NEW p, NEW me, NEW in, NEW out, TurnHolds(R, p, me, in, out),
           NEW S, p \in S.answered <=> p \in R.answered,
           Syncing(S, p) => Syncing(R, p) /\ S.left = R.left
    PROVE  TurnHolds(S, p, me, in, out)
<1>1. ExchangesHold(S, p, me, in)
  BY DEF TurnHolds, ExchangesHold
<1>2. FirstHolds(S, p, me, in)
  BY DEF TurnHolds, FirstHolds
<1> QED
  BY <1>1, <1>2 DEF TurnHolds

\* No other RTI changes.
OnlyServer(n, R) == rti'[n] = R /\ \A o \in Federations \ {n} : rti'[o] = rti[o]

LEMMA ServerState ==
    ASSUME StartInv, NEW n \in Federations, NEW R,
           rti' = [rti EXCEPT ![n] = R] \/ (UNCHANGED rti /\ R = rti[n])
    PROVE  OnlyServer(n, R)
  BY OfServer DEF OnlyServer

\* When it grants nothing, the times are right as before.
LEMMA SameTimes ==
    ASSUME NEW n, NEW R, TimesHold(n, R), NEW S, S.answered = R.answered, S.socket = R.socket,
           S.proposed = R.proposed,
           \A id \in Ids(n) : S.state[id] = "GRANTED" => R.state[id] = "GRANTED"
    PROVE  TimesHold(n, S)
<1>1. \A p \in S.answered : TalksTo(S, p) /\ Agreed(n, S)
  BY DEF TimesHold, TalksTo, Agreed
<1> QED
  BY <1>1 DEF TimesHold

LEMMA ServerTurn ==
    ASSUME StartInv, FirstInv, UNCHANGED <<scenario, proc>>, ConnectionsHold',
           NEW n \in Federations, NEW R, OnlyServer(n, R), TimesHold(n, R),
           \A q \in Procs :
               TurnHolds(IF q.fed = n THEN R ELSE rti[q.fed], q, proc[q], toProc'[q], toRTI'[q])
    PROVE  FirstInv'
<1>1. rti'[n] = R /\ \A o \in Federations \ {n} : rti'[o] = rti[o]
  BY DEF OnlyServer
<1>2. \A o \in Federations : TimesHold(o, rti'[o])
  BY <1>1 DEF FirstInv
<1>3. ASSUME NEW q \in Procs
      PROVE  TurnHolds(rti'[q.fed], q, proc'[q], toProc'[q], toRTI'[q])
  <2>1. rti'[q.fed] = IF q.fed = n THEN R ELSE rti[q.fed]
    BY <1>1, OfProcess
  <2> QED
    BY <2>1
<1> QED
  BY <1>2, <1>3, FirstNext

\* The step of a thread that reads what p has said and writes to q.
Passes(n, R, p, q) ==
    /\ p \in Procs /\ q \in Procs /\ p.fed = n /\ q.fed = n
    /\ \A r \in Procs \ {p} : toRTI'[r] = toRTI[r]
    /\ \A r \in Procs \ {q} : toProc'[r] = toProc[r]
    /\ Busy(q) \/ toProc'[q] = toProc[q]
    /\ \A r \in Procs \ {p, q} : /\ r \in R.answered <=> r \in rti[n].answered
                                 /\ Syncing(R, r) => Syncing(rti[n], r) /\ R.left = rti[n].left
    /\ TurnHolds(R, p, proc[p], toProc'[p], toRTI'[p])
    /\ TurnHolds(R, q, proc[q], toProc'[q], toRTI'[q])

LEMMA ThreadTurn ==
    ASSUME StartInv, FirstInv, UNCHANGED <<scenario, backlog, proc>>,
           NEW n \in Federations, NEW R, OnlyServer(n, R), TimesHold(n, R),
           NEW p, NEW q, Passes(n, R, p, q)
    PROVE  FirstInv'
<1>1. ConnectionsHold'
  BY SameConnections DEF Passes
<1>2. ASSUME NEW r \in Procs
      PROVE  TurnHolds(IF r.fed = n THEN R ELSE rti[r.fed], r, proc[r], toProc'[r], toRTI'[r])
  <2>1. TurnHolds(rti[r.fed], r, proc[r], toProc[r], toRTI[r])
    BY OfTurn
  <2>2. CASE r \in {p, q}
    BY <2>2 DEF Passes
  <2>3. CASE r \notin {p, q} /\ r.fed = n
    <3>1. TurnHolds(R, r, proc[r], toProc[r], toRTI[r])
      BY <2>1, <2>3, OtherServer DEF Passes
    <3> QED
      BY <2>3, <3>1 DEF Passes
  <2>4. CASE r.fed # n
    BY <2>1, <2>4 DEF Passes
  <2> QED
    BY <2>2, <2>3, <2>4
<1> QED
  BY <1>1, <1>2, ServerTurn

\* It writes to the same process.
LEMMA OwnTurn ==
    ASSUME StartInv, FirstInv, UNCHANGED <<scenario, backlog, proc>>,
           NEW n \in Federations, NEW R, OnlyServer(n, R), TimesHold(n, R),
           NEW p \in Procs, p.fed = n, Busy(p),
           \A r \in Procs \ {p} : toRTI'[r] = toRTI[r] /\ toProc'[r] = toProc[r],
           \A r \in Procs \ {p} : /\ r \in R.answered <=> r \in rti[n].answered
                                  /\ Syncing(R, r) => Syncing(rti[n], r) /\ R.left = rti[n].left,
           TurnHolds(R, p, proc[p], toProc'[p], toRTI'[p])
    PROVE  FirstInv'
<1>1. Passes(n, R, p, p)
  BY DEF Passes
<1> QED
  BY <1>1, ThreadTurn

\* Nothing is said, and the RTI synchronizes nobody that it did not synchronize.
LEMMA SilentTurn ==
    ASSUME StartInv, FirstInv, UNCHANGED <<scenario, backlog, proc, toProc, toRTI>>,
           NEW n \in Federations, NEW R, OnlyServer(n, R),
           TimesHold(n, R), R.answered = rti[n].answered,
           R.pc # "T3" \/ (R.pc = rti[n].pc /\ R.with = rti[n].with /\ R.left = rti[n].left)
    PROVE  FirstInv'
<1>1. ConnectionsHold'
  BY SameConnections
<1>2. ASSUME NEW r \in Procs
      PROVE  TurnHolds(IF r.fed = n THEN R ELSE rti[r.fed], r, proc[r], toProc'[r], toRTI'[r])
  <2>1. TurnHolds(rti[r.fed], r, proc[r], toProc[r], toRTI[r])
    BY OfTurn
  <2>2. r.fed = n => TurnHolds(R, r, proc[r], toProc[r], toRTI[r])
    BY <2>1, OtherServer DEF Syncing
  <2> QED
    BY <2>1, <2>2
<1> QED
  BY <1>1, <1>2, ServerTurn

LEMMA StartRTIFirst ==
    ASSUME StartInv, FirstInv, NEW n \in Federations, StartRTI(n)
    PROVE  FirstInv'
<1>1. UNCHANGED <<scenario, backlog, proc, toProc, toRTI>>
  BY DEF StartRTI
<1>2. PICK S \in Servers(n) : S = rti[n]
  BY OfServer
<1>3. PICK R : R = [S EXCEPT !.pc = "accept"]
  OBVIOUS
<1>4. /\ R.pc = "accept" /\ R.answered = S.answered /\ R.socket = S.socket
      /\ R.proposed = S.proposed /\ R.state = S.state
  BY <1>3 DEF Servers
<1>5. OnlyServer(n, R)
  BY <1>2, <1>3, ServerState DEF StartRTI
<1>6. TimesHold(n, R)
  <2>1. TimesHold(n, S)
    BY <1>2 DEF FirstInv
  <2>2. \A id \in Ids(n) : R.state[id] = "GRANTED" => S.state[id] = "GRANTED"
    BY <1>4
  <2> QED
    BY <1>4, <2>1, <2>2, SameTimes
<1> QED
  BY <1>1, <1>2, <1>4, <1>5, <1>6, SilentTurn

LEMMA RespondTimeoutFirst ==
    ASSUME StartInv, FirstInv, NEW n \in Federations, RespondTimeout(n)
    PROVE  FirstInv'
<1>1. UNCHANGED <<scenario, backlog, proc, toProc, toRTI>>
  BY DEF RespondTimeout
<1>2. PICK S \in Servers(n) : S = rti[n]
  BY OfServer
<1>3. PICK R : R = [S EXCEPT !.responder = "over"]
  OBVIOUS
<1>4. /\ R.pc = S.pc /\ R.with = S.with /\ R.left = S.left
      /\ R.answered = S.answered /\ R.socket = S.socket
      /\ R.proposed = S.proposed /\ R.state = S.state
  BY <1>3 DEF Servers
<1>5. OnlyServer(n, R)
  BY <1>2, <1>3, ServerState DEF RespondTimeout
<1>6. TimesHold(n, R)
  <2>1. TimesHold(n, S)
    BY <1>2 DEF FirstInv
  <2>2. \A id \in Ids(n) : R.state[id] = "GRANTED" => S.state[id] = "GRANTED"
    BY <1>4
  <2> QED
    BY <1>4, <2>1, <2>2, SameTimes
<1> QED
  BY <1>1, <1>2, <1>4, <1>5, <1>6, SilentTurn

\* The server of an RTI answers the next connection.
Replies(n, q, m) ==
    /\ UNCHANGED <<scenario, proc, toRTI>> /\ backlog[RTIOf(n)] # <<>>
    /\ backlog' = [backlog EXCEPT ![RTIOf(n)] = Tail(@)] /\ q = Head(backlog[RTIOf(n)])
    /\ m.type \in {"ACK", "REJECT"} /\ toProc' = [toProc EXCEPT ![q] = Append(@, m)]

LEMMA ReplyTurn ==
    ASSUME StartInv, FirstInv, NEW n \in Federations, NEW q, NEW m, Replies(n, q, m),
           NEW R, OnlyServer(n, R), TimesHold(n, R), R.answered = rti[n].answered,
           R.pc # "T3" \/ (R.pc = rti[n].pc /\ R.with = rti[n].with /\ R.left = rti[n].left)
    PROVE  FirstInv'
<1>1. /\ UNCHANGED <<scenario, proc, toRTI>> /\ backlog[RTIOf(n)] # <<>>
      /\ backlog' = [backlog EXCEPT ![RTIOf(n)] = Tail(@)] /\ q = Head(backlog[RTIOf(n)])
      /\ m.type \in {"ACK", "REJECT"} /\ toProc' = [toProc EXCEPT ![q] = Append(@, m)]
  BY DEF Replies
<1>2. DOMAIN toProc = Procs /\ RTIOf(n) \in Owners
  BY OfServer
<1>3. \A r \in Procs \ {q} : toProc'[r] = toProc[r]
  BY <1>1, <1>2
<1>4. /\ ConnectionsHold' /\ q \in Procs
      /\ proc[q].pc \in {"await", "peer"} /\ toProc[q] = <<>>
  BY <1>1, <1>2, <1>3, TakesNext
<1>5. TurnHolds(rti[q.fed], q, proc[q], toProc'[q], toRTI[q])
  <2>1. toProc'[q] = Append(toProc[q], m)
    BY <1>1, <1>2, <1>4
  <2>2. PICK s : s = toProc'[q] /\ Len(s) = 1 /\ s[1] = m
    BY <1>4, <2>1, OneMessage
  <2>3. TurnHolds(rti[q.fed], q, proc[q], toProc[q], toRTI[q])
    BY <1>4, OfTurn
  <2>4. TurnHolds(rti[q.fed], q, proc[q], s, toRTI[q])
    BY <1>1, <1>4, <2>2, <2>3, GetsAnswer
  <2> QED
    BY <2>2, <2>4
<1>6. ASSUME NEW r \in Procs
      PROVE  TurnHolds(IF r.fed = n THEN R ELSE rti[r.fed], r, proc[r], toProc'[r], toRTI'[r])
  <2>1. TurnHolds(rti[r.fed], r, proc[r], toProc'[r], toRTI[r])
    BY <1>1, <1>3, <1>5, OfTurn
  <2>2. r.fed = n => TurnHolds(R, r, proc[r], toProc'[r], toRTI[r])
    BY <2>1, OtherServer DEF Syncing
  <2> QED
    BY <1>1, <2>1, <2>2
<1> QED
  BY <1>1, <1>4, <1>6, ServerTurn

LEMMA RespondFirst ==
    ASSUME StartInv, FirstInv, NEW n \in Federations, Respond(n)
    PROVE  FirstInv'
<1>1. PICK q : q = Head(backlog[RTIOf(n)])
  OBVIOUS
<1>2. PICK m : m = Message("REJECT", "FEDERATION_ID_DOES_NOT_MATCH")
  OBVIOUS
<1>3. Replies(n, q, m) /\ UNCHANGED rti
  BY <1>1, <1>2 DEF Respond, Tell, Message, Replies
<1>4. OnlyServer(n, rti[n])
  BY <1>3 DEF OnlyServer
<1>5. TimesHold(n, rti[n])
  BY DEF FirstInv
<1> QED
  BY <1>3, <1>4, <1>5, ReplyTurn

LEMMA AcceptFirst ==
    ASSUME StartInv, FirstInv, NEW n \in Federations, Accept(n)
    PROVE  FirstInv'
<1>1. PICK q : q = Head(backlog[RTIOf(n)])
  OBVIOUS
<1>2. /\ UNCHANGED <<scenario, proc, toRTI>> /\ backlog[RTIOf(n)] # <<>>
      /\ backlog' = [backlog EXCEPT ![RTIOf(n)] = Tail(@)] /\ rti[n].pc = "accept"
  BY DEF Accept
<1>3. CASE Cause(n, q) # "none"
  <2>1. PICK m : m = Message("REJECT", Cause(n, q))
    OBVIOUS
  <2>2. UNCHANGED rti /\ m.type = "REJECT" /\ toProc' = [toProc EXCEPT ![q] = Append(@, m)]
    BY <1>1, <1>3, <2>1 DEF Accept, Tell, Message
  <2>3. Replies(n, q, m)
    BY <1>1, <1>2, <2>2 DEF Replies
  <2>4. OnlyServer(n, rti[n])
    BY <2>2 DEF OnlyServer
  <2>5. TimesHold(n, rti[n])
    BY DEF FirstInv
  <2> QED
    BY <2>3, <2>4, <2>5, ReplyTurn
<1>4. CASE Cause(n, q) = "none"
  <2>1. PICK m : m = Message("ACK", 0)
    OBVIOUS
  <2>2. m.type = "ACK" /\ toProc' = [toProc EXCEPT ![q] = Append(@, m)]
    BY <1>1, <1>4, <2>1 DEF Accept, Tell, Message
  <2>3. Replies(n, q, m)
    BY <1>1, <1>2, <2>2 DEF Replies
  <2>4. PICK id : id = q.id
    OBVIOUS
  <2>5. /\ id \in Ids(n) /\ rti[n].state[id] = "NOT_CONNECTED"
        /\ rti' = [rti EXCEPT ![n].pc = "neighbors", ![n].with = q,
                              ![n].state[id] = "PENDING", ![n].socket[id] = q]
    BY <1>1, <1>4, <2>4 DEF Accept, Cause
  <2>6. PICK S \in Servers(n) : S = rti[n] /\ ServerHolds(n, S)
    BY OfServer
  <2>7. PICK R : R = [S EXCEPT !.pc = "neighbors", !.with = q,
                               !.state[id] = "PENDING", !.socket[id] = q]
    OBVIOUS
  <2>8. OnlyServer(n, R)
    <3>1. n \in DOMAIN rti
      BY OfServer
    <3>2. rti' = [rti EXCEPT ![n] = R]
      BY <2>5, <2>6, <2>7, <3>1, ZenonT(60)
    <3> QED
      BY <3>2, ServerState
  <2>9. /\ R.pc = "neighbors" /\ R.answered = S.answered
        /\ R.state = [S.state EXCEPT ![id] = "PENDING"]
    BY <2>7 DEF Servers
  <2>10. ~Agreed(n, S) /\ TimesHold(n, S)
    BY <1>2, <2>6 DEF ServerHolds, JoiningHolds, Joining, FirstInv
  <2>11. S.answered = {} /\ \A i \in Ids(n) : S.state[i] # "GRANTED"
    BY <2>10 DEF TimesHold
  <2>12. TimesHold(n, R)
    <3>1. R.answered = {}
      BY <2>9, <2>11
    <3>2. \A i \in Ids(n) : R.state[i] # "GRANTED"
      <4>1. S.state \in [Ids(n) -> {"NOT_CONNECTED", "PENDING", "GRANTED"}]
        BY DEF Servers
      <4> QED
        BY <2>9, <2>11, <4>1
    <3> QED
      BY <3>1, <3>2 DEF TimesHold
  <2> QED
    BY <2>3, <2>6, <2>8, <2>9, <2>12, ReplyTurn
<1> QED
  BY <1>3, <1>4

\* A thread reads what a process has said.
LEMMA ReadTurn ==
    ASSUME StartInv, FirstInv, NEW n \in Federations, NEW p \in Procs, p.fed = n,
           NEW type, Reads(n, p, type), NEW R, R.answered = rti[n].answered,
           Syncing(R, p) => Syncing(rti[n], p) /\ R.left = rti[n].left
    PROVE  /\ TurnHolds(R, p, proc[p], toProc[p], toRTI'[p])
           /\ \A r \in Procs \ {p} : toRTI'[r] = toRTI[r]
<1>1. /\ DOMAIN toRTI = Procs /\ toRTI[p] # <<>> /\ IsQueue(toRTI[p])
      /\ toRTI'[p] = Tail(toRTI[p]) /\ \A r \in Procs \ {p} : toRTI'[r] = toRTI[r]
  BY OfProcess DEF Reads
<1>2. TurnHolds(rti[n], p, proc[p], toProc[p], toRTI[p])
  BY OfTurn
<1>3. QuestionsHold(p, proc[p], toProc[p], toRTI'[p]) /\ SentHold(p, toRTI'[p])
  BY <1>1, <1>2, ReadOne DEF TurnHolds
<1>4. TurnHolds(rti[n], p, proc[p], toProc[p], toRTI'[p])
  BY <1>2, <1>3 DEF TurnHolds
<1>5. TurnHolds(R, p, proc[p], toProc[p], toRTI'[p])
  BY <1>4, OtherServer
<1> QED
  BY <1>1, <1>5

\* It reads, and nothing else is said.
LEMMA ReadStep ==
    ASSUME StartInv, FirstInv, UNCHANGED <<scenario, backlog, proc, toProc>>,
           NEW n \in Federations, NEW p \in Procs, p.fed = n, NEW type, Reads(n, p, type),
           NEW R, OnlyServer(n, R), TimesHold(n, R), R.answered = rti[n].answered,
           R.pc # "T3" \/ (R.pc = rti[n].pc /\ R.with = rti[n].with /\ R.left = rti[n].left)
    PROVE  FirstInv'
<1>1. \A r \in Procs : Syncing(R, r) => Syncing(rti[n], r) /\ R.left = rti[n].left
  BY DEF Syncing
<1>2. /\ TurnHolds(R, p, proc[p], toProc[p], toRTI'[p])
      /\ \A r \in Procs \ {p} : toRTI'[r] = toRTI[r]
  BY <1>1, ReadTurn
<1>3. toProc'[p] = toProc[p] /\ \A r \in Procs \ {p} : toProc'[r] = toProc[r]
  OBVIOUS
<1>4. TurnHolds(R, p, proc[p], toProc'[p], toRTI'[p])
  BY <1>2, <1>3
<1>5. Passes(n, R, p, p)
  BY <1>1, <1>2, <1>3, <1>4 DEF Passes
<1> QED
  BY <1>5, ThreadTurn

LEMMA HandleResignFirst ==
    ASSUME StartInv, FirstInv, NEW n \in Federations, NEW p, HandleResign(n, p)
    PROVE  FirstInv'
<1>1. UNCHANGED <<scenario, backlog, proc, toProc>> /\ p \in rti[n].served
      /\ Reads(n, p, "RESIGN")
  BY DEF HandleResign, Threads
<1>2. p \in Procs /\ p.fed = n /\ p.id \in Ids(n)
  BY <1>1, OwnProcess
<1>3. PICK S \in Servers(n) : S = rti[n]
  BY OfServer
<1>4. PICK state : state = [S.state EXCEPT ![p.id] = "NOT_CONNECTED"]
  OBVIOUS
<1>5. PICK served : served = S.served \ {p}
  OBVIOUS
<1>6. PICK R : R = [S EXCEPT !.state = state, !.served = served]
  OBVIOUS
<1>7. OnlyServer(n, R)
  <2>1. rti' = [rti EXCEPT ![n] = R]
    BY <1>3, <1>4, <1>5, <1>6 DEF HandleResign
  <2> QED
    BY <2>1, ServerState
<1>8. /\ R.pc = S.pc /\ R.with = S.with /\ R.left = S.left /\ R.answered = S.answered
      /\ R.socket = S.socket /\ R.proposed = S.proposed /\ R.state = state
  BY <1>6 DEF Servers
<1>9. TimesHold(n, R)
  <2>1. \A id \in Ids(n) : R.state[id] = "GRANTED" => S.state[id] = "GRANTED"
    <3>1. S.state \in [Ids(n) -> {"NOT_CONNECTED", "PENDING", "GRANTED"}]
      BY DEF Servers
    <3> QED
      BY <1>4, <1>8, <3>1
  <2>2. TimesHold(n, S)
    BY <1>3 DEF FirstInv
  <2> QED
    BY <1>8, <2>1, <2>2, SameTimes
<1> QED
  BY <1>1, <1>2, <1>3, <1>7, <1>8, <1>9, ReadStep

LEMMA HandleTimestampFirst ==
    ASSUME StartInv, FirstInv, NEW n \in Federations, NEW p, HandleTimestamp(n, p)
    PROVE  FirstInv'
<1>1. UNCHANGED <<scenario, backlog, proc, toProc>>
      /\ p \in rti[n].served \ rti[n].proposing /\ Reads(n, p, "TIMESTAMP")
  BY DEF HandleTimestamp, Threads
<1>2. p \in Procs /\ p.fed = n /\ TalksTo(rti[n], p)
  BY <1>1, OwnProcess
<1>3. PICK S \in Servers(n) : S = rti[n]
  BY OfServer
<1>4. PICK proposing, proposed, maxStart :
          rti' = [rti EXCEPT ![n].proposed = proposed, ![n].proposing = proposing,
                             ![n].maxStart = maxStart]
  BY DEF HandleTimestamp
<1>5. PICK R : R = [S EXCEPT !.proposed = proposed, !.proposing = proposing,
                             !.maxStart = maxStart]
  OBVIOUS
<1>6. OnlyServer(n, R)
  <2>1. n \in DOMAIN rti
    BY OfServer
  <2>2. rti' = [rti EXCEPT ![n] = R]
    BY <1>3, <1>4, <1>5, <2>1
  <2> QED
    BY <2>2, ServerState
<1>7. /\ R.pc = S.pc /\ R.with = S.with /\ R.left = S.left /\ R.answered = S.answered
      /\ R.state = S.state
  BY <1>5 DEF Servers
<1>8. TimesHold(n, R)
  <2>1. Has(toRTI[p], "TIMESTAMP")
    BY <1>1, <1>2, WasRead
  <2>2. ~Agreed(n, S)
    BY <1>2, <1>3, <2>1, OfProcess DEF ProcessHolds, CountedHolds
  <2>3. TimesHold(n, S)
    BY <1>3 DEF FirstInv
  <2>4. S.answered = {} /\ \A id \in Ids(n) : S.state[id] # "GRANTED"
    BY <2>2, <2>3 DEF TimesHold
  <2> QED
    BY <1>7, <2>4 DEF TimesHold
<1> QED
  BY <1>1, <1>2, <1>3, <1>6, <1>7, <1>8, ReadStep

\* What a process may read at any time comes after what it has to read first.
LEMMA LaterTurn ==
    ASSUME NEW R, NEW p, NEW me, NEW in, NEW out, TurnHolds(R, p, me, in, out), IsQueue(in),
           me.pc \in {"start", "running", "left", "quit"}, me.pc = "start" => p \in R.answered,
           NEW m
    PROVE  TurnHolds(R, p, me, Append(in, m), out)
<1>1. PICK s : s = Append(in, m)
  OBVIOUS
<1>2. in # <<>> => s # <<>> /\ Head(s) = Head(in)
  BY <1>1 DEF IsQueue
<1>3. QuestionsHold(p, me, s, out)
  BY WasQuiet, QuietHolds
<1>4. RepliesHold(me, s) /\ ExchangesHold(R, p, me, s)
  BY DEF RepliesHold, ExchangesHold
<1>5. FirstHolds(R, p, me, s)
  BY <1>2 DEF TurnHolds, FirstHolds
<1>6. TurnHolds(R, p, me, s, out)
  BY <1>3, <1>4, <1>5 DEF TurnHolds
<1> QED
  BY <1>1, <1>6

\* The start time is the first that a process that waits for it gets.
LEMMA TimeTurn ==
    ASSUME NEW R, NEW p, NEW me, NEW in, NEW out, TurnHolds(R, p, me, in, out), IsQueue(in),
           me.pc \in {"start", "running", "left", "quit"}, p \notin R.answered,
           NEW m, m.type = "TIMESTAMP", NEW S, p \in S.answered
    PROVE  TurnHolds(S, p, me, Append(in, m), out)
<1>1. PICK s : s = Append(in, m)
  OBVIOUS
<1>2. in = <<>> => s # <<>> /\ Head(s) = m
  <2>1. in = <<>> => s = Append(<<>>, m)
    BY <1>1
  <2> QED
    BY <2>1, OneMessage
<1>3. QuestionsHold(p, me, s, out)
  BY WasQuiet, QuietHolds
<1>4. RepliesHold(me, s) /\ ExchangesHold(S, p, me, s)
  BY DEF RepliesHold, ExchangesHold
<1>5. FirstHolds(S, p, me, s)
  BY <1>2 DEF TurnHolds, FirstHolds
<1>6. TurnHolds(S, p, me, s, out)
  BY <1>3, <1>4, <1>5 DEF TurnHolds
<1> QED
  BY <1>1, <1>6

LEMMA SendStartTimeFirst ==
    ASSUME StartInv, FirstInv, NEW n \in Federations, NEW p, SendStartTime(n, p)
    PROVE  FirstInv'
<1>1. UNCHANGED <<scenario, backlog, proc, toRTI>> /\ p \in rti[n].proposing
      /\ Agreed(n, rti[n])
  BY DEF SendStartTime, Agreed
<1>2. p \in Procs /\ p.fed = n /\ p.id \in Ids(n) /\ TalksTo(rti[n], p)
  BY <1>1, OwnProcess
<1>3. PICK S \in Servers(n) : S = rti[n]
  BY OfServer
<1>4. TurnHolds(S, p, proc[p], toProc[p], toRTI[p]) /\ IsQueue(toProc[p])
      /\ DOMAIN toProc = Procs
  BY <1>2, <1>3, OfTurn, OfProcess
<1>5. proc[p].pc \in {"start", "running", "left", "quit"}
  BY <1>1, <1>2, OfProcess DEF ProcessHolds, CountedHolds
<1>6. TimesHold(n, S)
  BY <1>3 DEF FirstInv
<1>7. CASE p \notin S.answered
  <2>1. PICK answered : answered = S.answered \cup {p}
    OBVIOUS
  <2>2. PICK R : R = [S EXCEPT !.answered = answered]
    OBVIOUS
  <2>3. PICK m : m = Message("TIMESTAMP", S.maxStart + DELAY_START)
    OBVIOUS
  <2>4. OnlyServer(n, R)
    <3>1. rti' = [rti EXCEPT ![n] = R]
      BY <1>3, <1>7, <2>1, <2>2 DEF SendStartTime
    <3> QED
      BY <3>1, ServerState
  <2>5. /\ R.pc = S.pc /\ R.with = S.with /\ R.left = S.left /\ R.answered = answered
        /\ R.socket = S.socket /\ R.proposed = S.proposed /\ R.state = S.state
    BY <2>2 DEF Servers
  <2>6. m.type = "TIMESTAMP" /\ toProc' = [toProc EXCEPT ![p] = Append(@, m)]
    BY <1>3, <1>7, <2>3 DEF SendStartTime, Tell, Message
  <2>7. toProc'[p] = Append(toProc[p], m) /\ \A r \in Procs \ {p} : toProc'[r] = toProc[r]
    BY <1>2, <1>4, <2>6
  <2>8. TimesHold(n, R)
    <3>1. \A q \in R.answered : TalksTo(R, q) /\ Agreed(n, R)
      BY <1>1, <1>2, <1>3, <1>6, <2>1, <2>5 DEF TimesHold, TalksTo, Agreed
    <3>2. \A id \in Ids(n) : R.state[id] = "GRANTED" => R.socket[id] \in R.answered
      BY <1>6, <2>1, <2>5 DEF TimesHold
    <3> QED
      BY <3>1, <3>2 DEF TimesHold
  <2>9. TurnHolds(R, p, proc[p], toProc'[p], toRTI'[p])
    <3>1. TurnHolds(R, p, proc[p], Append(toProc[p], m), toRTI[p])
      BY <1>4, <1>5, <1>7, <2>1, <2>5, <2>6, TimeTurn
    <3> QED
      BY <1>1, <2>7, <3>1
  <2>10. \A r \in Procs \ {p} : /\ r \in R.answered <=> r \in rti[n].answered
                                /\ Syncing(R, r) => Syncing(rti[n], r) /\ R.left = rti[n].left
    BY <1>3, <2>1, <2>5 DEF Syncing
  <2>11. Busy(p) /\ \A r \in Procs \ {p} : toRTI'[r] = toRTI[r] /\ toProc'[r] = toProc[r]
    BY <1>1, <1>5, <2>7 DEF Busy
  <2> QED
    BY <1>1, <1>2, <2>4, <2>8, <2>9, <2>10, <2>11, OwnTurn
<1>8. CASE p \in S.answered
  <2>1. PICK state, proposing : /\ state = [S.state EXCEPT ![p.id] = "GRANTED"]
                                /\ proposing = S.proposing \ {p}
    OBVIOUS
  <2>2. PICK R : R = [S EXCEPT !.state = state, !.proposing = proposing]
    OBVIOUS
  <2>3. OnlyServer(n, R) /\ UNCHANGED toProc
    <3>1. rti' = [rti EXCEPT ![n] = R] /\ UNCHANGED toProc
      BY <1>3, <1>8, <2>1, <2>2 DEF SendStartTime
    <3> QED
      BY <3>1, ServerState
  <2>4. /\ R.pc = S.pc /\ R.with = S.with /\ R.left = S.left /\ R.answered = S.answered
        /\ R.socket = S.socket /\ R.proposed = S.proposed /\ R.state = state
    BY <2>2 DEF Servers
  <2>5. TimesHold(n, R)
    <3>1. \A q \in R.answered : TalksTo(R, q) /\ Agreed(n, R)
      BY <1>6, <2>4 DEF TimesHold, TalksTo, Agreed
    <3>2. S.state \in [Ids(n) -> {"NOT_CONNECTED", "PENDING", "GRANTED"}]
      BY DEF Servers
    <3>3. S.socket[p.id] = p
      BY <1>2, <1>3 DEF TalksTo
    <3>4. ASSUME NEW id \in Ids(n), R.state[id] = "GRANTED" PROVE R.socket[id] \in R.answered
      <4>1. CASE id = p.id
        BY <1>8, <2>4, <3>3, <4>1
      <4>2. CASE id # p.id
        <5>1. S.state[id] = "GRANTED"
          BY <2>1, <2>4, <3>2, <3>4, <4>2
        <5> QED
          BY <1>6, <2>4, <5>1 DEF TimesHold
      <4> QED
        BY <4>1, <4>2
    <3> QED
      BY <3>1, <3>4 DEF TimesHold
  <2> QED
    BY <1>1, <1>3, <2>3, <2>4, <2>5, SilentTurn
<1> QED
  BY <1>7, <1>8

LEMMA HandleAddressFirst ==
    ASSUME StartInv, FirstInv, NEW n \in Federations, NEW p, HandleAddress(n, p)
    PROVE  FirstInv'
<1>1. UNCHANGED <<scenario, backlog, proc>> /\ p \in rti[n].served
  BY DEF HandleAddress, Threads
<1>2. p \in Procs /\ p.fed = n /\ DOMAIN toProc = Procs /\ IsQueue(toRTI[p])
  BY <1>1, OwnProcess, OfProcess
<1>3. TimesHold(n, rti[n])
  BY DEF FirstInv
<1>4. CASE Reads(n, p, "QUERY") /\ UNCHANGED rti
           /\ Tell(p, "PORT", rti[n].server[Head(toRTI[p]).data])
  <2>1. PICK m : m = Message("PORT", rti[n].server[Head(toRTI[p]).data])
    OBVIOUS
  <2>2. m.type = "PORT" /\ toProc' = [toProc EXCEPT ![p] = Append(@, m)]
    BY <1>4, <2>1 DEF Tell, Message
  <2>3. TurnHolds(rti[n], p, proc[p], toProc[p], toRTI[p])
    BY <1>2, OfTurn
  <2>4. /\ SentHold(p, toRTI'[p]) /\ Quiet(p, toRTI'[p])
        /\ toProc[p] = <<>> /\ proc[p].pc = "port"
        /\ \A r \in Procs \ {p} : toRTI'[r] = toRTI[r]
    <3>1. /\ toRTI[p] # <<>> /\ toRTI'[p] = Tail(toRTI[p]) /\ Head(toRTI[p]).type = "QUERY"
          /\ \A r \in Procs \ {p} : toRTI'[r] = toRTI[r]
      BY <1>2, <1>4, OfProcess DEF Reads
    <3>2. Question(p, Head(toRTI[p]))
      BY <3>1 DEF Question
    <3>3. /\ SentHold(p, Tail(toRTI[p])) /\ Quiet(p, Tail(toRTI[p]))
          /\ Asker(proc[p], toProc[p], Head(toRTI[p]))
      BY <1>2, <2>3, <3>1, <3>2, ReadOne DEF TurnHolds
    <3>4. toProc[p] = <<>> /\ proc[p].pc = "port"
      BY <3>1, <3>3 DEF Asker
    <3> QED
      BY <3>1, <3>3, <3>4
  <2>5. PICK s : s = toProc'[p] /\ Len(s) = 1 /\ s[1] = m
    BY <1>2, <2>2, <2>4, OneMessage
  <2>6. TurnHolds(rti[n], p, proc[p], s, toRTI'[p])
    <3>1. QuestionsHold(p, proc[p], s, toRTI'[p])
      BY <2>4, QuietHolds
    <3>2. RepliesHold(proc[p], s) /\ ExchangesHold(rti[n], p, proc[p], s)
      BY <2>2, <2>4, <2>5 DEF RepliesHold, Awaits, ExchangesHold
    <3> QED
      BY <2>4, <3>1, <3>2 DEF TurnHolds, FirstHolds
  <2>7. OnlyServer(n, rti[n])
    BY <1>4 DEF OnlyServer
  <2>8. \A r \in Procs \ {p} : toProc'[r] = toProc[r]
    BY <2>2, <1>2
  <2>9. Busy(p) /\ TurnHolds(rti[n], p, proc[p], toProc'[p], toRTI'[p])
    BY <2>4, <2>5, <2>6 DEF Busy
  <2> QED
    BY <1>1, <1>2, <1>3, <2>4, <2>7, <2>8, <2>9, OwnTurn
<1>5. CASE Reads(n, p, "ADDRESS_AD") /\ UNCHANGED toProc
           /\ rti' = [rti EXCEPT ![n].server[p.id] = Head(toRTI[p]).data]
  <2>1. PICK S \in Servers(n) : S = rti[n]
    BY OfServer
  <2>2. PICK server : server = [S.server EXCEPT ![p.id] = Head(toRTI[p]).data]
    OBVIOUS
  <2>3. PICK R : R = [S EXCEPT !.server = server]
    OBVIOUS
  <2>4. OnlyServer(n, R)
    <3>1. rti' = [rti EXCEPT ![n] = R]
      BY <1>5, <2>1, <2>2, <2>3
    <3> QED
      BY <3>1, ServerState
  <2>5. /\ R.pc = S.pc /\ R.with = S.with /\ R.left = S.left /\ R.answered = S.answered
        /\ R.socket = S.socket /\ R.proposed = S.proposed /\ R.state = S.state
    BY <2>3 DEF Servers
  <2>6. TimesHold(n, R)
    <3>1. \A id \in Ids(n) : R.state[id] = "GRANTED" => S.state[id] = "GRANTED"
      BY <2>5
    <3>2. TimesHold(n, S)
      BY <1>3, <2>1
    <3> QED
      BY <2>5, <3>1, <3>2, SameTimes
  <2> QED
    BY <1>1, <1>2, <1>5, <2>1, <2>4, <2>5, <2>6, ReadStep
<1> QED
  BY <1>4, <1>5 DEF HandleAddress

LEMMA ForwardFirst ==
    ASSUME StartInv, FirstInv, NEW n \in Federations, NEW p, Forward(n, p)
    PROVE  FirstInv'
<1>1. UNCHANGED <<scenario, backlog, proc, rti>> /\ p \in rti[n].served
  BY DEF Forward, Threads
<1>2. /\ p \in Procs /\ p.fed = n /\ DOMAIN toProc = Procs
      /\ TurnHolds(rti[n], p, proc[p], toProc[p], toRTI[p])
  BY <1>1, OwnProcess, OfProcess, OfTurn
<1>3. OnlyServer(n, rti[n])
  BY <1>1 DEF OnlyServer
<1>4. TimesHold(n, rti[n])
  BY DEF FirstInv
<1>5. PICK i : i = Head(toRTI[p]).data
  OBVIOUS
<1>6. Reads(n, p, "MSG") \/ Reads(n, p, "STOP_REQUEST")
  BY DEF Forward
<1>7. Head(toRTI[p]) \in ToSet(toRTI[p])
  BY <1>2, <1>6, WasRead
<1>8. SentHold(p, toRTI[p])
  BY <1>2 DEF TurnHolds
<1>9. Reads(n, p, "MSG") /\ i \in Ids(n)
  BY <1>2, <1>5, <1>6, <1>7, <1>8 DEF SentHold, Reads
<1>10. \/ UNCHANGED toProc
       \/ rti[n].state[i] = "GRANTED" /\ Tell(rti[n].socket[i], "MSG", p.id)
  BY <1>5, <1>7, <1>8 DEF Forward, Reads, SentHold
<1>11. CASE UNCHANGED toProc
  BY <1>1, <1>2, <1>3, <1>4, <1>9, <1>11, ReadStep
<1>12. CASE rti[n].state[i] = "GRANTED" /\ Tell(rti[n].socket[i], "MSG", p.id)
  <2>1. PICK q : q = rti[n].socket[i]
    OBVIOUS
  <2>2. q \in rti[n].answered /\ TalksTo(rti[n], q) /\ Agreed(n, rti[n])
    BY <1>4, <1>9, <1>12, <2>1 DEF TimesHold
  <2>3. q \in Procs
    <3>1. rti[n] \in Servers(n)
      BY OfServer
    <3>2. rti[n].answered \subseteq Procs
      BY <3>1 DEF Servers
    <3> QED
      BY <2>2, <3>2
  <2>4. q.fed = n
    <3>1. q # NoOne
      <4>1. q.fed # "none"
        BY <2>3, OfProcess, OfServer
      <4> QED
        BY <4>1 DEF NoOne, RTIOf
    <3>2. SocketsHold(n, rti[n])
      BY OfServer DEF ServerHolds
    <3> QED
      BY <1>9, <2>1, <3>1, <3>2 DEF SocketsHold
  <2>5. proc[q].pc \in {"start", "running", "left", "quit"}
    <3>1. CountedHolds(rti[n], q, proc[q], toRTI[q])
      BY <2>3, <2>4, OfProcess DEF ProcessHolds
    <3> QED
      BY <2>2, <2>4, <3>1 DEF CountedHolds
  <2>6. PICK m : m = Message("MSG", p.id)
    OBVIOUS
  <2>7. toProc'[q] = Append(toProc[q], m) /\ \A r \in Procs \ {q} : toProc'[r] = toProc[r]
    BY <1>2, <1>12, <2>1, <2>3, <2>6 DEF Tell
  <2>8. /\ TurnHolds(rti[n], p, proc[p], toProc[p], toRTI'[p])
        /\ \A r \in Procs \ {p} : toRTI'[r] = toRTI[r]
    BY <1>2, <1>9, ReadTurn
  <2>9. TurnHolds(rti[n], q, proc[q], toProc[q], toRTI'[q])
    <3>1. TurnHolds(rti[n], q, proc[q], toProc[q], toRTI[q])
      BY <2>3, <2>4, OfTurn
    <3>2. q = p \/ toRTI'[q] = toRTI[q]
      BY <2>3, <2>8
    <3> QED
      BY <2>8, <3>1, <3>2
  <2>10. TurnHolds(rti[n], q, proc[q], toProc'[q], toRTI'[q])
    <3>1. IsQueue(toProc[q])
      BY <2>3, OfProcess
    <3>2. TurnHolds(rti[n], q, proc[q], Append(toProc[q], m), toRTI'[q])
      BY <2>2, <2>5, <2>9, <3>1, LaterTurn
    <3> QED
      BY <2>7, <3>2
  <2>11. TurnHolds(rti[n], p, proc[p], toProc'[p], toRTI'[p])
    <3>1. p = q \/ toProc'[p] = toProc[p]
      BY <1>2, <2>7
    <3> QED
      BY <2>8, <2>10, <3>1
  <2>12. Busy(q) /\ UNCHANGED <<scenario, backlog, proc>>
    BY <1>1, <2>5 DEF Busy
  <2>13. Passes(n, rti[n], p, q)
    BY <1>2, <2>3, <2>4, <2>7, <2>8, <2>10, <2>11, <2>12 DEF Passes
  <2> QED
    BY <1>3, <1>4, <2>12, <2>13, ThreadTurn
<1> QED
  BY <1>10, <1>11, <1>12

LEMMA ShutdownFirst ==
    ASSUME StartInv, FirstInv, NEW n \in Federations, Shutdown(n)
    PROVE  FirstInv'
<1>1. UNCHANGED <<scenario, proc, toRTI>> /\ Close(RTIOf(n)) /\ RTIOf(n) \in Owners
  BY OfServer DEF Shutdown
<1>2. PICK S \in Servers(n) : S = rti[n]
  BY OfServer
<1>3. PICK R : R = [S EXCEPT !.pc = "closed", !.responder = "off"]
  OBVIOUS
<1>4. OnlyServer(n, R)
  <2>1. n \in DOMAIN rti
    BY OfServer
  <2>2. rti' = [rti EXCEPT ![n] = R]
    BY <1>2, <1>3, <2>1 DEF Shutdown
  <2> QED
    BY <2>2, ServerState
<1>5. /\ R.pc = "closed" /\ R.answered = S.answered
      /\ R.socket = S.socket /\ R.proposed = S.proposed /\ R.state = S.state
  BY <1>3 DEF Servers
<1>6. TimesHold(n, R)
  <2>1. TimesHold(n, S)
    BY <1>2 DEF FirstInv
  <2>2. \A id \in Ids(n) : R.state[id] = "GRANTED" => S.state[id] = "GRANTED"
    BY <1>5
  <2> QED
    BY <1>5, <2>1, <2>2, SameTimes
<1>7. PICK c : c = Message("CLOSED", 0)
  OBVIOUS
<1>8. c.type = "CLOSED"
  BY <1>7 DEF Message
<1>9. /\ ConnectionsHold'
      /\ \A q \in Procs : \/ toProc'[q] = toProc[q]
                          \/ /\ toProc'[q] = Append(toProc[q], c)
                             /\ toProc[q] = <<>> /\ proc[q].pc \in {"await", "peer"}
  BY <1>1, <1>7, Disconnects
<1>10. ASSUME NEW q \in Procs
       PROVE  TurnHolds(IF q.fed = n THEN R ELSE rti[q.fed], q, proc[q], toProc'[q], toRTI'[q])
  <2>1. TurnHolds(rti[q.fed], q, proc[q], toProc[q], toRTI[q])
    BY OfTurn
  <2>2. TurnHolds(rti[q.fed], q, proc[q], toProc'[q], toRTI[q])
    BY <1>8, <1>9, <2>1, AnswersTo
  <2>3. q.fed = n => TurnHolds(R, q, proc[q], toProc'[q], toRTI[q])
    BY <1>2, <1>5, <2>2, OtherServer DEF Syncing
  <2> QED
    BY <1>1, <2>2, <2>3
<1> QED
  BY <1>1, <1>4, <1>6, <1>9, <1>10, ServerTurn

\* A federate that has joined is synchronized no more.
LEMMA JoinedTurn ==
    ASSUME NEW n, NEW R \in Servers(n), TimesHold(n, R)
    PROVE  LET S == Joined(R)
           IN  S.pc # "T3" /\ S.answered = R.answered /\ TimesHold(n, S)
<1>1. PICK S : S = Joined(R)
  OBVIOUS
<1>2. /\ S.pc \in {"respond", "accept"} /\ S.answered = R.answered /\ S.socket = R.socket
      /\ S.proposed = R.proposed /\ S.state = R.state
  <2>1. PICK i, served, pc, responder :
            /\ S = [R EXCEPT !.i = i, !.served = served, !.pc = pc, !.responder = responder]
            /\ pc \in {"respond", "accept"}
    BY <1>1 DEF Joined
  <2> QED
    BY <2>1 DEF Servers
<1>3. \A id \in Ids(n) : S.state[id] = "GRANTED" => R.state[id] = "GRANTED"
  BY <1>2
<1>4. TimesHold(n, S)
  BY <1>2, <1>3, SameTimes
<1> QED
  BY <1>1, <1>2, <1>4

\* An exchange of a synchronization begins.
LEMMA SyncTurn ==
    ASSUME NEW R, NEW p, NEW me, NEW in, NEW out, TurnHolds(R, p, me, in, out),
           NEW rest, Quiet(p, rest), SentHold(p, rest), NEW S, NEW s, R.left \in Int,
           S.left \in Int, me.left \in Int,
           \/ /\ me.pc = "T1" /\ Len(s) = 1 /\ s[1].type = "T1" /\ S.left <= me.left
           \/ /\ me.pc = "T4" /\ Len(s) = 2 /\ s[1].type = "T4" /\ s[2].type = "T1"
              /\ Syncing(R, p) /\ S.left = R.left - 1 /\ R.left > 1
    PROVE  TurnHolds(S, p, me, s, rest)
<1>1. QuestionsHold(p, me, s, rest)
  BY QuietHolds
<1>2. RepliesHold(me, s)
  BY DEF RepliesHold, Awaits
<1>3. me.pc = "T4" /\ Syncing(R, p) => R.left <= me.left
  BY DEF TurnHolds, ExchangesHold
<1>4. ExchangesHold(S, p, me, s)
  BY <1>3 DEF ExchangesHold
<1> QED
  BY <1>1, <1>2, <1>4 DEF TurnHolds, FirstHolds

\* The RTI reads what the process it synchronizes has said.
LEMMA QuestionRead ==
    ASSUME StartInv, FirstInv, NEW n \in Federations, NEW p \in Procs, p.fed = n,
           NEW type, Reads(n, p, type), type = "T3" \/ type = "UDP_PORT",
           type = "UDP_PORT" => scenario.sync[n] # "off"
    PROVE  /\ Quiet(p, toRTI'[p]) /\ SentHold(p, toRTI'[p]) /\ toProc[p] = <<>>
           /\ type = "T3" => proc[p].pc = "T4"
           /\ type = "UDP_PORT" => proc[p].pc = "T1" /\ proc[p].left = Exchanges
           /\ \A r \in Procs \ {p} : toRTI'[r] = toRTI[r]
           /\ Busy(p) /\ DOMAIN toProc = Procs
<1>1. /\ toRTI[p] # <<>> /\ IsQueue(toRTI[p])
      /\ toRTI'[p] = Tail(toRTI[p]) /\ Head(toRTI[p]).type = type
      /\ \A r \in Procs \ {p} : toRTI'[r] = toRTI[r]
  BY OfProcess DEF Reads
<1>2. PICK m : m = Head(toRTI[p])
  OBVIOUS
<1>3. m.type = type /\ Question(p, m)
  BY <1>1, <1>2 DEF Question
<1>4. TurnHolds(rti[n], p, proc[p], toProc[p], toRTI[p])
  BY OfTurn
<1>5. Quiet(p, Tail(toRTI[p])) /\ SentHold(p, Tail(toRTI[p])) /\ Asker(proc[p], toProc[p], m)
  BY <1>1, <1>2, <1>3, <1>4, ReadOne DEF TurnHolds
<1>6. /\ type = "T3" => proc[p].pc = "T4"
      /\ type = "UDP_PORT" => proc[p].pc = "T1" /\ proc[p].left = Exchanges
  BY <1>3, <1>5 DEF Asker
<1>7. toProc[p] = <<>>
  BY <1>5 DEF Asker
<1>8. Busy(p) /\ DOMAIN toProc = Procs
  BY <1>6, <1>7, OfProcess DEF Busy
<1> QED
  BY <1>1, <1>5, <1>6, <1>7, <1>8

LEMMA HandshakeFirst ==
    ASSUME StartInv, FirstInv, NEW n \in Federations, Handshake(n)
    PROVE  FirstInv'
<1>1. PICK S \in Servers(n) : S = rti[n]
  BY OfServer
<1>2. PICK p : p = S.with
  OBVIOUS
<1>3. UNCHANGED <<scenario, backlog, proc>> /\ S.pc \in {"neighbors", "udp", "T3"}
  BY <1>1 DEF Handshake
<1>4. p \in Procs /\ p.fed = n /\ n \in DOMAIN rti /\ S.left \in Int /\ proc[p].left \in Int
  <2>1. p \in Procs /\ p.fed = n
    BY <1>1, <1>2, <1>3, OwnProcess DEF Newcomer
  <2> QED
    BY <2>1, OfServer, OfProcess DEF Servers, Processes
<1>5. TimesHold(n, S) /\ TurnHolds(S, p, proc[p], toProc[p], toRTI[p])
  <2>1. TurnHolds(rti[n], p, proc[p], toProc[p], toRTI[p])
    BY <1>4, OfTurn
  <2>2. TimesHold(n, rti[n])
    BY DEF FirstInv
  <2> QED
    BY <1>1, <2>1, <2>2
\* What the process it synchronizes gets in the end is all that matters.
<1>6. ASSUME NEW R, rti' = [rti EXCEPT ![n] = R], TimesHold(n, R), R.answered = S.answered,
             R.pc # "T3" \/ R.with = p, Busy(p), DOMAIN toProc = Procs,
             NEW s, toProc' = [toProc EXCEPT ![p] = s],
             \A r \in Procs \ {p} : toRTI'[r] = toRTI[r],
             TurnHolds(R, p, proc[p], s, toRTI'[p])
      PROVE  FirstInv'
  <2>1. OnlyServer(n, R)
    BY <1>6, ServerState
  <2>2. toProc'[p] = s /\ \A r \in Procs \ {p} : toProc'[r] = toProc[r]
    BY <1>4, <1>6
  <2>3. \A r \in Procs \ {p} : ~Syncing(R, r)
    BY <1>6 DEF Syncing
  <2>4. Passes(n, R, p, p)
    BY <1>1, <1>4, <1>6, <2>2, <2>3 DEF Passes
  <2> QED
    BY <1>3, <1>6, <2>1, <2>4, ThreadTurn
<1>7. PICK off : off = [S EXCEPT !.enabled[p.id] = FALSE]
  OBVIOUS
<1>8. /\ off \in Servers(n) /\ off.answered = S.answered /\ TimesHold(n, off)
      /\ Joined(off).pc # "T3" /\ Joined(off).answered = S.answered /\ TimesHold(n, Joined(off))
  <2>1. p.id \in Ids(n)
    BY <1>1, <1>2, <1>3, OwnProcess DEF Newcomer
  <2>2. /\ off \in Servers(n) /\ off.answered = S.answered /\ off.socket = S.socket
        /\ off.proposed = S.proposed /\ off.state = S.state
    <3>1. PICK enabled : enabled = [S.enabled EXCEPT ![p.id] = FALSE]
      OBVIOUS
    <3>2. enabled \in [Ids(n) -> BOOLEAN]
      BY <2>1, <3>1 DEF Servers
    <3>3. off = [S EXCEPT !.enabled = enabled]
      BY <1>7, <3>1
    <3> QED
      BY <3>2, <3>3 DEF Servers
  <2>3. \A id \in Ids(n) : off.state[id] = "GRANTED" => S.state[id] = "GRANTED"
    BY <2>2
  <2>4. TimesHold(n, off)
    BY <1>5, <2>2, <2>3, SameTimes
  <2> QED
    BY <2>2, <2>4, JoinedTurn
<1>9. CASE S.pc = "neighbors"
  <2>1. PICK R : R = [S EXCEPT !.pc = "udp"]
    OBVIOUS
  <2>2. Reads(n, p, "NEIGHBORS") /\ UNCHANGED toProc /\ rti' = [rti EXCEPT ![n] = R]
    BY <1>1, <1>2, <1>4, <1>9, <2>1 DEF Handshake
  <2>3. /\ R.pc = "udp" /\ R.answered = S.answered /\ R.socket = S.socket
        /\ R.proposed = S.proposed /\ R.state = S.state
    BY <2>1 DEF Servers
  <2>4. TimesHold(n, R)
    <3>1. \A id \in Ids(n) : R.state[id] = "GRANTED" => S.state[id] = "GRANTED"
      BY <2>3
    <3> QED
      BY <1>5, <2>3, <3>1, SameTimes
  <2>5. OnlyServer(n, R)
    BY <2>2, ServerState
  <2> QED
    BY <1>1, <1>3, <1>4, <2>2, <2>3, <2>4, <2>5, ReadStep
<1>10. CASE S.pc = "udp" /\ scenario.sync[n] = "off"
  <2>1. Reads(n, p, "UDP_PORT") /\ UNCHANGED toProc /\ rti' = [rti EXCEPT ![n] = Joined(off)]
    BY <1>1, <1>2, <1>7, <1>10 DEF Handshake
  <2>2. PICK R : R = Joined(off)
    OBVIOUS
  <2>3. OnlyServer(n, R) /\ TimesHold(n, R) /\ R.pc # "T3" /\ R.answered = S.answered
    BY <1>8, <2>1, <2>2, ServerState
  <2> QED
    BY <1>1, <1>3, <1>4, <2>1, <2>3, ReadStep
<1>11. CASE S.pc = "udp" /\ scenario.sync[n] # "off"
  <2>1. PICK left : left = Exchanges
    OBVIOUS
  <2>2. PICK R : R = [S EXCEPT !.pc = "T3", !.left = left]
    OBVIOUS
  <2>3. PICK m : m = Message("T1", 0)
    OBVIOUS
  <2>4. /\ Reads(n, p, "UDP_PORT") /\ rti' = [rti EXCEPT ![n] = R]
        /\ m.type = "T1" /\ toProc' = [toProc EXCEPT ![p] = Append(@, m)]
    BY <1>1, <1>2, <1>4, <1>11, <2>1, <2>2, <2>3 DEF Handshake, Tell, Message
  <2>5. /\ R.pc = "T3" /\ R.with = p /\ R.left = left /\ R.answered = S.answered
        /\ R.socket = S.socket /\ R.proposed = S.proposed /\ R.state = S.state
    BY <1>2, <2>2 DEF Servers
  <2>6. TimesHold(n, R)
    <3>1. \A id \in Ids(n) : R.state[id] = "GRANTED" => S.state[id] = "GRANTED"
      BY <2>5
    <3> QED
      BY <1>5, <2>5, <3>1, SameTimes
  <2>7. /\ Quiet(p, toRTI'[p]) /\ SentHold(p, toRTI'[p]) /\ toProc[p] = <<>>
        /\ proc[p].pc = "T1" /\ proc[p].left = Exchanges
        /\ \A r \in Procs \ {p} : toRTI'[r] = toRTI[r]
        /\ Busy(p) /\ DOMAIN toProc = Procs
    BY <1>4, <1>11, <2>4, QuestionRead
  <2>8. PICK s : s = Append(toProc[p], m) /\ Len(s) = 1 /\ s[1] = m
    BY <2>7, OneMessage
  <2>9. left \in Int /\ left <= left
    BY <2>1, ClockSyncAssumption
  <2>10. TurnHolds(R, p, proc[p], s, toRTI'[p])
    BY <1>4, <1>5, <2>1, <2>4, <2>5, <2>7, <2>8, <2>9, SyncTurn
  <2>11. toProc' = [toProc EXCEPT ![p] = s]
    BY <2>4, <2>8
  <2> QED
    BY <1>6, <2>4, <2>5, <2>6, <2>7, <2>10, <2>11
<1>12. ASSUME S.pc = "T3"
       PROVE  /\ Reads(n, p, "T3")
              /\ Quiet(p, toRTI'[p]) /\ SentHold(p, toRTI'[p]) /\ toProc[p] = <<>>
              /\ proc[p].pc = "T4" /\ \A r \in Procs \ {p} : toRTI'[r] = toRTI[r]
              /\ Busy(p) /\ DOMAIN toProc = Procs
  <2>1. Reads(n, p, "T3")
    BY <1>1, <1>2, <1>12 DEF Handshake
  <2> QED
    BY <1>4, <2>1, QuestionRead
<1>13. CASE S.pc = "T3" /\ S.left > 1
  <2>1. PICK left : left = S.left - 1
    OBVIOUS
  <2>2. PICK R : R = [S EXCEPT !.left = left]
    OBVIOUS
  <2>3. PICK a, b : a = Message("T4", 0) /\ b = Message("T1", 0)
    OBVIOUS
  <2>4. a.type = "T4" /\ b.type = "T1"
    BY <2>3 DEF Message
  <2>5. /\ rti' = [rti EXCEPT ![n] = R]
        /\ toProc' = [toProc EXCEPT ![p] = @ \o <<a, b>>]
    <3>1. rti' = [rti EXCEPT ![n].left = @ - 1]
      BY <1>1, <1>13 DEF Handshake
    <3>2. rti' = [rti EXCEPT ![n].left = left]
      BY <1>1, <2>1, <3>1
    <3>3. toProc' = [toProc EXCEPT ![p] = @ \o <<a, b>>]
      BY <1>1, <1>2, <1>13, <2>3 DEF Handshake
    <3> QED
      BY <1>1, <1>4, <2>2, <3>2, <3>3
  <2>6. /\ R.pc = "T3" /\ R.with = p /\ R.left = left /\ R.answered = S.answered
        /\ R.socket = S.socket /\ R.proposed = S.proposed /\ R.state = S.state
    BY <1>2, <1>13, <2>2 DEF Servers
  <2>7. TimesHold(n, R)
    <3>1. \A id \in Ids(n) : R.state[id] = "GRANTED" => S.state[id] = "GRANTED"
      BY <2>6
    <3> QED
      BY <1>5, <2>6, <3>1, SameTimes
  <2>8. PICK s : s = toProc[p] \o <<a, b>> /\ Len(s) = 2 /\ s[1] = a /\ s[2] = b
    <3>1. PICK in, s : in = toProc[p] /\ s = toProc[p] \o <<a, b>>
      OBVIOUS
    <3>2. IsQueue(in) /\ Len(in) = 0
      BY <1>4, <1>12, <1>13, <3>1, OfProcess
    <3>3. s = in \o <<a, b>>
      BY <3>1, Zenon
    <3>4. Len(s) = 2 /\ s[1] = a /\ s[2] = b
      BY <3>2, <3>3, TwoMessages
    <3> QED
      BY <3>1, <3>4, Zenon
  <2>9. Syncing(S, p) /\ left \in Int
    BY <1>2, <1>4, <1>13, <2>1 DEF Syncing
  <2>10. TurnHolds(R, p, proc[p], s, toRTI'[p])
    BY <1>4, <1>5, <1>12, <1>13, <2>1, <2>4, <2>6, <2>8, <2>9, SyncTurn
  <2>11. toProc' = [toProc EXCEPT ![p] = s]
    BY <2>5, <2>8
  <2> QED
    BY <1>6, <1>12, <1>13, <2>5, <2>6, <2>7, <2>10, <2>11
<1>14. CASE S.pc = "T3" /\ ~(S.left > 1)
  <2>1. PICK m : m = Message("T4", 0)
    OBVIOUS
  <2>2. PICK last : last \in {S, off} /\ rti' = [rti EXCEPT ![n] = Joined(last)]
    BY <1>1, <1>2, <1>7, <1>14 DEF Handshake
  <2>3. m.type = "T4" /\ toProc' = [toProc EXCEPT ![p] = Append(@, m)]
    BY <1>1, <1>2, <1>14, <2>1 DEF Handshake, Tell, Message
  <2>4. PICK R : R = Joined(last)
    OBVIOUS
  <2>5. R.pc # "T3" /\ R.answered = S.answered /\ TimesHold(n, R)
    <3>1. CASE last = S
      BY <1>5, <2>4, <3>1, JoinedTurn
    <3>2. CASE last = off
      BY <1>8, <2>4, <3>2
    <3> QED
      BY <2>2, <3>1, <3>2
  <2>6. PICK s : s = Append(toProc[p], m) /\ Len(s) = 1 /\ s[1] = m
    BY <1>12, <1>14, OneMessage
  <2>7. TurnHolds(R, p, proc[p], s, toRTI'[p])
    <3>1. QuestionsHold(p, proc[p], s, toRTI'[p]) /\ ~Syncing(R, p)
      BY <1>12, <1>14, <2>5, QuietHolds DEF Syncing
    <3>2. RepliesHold(proc[p], s) /\ ExchangesHold(R, p, proc[p], s)
      BY <1>12, <1>14, <2>3, <2>6, <3>1 DEF RepliesHold, Awaits, ExchangesHold
    <3> QED
      BY <1>12, <1>14, <3>1, <3>2 DEF TurnHolds, FirstHolds
  <2>8. toProc' = [toProc EXCEPT ![p] = s] /\ rti' = [rti EXCEPT ![n] = R]
    BY <2>2, <2>3, <2>4, <2>6
  <2> QED
    BY <1>6, <1>12, <1>14, <2>5, <2>7, <2>8
<1> QED
  BY <1>3, <1>9, <1>10, <1>11, <1>13, <1>14

-----------------------------------------------------------------------------
(* And what follows.                                                       *)

LEMMA FirstInit ==
    ASSUME Init, "STOP_REQUEST" \notin scenario.sends
    PROVE  FirstInv
<1>1. /\ backlog = [o \in Owners |-> <<>>]
      /\ rti = [n \in Federations |-> InitRTIServer(scenario.size[n])]
      /\ proc = [p \in Procs |-> InitProc] /\ scenario \in Scenarios
      /\ toProc = [p \in Procs |-> <<>>] /\ toRTI = [p \in Procs |-> <<>>]
  BY DEF Init, Owners
<1>2. ConnectionsHold
  <2>1. \A o \in Owners : DOMAIN backlog[o] = {}
    BY <1>1
  <2> QED
    BY <2>1 DEF ConnectionsHold
<1>3. ASSUME NEW n \in Federations PROVE TimesHold(n, rti[n])
  BY <1>1 DEF InitRTIServer, TimesHold, Ids
<1>4. ASSUME NEW p \in Procs
      PROVE  TurnHolds(rti[p.fed], p, proc[p], toProc[p], toRTI[p])
  <2>1. p.fed \in Federations
    BY <1>1, ScenariosAssumption DEF Federations, Procs
  <2>2. rti[p.fed].pc = "down"
    BY <1>1, <2>1 DEF InitRTIServer
  <2>3. proc[p].pc = "connect" /\ toProc[p] = <<>> /\ toRTI[p] = <<>>
    BY <1>1 DEF InitProc
  <2>4. Quiet(p, <<>>) /\ SentHold(p, <<>>)
    BY DEF Quiet, SentHold, ToSet
  <2> QED
    BY <2>2, <2>3, <2>4, Settled DEF Syncing
<1> QED
  BY <1>2, <1>3, <1>4 DEF FirstInv

LEMMA ProcessFirst ==
    ASSUME StartInv, FirstInv, NEW p, Process(p)
    PROVE  FirstInv'
<1>1. p \in Procs
  BY DEF Process, Connect, Answered, InitialSync, Serve, QueryPeer, PeerPort, ConnectPeer,
         PeerAnswered, StartTime, Is
<1> QED
  BY <1>1, ConnectFirst, AnsweredFirst, InitialSyncFirst, ServeFirst, QueryPeerFirst,
     PeerPortFirst, ConnectPeerFirst, PeerAnsweredFirst, StartTimeFirst DEF Process

LEMMA ServerFirst ==
    ASSUME StartInv, FirstInv, NEW n,
           \/ MainThread(n) \/ Respond(n) \/ RespondTimeout(n)
           \/ \E p \in AllProcs : Thread(n, p)
    PROVE  FirstInv'
<1>1. n \in Federations
  BY DEF MainThread, StartRTI, Accept, Handshake, Shutdown, Respond, RespondTimeout, Thread,
         HandleTimestamp, SendStartTime, HandleAddress, Forward, HandleResign, Threads
<1> QED
  BY <1>1, StartRTIFirst, AcceptFirst, HandshakeFirst, ShutdownFirst, RespondFirst,
     RespondTimeoutFirst, HandleTimestampFirst, SendStartTimeFirst, HandleAddressFirst,
     ForwardFirst, HandleResignFirst DEF MainThread, Thread

LEMMA ClockFirst ==
    ASSUME StartInv, FirstInv, UNCHANGED startVars
    PROVE  FirstInv'
<1>1. UNCHANGED <<scenario, backlog, rti, proc, toProc, toRTI>>
  BY DEF startVars
<1>2. ConnectionsHold'
  BY <1>1, SameConnections
<1>3. ASSUME NEW p \in Procs
      PROVE  TurnHolds(rti'[p.fed], p, proc'[p], toProc'[p], toRTI'[p])
  BY <1>1, OfTurn
<1>4. \A n \in Federations : TimesHold(n, rti'[n])
  BY <1>1 DEF FirstInv
<1> QED
  BY <1>1, <1>2, <1>3, <1>4, FirstNext

LEMMA FirstStep == StartInv /\ FirstInv /\ [Next]_vars => FirstInv'
<1> SUFFICES ASSUME StartInv, FirstInv, [Next]_vars PROVE FirstInv'
  OBVIOUS
<1>1. ASSUME NEW p, Process(p) PROVE FirstInv'
  BY <1>1, ProcessFirst
<1>2. ASSUME NEW p, AcceptPeer(p) \/ Execute(p) \/ Resign(p) PROVE FirstInv'
  <2>1. p \in Procs
    BY <1>2 DEF AcceptPeer, Execute, Resign, Is
  <2> QED
    BY <1>2, <2>1, AcceptPeerFirst, ExecuteFirst, ResignFirst
<1>3. ASSUME NEW n,
             \/ MainThread(n) \/ Respond(n) \/ RespondTimeout(n)
             \/ \E p \in AllProcs : Thread(n, p)
      PROVE  FirstInv'
  BY <1>3, ServerFirst
<1>4. CASE ClockThread \/ (\E p : ListenUDP(p)) \/ UNCHANGED vars
  <2>1. UNCHANGED startVars
    BY <1>4 DEF ClockThread, ListenUDP, vars
  <2> QED
    BY <2>1, ClockFirst
<1> QED
  BY <1>1, <1>2, <1>3, <1>4 DEF Next

\* A process that does not ask has no answer under way, the RTI asks nothing before the start
\* time, and nothing is forwarded to a federate that has not got it: as long as no federate
\* asks to stop (receive_and_check_fed_id_message to handle_timestamp in rti.c,
\* handle_message's wait "until the federate is no longer PENDING").
THEOREM FirstInvariant ==
    ASSUME \A s \in Scenarios : "STOP_REQUEST" \notin s.sends
    PROVE  Spec => []FirstInv
<1>1. Init => FirstInv
  <2>1. Init => scenario \in Scenarios
    BY DEF Init
  <2> QED
    BY <2>1, FirstInit
<1> QED
  BY <1>1, FirstStep, StartInvariant, PTL DEF Spec

\* As long as no federate asks to stop, the first message that a federate finds that waits for
\* its start time is the start time, and get_start_time_from_rti does not make it exit: the
\* RTI writes to another federate during execution only once that federate is no longer
\* PENDING (handle_message and handle_timestamp in rti.c).
THEOREM StartTimeComesFirst ==
    ASSUME \A s \in Scenarios : "STOP_REQUEST" \notin s.sends
    PROVE  Spec => []StartComesFirst
<1>1. FirstInv => StartComesFirst
  <2> SUFFICES ASSUME FirstInv, NEW p \in Procs, proc[p].pc = "start", toProc[p] # <<>>
               PROVE  Head(toProc[p]).type = "TIMESTAMP"
    BY DEF StartComesFirst
  <2>1. FirstHolds(rti[p.fed], p, proc[p], toProc[p])
    BY OfTurn DEF TurnHolds
  <2> QED
    BY <2>1 DEF FirstHolds
<1> QED
  BY <1>1, FirstInvariant, PTL

-----------------------------------------------------------------------------
(* Clock synchronization lasts.  First what it relies on: an RTI that has  *)
(* opened its federation serves a process under every id, until it leaves. *)

\* Once everybody has joined there is somebody under every id.
LEMMA EveryIdTaken ==
    ASSUME StartInv, NEW n \in Federations, NEW R \in Servers(n), ServerHolds(n, R),
           R.pc = "respond", ~Agreed(n, R)
    PROVE  \A id \in Ids(n) : R.socket[id] # NoOne
<1>1. scenario.size[n] \in Nat \ {0} /\ n # "none"
  BY OfServer
<1>2. /\ IsFiniteSet(R.served) /\ Cardinality(R.served) = scenario.size[n]
      /\ \A p \in R.served : p \in Procs /\ p.id \in DOMAIN R.socket /\ R.socket[p.id] = p
  BY DEF ServerHolds, SocketsHold, ProposalsHold, TalksTo
<1>3. DOMAIN R.socket = Ids(n)
  BY DEF Servers
<1>4. ASSUME NEW id \in Ids(n), R.socket[id] = NoOne PROVE FALSE
  <2>1. PICK others : others = Ids(n) \ {id}
    OBVIOUS
  <2>2. IsFiniteSet(others) /\ Cardinality(others) < Cardinality(R.served)
    <3>1. PICK size \in Nat : size = scenario.size[n] /\ size > 0
      BY <1>1
    <3>2. IsFiniteSet(0 .. size - 1) /\ Cardinality(0 .. size - 1) = size
      <4>1. PICK last \in Nat : last = size - 1
        BY <3>1
      <4>2. IsFiniteSet(0 .. last) /\ Cardinality(0 .. last) = last + 1
        BY FS_Interval
      <4> QED
        BY <4>1, <4>2
    <3>3. id \in 0 .. size - 1 /\ others = (0 .. size - 1) \ {id}
      BY <2>1, <3>1 DEF Ids
    <3>4. IsFiniteSet(others) /\ Cardinality(others) = size - 1
      <4>1. PICK every : every = 0 .. size - 1
        OBVIOUS
      <4>2. IsFiniteSet(every) /\ Cardinality(every) = size
        BY <3>2, <4>1
      <4>3. id \in every /\ others = every \ {id}
        BY <3>3, <4>1
      <4>4. /\ IsFiniteSet(every \ {id})
            /\ Cardinality(every \ {id}) =
                  IF id \in every THEN Cardinality(every) - 1 ELSE Cardinality(every)
        BY <4>2, FS_RemoveElement
      <4> QED
        BY <4>2, <4>3, <4>4
    <3> QED
      BY <1>2, <3>1, <3>4
  <2>3. \A p \in R.served : p.id \in others
    <3> SUFFICES ASSUME NEW p \in R.served, p.id = id PROVE FALSE
      BY <1>2, <1>3, <2>1
    <3>1. p \in Procs /\ p = NoOne
      BY <1>2, <1>4
    <3>2. p.fed \in Federations /\ p.fed = "none"
      BY <3>1, OfProcess DEF NoOne, RTIOf
    <3> QED
      BY <3>2, ScenariosAssumption DEF StartInv, StartTypeOK, Federations
  <2>4. PICK ids : ids = [p \in R.served |-> p.id]
    OBVIOUS
  <2>5. ids \in [R.served -> others]
    BY <2>3, <2>4
  <2>6. PICK p, q \in R.served : p # q /\ ids[p] = ids[q]
    BY <1>2, <2>2, <2>5, FS_PigeonHole
  <2>7. p.id = q.id
    BY <2>4, <2>6
  <2> QED
    BY <1>2, <2>6, <2>7
<1> QED
  BY <1>4

\* The federates that the clock thread serves.
LEMMA Ordered ==
    ASSUME StartInv, NEW k \in DOMAIN scenario.order, NEW p, p = scenario.order[k]
    PROVE  /\ p \in Procs /\ p.fed \in Federations /\ p.id \in Ids(p.fed)
           /\ scenario.sync[p.fed] = "on"
           /\ \A q \in Procs : q.fed = p.fed /\ q.id = p.id => q = p
<1>1. scenario \in Scenarios
  BY DEF StartInv, StartTypeOK
<1>2. p \in Procs
  BY <1>1, ScenariosAssumption DEF Procs
<1>3. p \in ToSet(scenario.order)
  BY DEF ToSet
<1> QED
  BY <1>1, <1>2, <1>3, SyncAssumption, OfProcess DEF Procs, Ids

\* Clock synchronization is left alone by a step after which nobody is missed who has not
\* left.
LEMMA SyncNext ==
    ASSUME StartInv, SyncInv, UNCHANGED <<scenario, clockVars>>, Left \subseteq Left',
           \A n \in Federations :
              /\ MembersHold(n, rti'[n])
              /\ rti[n].pc \in {"respond", "closed"} => rti'[n].pc \in {"respond", "closed"},
           \A p \in Procs : Has(toRTI'[p], "RESIGN") => p \in Left'
    PROVE  SyncInv'
<1>1. UNCHANGED <<scenario, thread, listener, down, up, disturbed>>
  BY DEF clockVars
<1>2. MembersInv'
  <2>1. ASSUME NEW n \in Federations PROVE MembersHold(n, rti[n])'
    BY <1>1, <2>1 DEF MembersHold, Ids
  <2>2. \A p \in Procs : (Has(toRTI[p], "RESIGN") => p \in Left)'
    BY DEF Has
  <2> QED
    BY <1>1, <2>1, <2>2 DEF MembersInv, Federations, Procs
<1>3. thread'.order = scenario'.order
  BY <1>1 DEF SyncInv
<1>4. ASSUME thread'.pc # "off", NEW k \in DOMAIN thread'.order
      PROVE  rti'[thread'.order[k].fed].pc \in {"respond", "closed"}
  <2>1. /\ rti[thread.order[k].fed].pc \in {"respond", "closed"}
        /\ thread.order[k].fed \in Federations
    BY <1>1, <1>4, Ordered DEF SyncInv
  <2> QED
    BY <1>1, <2>1
<1>5. ASSUME ~disturbed'
      PROVE  AnswerHolds' /\ \A f \in DOMAIN listener' \ Left' : AskedHolds(f)'
  <2>1. ~disturbed /\ AnswerHolds /\ \A f \in DOMAIN listener \ Left : AskedHolds(f)
    BY <1>1, <1>5 DEF SyncInv
  <2>2. AnswerHolds'
    BY <1>1, <2>1 DEF AnswerHolds, Current
  <2>3. ASSUME NEW f \in DOMAIN listener' \ Left' PROVE AskedHolds(f)'
    <3>1. AskedHolds(f)
      BY <1>1, <2>1, <2>3
    <3> QED
      BY <1>1, <3>1 DEF AskedHolds, Current
  <2> QED
    BY <2>2, <2>3
<1> QED
  BY <1>2, <1>3, <1>4, <1>5 DEF SyncInv

\* The step of a process: it does not go on after it has left, and resigns when it does.
LEMMA ProcessSyncs ==
    ASSUME StartInv, SyncInv, UNCHANGED <<scenario, rti, clockVars>>, NEW p \in Procs,
           \A q \in Procs \ {p} : proc'[q].pc = proc[q].pc,
           proc[p].pc = "left" => proc'[p].pc = "left",
           \A q \in Procs : Has(toRTI'[q], "RESIGN") =>
               Has(toRTI[q], "RESIGN") \/ (q = p /\ proc'[p].pc = "left")
    PROVE  SyncInv'
<1>1. Left \subseteq Left'
  BY DEF Left, Procs
<1>2. \A q \in Procs : Has(toRTI'[q], "RESIGN") => q \in Left'
  <2> SUFFICES ASSUME NEW q \in Procs, Has(toRTI'[q], "RESIGN") PROVE q \in Left'
    OBVIOUS
  <2>1. CASE Has(toRTI[q], "RESIGN")
    BY <1>1, <2>1 DEF SyncInv, MembersInv
  <2>2. CASE q = p /\ proc'[p].pc = "left"
    BY <2>2 DEF Left, Procs
  <2> QED
    BY <2>1, <2>2
<1>3. \A n \in Federations : MembersHold(n, rti'[n])
  BY DEF SyncInv, MembersInv
<1> QED
  BY <1>1, <1>2, <1>3, SyncNext

\* It says something else.
LEMMA NoResign ==
    ASSUME StartInv, NEW p \in Procs, NEW m, m.type # "RESIGN",
           Write(p, <<m>>) \/ UNCHANGED toRTI
    PROVE  \A q \in Procs : Has(toRTI'[q], "RESIGN") => Has(toRTI[q], "RESIGN")
<1>1. CASE Write(p, <<m>>)
  <2>1. /\ \A q \in Procs \ {p} : toRTI'[q] = toRTI[q]
        /\ toRTI'[p] = Append(toRTI[p], m)
    BY <1>1, Written
  <2>2. ToSet(Append(toRTI[p], m)) = ToSet(toRTI[p]) \cup {m}
    BY OfProcess, QueueAppend DEF IsQueue
  <2> QED
    BY <2>1, <2>2 DEF Has
<1>2. CASE UNCHANGED toRTI
  BY <1>2
<1> QED
  BY <1>1, <1>2

\* Only the state of one process changes.
LEMMA OthersStay ==
    ASSUME StartInv, NEW p \in Procs, NEW me,
           proc' = [proc EXCEPT ![p] = me] \/ UNCHANGED proc
    PROVE  \A q \in Procs \ {p} : proc'[q].pc = proc[q].pc
  BY OfProcess

LEMMA AnsweredSays ==
    ASSUME StartInv, NEW p \in Procs, Answered(p)
    PROVE  \A q \in Procs : Has(toRTI'[q], "RESIGN") => Has(toRTI[q], "RESIGN")
<1>1. PICK a, b : a = Message("NEIGHBORS", 0) /\ b = Message("UDP_PORT", scenario.sync[p.fed])
  OBVIOUS
<1>2. a.type # "RESIGN" /\ b.type # "RESIGN"
  BY <1>1 DEF Message
<1>3. UNCHANGED toRTI \/ Write(p, <<a, b>>)
  BY <1>1 DEF Answered
<1>4. CASE UNCHANGED toRTI
  BY <1>4
<1>5. CASE Write(p, <<a, b>>)
  <2>1. DOMAIN toRTI = Procs /\ toRTI[p] \in Seq(ToSet(toRTI[p]))
    BY OfProcess DEF IsQueue
  <2>2. PICK s, t : s = Append(toRTI[p], a) /\ t = Append(s, b)
    OBVIOUS
  <2>3. /\ s \in Seq(ToSet(s)) /\ ToSet(s) = ToSet(toRTI[p]) \cup {a}
    BY <2>1, <2>2, QueueAppend
  <2>4. ToSet(t) = ToSet(s) \cup {b}
    BY <2>2, <2>3, QueueAppend
  <2>5. toRTI[p] \o <<a, b>> = t
    BY <2>1, <2>2, QueueTwo
  <2>6. toRTI'[p] = t /\ \A q \in Procs \ {p} : toRTI'[q] = toRTI[q]
    BY <1>5, <2>1, <2>5 DEF Write
  <2> QED
    BY <1>2, <2>3, <2>4, <2>6 DEF Has
<1> QED
  BY <1>3, <1>4, <1>5

LEMMA ProcessSays ==
    ASSUME StartInv, NEW p \in Procs, Process(p)
    PROVE  \A q \in Procs : Has(toRTI'[q], "RESIGN") => Has(toRTI[q], "RESIGN")
<1>1. CASE Answered(p)
  BY <1>1, AnsweredSays
<1>2. CASE Connect(p) \/ PeerPort(p) \/ ConnectPeer(p) \/ PeerAnswered(p) \/ StartTime(p)
  BY <1>2 DEF Connect, PeerPort, ConnectPeer, PeerAnswered, StartTime
<1>3. ASSUME InitialSync(p) \/ Serve(p) \/ QueryPeer(p)
      PROVE  \E type, data : /\ type # "RESIGN"
                             /\ Write(p, <<Message(type, data)>>) \/ UNCHANGED toRTI
  <2>1. CASE InitialSync(p)
    <3>1. Write(p, <<Message("T3", p.id)>>) \/ UNCHANGED toRTI
      BY <2>1 DEF InitialSync
    <3> QED
      BY <3>1
  <2>2. CASE Serve(p)
    <3>1. \/ Write(p, <<Message("ADDRESS_AD", CHOOSE q \in Ports : port'[q] = p)>>)
          \/ UNCHANGED toRTI
      BY <2>2 DEF Serve
    <3> QED
      BY <3>1
  <2>3. CASE QueryPeer(p)
    <3>1. \/ Write(p, <<Message("QUERY", scenario.peers[p][proc[p].next])>>)
          \/ Write(p, <<Message("TIMESTAMP", scenario.proposal[p])>>)
      BY <2>3 DEF QueryPeer
    <3> QED
      BY <3>1
  <2> QED
    BY <1>3, <2>1, <2>2, <2>3
<1>4. CASE InitialSync(p) \/ Serve(p) \/ QueryPeer(p)
  <2>1. PICK type, data : /\ type # "RESIGN"
                          /\ Write(p, <<Message(type, data)>>) \/ UNCHANGED toRTI
    BY <1>3, <1>4
  <2>2. PICK m : m = Message(type, data)
    OBVIOUS
  <2>3. m.type # "RESIGN" /\ (Write(p, <<m>>) \/ UNCHANGED toRTI)
    BY <2>1, <2>2 DEF Message
  <2> QED
    BY <2>3, NoResign
<1> QED
  BY <1>1, <1>2, <1>4 DEF Process

\* The state of no other process changes.
LEMMA ProcessAlone ==
    ASSUME StartInv, NEW p \in Procs, Process(p)
    PROVE  \A q \in Procs \ {p} : proc'[q].pc = proc[q].pc
<1>1. proc \in [Procs -> Processes]
  BY OfProcess
<1>2. ASSUME NEW pc, Goes(p, pc) PROVE \A q \in Procs \ {p} : proc'[q].pc = proc[q].pc
  BY <1>1, <1>2 DEF Goes
<1>3. CASE Connect(p)
  BY <1>1, <1>2, <1>3 DEF Connect
<1>4. CASE Answered(p)
  BY <1>1, <1>2, <1>4 DEF Answered
<1>5. CASE InitialSync(p)
  BY <1>1, <1>2, <1>5 DEF InitialSync
<1>6. CASE Serve(p) \/ QueryPeer(p) \/ ConnectPeer(p)
  BY <1>2, <1>6 DEF Serve, QueryPeer, ConnectPeer
<1>7. CASE PeerPort(p)
  BY <1>1, <1>7 DEF PeerPort
<1>8. CASE PeerAnswered(p)
  BY <1>1, <1>2, <1>8 DEF PeerAnswered
<1>9. CASE StartTime(p)
  BY <1>1, <1>9 DEF StartTime
<1> QED
  BY <1>3, <1>4, <1>5, <1>6, <1>7, <1>8, <1>9 DEF Process

LEMMA ProcessSync ==
    ASSUME StartInv, SyncInv, NEW p, Process(p)
    PROVE  SyncInv'
<1>1. p \in Procs /\ proc[p].pc # "left" /\ UNCHANGED <<scenario, clockVars>>
  BY DEF Process, Connect, Answered, InitialSync, Serve, QueryPeer, PeerPort, ConnectPeer,
         PeerAnswered, StartTime, Is
<1>2. UNCHANGED rti
  BY DEF Process, Connect, Answered, InitialSync, Serve, QueryPeer, PeerPort, ConnectPeer,
         PeerAnswered, StartTime
<1> QED
  BY <1>1, <1>2, ProcessSays, ProcessAlone, ProcessSyncs

LEMMA AcceptPeerSync ==
    ASSUME StartInv, SyncInv, NEW p \in Procs, AcceptPeer(p)
    PROVE  SyncInv'
<1>1. UNCHANGED <<scenario, rti, toRTI, clockVars>>
  BY DEF AcceptPeer
<1>2. proc \in [Procs -> Processes]
  BY OfProcess
<1>3. PICK n : n = proc[p].accepted + 1
  OBVIOUS
<1>4. UNCHANGED proc \/ proc' = [proc EXCEPT ![p].accepted = n]
  BY <1>3 DEF AcceptPeer
<1>5. \A q \in Procs : proc'[q].pc = proc[q].pc
  <2>1. CASE UNCHANGED proc
    BY <2>1
  <2>2. CASE proc' = [proc EXCEPT ![p].accepted = n]
    BY <1>2, <2>2 DEF Processes
  <2> QED
    BY <1>4, <2>1, <2>2
<1> QED
  BY <1>1, <1>5, ProcessSyncs

LEMMA ExecuteSync ==
    ASSUME StartInv, SyncInv, NEW p \in Procs, Execute(p)
    PROVE  SyncInv'
<1>1. UNCHANGED <<scenario, rti, proc, clockVars>>
  BY DEF Execute, Is
<1>2. \A q \in Procs : Has(toRTI'[q], "RESIGN") => Has(toRTI[q], "RESIGN")
  <2>1. CASE UNCHANGED toRTI
    BY <2>1
  <2>2. CASE ~UNCHANGED toRTI
    <3>1. PICK type \in scenario.sends, q \in Procs : Write(p, <<Message(type, q.id)>>)
      BY <2>2 DEF Execute
    <3>2. PICK m : m = Message(type, q.id)
      OBVIOUS
    <3>3. scenario \in Scenarios
      BY OfProcess
    <3>4. type \in {"MSG", "STOP_REQUEST"}
      BY <3>3, ScenariosAssumption
    <3>5. m.type # "RESIGN" /\ Write(p, <<m>>)
      BY <3>1, <3>2, <3>4 DEF Message
    <3> QED
      BY <3>5, NoResign
  <2> QED
    BY <2>1, <2>2
<1> QED
  BY <1>1, <1>2, ProcessSyncs

LEMMA ResignSync ==
    ASSUME StartInv, SyncInv, NEW p \in Procs, Resign(p)
    PROVE  SyncInv'
<1>1. UNCHANGED <<scenario, rti, clockVars>>
  BY DEF Resign, Is
<1>2. OnlyMoves(p) /\ proc'[p].pc = "left"
  BY GoesTo DEF Resign
<1>3. \A q \in Procs \ {p} : toRTI'[q] = toRTI[q]
  BY Written DEF Resign
<1> QED
  BY <1>1, <1>2, <1>3, ProcessSyncs DEF OnlyMoves

\* The step of an RTI: the processes stay as they are.
LEMMA ServerSyncs ==
    ASSUME StartInv, SyncInv, UNCHANGED <<scenario, proc, clockVars>>,
           NEW n \in Federations, NEW R, OnlyServer(n, R), MembersHold(n, R),
           rti[n].pc \in {"respond", "closed"} => R.pc \in {"respond", "closed"},
           \A q \in Procs : Has(toRTI'[q], "RESIGN") => Has(toRTI[q], "RESIGN")
    PROVE  SyncInv'
<1>1. Left' = Left
  BY DEF Left, Procs
<1>2. \A q \in Procs : Has(toRTI'[q], "RESIGN") => q \in Left'
  BY <1>1 DEF SyncInv, MembersInv
<1>3. ASSUME NEW o \in Federations
      PROVE  /\ MembersHold(o, rti'[o])
             /\ rti[o].pc \in {"respond", "closed"} => rti'[o].pc \in {"respond", "closed"}
  <2>1. CASE o = n
    <3>1. rti'[o] = R
      BY <2>1 DEF OnlyServer
    <3> QED
      BY <2>1, <3>1
  <2>2. CASE o # n
    <3>1. rti'[o] = rti[o]
      BY <2>2 DEF OnlyServer
    <3> QED
      BY <3>1 DEF SyncInv, MembersInv
  <2> QED
    BY <2>1, <2>2
<1> QED
  BY <1>1, <1>2, <1>3, SyncNext

LEMMA SameMembers ==
    ASSUME NEW n, NEW R, MembersHold(n, R), NEW S, S.socket = R.socket, S.state = R.state,
           S.enabled = R.enabled,
           S.pc \in {"respond", "closed"} => R.pc \in {"respond", "closed"}
    PROVE  MembersHold(n, S)
  BY DEF MembersHold

\* What the RTI reads was said.
LEMMA ReadsSaid ==
    ASSUME StartInv, NEW n, NEW p, NEW type, Reads(n, p, type) \/ UNCHANGED toRTI
    PROVE  \A q \in Procs : Has(toRTI'[q], "RESIGN") => Has(toRTI[q], "RESIGN")
<1> SUFFICES ASSUME NEW q \in Procs, Has(toRTI'[q], "RESIGN") PROVE Has(toRTI[q], "RESIGN")
  OBVIOUS
<1>1. toRTI[q] \in Seq(ToSet(toRTI[q])) /\ DOMAIN toRTI = Procs
  BY OfProcess DEF IsQueue
<1>2. toRTI'[q] = toRTI[q] \/ (toRTI[q] # <<>> /\ toRTI'[q] = Tail(toRTI[q]))
  BY <1>1 DEF Reads
<1>3. CASE toRTI[q] # <<>> /\ toRTI'[q] = Tail(toRTI[q])
  <2>1. ToSet(Tail(toRTI[q])) \subseteq ToSet(toRTI[q])
    BY <1>1, <1>3, QueueTail
  <2> QED
    BY <1>3, <2>1 DEF Has
<1> QED
  BY <1>2, <1>3

\* An RTI that only does its bookkeeping.
LEMMA KeepsMembers ==
    ASSUME StartInv, SyncInv, UNCHANGED <<scenario, proc, clockVars>>,
           NEW n \in Federations, NEW R,
           rti' = [rti EXCEPT ![n] = R] \/ (UNCHANGED rti /\ R = rti[n]),
           R.socket = rti[n].socket, R.state = rti[n].state, R.enabled = rti[n].enabled,
           R.pc \in {"respond", "closed"} <=> rti[n].pc \in {"respond", "closed"},
           NEW p, NEW type, Reads(n, p, type) \/ UNCHANGED toRTI
    PROVE  SyncInv'
<1>1. OnlyServer(n, R)
  BY ServerState
<1>2. MembersHold(n, R)
  <2>1. MembersHold(n, rti[n])
    BY DEF SyncInv, MembersInv
  <2> QED
    BY <2>1, SameMembers
<1>3. \A q \in Procs : Has(toRTI'[q], "RESIGN") => Has(toRTI[q], "RESIGN")
  BY ReadsSaid
<1> QED
  BY <1>1, <1>2, <1>3, ServerSyncs

LEMMA StartRTISync ==
    ASSUME StartInv, SyncInv, NEW n \in Federations, StartRTI(n)
    PROVE  SyncInv'
<1>1. UNCHANGED <<scenario, proc, toRTI, clockVars>> /\ rti[n].pc = "down"
  BY DEF StartRTI
<1>2. PICK S \in Servers(n) : S = rti[n]
  BY OfServer
<1>3. PICK R : R = [S EXCEPT !.pc = "accept"]
  OBVIOUS
<1>4. /\ R.pc = "accept" /\ R.socket = S.socket /\ R.state = S.state /\ R.enabled = S.enabled
  BY <1>3 DEF Servers
<1>5. rti' = [rti EXCEPT ![n] = R]
  BY <1>2, <1>3 DEF StartRTI
<1> QED
  BY <1>1, <1>2, <1>4, <1>5, KeepsMembers

LEMMA RespondTimeoutSync ==
    ASSUME StartInv, SyncInv, NEW n \in Federations, RespondTimeout(n)
    PROVE  SyncInv'
<1>1. UNCHANGED <<scenario, proc, toRTI, clockVars>>
  BY DEF RespondTimeout
<1>2. PICK S \in Servers(n) : S = rti[n]
  BY OfServer
<1>3. PICK R : R = [S EXCEPT !.responder = "over"]
  OBVIOUS
<1>4. /\ R.pc = S.pc /\ R.socket = S.socket /\ R.state = S.state /\ R.enabled = S.enabled
  BY <1>3 DEF Servers
<1>5. rti' = [rti EXCEPT ![n] = R]
  BY <1>2, <1>3 DEF RespondTimeout
<1> QED
  BY <1>1, <1>2, <1>4, <1>5, KeepsMembers

LEMMA ShutdownSync ==
    ASSUME StartInv, SyncInv, NEW n \in Federations, Shutdown(n)
    PROVE  SyncInv'
<1>1. UNCHANGED <<scenario, proc, toRTI, clockVars>> /\ rti[n].pc = "respond"
  BY DEF Shutdown
<1>2. PICK S \in Servers(n) : S = rti[n]
  BY OfServer
<1>3. PICK R : R = [S EXCEPT !.pc = "closed", !.responder = "off"]
  OBVIOUS
<1>4. /\ R.pc = "closed" /\ R.socket = S.socket /\ R.state = S.state /\ R.enabled = S.enabled
  BY <1>3 DEF Servers
<1>5. rti' = [rti EXCEPT ![n] = R]
  BY <1>2, <1>3 DEF Shutdown
<1> QED
  BY <1>1, <1>2, <1>4, <1>5, KeepsMembers

\* The RTI writes, and stays as it is.
LEMMA RespondSync ==
    ASSUME StartInv, SyncInv, NEW n \in Federations, Respond(n)
    PROVE  SyncInv'
  BY KeepsMembers DEF Respond

LEMMA ForwardSync ==
    ASSUME StartInv, SyncInv, NEW n \in Federations, NEW p, Forward(n, p)
    PROVE  SyncInv'
<1>1. UNCHANGED <<scenario, proc, rti, clockVars>>
  BY DEF Forward, Threads
<1>2. \E type : Reads(n, p, type)
  BY DEF Forward
<1> QED
  BY <1>1, <1>2, KeepsMembers

LEMMA HandleAddressSync ==
    ASSUME StartInv, SyncInv, NEW n \in Federations, NEW p, HandleAddress(n, p)
    PROVE  SyncInv'
<1>1. UNCHANGED <<scenario, proc, clockVars>>
  BY DEF HandleAddress, Threads
<1>2. PICK type : Reads(n, p, type)
  BY DEF HandleAddress
<1>3. PICK S \in Servers(n) : S = rti[n]
  BY OfServer
<1>4. PICK server : server = [S.server EXCEPT ![p.id] = Head(toRTI[p]).data]
  OBVIOUS
<1>5. PICK R : R = [S EXCEPT !.server = server]
  OBVIOUS
<1>6. /\ R.pc = S.pc /\ R.socket = S.socket /\ R.state = S.state /\ R.enabled = S.enabled
  BY <1>5 DEF Servers
<1>7. UNCHANGED rti \/ rti' = [rti EXCEPT ![n] = R]
  BY <1>3, <1>4, <1>5 DEF HandleAddress
<1> QED
  BY <1>1, <1>2, <1>3, <1>6, <1>7, KeepsMembers

LEMMA HandleTimestampSync ==
    ASSUME StartInv, SyncInv, NEW n \in Federations, NEW p, HandleTimestamp(n, p)
    PROVE  SyncInv'
<1>1. UNCHANGED <<scenario, proc, clockVars>> /\ Reads(n, p, "TIMESTAMP")
  BY DEF HandleTimestamp, Threads
<1>2. PICK S \in Servers(n) : S = rti[n]
  BY OfServer
<1>3. PICK proposed, proposing, maxStart :
         /\ proposed = S.proposed + 1 /\ proposing = S.proposing \cup {p}
         /\ maxStart = Max({S.maxStart, Head(toRTI[p]).data})
  OBVIOUS
<1>4. PICK R : R = [S EXCEPT !.proposed = proposed, !.proposing = proposing,
                            !.maxStart = maxStart]
  OBVIOUS
<1>5. /\ R.pc = S.pc /\ R.socket = S.socket /\ R.state = S.state /\ R.enabled = S.enabled
  BY <1>4 DEF Servers
<1>6. rti' = [rti EXCEPT ![n] = R]
  BY <1>2, <1>3, <1>4 DEF HandleTimestamp
<1> QED
  BY <1>1, <1>2, <1>5, <1>6, KeepsMembers

LEMMA NewStates ==
    ASSUME NEW n, NEW R, MembersHold(n, R), NEW S, S.enabled = R.enabled, S.pc = R.pc,
           S.socket = R.socket,
           \A id \in Ids(n) : S.state[id] = "NOT_CONNECTED" =>
               R.state[id] = "NOT_CONNECTED" \/ R.socket[id] \in Left
    PROVE  MembersHold(n, S)
  BY DEF MembersHold

LEMMA SendStartTimeSync ==
    ASSUME StartInv, SyncInv, NEW n \in Federations, NEW p, SendStartTime(n, p)
    PROVE  SyncInv'
<1>1. UNCHANGED <<scenario, proc, toRTI, clockVars>>
  BY DEF SendStartTime
<1>2. PICK S \in Servers(n) : S = rti[n]
  BY OfServer
<1>3. PICK answered : answered = S.answered \cup {p}
  OBVIOUS
<1>4. PICK state, proposing : /\ state = [S.state EXCEPT ![p.id] = "GRANTED"]
                              /\ proposing = S.proposing \ {p}
  OBVIOUS
<1>5. CASE p \notin S.answered
  <2>1. PICK R : R = [S EXCEPT !.answered = answered]
    OBVIOUS
  <2>2. /\ R.pc = S.pc /\ R.socket = S.socket /\ R.state = S.state /\ R.enabled = S.enabled
    BY <2>1 DEF Servers
  <2>3. rti' = [rti EXCEPT ![n] = R]
    BY <1>2, <1>3, <1>5, <2>1 DEF SendStartTime
  <2> QED
    BY <1>1, <1>2, <2>2, <2>3, KeepsMembers
<1>6. CASE p \in S.answered
  <2>1. PICK R : R = [S EXCEPT !.state = state, !.proposing = proposing]
    OBVIOUS
  <2>2. /\ R.pc = S.pc /\ R.socket = S.socket /\ R.state = state /\ R.enabled = S.enabled
    BY <2>1 DEF Servers
  <2>3. rti' = [rti EXCEPT ![n] = R]
    BY <1>2, <1>4, <1>6, <2>1 DEF SendStartTime
  <2>4. OnlyServer(n, R)
    BY <2>3, ServerState
  <2>5. \A id \in Ids(n) : R.state[id] = "NOT_CONNECTED" => S.state[id] = "NOT_CONNECTED"
    <3>1. S.state \in [Ids(n) -> {"NOT_CONNECTED", "PENDING", "GRANTED"}]
      BY DEF Servers
    <3> QED
      BY <1>4, <2>2, <3>1
  <2>6. MembersHold(n, S)
    BY <1>2 DEF SyncInv, MembersInv
  <2>7. MembersHold(n, R)
    BY <2>2, <2>5, <2>6, NewStates
  <2>8. rti[n].pc \in {"respond", "closed"} => R.pc \in {"respond", "closed"}
    BY <1>2, <2>2
  <2> QED
    BY <1>1, <2>4, <2>7, <2>8, ServerSyncs
<1> QED
  BY <1>5, <1>6

LEMMA HandleResignSync ==
    ASSUME StartInv, SyncInv, NEW n \in Federations, NEW p, HandleResign(n, p)
    PROVE  SyncInv'
<1>1. UNCHANGED <<scenario, proc, clockVars>> /\ p \in rti[n].served
      /\ Reads(n, p, "RESIGN")
  BY DEF HandleResign, Threads
<1>2. p \in Procs /\ p.fed = n /\ p.id \in Ids(n) /\ TalksTo(rti[n], p)
  BY <1>1, OwnProcess
<1>3. p \in Left
  <2>1. Has(toRTI[p], "RESIGN")
    BY <1>1, <1>2, WasRead
  <2> QED
    BY <1>2, <2>1 DEF SyncInv, MembersInv
<1>4. PICK S \in Servers(n) : S = rti[n]
  BY OfServer
<1>5. PICK state, served : /\ state = [S.state EXCEPT ![p.id] = "NOT_CONNECTED"]
                           /\ served = S.served \ {p}
  OBVIOUS
<1>6. PICK R : R = [S EXCEPT !.state = state, !.served = served]
  OBVIOUS
<1>7. /\ R.pc = S.pc /\ R.socket = S.socket /\ R.state = state /\ R.enabled = S.enabled
  BY <1>6 DEF Servers
<1>8. OnlyServer(n, R)
  <2>1. rti' = [rti EXCEPT ![n] = R]
    BY <1>4, <1>5, <1>6 DEF HandleResign
  <2> QED
    BY <2>1, ServerState
<1>9. ASSUME NEW id \in Ids(n), R.state[id] = "NOT_CONNECTED"
      PROVE  S.state[id] = "NOT_CONNECTED" \/ S.socket[id] \in Left
  <2>1. CASE id = p.id
    <3>1. S.socket[id] = p
      BY <1>2, <1>4, <2>1 DEF TalksTo
    <3> QED
      BY <1>3, <3>1
  <2>2. CASE id # p.id
    <3>1. S.state \in [Ids(n) -> {"NOT_CONNECTED", "PENDING", "GRANTED"}]
      BY DEF Servers
    <3> QED
      BY <1>5, <1>7, <1>9, <2>2, <3>1
  <2> QED
    BY <2>1, <2>2
<1>10. MembersHold(n, S)
  BY <1>4 DEF SyncInv, MembersInv
<1>11. MembersHold(n, R)
  BY <1>7, <1>9, <1>10, NewStates
<1>12. rti[n].pc \in {"respond", "closed"} => R.pc \in {"respond", "closed"}
  BY <1>4, <1>7
<1>13. \A q \in Procs : Has(toRTI'[q], "RESIGN") => Has(toRTI[q], "RESIGN")
  BY <1>1, ReadsSaid
<1> QED
  BY <1>1, <1>8, <1>11, <1>12, <1>13, ServerSyncs

LEMMA AcceptSync ==
    ASSUME StartInv, SyncInv, NEW n \in Federations, Accept(n)
    PROVE  SyncInv'
<1>1. UNCHANGED <<scenario, proc, toRTI, clockVars>> /\ rti[n].pc = "accept"
  BY DEF Accept
<1>2. CASE UNCHANGED rti
  BY <1>1, <1>2, KeepsMembers
<1>3. CASE ~UNCHANGED rti
  <2>1. PICK p : p = Head(backlog[RTIOf(n)])
    OBVIOUS
  <2>2. PICK S \in Servers(n) : S = rti[n]
    BY OfServer
  <2>3. PICK state, socket : /\ state = [S.state EXCEPT ![p.id] = "PENDING"]
                             /\ socket = [S.socket EXCEPT ![p.id] = p]
    OBVIOUS
  <2>4. PICK R : R = [S EXCEPT !.pc = "neighbors", !.with = p, !.state = state,
                              !.socket = socket]
    OBVIOUS
  <2>5. /\ R.pc = "neighbors" /\ R.socket = socket /\ R.state = state
        /\ R.enabled = S.enabled
    BY <2>4 DEF Servers
  <2>6. OnlyServer(n, R)
    <3>1. rti' = [rti EXCEPT ![n].pc = "neighbors", ![n].with = p,
                            ![n].state[p.id] = "PENDING", ![n].socket[p.id] = p]
      BY <1>3, <2>1 DEF Accept
    <3>2. rti' = [rti EXCEPT ![n] = [rti[n] EXCEPT !.pc = "neighbors", !.with = p,
                                !.state = [rti[n].state EXCEPT ![p.id] = "PENDING"],
                                !.socket = [rti[n].socket EXCEPT ![p.id] = p]]]
      BY <3>1
    <3>3. rti' = [rti EXCEPT ![n] = [S EXCEPT !.pc = "neighbors", !.with = p,
                                             !.state = state, !.socket = socket]]
      BY <2>2, <2>3, <3>2
    <3> QED
      BY <2>4, <3>3, ServerState
  <2>7. MembersHold(n, S)
    BY <2>2 DEF SyncInv, MembersInv
  <2>8. ASSUME NEW id \in Ids(n), R.state[id] = "NOT_CONNECTED"
        PROVE  R.socket[id] \in Left \cup {NoOne}
    <3>1. /\ S.state \in [Ids(n) -> {"NOT_CONNECTED", "PENDING", "GRANTED"}]
          /\ S.socket \in [Ids(n) -> Procs \cup {NoOne}]
      BY DEF Servers
    <3>2. id # p.id /\ S.state[id] = "NOT_CONNECTED" /\ R.socket[id] = S.socket[id]
      BY <2>3, <2>5, <2>8, <3>1
    <3> QED
      BY <2>7, <3>2 DEF MembersHold
  <2>9. MembersHold(n, R)
    BY <2>5, <2>7, <2>8 DEF MembersHold
  <2>10. rti[n].pc \notin {"respond", "closed"}
    BY <1>1
  <2> QED
    BY <1>1, <2>6, <2>9, <2>10, ServerSyncs
<1> QED
  BY <1>2, <1>3

\* The last federate joins.
LEMMA JoinedMembers ==
    ASSUME StartInv, NEW n \in Federations, NEW R \in Servers(n), ServerHolds(n, R),
           R.pc \in {"udp", "T3"}, MembersHold(n, R), NEW S, S = Joined(R)
    PROVE  MembersHold(n, S) /\ S \in Servers(n)
<1>1. /\ S \in Servers(n) /\ ServerHolds(n, S) /\ S.socket = R.socket
      /\ S.proposed = R.proposed
  BY JoinedHolds
<1>2. S.state = R.state /\ S.enabled = R.enabled
  <2>1. PICK i, served, pc, responder :
           S = [R EXCEPT !.i = i, !.served = served, !.pc = pc, !.responder = responder]
    BY DEF Joined
  <2> QED
    BY <2>1 DEF Servers
<1>3. ~Agreed(n, S)
  BY <1>1 DEF ServerHolds, JoiningHolds, Joining, Agreed
<1>4. S.pc # "closed"
  BY <1>1, <1>3 DEF ServerHolds, ProposalsHold
<1>5. S.pc \in {"respond", "closed"} => \A id \in Ids(n) : S.socket[id] # NoOne
  BY <1>1, <1>3, <1>4, EveryIdTaken
<1> QED
  BY <1>1, <1>2, <1>5 DEF MembersHold

LEMMA HandshakeSync ==
    ASSUME StartInv, SyncInv, NEW n \in Federations, Handshake(n)
    PROVE  SyncInv'
<1>1. UNCHANGED <<scenario, proc, clockVars>> /\ rti[n].pc \in {"neighbors", "udp", "T3"}
  BY DEF Handshake
<1>2. PICK S \in Servers(n) : S = rti[n]
  BY OfServer
<1>3. PICK p : p = S.with
  OBVIOUS
<1>4. PICK type : Reads(n, p, type)
  BY <1>2, <1>3 DEF Handshake
<1>5. ServerHolds(n, S) /\ MembersHold(n, S)
  BY <1>2, OfServer DEF SyncInv, MembersInv
<1>6. ASSUME NEW R, MembersHold(n, R), rti' = [rti EXCEPT ![n] = R] PROVE SyncInv'
  <2>1. OnlyServer(n, R)
    BY <1>6, ServerState
  <2>2. \A q \in Procs : Has(toRTI'[q], "RESIGN") => Has(toRTI[q], "RESIGN")
    BY <1>4, ReadsSaid
  <2>3. rti[n].pc \notin {"respond", "closed"}
    BY <1>1
  <2> QED
    BY <1>1, <1>6, <2>1, <2>2, <2>3, ServerSyncs
<1>7. ASSUME NEW pc \in {"udp", "T3"}, NEW left,
             rti' = [rti EXCEPT ![n] = [S EXCEPT !.pc = pc, !.left = left]]
      PROVE  SyncInv'
  <2>1. PICK R : R = [S EXCEPT !.pc = pc, !.left = left]
    OBVIOUS
  <2>2. R.pc = pc /\ R.socket = S.socket /\ R.state = S.state /\ R.enabled = S.enabled
    BY <2>1 DEF Servers
  <2>3. MembersHold(n, R)
    BY <1>5, <2>2, SameMembers
  <2> QED
    BY <1>6, <1>7, <2>1, <2>3
<1>8. PICK enabled : enabled = [S.enabled EXCEPT ![p.id] = FALSE]
  OBVIOUS
<1>9. PICK off : off = [S EXCEPT !.enabled = enabled]
  OBVIOUS
<1>10. scenario.sync[n] # "on" => off \in Servers(n) /\ ServerHolds(n, off)
                                  /\ MembersHold(n, off) /\ off.pc = S.pc
  <2> SUFFICES ASSUME scenario.sync[n] # "on"
               PROVE  off \in Servers(n) /\ ServerHolds(n, off) /\ MembersHold(n, off)
                      /\ off.pc = S.pc
    OBVIOUS
  <2>1. enabled \in [Ids(n) -> BOOLEAN]
    BY <1>8 DEF Servers
  <2>2. /\ off \in Servers(n) /\ off.pc = S.pc /\ off.i = S.i /\ off.with = S.with
        /\ off.state = S.state /\ off.socket = S.socket /\ off.served = S.served
        /\ off.proposing = S.proposing /\ off.proposed = S.proposed
        /\ off.maxStart = S.maxStart
    BY <1>9, <2>1 DEF Servers
  <2>3. ServerHolds(n, off)
    BY <1>5, <2>2, ServerRest
  <2>4. MembersHold(n, off)
    BY <1>5, <2>2 DEF MembersHold
  <2> QED
    BY <2>2, <2>3, <2>4
<1>11. CASE S.pc = "neighbors"
  <2>1. rti' = [rti EXCEPT ![n].pc = "udp"]
    BY <1>2, <1>11 DEF Handshake
  <2>2. PICK left : left = S.left
    OBVIOUS
  <2>3. [S EXCEPT !.pc = "udp"] = [S EXCEPT !.pc = "udp", !.left = left]
    BY <2>2 DEF Servers
  <2>4. rti' = [rti EXCEPT ![n] = [S EXCEPT !.pc = "udp", !.left = left]]
    BY <1>2, <2>1, <2>3
  <2> QED
    BY <1>7, <2>4
<1>12. CASE S.pc = "udp" /\ scenario.sync[n] = "off"
  <2>1. rti' = [rti EXCEPT ![n] = Joined(off)]
    BY <1>2, <1>3, <1>8, <1>9, <1>12 DEF Handshake
  <2>2. PICK R : R = Joined(off)
    OBVIOUS
  <2>3. MembersHold(n, R)
    BY <1>10, <1>12, <2>2, JoinedMembers
  <2> QED
    BY <1>6, <2>1, <2>2, <2>3
<1>13. CASE S.pc = "udp" /\ scenario.sync[n] # "off"
  <2>1. rti' = [rti EXCEPT ![n] = [S EXCEPT !.pc = "T3", !.left = Exchanges]]
    BY <1>2, <1>13 DEF Handshake
  <2> QED
    BY <1>7, <2>1
<1>14. CASE S.pc = "T3" /\ S.left > 1
  <2>1. PICK left : left = S.left - 1
    OBVIOUS
  <2>2. rti' = [rti EXCEPT ![n] = [S EXCEPT !.left = left]]
    BY <1>2, <1>14, <2>1 DEF Handshake
  <2>3. [S EXCEPT !.left = left] = [S EXCEPT !.pc = "T3", !.left = left]
    BY <1>14 DEF Servers
  <2> QED
    BY <1>7, <2>2, <2>3
<1>15. CASE S.pc = "T3" /\ ~(S.left > 1)
  <2>1. rti' = [rti EXCEPT ![n] = Joined(IF scenario.sync[n] = "on" THEN S ELSE off)]
    BY <1>2, <1>3, <1>8, <1>9, <1>15 DEF Handshake
  <2>2. PICK last : last = IF scenario.sync[n] = "on" THEN S ELSE off
    OBVIOUS
  <2>3. last \in Servers(n) /\ ServerHolds(n, last) /\ MembersHold(n, last) /\ last.pc = "T3"
    BY <1>5, <1>10, <1>15, <2>2
  <2>4. PICK R : R = Joined(last)
    OBVIOUS
  <2>5. MembersHold(n, R)
    BY <2>3, <2>4, JoinedMembers
  <2> QED
    BY <1>6, <2>1, <2>2, <2>4, <2>5
<1> QED
  BY <1>1, <1>2, <1>11, <1>12, <1>13, <1>14, <1>15

-----------------------------------------------------------------------------
(* The turns of the clock thread, and the answers.                         *)

\* Who is not served has left.
LEMMA NotServed ==
    ASSUME StartInv, SyncInv, thread.pc # "off", NEW k \in DOMAIN thread.order,
           NEW p, p = thread.order[k], p \notin Served
    PROVE  p \in Left
<1>1. /\ p \in Procs /\ p.fed \in Federations /\ p.id \in Ids(p.fed)
      /\ scenario.sync[p.fed] = "on"
      /\ \A q \in Procs : q.fed = p.fed /\ q.id = p.id => q = p
  BY Ordered DEF SyncInv
<1>2. PICK n, R : n = p.fed /\ R = rti[p.fed]
  OBVIOUS
<1>3. R \in Servers(n) /\ SocketsHold(n, R) /\ MembersHold(n, R)
  BY <1>1, <1>2, OfServer DEF ServerHolds, SyncInv, MembersInv
<1>4. R.pc \in {"respond", "closed"}
  BY <1>2 DEF SyncInv
<1>5. R.socket[p.id] = p
  <2>1. R.socket[p.id] # NoOne /\ R.socket[p.id] \in Procs \cup {NoOne}
    BY <1>1, <1>2, <1>3, <1>4 DEF MembersHold, Servers
  <2>2. R.socket[p.id].fed = n /\ R.socket[p.id].id = p.id
    BY <1>1, <1>2, <1>3, <2>1 DEF SocketsHold
  <2> QED
    BY <1>1, <1>2, <2>1, <2>2
<1>6. p \in ToSet(R.socket)
  BY <1>1, <1>2, <1>3, <1>5 DEF ToSet, Servers
<1>7. R.enabled[p.id]
  BY <1>1, <1>2, <1>3 DEF MembersHold
<1>8. R.state[p.id] = "NOT_CONNECTED"
  BY <1>1, <1>2, <1>6, <1>7 DEF Served
<1>9. p # NoOne
  <2>1. NoOne.fed = "none"
    BY DEF NoOne, RTIOf
  <2> QED
    BY <1>1, <2>1, OfServer
<1> QED
  BY <1>1, <1>2, <1>3, <1>5, <1>8, <1>9 DEF MembersHold

LEMMA ClockTurn ==
    ASSUME StartInv, SyncInv, UNCHANGED startVars, thread'.order = thread.order,
           DOMAIN listener' = DOMAIN listener,
           thread.pc = "off" /\ thread'.pc # "off" => \A k \in DOMAIN thread.order :
               rti[thread.order[k].fed].pc \in {"respond", "closed"},
           ~disturbed' => AnswerHolds' /\ \A f \in DOMAIN listener \ Left : AskedHolds(f)'
    PROVE  SyncInv'
<1>1. UNCHANGED <<scenario, rti, proc, toRTI>> /\ Left' = Left
  BY DEF startVars, Left, Procs
<1>2. MembersInv'
  BY <1>1 DEF SyncInv, MembersInv, MembersHold, Ids, Has, Federations, Procs
<1>3. thread'.pc # "off" => \A k \in DOMAIN thread'.order :
          rti'[thread'.order[k].fed].pc \in {"respond", "closed"}
  BY <1>1 DEF SyncInv
<1>4. thread'.order = scenario'.order
  BY <1>1 DEF SyncInv
<1> QED
  BY <1>1, <1>2, <1>3, <1>4 DEF SyncInv

LEMMA NextAny ==
    ASSUME NEW S, NEW t \in ClockThreads(S)
    PROVE  NextTurn(t).any = t.any /\ (NextTurn(t).pc = "done" => ~t.any)
<1>1. CASE t.at < Len(t.order)
  <2>1. PICK next : next = t.at + 1
    OBVIOUS
  <2>2. NextTurn(t) = [t EXCEPT !.pc = "send", !.at = next]
    BY <1>1, <2>1 DEF NextTurn
  <2> QED
    BY <2>2 DEF ClockThreads
<1>2. CASE ~(t.at < Len(t.order))
  <2>1. PICK pc : pc = IF t.any THEN "sleep" ELSE "done"
    OBVIOUS
  <2>2. NextTurn(t) = [t EXCEPT !.pc = pc, !.at = 0]
    BY <1>2, <2>1 DEF NextTurn
  <2>3. NextTurn(t).any = t.any /\ NextTurn(t).pc = pc
    BY <2>2 DEF ClockThreads
  <2> QED
    BY <2>1, <2>3
<1> QED
  BY <1>1, <1>2

\* The thread goes on to the next federate when this one has answered or left.
LEMMA NextAsks ==
    ASSUME ClockTypeOK, UNCHANGED startVars, Len(up') = 0,
           NEW t \in ClockThreads(DOMAIN listener), t.order = thread.order,
           thread' = NextTurn(t),
           ~t.any => \A k \in DOMAIN thread.order : k <= t.at => thread.order[k] \in Left
    PROVE  AnswerHolds' /\ thread'.order = thread.order /\ thread'.pc \notin {"off", "read"}
<1>1. Left' = Left
  BY DEF startVars, Left, Procs
<1>2. /\ thread'.order = thread.order /\ thread'.any = t.any
      /\ thread'.pc = "done" => ~t.any
      /\ \/ t.at < Len(t.order) /\ thread'.pc = "send" /\ thread'.at = t.at + 1
         \/ ~(t.at < Len(t.order)) /\ thread'.pc \in {"sleep", "done"}
  BY NextTurns, NextAny
<1>3. /\ t.at \in Nat /\ Len(thread.order) \in Nat
      /\ DOMAIN thread.order = 1 .. Len(thread.order)
  BY ThreadTypes DEF ClockThreads
<1>4. ASSUME thread'.pc \in {"send", "read"}, ~thread'.any, NEW k \in 1 .. thread'.at - 1
      PROVE  thread'.order[k] \in Left'
  <2>1. t.at < Len(thread.order) /\ thread'.at = t.at + 1
    BY <1>2, <1>4
  <2>2. k \in DOMAIN thread.order /\ k <= t.at
    BY <1>3, <1>4, <2>1
  <2> QED
    BY <1>1, <1>2, <1>4, <2>2
<1>5. ASSUME thread'.pc = "done", NEW k \in DOMAIN thread'.order
      PROVE  thread'.order[k] \in Left'
  <2>1. ~(t.at < Len(thread.order)) /\ ~t.any
    BY <1>2, <1>5
  <2>2. k \in DOMAIN thread.order /\ k <= t.at
    BY <1>2, <1>3, <1>5, <2>1
  <2> QED
    BY <1>1, <1>2, <2>1, <2>2
<1>6. thread'.pc \notin {"off", "read"}
  BY <1>2
<1> QED
  BY <1>2, <1>4, <1>5, <1>6 DEF AnswerHolds

\* No T1 message is under way in d, or one.
NoT1(d) == \A i \in DOMAIN d : d[i].type # "T1"
OneT1(d) == \A i, j \in DOMAIN d : d[i].type = "T1" /\ d[j].type = "T1" => i = j

LEMMA NoneAsked ==
    ASSUME NEW f, NoT1(down'[f])
    PROVE  AskedHolds(f)'
  BY DEF NoT1, AskedHolds

LEMMA NotAsked ==
    ASSUME NEW f, AskedHolds(f), thread.pc # "read" \/ f # Current \/ Len(up) # 0
    PROVE  NoT1(down[f])
  BY DEF NoT1, AskedHolds

LEMMA RestT1 ==
    ASSUME NEW d \in Seq(Packets), d # <<>>
    PROVE  /\ NoT1(d) => NoT1(Tail(d))
           /\ OneT1(d) => OneT1(Tail(d))
           /\ OneT1(d) /\ d[1].type = "T1" => NoT1(Tail(d))
<1>1. PICK e, n : RestIs(d, e, n)
  BY RestOf
<1>2. /\ e = Tail(d) /\ n \in Nat /\ DOMAIN d = 1 .. n + 1 /\ DOMAIN e = 1 .. n
      /\ \A i \in 1 .. n : e[i] = d[i + 1] /\ i + 1 \in 1 .. n + 1
  BY <1>1 DEF RestIs
<1>3. ASSUME NoT1(d) PROVE NoT1(e)
  BY <1>2, <1>3 DEF NoT1
<1>4. ASSUME OneT1(d) PROVE OneT1(e)
  <2> SUFFICES ASSUME NEW i \in 1 .. n, NEW j \in 1 .. n, e[i].type = "T1", e[j].type = "T1"
               PROVE  i = j
    BY <1>2 DEF OneT1
  <2>1. PICK k, l : k = i + 1 /\ l = j + 1
    OBVIOUS
  <2>2. k \in DOMAIN d /\ l \in DOMAIN d /\ d[k].type = "T1" /\ d[l].type = "T1"
    BY <1>2, <2>1
  <2>3. k = l
    BY <1>4, <2>2 DEF OneT1
  <2> QED
    BY <2>1, <2>3
<1>5. ASSUME OneT1(d), d[1].type = "T1" PROVE NoT1(e)
  <2> SUFFICES ASSUME NEW i \in 1 .. n, e[i].type = "T1" PROVE FALSE
    BY <1>2 DEF NoT1
  <2>1. PICK k : k = i + 1
    OBVIOUS
  <2>2. k \in DOMAIN d /\ 1 \in DOMAIN d /\ d[k].type = "T1" /\ k # 1
    BY <1>2, <2>1
  <2> QED
    BY <1>5, <2>2 DEF OneT1
<1> QED
  BY <1>2, <1>3, <1>4, <1>5

LEMMA MoreT1 ==
    ASSUME NEW d \in Seq(Packets), NEW p \in Packets, NoT1(d)
    PROVE  OneT1(Append(d, p)) /\ (p.type # "T1" => NoT1(Append(d, p)))
<1>1. PICK e, n : LongerIs(d, p, e, n)
  BY OneMore
<1>2. /\ e = Append(d, p) /\ DOMAIN d = 1 .. n /\ DOMAIN e = 1 .. n + 1
      /\ e[n + 1] = p /\ \A i \in 1 .. n : e[i] = d[i]
      /\ \A i \in 1 .. n + 1 : i # n + 1 => i \in 1 .. n
  BY <1>1 DEF LongerIs
<1>3. \A i \in DOMAIN e : e[i].type = "T1" => i = n + 1
  BY <1>2 DEF NoT1
<1>4. OneT1(e)
  BY <1>3 DEF OneT1
<1>5. p.type # "T1" => NoT1(e)
  BY <1>2, <1>3 DEF NoT1
<1> QED
  BY <1>2, <1>4, <1>5

\* Undisturbed, what SyncInv says of the clock thread.
LEMMA Undisturbed ==
    ASSUME StartInv, SyncInv, ClockTypeOK, UNCHANGED startVars, disturbed' \/ ~disturbed,
           ~disturbed'
    PROVE  /\ AnswerHolds /\ \A f \in DOMAIN listener \ Left : AskedHolds(f)
           /\ Left' = Left /\ up \in Seq([from : DOMAIN listener, round : Nat])
           /\ Len(up) \in Nat /\ (thread.pc # "read" => Len(up) = 0)
<1>1. AnswerHolds /\ \A f \in DOMAIN listener \ Left : AskedHolds(f)
  BY DEF SyncInv
<1>2. Left' = Left
  BY DEF startVars, Left, Procs
<1>3. up \in Seq([from : DOMAIN listener, round : Nat])
  BY DEF ClockTypeOK
<1>4. Len(up) \in Nat
  BY <1>3
<1> QED
  BY <1>1, <1>2, <1>3, <1>4 DEF AnswerHolds

LEMMA StartSync ==
    ASSUME StartInv, SyncInv, ClockTypeOK, UNCHANGED startVars, StartClockThread
    PROVE  SyncInv'
<1>1. /\ thread.pc = "off" /\ thread' = [thread EXCEPT !.pc = "sleep", !.any = TRUE]
      /\ UNCHANGED <<listener, down, up, disturbed>>
  BY DEF StartClockThread, StartThread
<1>2. thread'.pc = "sleep" /\ thread'.order = thread.order
  BY <1>1 DEF ClockTypeOK, ClockThreads
<1>3. ASSUME NEW k \in DOMAIN thread.order
      PROVE  rti[thread.order[k].fed].pc \in {"respond", "closed"}
  <2>1. PICK n \in Federations : scenario.sync[n] = "on" /\ rti[n].pc = "respond"
    BY DEF StartClockThread
  <2>2. PICK p : p = thread.order[k]
    OBVIOUS
  <2>3. p.fed \in Federations /\ scenario.sync[p.fed] = "on"
    BY <2>2, Ordered DEF SyncInv
  <2>4. scenario \in Scenarios
    BY DEF StartInv, StartTypeOK
  <2>5. p.fed = n
    BY <2>1, <2>3, <2>4, SyncAssumption DEF Federations
  <2> QED
    BY <2>1, <2>2, <2>5
<1>4. ASSUME ~disturbed'
      PROVE  AnswerHolds' /\ \A f \in DOMAIN listener \ Left : AskedHolds(f)'
  <2>1. /\ \A f \in DOMAIN listener \ Left : AskedHolds(f)
        /\ Len(up) = 0
    BY <1>1, <1>4, Undisturbed
  <2>2. AnswerHolds'
    BY <1>1, <1>2, <2>1 DEF AnswerHolds
  <2>3. ASSUME NEW f \in DOMAIN listener \ Left PROVE AskedHolds(f)'
    BY <1>1, <2>1, NotAsked, NoneAsked
  <2> QED
    BY <2>2, <2>3
<1> QED
  BY <1>1, <1>2, <1>3, <1>4, ClockTurn

LEMMA BeginSync ==
    ASSUME StartInv, SyncInv, ClockTypeOK, UNCHANGED startVars, BeginRound
    PROVE  SyncInv'
<1>1. /\ thread.pc = "sleep" /\ UNCHANGED <<listener, down, up, disturbed>>
      /\ thread' = NextTurn([thread EXCEPT !.any = FALSE, !.round = @ + 1])
  BY DEF BeginRound
<1>2. /\ thread \in ClockThreads(DOMAIN listener) /\ thread.at = 0 /\ thread.round \in Nat
      /\ DOMAIN thread.order = 1 .. Len(thread.order) /\ Len(thread.order) \in Nat
  BY <1>1, ThreadTypes DEF ClockTypeOK
<1>3. PICK next : next = thread.round + 1
  OBVIOUS
<1>4. PICK t : t = [thread EXCEPT !.any = FALSE, !.round = next]
  OBVIOUS
<1>5. t \in ClockThreads(DOMAIN listener) /\ t.order = thread.order /\ t.at = 0
  <2>1. next \in Nat
    BY <1>2, <1>3
  <2> QED
    BY <1>2, <1>4, <2>1 DEF ClockThreads
<1>6. thread' = NextTurn(t)
  BY <1>1, <1>3, <1>4
<1>7. thread'.order = thread.order
  BY <1>5, <1>6, NextTurns
<1>8. ASSUME ~disturbed'
      PROVE  AnswerHolds' /\ \A f \in DOMAIN listener \ Left : AskedHolds(f)'
  <2>1. /\ \A f \in DOMAIN listener \ Left : AskedHolds(f)
        /\ Len(up') = 0
    BY <1>1, <1>8, Undisturbed
  <2>2. \A k \in DOMAIN thread.order : ~(k <= t.at)
    BY <1>2, <1>5
  <2>3. AnswerHolds'
    BY <1>5, <1>6, <2>1, <2>2, NextAsks
  <2>4. ASSUME NEW f \in DOMAIN listener \ Left PROVE AskedHolds(f)'
    BY <1>1, <2>1, NotAsked, NoneAsked
  <2> QED
    BY <2>3, <2>4
<1> QED
  BY <1>1, <1>7, <1>8, ClockTurn

\* The thread goes on to the next federate because this one is not there any more.
LEMMA PassesBy ==
    ASSUME StartInv, SyncInv, ClockTypeOK, UNCHANGED startVars, UNCHANGED <<listener, down, up>>,
           thread.pc \in {"send", "read"}, thread' = NextTurn(thread),
           disturbed' \/ ~disturbed, ~disturbed' => Current \in Left /\ Len(up) = 0
    PROVE  SyncInv'
<1>1. /\ thread \in ClockThreads(DOMAIN listener) /\ thread.at \in DOMAIN thread.order
      /\ DOMAIN thread.order = 1 .. Len(thread.order) /\ Len(thread.order) \in Nat
  BY ThreadTypes DEF ClockTypeOK
<1>2. thread'.order = thread.order
  BY <1>1, NextTurns
<1>3. ASSUME ~disturbed'
      PROVE  AnswerHolds' /\ \A f \in DOMAIN listener \ Left : AskedHolds(f)'
  <2>1. /\ AnswerHolds /\ \A f \in DOMAIN listener \ Left : AskedHolds(f)
        /\ Len(up') = 0 /\ Current \in Left
    BY <1>3, Undisturbed
  <2>2. ASSUME ~thread.any, NEW k \in DOMAIN thread.order, k <= thread.at
        PROVE  thread.order[k] \in Left
    <3>1. CASE k = thread.at
      BY <2>1, <3>1 DEF Current
    <3>2. CASE k # thread.at
      <4>1. k \in 1 .. thread.at - 1
        BY <1>1, <2>2, <3>2
      <4> QED
        BY <2>1, <2>2, <4>1 DEF AnswerHolds
    <3> QED
      BY <3>1, <3>2
  <2>3. AnswerHolds'
    BY <1>1, <2>1, <2>2, NextAsks
  <2>4. ASSUME NEW f \in DOMAIN listener \ Left PROVE AskedHolds(f)'
    <3>1. f # Current
      BY <2>1
    <3> QED
      BY <2>1, <3>1, NotAsked, NoneAsked
  <2> QED
    BY <2>3, <2>4
<1> QED
  BY <1>1, <1>2, <1>3, ClockTurn

LEMMA ReadTimeoutSync ==
    ASSUME StartInv, SyncInv, ClockTypeOK, UNCHANGED startVars, ReadTimeout(Left)
    PROVE  SyncInv'
<1>1. /\ thread.pc = "read" /\ thread' = NextTurn(thread) /\ UNCHANGED <<listener, down, up>>
      /\ disturbed' = (disturbed \/ Current \notin Left
                           \/ \E i \in DOMAIN up : up[i].from = Current)
  BY DEF ReadTimeout
<1>2. ASSUME ~disturbed' PROVE Current \in Left /\ Len(up) = 0
  <2>1. AnswerHolds /\ Len(up) \in Nat /\ up \in Seq([from : DOMAIN listener, round : Nat])
    BY <1>1, <1>2, Undisturbed
  <2>2. Current \in Left /\ \A i \in DOMAIN up : up[i].from # Current
    BY <1>1, <1>2
  <2>3. Len(up) # 1
    <3>1. Len(up) = 1 => 1 \in DOMAIN up
      BY <2>1
    <3> QED
      BY <1>1, <2>1, <2>2, <3>1 DEF AnswerHolds
  <2>4. Len(up) <= 1
    BY <1>1, <2>1 DEF AnswerHolds
  <2> QED
    BY <2>1, <2>2, <2>3, <2>4
<1> QED
  BY <1>1, <1>2, PassesBy

LEMMA SendT1Sync ==
    ASSUME StartInv, SyncInv, ClockTypeOK, UNCHANGED startVars, SendT1(Served)
    PROVE  SyncInv'
<1>1. thread.pc = "send" /\ UNCHANGED <<listener, up>>
  BY DEF SendT1
<1>2. PICK at, g : at = thread.at /\ g = thread.order[at]
  OBVIOUS
<1>3. /\ thread \in ClockThreads(DOMAIN listener) /\ at \in DOMAIN thread.order
      /\ g = Current /\ g \in DOMAIN listener
  BY <1>1, <1>2, ThreadTypes DEF ClockTypeOK, Current
<1>4. CASE g \notin Served
  <2>1. thread' = NextTurn(thread) /\ UNCHANGED <<down, disturbed>>
    BY <1>3, <1>4 DEF SendT1
  <2>2. g \in Left
    BY <1>1, <1>2, <1>3, <1>4, NotServed
  <2>3. ~disturbed' => Current \in Left /\ Len(up) = 0
    BY <1>1, <1>3, <2>1, <2>2, Undisturbed
  <2> QED
    BY <1>1, <2>1, <2>3, PassesBy
<1>5. CASE g \in Served
  <2>1. PICK p : p = [type |-> "T1", round |-> thread.round]
    OBVIOUS
  <2>2. /\ thread' = [thread EXCEPT !.pc = "read", !.left = Attempts]
        /\ Send(g, <<p>>)
    BY <1>3, <1>5, <2>1 DEF SendT1
  <2>3. /\ thread'.pc = "read" /\ thread'.left = Attempts /\ thread'.order = thread.order
        /\ thread'.at = at /\ thread'.any = thread.any
    BY <1>2, <1>3, <2>2 DEF ClockThreads
  <2>4. p \in Packets
    BY <2>1, ThreadTypes DEF Packets
  <2>5. PICK some \in Arriving(<<p>>) :
           /\ down' = [down EXCEPT ![g] = @ \o some]
           /\ disturbed' = (disturbed \/ some # <<p>>)
    BY <2>2 DEF Send
  <2>6. ASSUME ~disturbed'
        PROVE  AnswerHolds' /\ \A f \in DOMAIN listener \ Left : AskedHolds(f)'
    <3>1. /\ AnswerHolds /\ \A f \in DOMAIN listener \ Left : AskedHolds(f)
          /\ Left' = Left /\ Len(up) = 0
      BY <1>1, <2>5, <2>6, Undisturbed
    <3>2. some = <<p>>
      BY <2>5, <2>6
    <3>3. AnswerHolds'
      BY <1>1, <1>2, <2>3, <3>1 DEF AnswerHolds
    <3>4. down \in [DOMAIN listener -> Seq(Packets)]
      BY DEF ClockTypeOK
    <3>5. ASSUME NEW f \in DOMAIN listener \ Left, f # g PROVE AskedHolds(f)'
      <4>1. down'[f] = down[f]
        BY <2>5, <3>4, <3>5
      <4> QED
        BY <1>1, <3>1, <3>5, <4>1, NotAsked, NoneAsked
    <3>6. ASSUME g \notin Left PROVE AskedHolds(g)'
      <4>1. PICK d \in Seq(Packets) : d = down[g]
        BY <1>3, <3>4
      <4>2. NoT1(d)
        BY <1>1, <1>3, <3>1, <3>6, <4>1, NotAsked
      <4>3. OneT1(Append(d, p))
        BY <2>4, <4>2, MoreT1
      <4>4. d \o <<p>> = Append(d, p)
        BY <2>4
      <4>5. down'[g] = Append(d, p)
        BY <1>3, <2>5, <3>2, <3>4, <4>1, <4>4
      <4>6. Current' = g
        BY <1>2, <2>3 DEF Current
      <4>7. Len(up') = 0
        BY <1>1, <3>1
      <4> QED
        BY <2>3, <4>3, <4>5, <4>6, <4>7 DEF AskedHolds, OneT1
    <3> QED
      BY <3>3, <3>5, <3>6
  <2> QED
    BY <1>1, <2>3, <2>6, ClockTurn
<1> QED
  BY <1>4, <1>5

LEMMA ReadT3Sync ==
    ASSUME StartInv, SyncInv, ClockTypeOK, UNCHANGED startVars, ReadT3(Served)
    PROVE  SyncInv'
<1>1. thread.pc = "read" /\ up # <<>> /\ up' = Tail(up) /\ UNCHANGED listener
  BY DEF ReadT3
<1>2. PICK g : g = Current
  OBVIOUS
<1>3. /\ thread \in ClockThreads(DOMAIN listener) /\ thread.left \in Int
      /\ g \in DOMAIN listener /\ down \in [DOMAIN listener -> Seq(Packets)]
  BY <1>1, <1>2, ThreadTypes DEF ClockTypeOK, Current
<1>4. PICK left : left = thread.left - 1
  OBVIOUS
<1>5. PICK any : any = (thread.any \/ left > 0)
  OBVIOUS
<1>6. PICK t, u : t = [thread EXCEPT !.left = left, !.any = any]
                  /\ u = [thread EXCEPT !.left = left]
  OBVIOUS
<1>7. /\ t \in ClockThreads(DOMAIN listener) /\ t.order = thread.order /\ t.any = any
      /\ u \in ClockThreads(DOMAIN listener) /\ u.order = thread.order
  <2>1. left \in Int /\ any \in BOOLEAN
    BY <1>3, <1>4, <1>5
  <2> QED
    BY <1>3, <1>6, <2>1 DEF ClockThreads
<1>8. PICK T3 : T3 = Head(up)
  OBVIOUS
<1>9. PICK p, q : /\ p = [type |-> "T4", round |-> T3.round]
                  /\ q = [type |-> "probe", round |-> T3.round]
  OBVIOUS
<1>10. \/ /\ T3.from = g /\ thread' = NextTurn(t)
          /\ Send(g, IF g \notin Served THEN <<>> ELSE <<p, q>>)
       \/ /\ T3.from # g /\ thread' \in {u, NextTurn(u)} /\ UNCHANGED <<down, disturbed>>
  <2>1. u.left = left
    BY <1>3, <1>6 DEF ClockThreads
  <2>2. [u EXCEPT !.any = @ \/ u.left > 0] = t
    <3>1. u.any = thread.any
      BY <1>3, <1>6 DEF ClockThreads
    <3>2. [u EXCEPT !.any = u.any \/ u.left > 0] = [u EXCEPT !.any = any]
      BY <1>5, <2>1, <3>1
    <3>3. [u EXCEPT !.any = any] = t
      BY <1>3, <1>6 DEF ClockThreads
    <3> QED
      BY <3>2, <3>3
  <2>3. u = [thread EXCEPT !.left = @ - 1]
    BY <1>4, <1>6
  <2> QED
    BY <1>2, <1>8, <1>9, <2>2, <2>3 DEF ReadT3
<1>11. thread'.order = thread.order
  <2>1. thread' \in {u, NextTurn(t), NextTurn(u)}
    BY <1>10
  <2>2. NextTurn(t).order = thread.order /\ NextTurn(u).order = thread.order
    BY <1>7, NextTurns
  <2> QED
    BY <1>7, <2>1, <2>2
<1>12. ASSUME ~disturbed'
       PROVE  AnswerHolds' /\ \A f \in DOMAIN listener \ Left : AskedHolds(f)'
  <2>1. disturbed' \/ ~disturbed
    BY <1>10 DEF Send
  <2>2. /\ AnswerHolds /\ \A f \in DOMAIN listener \ Left : AskedHolds(f)
        /\ up \in Seq([from : DOMAIN listener, round : Nat]) /\ Len(up) \in Nat
    BY <1>12, <2>1, Undisturbed
  <2>14. PICK answers : answers = [from : DOMAIN listener, round : Nat]
    OBVIOUS
  <2>15. up \in Seq(answers)
    BY <2>14, <2>2
  <2>16. /\ Len(up) > 0 /\ Len(Tail(up)) = Len(up) - 1 /\ Head(up) = up[1]
         /\ up[1] \in answers
    BY <1>1, <2>15, TailFacts
  <2>3. Len(up) = 1
    <3>1. PICK n : n = Len(up)
      OBVIOUS
    <3>2. n <= 1
      BY <1>1, <2>2, <3>1 DEF AnswerHolds
    <3>3. n \in Nat /\ n > 0
      BY <2>2, <2>16, <3>1
    <3>4. n = 1
      BY <3>2, <3>3
    <3> QED
      BY <3>1, <3>4
  <2>4. /\ T3 = up[1] /\ up[1] \in [from : DOMAIN listener, round : Nat]
        /\ Len(up') = 0
    BY <1>1, <1>8, <2>14, <2>16, <2>3
  <2>5. T3.from = g
    BY <1>1, <1>2, <2>2, <2>3, <2>4 DEF AnswerHolds
  <2>6. thread' = NextTurn(t) /\ Send(g, IF g \notin Served THEN <<>> ELSE <<p, q>>)
    BY <1>10, <2>5
  <2>7. t.any
    <3>1. thread.left = Attempts
      BY <1>1, <2>2 DEF AnswerHolds
    <3>2. left > 0
      BY <1>3, <1>4, <3>1, SyncAssumption
    <3> QED
      BY <1>5, <1>7, <3>2
  <2>8. AnswerHolds'
    BY <1>7, <2>4, <2>6, <2>7, NextAsks
  <2>9. p \in Packets /\ q \in Packets /\ p.type # "T1" /\ q.type # "T1"
    BY <1>9, <2>4 DEF Packets
  <2>10. PICK d \in Seq(Packets) : d = down[g]
    BY <1>3
  <2>11. PICK d2 : /\ down' = [down EXCEPT ![g] = d2]
                   /\ d2 \in {d, Append(d, p), Append(Append(d, p), q)}
    <3>1. CASE g \in Served
      <4>1. Send(g, <<p, q>>)
        BY <2>6, <3>1
      <4> QED
        BY <1>3, <2>9, <2>10, <4>1, SendsTwo
    <3>2. CASE g \notin Served
      <4>1. Send(g, <<>>)
        BY <2>6, <3>2
      <4> QED
        BY <1>3, <2>10, <4>1, SendsNone
    <3> QED
      BY <3>1, <3>2
  <2>12. NoT1(d) => NoT1(d2)
    <3> SUFFICES ASSUME NoT1(d) PROVE NoT1(d2)
      OBVIOUS
    <3>1. PICK e : e = Append(d, p)
      OBVIOUS
    <3>2. e \in Seq(Packets) /\ NoT1(e)
      BY <2>9, <3>1, MoreT1
    <3>3. NoT1(Append(e, q))
      BY <2>9, <3>2, MoreT1
    <3> QED
      BY <2>11, <3>1, <3>2, <3>3
  <2>13. ASSUME NEW f \in DOMAIN listener \ Left PROVE AskedHolds(f)'
    <3>1. NoT1(down[f])
      BY <2>2, <2>3, <2>13, NotAsked
    <3>2. NoT1(down'[f])
      <4>1. CASE f = g
        <5>1. down'[f] = d2
          BY <1>3, <2>11, <4>1
        <5> QED
          BY <2>10, <2>12, <3>1, <4>1, <5>1
      <4>2. CASE f # g
        <5>1. down'[f] = down[f]
          BY <1>3, <2>11, <2>13, <4>2
        <5> QED
          BY <3>1, <5>1
      <4> QED
        BY <4>1, <4>2
    <3> QED
      BY <3>2, NoneAsked
  <2> QED
    BY <2>8, <2>13
<1> QED
  BY <1>1, <1>11, <1>12, ClockTurn

LEMMA AskedAlone ==
    ASSUME NEW f, AskedHolds(f), ~NoT1(down[f])
    PROVE  thread.pc = "read" /\ f = Current /\ Len(up) = 0 /\ OneT1(down[f])
  BY DEF NoT1, OneT1, AskedHolds

LEMMA OneAsked ==
    ASSUME NEW f, OneT1(down'[f]), thread'.pc = "read", f = Current', Len(up') = 0
    PROVE  AskedHolds(f)'
  BY DEF OneT1, AskedHolds

\* A federate takes a packet without an answer.
LEMMA ReceiveSync ==
    ASSUME StartInv, SyncInv, ClockTypeOK, UNCHANGED startVars, NEW f \in DOMAIN listener,
           NEW types, Receives(f, types), UNCHANGED <<up, disturbed>>,
           DOMAIN listener' = DOMAIN listener
    PROVE  SyncInv'
<1>1. /\ down[f] \in Seq(Packets) /\ down[f] # <<>>
      /\ down' = [down EXCEPT ![f] = Tail(down[f])] /\ UNCHANGED thread
      /\ down \in [DOMAIN listener -> Seq(Packets)]
  BY ReceivesFirst DEF ClockTypeOK
<1>2. ASSUME ~disturbed'
      PROVE  AnswerHolds' /\ \A g \in DOMAIN listener \ Left : AskedHolds(g)'
  <2>1. /\ AnswerHolds /\ \A g \in DOMAIN listener \ Left : AskedHolds(g)
        /\ Left' = Left
    BY <1>2, Undisturbed
  <2>2. AnswerHolds'
    BY <1>1, <2>1 DEF AnswerHolds, Current
  <2>3. ASSUME NEW g \in DOMAIN listener \ Left PROVE AskedHolds(g)'
    <3>1. PICK d, d2 : d = down[g] /\ d2 = down'[g]
      OBVIOUS
    <3>2. (NoT1(d) => NoT1(d2)) /\ (OneT1(d) => OneT1(d2))
      <4>1. CASE g = f
        <5>1. d = down[f] /\ d2 = Tail(down[f])
          BY <1>1, <3>1, <4>1
        <5> QED
          BY <1>1, <5>1, RestT1
      <4>2. CASE g # f
        <5>1. d2 = d
          BY <1>1, <2>3, <3>1, <4>2
        <5> QED
          BY <5>1
      <4> QED
        BY <4>1, <4>2
    <3>3. CASE NoT1(d)
      BY <3>1, <3>2, <3>3, NoneAsked
    <3>4. CASE ~NoT1(d)
      <4>1. thread.pc = "read" /\ g = Current /\ Len(up) = 0 /\ OneT1(d)
        BY <2>1, <2>3, <3>1, <3>4, AskedAlone
      <4>2. thread'.pc = "read" /\ g = Current' /\ Len(up') = 0
        BY <1>1, <4>1 DEF Current
      <4> QED
        BY <3>1, <3>2, <4>1, <4>2, OneAsked
    <3> QED
      BY <3>3, <3>4
  <2> QED
    BY <2>2, <2>3
<1> QED
  BY <1>1, <1>2, ClockTurn

\* A federate answers.
LEMMA HandleT1Sync ==
    ASSUME StartInv, SyncInv, ClockTypeOK, UNCHANGED startVars, NEW f \in DOMAIN listener \ Left,
           HandleT1(f)
    PROVE  SyncInv'
<1>1. PICK l2 : listener' = [listener EXCEPT ![f] = l2]
  BY DEF HandleT1
<1>2. DOMAIN listener' = DOMAIN listener
  BY <1>1
<1>3. /\ down[f] \in Seq(Packets) /\ down[f] # <<>> /\ down[f][1].type = "T1"
      /\ Head(down[f]) = down[f][1] /\ down[f][1].round \in Nat
      /\ down' = [down EXCEPT ![f] = Tail(down[f])] /\ UNCHANGED thread
      /\ down \in [DOMAIN listener -> Seq(Packets)]
  <2>1. Receives(f, {"T1"})
    BY DEF HandleT1
  <2> QED
    BY <2>1, ReceivesFirst DEF ClockTypeOK
<1>4. PICK a : a = [from |-> f, round |-> Head(down[f]).round]
  OBVIOUS
<1>5. PICK some \in Arriving(<<a>>) :
         /\ up' = up \o some /\ disturbed' = (disturbed \/ some = <<>>)
  BY <1>4 DEF HandleT1
<1>6. ASSUME ~disturbed'
      PROVE  AnswerHolds' /\ \A g \in DOMAIN listener \ Left : AskedHolds(g)'
  <2>1. /\ AnswerHolds /\ \A g \in DOMAIN listener \ Left : AskedHolds(g)
        /\ Left' = Left
    BY <1>5, <1>6, Undisturbed
  <2>2. PICK d \in Seq(Packets) : d = down[f] /\ d # <<>> /\ d[1].type = "T1"
    BY <1>3
  <2>3. ~NoT1(d)
    <3>1. 1 \in DOMAIN d
      BY <2>2, TailFacts
    <3> QED
      BY <2>2, <3>1 DEF NoT1
  <2>4. thread.pc = "read" /\ f = Current /\ Len(up) = 0 /\ OneT1(d)
    BY <2>1, <2>2, <2>3, AskedAlone
  <2>5. NoT1(Tail(d))
    BY <2>2, <2>4, RestT1
  <2>6. Len(up') = 1 /\ up'[1] = a
    <3>1. some # <<>>
      BY <1>5, <1>6
    <3>2. PICK answers : answers = [from : DOMAIN listener, round : Nat]
      OBVIOUS
    <3>3. up \in Seq(answers) /\ a \in answers
      BY <1>3, <1>4, <3>2 DEF ClockTypeOK
    <3>4. some = <<a>>
      BY <1>5, <3>1 DEF Arriving
    <3>5. up' = Append(up, a)
      BY <1>5, <3>3, <3>4
    <3>6. Len(Append(up, a)) = Len(up) + 1 /\ Append(up, a)[Len(up) + 1] = a
      BY <3>3, AppendFacts
    <3>7. PICK n : n = Len(up) + 1
      OBVIOUS
    <3>8. n = 1
      BY <2>4, <3>7
    <3> QED
      BY <3>5, <3>6, <3>7, <3>8
  <2>7. AnswerHolds'
    <3>1. up'[1].from = Current'
      BY <1>3, <1>4, <2>4, <2>6 DEF Current
    <3> QED
      BY <1>3, <2>1, <2>4, <2>6, <3>1 DEF AnswerHolds
  <2>8. ASSUME NEW g \in DOMAIN listener \ Left PROVE AskedHolds(g)'
    <3>1. CASE g = f
      <4>1. down'[g] = Tail(d)
        BY <1>3, <2>2, <3>1
      <4> QED
        BY <2>5, <4>1, NoneAsked
    <3>2. CASE g # f
      <4>1. down'[g] = down[g]
        BY <1>3, <2>8, <3>2
      <4>2. NoT1(down[g])
        BY <2>1, <2>4, <2>8, <3>2, NotAsked
      <4> QED
        BY <4>1, <4>2, NoneAsked
    <3> QED
      BY <3>1, <3>2
  <2> QED
    BY <2>7, <2>8
<1> QED
  BY <1>2, <1>3, <1>6, ClockTurn

LEMMA ListenerSync ==
    ASSUME StartInv, SyncInv, ClockTypeOK, NEW f, ListenUDP(f)
    PROVE  SyncInv'
<1>1. f \in DOMAIN listener /\ proc[f].pc = "running" /\ Listener(f) /\ UNCHANGED startVars
  BY DEF ListenUDP
<1>2. f \in DOMAIN listener \ Left
  BY <1>1 DEF Left
<1>3. CASE HandleT1(f)
  BY <1>1, <1>2, <1>3, HandleT1Sync
<1>4. CASE \/ HandleT4(f) \/ DropPacket(f) \/ HandleProbe(f)
           \/ NoProbe(f) /\ UNCHANGED disturbed /\ Receives(f, {"T1", "T4"})
  <2>1. UNCHANGED <<up, disturbed>> /\ DOMAIN listener' = DOMAIN listener
        /\ \E types : Receives(f, types)
    BY <1>4 DEF HandleT4, DropPacket, HandleProbe, NoProbe
  <2> QED
    BY <1>1, <2>1, ReceiveSync
<1>5. CASE NoProbe(f) /\ disturbed' /\ UNCHANGED thread
  <2>1. DOMAIN listener' = DOMAIN listener
    BY <1>5 DEF NoProbe
  <2> QED
    BY <1>1, <1>5, <2>1, ClockTurn
<1>6. NoProbe(f) => \/ UNCHANGED disturbed /\ Receives(f, {"T1", "T4"})
                    \/ disturbed' /\ UNCHANGED thread
  BY DEF NoProbe
<1> QED
  BY <1>1, <1>3, <1>4, <1>5, <1>6 DEF Listener

LEMMA ClockThreadSync ==
    ASSUME StartInv, SyncInv, ClockTypeOK, ClockThread
    PROVE  SyncInv'
  BY StartSync, BeginSync, SendT1Sync, ReadT3Sync, ReadTimeoutSync DEF ClockThread

-----------------------------------------------------------------------------
(* So clock synchronization lasts.                                         *)

LEMMA SyncInit ==
    ASSUME Init
    PROVE  SyncInv
<1>1. /\ rti = [n \in Federations |-> InitRTIServer(scenario.size[n])]
      /\ toRTI = [p \in Procs |-> <<>>] /\ ClockInit(scenario.order)
  BY DEF Init
<1>2. ASSUME NEW n \in Federations PROVE MembersHold(n, rti[n])
  BY <1>1 DEF InitRTIServer, MembersHold, Ids
<1>3. MembersInv
  BY <1>1, <1>2 DEF MembersInv, Has, ToSet
<1>4. /\ thread.order = scenario.order /\ thread.pc = "off" /\ up = <<>>
      /\ \A f \in DOMAIN listener : down[f] = <<>>
  BY <1>1 DEF ClockInit
<1>5. AnswerHolds
  BY <1>4 DEF AnswerHolds
<1>6. \A f \in DOMAIN listener : AskedHolds(f)
  BY <1>4 DEF AskedHolds
<1> QED
  BY <1>3, <1>4, <1>5, <1>6 DEF SyncInv

LEMMA ServerSync ==
    ASSUME StartInv, SyncInv, NEW n,
           \/ MainThread(n) \/ Respond(n) \/ RespondTimeout(n)
           \/ \E p \in AllProcs : Thread(n, p)
    PROVE  SyncInv'
<1>1. n \in Federations
  BY DEF MainThread, StartRTI, Accept, Handshake, Shutdown, Respond, RespondTimeout, Thread,
         HandleTimestamp, SendStartTime, HandleAddress, Forward, HandleResign, Threads
<1> QED
  BY <1>1, StartRTISync, AcceptSync, HandshakeSync, ShutdownSync, RespondSync,
     RespondTimeoutSync, HandleTimestampSync, SendStartTimeSync, HandleAddressSync,
     ForwardSync, HandleResignSync DEF MainThread, Thread

LEMMA SyncStep == StartInv /\ ClockInv /\ SyncInv /\ [Next]_vars => SyncInv'
<1> SUFFICES ASSUME StartInv, ClockInv, SyncInv, [Next]_vars PROVE SyncInv'
  OBVIOUS
<1>1. ClockTypeOK
  BY DEF ClockInv
<1>2. ASSUME NEW p, Process(p) PROVE SyncInv'
  BY <1>2, ProcessSync
<1>3. ASSUME NEW p, AcceptPeer(p) \/ Execute(p) \/ Resign(p) PROVE SyncInv'
  <2>1. p \in Procs
    BY <1>3 DEF AcceptPeer, Execute, Resign, Is
  <2> QED
    BY <1>3, <2>1, AcceptPeerSync, ExecuteSync, ResignSync
<1>4. ASSUME NEW n,
             \/ MainThread(n) \/ Respond(n) \/ RespondTimeout(n)
             \/ \E p \in AllProcs : Thread(n, p)
      PROVE  SyncInv'
  BY <1>4, ServerSync
<1>5. ASSUME NEW p, ListenUDP(p) PROVE SyncInv'
  BY <1>1, <1>5, ListenerSync
<1>6. CASE ClockThread
  BY <1>1, <1>6, ClockThreadSync
<1>7. CASE UNCHANGED vars
  <2>1. UNCHANGED startVars /\ UNCHANGED <<thread, listener, down, up, disturbed>>
    BY <1>7 DEF vars, clockVars
  <2>2. ASSUME ~disturbed'
        PROVE  AnswerHolds' /\ \A f \in DOMAIN listener \ Left : AskedHolds(f)'
    <3>1. /\ AnswerHolds /\ \A f \in DOMAIN listener \ Left : AskedHolds(f)
          /\ Left' = Left
      BY <1>1, <2>1, <2>2, Undisturbed
    <3> QED
      BY <2>1, <3>1 DEF AnswerHolds, AskedHolds, Current
  <2> QED
    BY <2>1, <2>2, ClockTurn
<1> QED
  BY <1>2, <1>3, <1>4, <1>5, <1>6, <1>7 DEF Next

\* Whatever is launched: the RTI serves every federate it has until that one resigns, and as
\* long as no packet is lost or late, nothing but the answer to the T1 message of this turn
\* comes to the clock thread (clock_synchronization_thread, handle_federate_resign).
THEOREM SyncInvariant == Spec => []SyncInv
<1>1. Init => ClockInv
  BY ScenariosAssumption, ClockInvHolds DEF Init
<1>2. ClockInv /\ [Next]_vars => ClockInv'
  BY StartKeepsClocks
<1>3. Spec => []ClockInv
  BY <1>1, <1>2, PTL DEF Spec
<1>4. Init => SyncInv
  BY SyncInit
<1> QED
  BY <1>3, <1>4, SyncStep, StartInvariant, PTL DEF Spec

\* While no packet is lost or late, the clock thread does not stop because no federate seems
\* to be connected any more (clock_synchronization_thread of rti.c) before all of
\* them have left.
THEOREM ClockSyncLasts == Spec => []SyncLasts
<1>1. SyncInv => SyncLasts
  <2> SUFFICES ASSUME SyncInv, thread.pc = "done", ~disturbed
               PROVE  ToSet(thread.order) \subseteq Left
    BY DEF SyncLasts
  <2>1. \A k \in DOMAIN thread.order : thread.order[k] \in Left
    BY DEF SyncInv, AnswerHolds
  <2> QED
    BY <2>1 DEF ToSet
<1> QED
  BY <1>1, SyncInvariant, PTL
=============================================================================
