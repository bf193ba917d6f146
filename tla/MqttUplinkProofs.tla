-------------------------- MODULE MqttUplinkProofs --------------------------
(***************************************************************************)
(* What Main and the edge are left with of what a node has published, for  *)
(* every set of firmwares and any number of measurements, lost connections,*)
(* restarts and new keys.                                                  *)
(***************************************************************************)
EXTENDS MqttUplink, SequenceTheorems, TLAPS

-----------------------------------------------------------------------------
(* Sequences of messages.                                                  *)

\* The measurement of a message.
SampleOf(m) == IF m.kind = "meas" THEN {m.n} ELSE {}

LEMMA MessageKinds ==
  ASSUME NEW m \in Message
  PROVE  /\ m.kind \in Kinds
         /\ m.kind = "meas" => m \in Measurement /\ m.n \in Samples
         /\ m.kind = "status" => m \in Status
BY DEF Message, Measurement, Status, Kinds

LEMMA SamplesAre ==
  ASSUME NEW q \in Seq(Message), NEW n
  PROVE  n \in SamplesOf(q) <=> \E i \in 1..Len(q) : q[i].kind = "meas" /\ q[i].n = n
BY DEF SamplesOf

LEMMA SamplesAppend ==
  ASSUME NEW q \in Seq(Message), NEW m \in Message
  PROVE  SamplesOf(Append(q, m)) = SamplesOf(q) \cup SampleOf(m)
<1>. DEFINE c == Append(q, m)
<1>1. /\ c \in Seq(Message) /\ Len(q) \in Nat /\ Len(c) = Len(q) + 1
      /\ \A i \in 1..Len(q) : c[i] = q[i]
      /\ c[Len(q) + 1] = m
  BY AppendProperties, LenProperties
<1>. HIDE DEF c
<1>2. ASSUME NEW n PROVE n \in SamplesOf(c) <=> n \in SamplesOf(q) \cup SampleOf(m)
  <2>1. ASSUME NEW i \in 1..Len(c), c[i].kind = "meas", c[i].n = n
        PROVE  n \in SamplesOf(q) \cup SampleOf(m)
    <3>1. CASE i = Len(q) + 1
      BY <1>1, <2>1, <3>1 DEF SampleOf
    <3>2. CASE i \in 1..Len(q)
      BY <1>1, <2>1, <3>2, SamplesAre
    <3>. QED
      BY <1>1, <3>1, <3>2
  <2>2. ASSUME n \in SampleOf(m) PROVE n \in SamplesOf(c)
    <3>1. m.kind = "meas" /\ n = m.n /\ Len(q) + 1 \in 1..Len(c)
      BY <1>1, <2>2 DEF SampleOf
    <3>. QED
      BY <1>1, <3>1, SamplesAre
  <2>3. ASSUME NEW i \in 1..Len(q), q[i].kind = "meas", q[i].n = n PROVE n \in SamplesOf(c)
    <3>1. i \in 1..Len(c) /\ c[i] = q[i]
      BY <1>1
    <3>. QED
      BY <1>1, <2>3, <3>1, SamplesAre
  <2>. QED
    BY <1>1, <2>1, <2>2, <2>3, SamplesAre
<1>. QED
  BY <1>2 DEF c

LEMMA TailIs ==
  ASSUME NEW q \in Seq(Message), q # << >>
  PROVE  /\ Head(q) = q[1] /\ Head(q) \in Message /\ Tail(q) \in Seq(Message)
         /\ Len(q) \in Nat /\ Len(q) >= 1 /\ Len(Tail(q)) = Len(q) - 1
         /\ \A i \in 1..Len(q) - 1 : Tail(q)[i] = q[i + 1]
<1>1. Len(q) \in Nat /\ Len(q) >= 1
  BY EmptySeq
<1>2. Head(q) = q[1]
  OBVIOUS
<1>. QED
  BY <1>1, <1>2, HeadTailProperties

LEMMA SamplesTail ==
  ASSUME NEW q \in Seq(Message), q # << >>
  PROVE  SamplesOf(q) = SampleOf(Head(q)) \cup SamplesOf(Tail(q))
<1>. DEFINE t == Tail(q)
            h == Head(q)
<1>1. /\ h = q[1] /\ t \in Seq(Message) /\ Len(q) \in Nat /\ Len(q) >= 1
      /\ Len(t) = Len(q) - 1
      /\ \A i \in 1..Len(q) - 1 : t[i] = q[i + 1]
  BY TailIs
<1>. HIDE DEF t, h
<1>2. ASSUME NEW n PROVE n \in SamplesOf(q) <=> n \in SampleOf(h) \cup SamplesOf(t)
  <2>1. ASSUME NEW i \in 1..Len(q), q[i].kind = "meas", q[i].n = n
        PROVE  n \in SampleOf(h) \cup SamplesOf(t)
    <3>1. CASE i = 1
      BY <1>1, <2>1, <3>1 DEF SampleOf
    <3>2. CASE i > 1
      <4>1. i - 1 \in 1..Len(t) /\ t[i - 1] = q[(i - 1) + 1] /\ (i - 1) + 1 = i
        BY <1>1, <3>2
      <4>. QED
        BY <1>1, <2>1, <4>1, SamplesAre
    <3>. QED
      BY <3>1, <3>2
  <2>2. ASSUME n \in SampleOf(h) PROVE n \in SamplesOf(q)
    <3>1. h.kind = "meas" /\ n = h.n /\ 1 \in 1..Len(q)
      BY <1>1, <2>2 DEF SampleOf
    <3>. QED
      BY <1>1, <3>1, SamplesAre
  <2>3. ASSUME NEW i \in 1..Len(t), t[i].kind = "meas", t[i].n = n PROVE n \in SamplesOf(q)
    <3>1. i + 1 \in 1..Len(q) /\ t[i] = q[i + 1]
      BY <1>1
    <3>. QED
      BY <2>3, <3>1, SamplesAre
  <2>. QED
    BY <1>1, <2>1, <2>2, <2>3, SamplesAre
<1>. QED
  BY <1>2 DEF t, h

LEMMA SamplesConcat ==
  ASSUME NEW a \in Seq(Message), NEW b \in Seq(Message)
  PROVE  SamplesOf(a \o b) = SamplesOf(a) \cup SamplesOf(b)
<1>. DEFINE c == a \o b
<1>1. /\ c \in Seq(Message) /\ Len(a) \in Nat /\ Len(b) \in Nat /\ Len(c) = Len(a) + Len(b)
      /\ \A i \in 1..Len(a) + Len(b) : c[i] = IF i <= Len(a) THEN a[i] ELSE b[i - Len(a)]
  BY ConcatProperties, LenProperties
<1>. HIDE DEF c
<1>2. ASSUME NEW n PROVE n \in SamplesOf(c) <=> n \in SamplesOf(a) \cup SamplesOf(b)
  <2>1. ASSUME NEW i \in 1..Len(c), c[i].kind = "meas", c[i].n = n
        PROVE  n \in SamplesOf(a) \cup SamplesOf(b)
    <3>1. CASE i <= Len(a)
      <4>1. i \in 1..Len(a) /\ c[i] = a[i]
        BY <1>1, <3>1
      <4>. QED
        BY <2>1, <4>1, SamplesAre
    <3>2. CASE i > Len(a)
      <4>1. i - Len(a) \in 1..Len(b) /\ c[i] = b[i - Len(a)]
        BY <1>1, <3>2
      <4>. QED
        BY <2>1, <4>1, SamplesAre
    <3>. QED
      BY <1>1, <3>1, <3>2
  <2>2. ASSUME NEW i \in 1..Len(a), a[i].kind = "meas", a[i].n = n PROVE n \in SamplesOf(c)
    <3>1. i \in 1..Len(c) /\ c[i] = a[i]
      BY <1>1
    <3>. QED
      BY <1>1, <2>2, <3>1, SamplesAre
  <2>3. ASSUME NEW i \in 1..Len(b), b[i].kind = "meas", b[i].n = n PROVE n \in SamplesOf(c)
    <3>1. /\ Len(a) + i \in 1..Len(a) + Len(b) /\ ~(Len(a) + i <= Len(a))
          /\ (Len(a) + i) - Len(a) = i
      BY <1>1
    <3>2. PICK j \in 1..Len(c) : c[j] = b[i]
      BY <1>1, <3>1
    <3>. QED
      BY <1>1, <2>3, <3>2, SamplesAre
  <2>. QED
    BY <1>1, <2>1, <2>2, <2>3, SamplesAre
<1>. QED
  BY <1>2 DEF c

LEMMA SuffixIs ==
  ASSUME NEW q \in Seq(Message), NEW k \in 0..Len(q)
  PROVE  /\ SubSeq(q, k + 1, Len(q)) \in Seq(Message)
         /\ Len(q) \in Nat /\ Len(SubSeq(q, k + 1, Len(q))) = Len(q) - k
         /\ \A i \in 1..Len(q) - k : SubSeq(q, k + 1, Len(q))[i] = q[k + i]
<1>1. Len(q) \in Nat /\ \A i \in k + 1..Len(q) : q[i] \in Message
  BY LenProperties
<1>2. k + 1 \in Int /\ Len(q) \in Int
  BY <1>1
<1>3. /\ SubSeq(q, k + 1, Len(q)) \in Seq(Message)
      /\ Len(SubSeq(q, k + 1, Len(q))) = IF k + 1 <= Len(q) THEN Len(q) - (k + 1) + 1 ELSE 0
      /\ \A i \in 1..Len(q) - (k + 1) + 1 : SubSeq(q, k + 1, Len(q))[i] = q[k + 1 + i - 1]
  BY <1>1, <1>2, SubSeqProperties
<1>4. Len(SubSeq(q, k + 1, Len(q))) = Len(q) - k
  BY <1>1, <1>3
<1>5. ASSUME NEW i \in 1..Len(q) - k PROVE SubSeq(q, k + 1, Len(q))[i] = q[k + i]
  <2>1. i \in 1..Len(q) - (k + 1) + 1 /\ k + 1 + i - 1 = k + i
    BY <1>1
  <2>. QED
    BY <1>3, <2>1
<1>. QED
  BY <1>1, <1>3, <1>4, <1>5

LEMMA SamplesSuffix ==
  ASSUME NEW q \in Seq(Message), NEW k \in 0..Len(q)
  PROVE  SamplesOf(SubSeq(q, k + 1, Len(q))) \subseteq SamplesOf(q)
<1>. DEFINE t == SubSeq(q, k + 1, Len(q))
<1>1. /\ t \in Seq(Message) /\ Len(q) \in Nat /\ Len(t) = Len(q) - k
      /\ \A i \in 1..Len(q) - k : t[i] = q[k + i]
  BY SuffixIs
<1>. HIDE DEF t
<1>2. ASSUME NEW n, NEW i \in 1..Len(t), t[i].kind = "meas", t[i].n = n PROVE n \in SamplesOf(q)
  <2>1. k + i \in 1..Len(q) /\ t[i] = q[k + i]
    BY <1>1
  <2>. QED
    BY <1>2, <2>1, SamplesAre
<1>3. \A n : n \in SamplesOf(t) => n \in SamplesOf(q)
  BY <1>1, <1>2, SamplesAre
<1>. QED
  BY <1>3 DEF t

-----------------------------------------------------------------------------
(* A number that is followed by every greater one, and the last status.    *)

\* After a measurement in q comes every greater one of G, or it is in X.
Climbs(q, G, X) ==
  \A i \in 1..Len(q) : \A n \in G :
    q[i].kind = "meas" /\ q[i].n < n
      => n \in X \/ \E j \in i + 1..Len(q) : q[j].kind = "meas" /\ q[j].n = n

LEMMA ClimbsMono ==
  ASSUME NEW q, NEW G, NEW X, NEW H, NEW Y, Climbs(q, G, X),
         \A n \in H : n \in Y \/ (n \in G /\ (n \in X => n \in Y))
  PROVE  Climbs(q, H, Y)
BY DEF Climbs

LEMMA ClimbsAppend ==
  ASSUME NEW q \in Seq(Message), NEW m \in Message, NEW G, NEW X,
         Climbs(q, G, X \cup SampleOf(m)),
         m.kind = "meas" => \A n \in G : m.n < n => n \in X
  PROVE  Climbs(Append(q, m), G, X)
<1>. DEFINE c == Append(q, m)
<1>1. /\ Len(q) \in Nat /\ Len(c) = Len(q) + 1
      /\ \A i \in 1..Len(q) : c[i] = q[i]
      /\ c[Len(q) + 1] = m
  BY AppendProperties, LenProperties
<1>. HIDE DEF c
<1>2. ASSUME NEW i \in 1..Len(c), NEW n \in G, c[i].kind = "meas", c[i].n < n, n \notin X
      PROVE  \E j \in i + 1..Len(c) : c[j].kind = "meas" /\ c[j].n = n
  <2>1. i \in 1..Len(q) /\ c[i] = q[i]
    BY <1>1, <1>2
  <2>2. CASE n \in SampleOf(m)
    <3>1. m.kind = "meas" /\ m.n = n /\ Len(q) + 1 \in i + 1..Len(c)
      BY <1>1, <2>1, <2>2 DEF SampleOf
    <3>. QED
      BY <1>1, <3>1
  <2>3. CASE n \notin SampleOf(m)
    <3>1. PICK j \in i + 1..Len(q) : q[j].kind = "meas" /\ q[j].n = n
      BY <1>2, <2>1, <2>3 DEF Climbs
    <3>2. j \in i + 1..Len(c) /\ c[j] = q[j]
      BY <1>1, <2>1, <3>1
    <3>. QED
      BY <3>1, <3>2
  <2>. QED
    BY <2>2, <2>3
<1>. QED
  BY <1>2 DEF Climbs, c

LEMMA ClimbsTail ==
  ASSUME NEW q \in Seq(Message), q # << >>, NEW G, NEW X, Climbs(q, G, X)
  PROVE  /\ Climbs(Tail(q), G, X)
         /\ Head(q).kind = "meas"
              => \A n \in G : Head(q).n < n => n \in X \cup SamplesOf(Tail(q))
<1>. DEFINE t == Tail(q)
            h == Head(q)
<1>1. /\ h = q[1] /\ t \in Seq(Message) /\ Len(q) \in Nat /\ Len(q) >= 1
      /\ Len(t) = Len(q) - 1
      /\ \A i \in 1..Len(q) - 1 : t[i] = q[i + 1]
  BY TailIs
<1>. HIDE DEF t, h
<1>2. ASSUME NEW j \in 2..Len(q)
      PROVE  j - 1 \in 1..Len(t) /\ t[j - 1] = q[j]
  <2>1. j - 1 \in 1..Len(q) - 1 /\ (j - 1) + 1 = j
    BY <1>1
  <2>. QED
    BY <1>1, <2>1
<1>3. ASSUME NEW i \in 1..Len(t), NEW n \in G, t[i].kind = "meas", t[i].n < n, n \notin X
      PROVE  \E j \in i + 1..Len(t) : t[j].kind = "meas" /\ t[j].n = n
  <2>1. i + 1 \in 1..Len(q) /\ t[i] = q[i + 1]
    BY <1>1
  <2>2. PICK j \in (i + 1) + 1..Len(q) : q[j].kind = "meas" /\ q[j].n = n
    BY <1>3, <2>1 DEF Climbs
  <2>3. j \in 2..Len(q) /\ j - 1 \in i + 1..Len(t)
    BY <1>1, <2>2
  <2>. QED
    BY <1>2, <2>2, <2>3
<1>4. ASSUME h.kind = "meas", NEW n \in G, h.n < n, n \notin X
      PROVE  n \in SamplesOf(t)
  <2>1. 1 \in 1..Len(q)
    BY <1>1
  <2>2. PICK j \in 1 + 1..Len(q) : q[j].kind = "meas" /\ q[j].n = n
    BY <1>1, <1>4, <2>1 DEF Climbs
  <2>3. j \in 2..Len(q)
    BY <2>2
  <2>4. j - 1 \in 1..Len(t) /\ t[j - 1] = q[j]
    BY <1>2, <2>3
  <2>. QED
    BY <1>1, <2>2, <2>4, SamplesAre
<1>. QED
  BY <1>3, <1>4 DEF Climbs, t, h

LEMMA ClimbsConcat ==
  ASSUME NEW a \in Seq(Message), NEW b \in Seq(Message), NEW G, NEW X,
         Climbs(a, G, X \cup SamplesOf(b)), Climbs(b, G, X)
  PROVE  Climbs(a \o b, G, X)
<1>. DEFINE c == a \o b
<1>1. /\ Len(a) \in Nat /\ Len(b) \in Nat /\ Len(c) = Len(a) + Len(b)
      /\ \A i \in 1..Len(a) + Len(b) : c[i] = IF i <= Len(a) THEN a[i] ELSE b[i - Len(a)]
  BY ConcatProperties, LenProperties
<1>. HIDE DEF c
<1>2. ASSUME NEW j \in 1..Len(b)
      PROVE  Len(a) + j \in Len(a) + 1..Len(c) /\ c[Len(a) + j] = b[j]
  <2>1. /\ Len(a) + j \in 1..Len(a) + Len(b) /\ ~(Len(a) + j <= Len(a))
        /\ (Len(a) + j) - Len(a) = j
    BY <1>1
  <2>. QED
    BY <1>1, <2>1
<1>3. ASSUME NEW i \in 1..Len(c), NEW n \in G, c[i].kind = "meas", c[i].n < n, n \notin X
      PROVE  \E j \in i + 1..Len(c) : c[j].kind = "meas" /\ c[j].n = n
  <2>1. CASE i <= Len(a)
    <3>1. i \in 1..Len(a) /\ c[i] = a[i]
      BY <1>1, <2>1
    <3>2. CASE n \in SamplesOf(b)
      <4>1. PICK j \in 1..Len(b) : b[j].kind = "meas" /\ b[j].n = n
        BY <3>2, SamplesAre
      <4>2. Len(a) + j \in i + 1..Len(c) /\ c[Len(a) + j] = b[j]
        BY <1>1, <1>2, <2>1
      <4>. QED
        BY <4>1, <4>2
    <3>3. CASE n \notin SamplesOf(b)
      <4>1. PICK j \in i + 1..Len(a) : a[j].kind = "meas" /\ a[j].n = n
        BY <1>3, <3>1, <3>3 DEF Climbs
      <4>2. j \in i + 1..Len(c) /\ c[j] = a[j]
        BY <1>1, <3>1, <4>1
      <4>. QED
        BY <4>1, <4>2
    <3>. QED
      BY <3>2, <3>3
  <2>2. CASE i > Len(a)
    <3>1. i - Len(a) \in 1..Len(b) /\ c[i] = b[i - Len(a)]
      BY <1>1, <2>2
    <3>2. PICK j \in (i - Len(a)) + 1..Len(b) : b[j].kind = "meas" /\ b[j].n = n
      BY <1>3, <3>1 DEF Climbs
    <3>3. j \in 1..Len(b) /\ Len(a) + j \in i + 1..Len(c)
      BY <1>1, <2>2, <3>1, <3>2
    <3>4. c[Len(a) + j] = b[j]
      BY <1>2, <3>3
    <3>. QED
      BY <3>2, <3>3, <3>4
  <2>3. i <= Len(a) \/ i > Len(a)
    BY <1>1
  <2>. QED
    BY <2>1, <2>2, <2>3
<1>. QED
  BY <1>3 DEF Climbs, c

LEMMA ClimbsSuffix ==
  ASSUME NEW q \in Seq(Message), NEW k \in 0..Len(q), NEW G, NEW X, Climbs(q, G, X)
  PROVE  Climbs(SubSeq(q, k + 1, Len(q)), G, X)
<1>. DEFINE t == SubSeq(q, k + 1, Len(q))
<1>1. /\ Len(q) \in Nat /\ Len(t) = Len(q) - k
      /\ \A i \in 1..Len(q) - k : t[i] = q[k + i]
  BY SuffixIs
<1>. HIDE DEF t
<1>2. ASSUME NEW i \in 1..Len(t), NEW n \in G, t[i].kind = "meas", t[i].n < n, n \notin X
      PROVE  \E j \in i + 1..Len(t) : t[j].kind = "meas" /\ t[j].n = n
  <2>1. k + i \in 1..Len(q) /\ t[i] = q[k + i]
    BY <1>1
  <2>2. PICK j \in (k + i) + 1..Len(q) : q[j].kind = "meas" /\ q[j].n = n
    BY <1>2, <2>1 DEF Climbs
  <2>3. /\ j - k \in i + 1..Len(t) /\ j - k \in 1..Len(q) - k
        /\ k + (j - k) = j
    BY <1>1, <2>2
  <2>4. t[j - k] = q[j]
    BY <1>1, <2>3
  <2>. QED
    BY <2>2, <2>3, <2>4
<1>. QED
  BY <1>2 DEF Climbs, t


LEMMA HoldsAppend ==
  ASSUME NEW q \in Seq(Message), NEW m \in Message
  PROVE  HoldsStatus(Append(q, m)) <=> HoldsStatus(q) \/ m.kind = "status"
<1>. DEFINE c == Append(q, m)
<1>1. /\ Len(q) \in Nat /\ Len(c) = Len(q) + 1 /\ DOMAIN c = 1..Len(c) /\ DOMAIN q = 1..Len(q)
      /\ \A i \in 1..Len(q) : c[i] = q[i]
      /\ c[Len(q) + 1] = m
  BY AppendProperties, LenProperties
<1>. HIDE DEF c
<1>2. \A i \in 1..Len(c) : i \in 1..Len(q) \/ i = Len(q) + 1
  BY <1>1
<1>3. \A i \in 1..Len(q) : i \in 1..Len(c)
  BY <1>1
<1>4. Len(q) + 1 \in 1..Len(c)
  BY <1>1
<1>5. HoldsStatus(c) <=> HoldsStatus(q) \/ m.kind = "status"
  BY <1>1, <1>2, <1>3, <1>4 DEF HoldsStatus
<1>. QED
  BY <1>5 DEF c

LEMMA HoldsTail ==
  ASSUME NEW q \in Seq(Message), q # << >>
  PROVE  HoldsStatus(q) <=> HoldsStatus(Tail(q)) \/ Head(q).kind = "status"
<1>. DEFINE t == Tail(q)
            h == Head(q)
<1>1. /\ h = q[1] /\ t \in Seq(Message) /\ Len(q) \in Nat /\ Len(q) >= 1
      /\ Len(t) = Len(q) - 1 /\ DOMAIN q = 1..Len(q) /\ DOMAIN t = 1..Len(t)
      /\ \A i \in 1..Len(q) - 1 : t[i] = q[i + 1]
  BY TailIs, LenProperties
<1>. HIDE DEF t, h
<1>2. ASSUME NEW i \in 1..Len(q), i # 1 PROVE i - 1 \in 1..Len(t) /\ t[i - 1] = q[i]
  <2>1. i - 1 \in 1..Len(q) - 1 /\ (i - 1) + 1 = i
    BY <1>1, <1>2
  <2>. QED
    BY <1>1, <2>1
<1>3. ASSUME NEW i \in 1..Len(t) PROVE i + 1 \in 1..Len(q) /\ t[i] = q[i + 1]
  BY <1>1
<1>4. HoldsStatus(q) => HoldsStatus(t) \/ h.kind = "status"
  BY <1>1, <1>2 DEF HoldsStatus
<1>5. HoldsStatus(t) => HoldsStatus(q)
  BY <1>1, <1>3 DEF HoldsStatus
<1>6. h.kind = "status" => HoldsStatus(q)
  BY <1>1 DEF HoldsStatus
<1>. QED
  BY <1>4, <1>5, <1>6 DEF t, h

LEMMA HoldsConcat ==
  ASSUME NEW a \in Seq(Message), NEW b \in Seq(Message)
  PROVE  HoldsStatus(a \o b) <=> HoldsStatus(a) \/ HoldsStatus(b)
<1>. DEFINE c == a \o b
<1>1. /\ c \in Seq(Message) /\ Len(a) \in Nat /\ Len(b) \in Nat /\ Len(c) = Len(a) + Len(b)
      /\ \A i \in 1..Len(a) + Len(b) : c[i] = IF i <= Len(a) THEN a[i] ELSE b[i - Len(a)]
  BY ConcatProperties, LenProperties
<1>. HIDE DEF c
<1>2. DOMAIN a = 1..Len(a) /\ DOMAIN b = 1..Len(b) /\ DOMAIN c = 1..Len(c)
  BY <1>1, LenProperties
<1>3. ASSUME NEW i \in 1..Len(c)
      PROVE  \/ i \in 1..Len(a) /\ c[i] = a[i]
             \/ i - Len(a) \in 1..Len(b) /\ c[i] = b[i - Len(a)]
  BY <1>1
<1>4. ASSUME NEW i \in 1..Len(a) PROVE i \in 1..Len(c) /\ c[i] = a[i]
  BY <1>1
<1>5. ASSUME NEW i \in 1..Len(b) PROVE \E j \in 1..Len(c) : c[j] = b[i]
  <2>1. /\ Len(a) + i \in 1..Len(a) + Len(b) /\ ~(Len(a) + i <= Len(a))
        /\ (Len(a) + i) - Len(a) = i
    BY <1>1
  <2>. QED
    BY <1>1, <2>1
<1>6. HoldsStatus(c) => HoldsStatus(a) \/ HoldsStatus(b)
  BY <1>2, <1>3 DEF HoldsStatus
<1>7. HoldsStatus(a) => HoldsStatus(c)
  BY <1>2, <1>4 DEF HoldsStatus
<1>8. HoldsStatus(b) => HoldsStatus(c)
  BY <1>2, <1>5 DEF HoldsStatus
<1>. QED
  BY <1>6, <1>7, <1>8 DEF c

LEMMA HoldsSuffix ==
  ASSUME NEW q \in Seq(Message), NEW k \in 0..Len(q), HoldsStatus(SubSeq(q, k + 1, Len(q)))
  PROVE  HoldsStatus(q)
<1>. DEFINE t == SubSeq(q, k + 1, Len(q))
<1>1. /\ Len(q) \in Nat /\ Len(t) = Len(q) - k /\ DOMAIN t = 1..Len(t) /\ DOMAIN q = 1..Len(q)
      /\ \A i \in 1..Len(q) - k : t[i] = q[k + i]
  BY SuffixIs, LenProperties
<1>. HIDE DEF t
<1>2. ASSUME NEW i \in 1..Len(t) PROVE k + i \in 1..Len(q) /\ t[i] = q[k + i]
  BY <1>1
<1>3. HoldsStatus(t)
  BY DEF t
<1>. QED
  BY <1>1, <1>2, <1>3 DEF HoldsStatus

\* The last status in q, if there is one, is r.
Ends(q, r) ==
  \A i \in 1..Len(q) :
    q[i].kind = "status" /\ (\A j \in i + 1..Len(q) : q[j].kind # "status") => q[i] = r

LEMMA EndsAppend ==
  ASSUME NEW q \in Seq(Message), NEW m \in Message, NEW r,
         IF m.kind = "status" THEN m = r ELSE Ends(q, r)
  PROVE  Ends(Append(q, m), r)
<1>. DEFINE c == Append(q, m)
<1>1. /\ Len(q) \in Nat /\ Len(c) = Len(q) + 1
      /\ \A i \in 1..Len(q) : c[i] = q[i]
      /\ c[Len(q) + 1] = m
  BY AppendProperties, LenProperties
<1>. HIDE DEF c
<1>2. ASSUME NEW i \in 1..Len(c), c[i].kind = "status", \A j \in i + 1..Len(c) : c[j].kind # "status"
      PROVE  c[i] = r
  <2>1. CASE i = Len(q) + 1
    BY <1>1, <1>2, <2>1
  <2>2. CASE i \in 1..Len(q)
    <3>1. m.kind # "status"
      <4>1. Len(q) + 1 \in i + 1..Len(c)
        BY <1>1, <2>2
      <4>. QED
        BY <1>1, <1>2, <4>1
    <3>2. \A j \in i + 1..Len(q) : q[j].kind # "status"
      <4>1. \A j \in i + 1..Len(q) : j \in i + 1..Len(c) /\ c[j] = q[j]
        BY <1>1, <2>2
      <4>. QED
        BY <1>2, <4>1
    <3>3. q[i].kind = "status" /\ c[i] = q[i]
      BY <1>1, <1>2, <2>2
    <3>. QED
      BY <2>2, <3>1, <3>2, <3>3 DEF Ends
  <2>. QED
    BY <1>1, <2>1, <2>2
<1>. QED
  BY <1>2 DEF Ends, c

LEMMA EndsTail ==
  ASSUME NEW q \in Seq(Message), q # << >>, NEW r, Ends(q, r)
  PROVE  /\ Ends(Tail(q), r)
         /\ Head(q).kind = "status" /\ ~HoldsStatus(Tail(q)) => Head(q) = r
<1>. DEFINE t == Tail(q)
            h == Head(q)
<1>1. /\ h = q[1] /\ t \in Seq(Message) /\ Len(q) \in Nat /\ Len(q) >= 1
      /\ Len(t) = Len(q) - 1 /\ DOMAIN t = 1..Len(t)
      /\ \A i \in 1..Len(q) - 1 : t[i] = q[i + 1]
  BY TailIs, LenProperties
<1>. HIDE DEF t, h
<1>2. ASSUME NEW j \in 2..Len(q)
      PROVE  j - 1 \in 1..Len(t) /\ t[j - 1] = q[j]
  <2>1. j - 1 \in 1..Len(q) - 1 /\ (j - 1) + 1 = j
    BY <1>1
  <2>. QED
    BY <1>1, <2>1
<1>3. ASSUME NEW i \in 1..Len(t), t[i].kind = "status",
             \A j \in i + 1..Len(t) : t[j].kind # "status"
      PROVE  t[i] = r
  <2>1. i + 1 \in 1..Len(q) /\ t[i] = q[i + 1]
    BY <1>1
  <2>2. ASSUME NEW j \in (i + 1) + 1..Len(q) PROVE q[j].kind # "status"
    <3>1. j \in 2..Len(q) /\ j - 1 \in i + 1..Len(t)
      BY <1>1
    <3>2. t[j - 1] = q[j]
      BY <1>2, <3>1
    <3>. QED
      BY <1>3, <3>1, <3>2
  <2>. QED
    BY <1>3, <2>1, <2>2 DEF Ends
<1>4. ASSUME h.kind = "status", ~HoldsStatus(t) PROVE h = r
  <2>1. ASSUME NEW j \in 1 + 1..Len(q) PROVE q[j].kind # "status"
    <3>1. j - 1 \in 1..Len(t) /\ t[j - 1] = q[j]
      BY <1>2
    <3>. QED
      BY <1>1, <1>4, <3>1 DEF HoldsStatus
  <2>2. 1 \in 1..Len(q)
    BY <1>1
  <2>. QED
    BY <1>1, <1>4, <2>1, <2>2 DEF Ends
<1>. QED
  BY <1>3, <1>4 DEF Ends, t, h

LEMMA EndsConcat ==
  ASSUME NEW a \in Seq(Message), NEW b \in Seq(Message), NEW r, Ends(b, r),
         ~HoldsStatus(b) => Ends(a, r)
  PROVE  Ends(a \o b, r)
<1>. DEFINE c == a \o b
<1>1. /\ Len(a) \in Nat /\ Len(b) \in Nat /\ Len(c) = Len(a) + Len(b) /\ DOMAIN b = 1..Len(b)
      /\ \A i \in 1..Len(a) + Len(b) : c[i] = IF i <= Len(a) THEN a[i] ELSE b[i - Len(a)]
  BY ConcatProperties, LenProperties
<1>. HIDE DEF c
<1>2. ASSUME NEW j \in 1..Len(b)
      PROVE  Len(a) + j \in Len(a) + 1..Len(c) /\ c[Len(a) + j] = b[j]
  <2>1. /\ Len(a) + j \in 1..Len(a) + Len(b) /\ ~(Len(a) + j <= Len(a))
        /\ (Len(a) + j) - Len(a) = j
    BY <1>1
  <2>. QED
    BY <1>1, <2>1
<1>3. ASSUME NEW i \in 1..Len(c), c[i].kind = "status", \A j \in i + 1..Len(c) : c[j].kind # "status"
      PROVE  c[i] = r
  <2>1. CASE i <= Len(a)
    <3>1. i \in 1..Len(a) /\ c[i] = a[i]
      BY <1>1, <2>1
    <3>2. ~HoldsStatus(b)
      <4>1. ASSUME NEW j \in 1..Len(b) PROVE b[j].kind # "status"
        <5>1. Len(a) + j \in i + 1..Len(c) /\ c[Len(a) + j] = b[j]
          BY <1>1, <1>2, <2>1
        <5>. QED
          BY <1>3, <5>1
      <4>. QED
        BY <1>1, <4>1 DEF HoldsStatus
    <3>3. \A j \in i + 1..Len(a) : a[j].kind # "status"
      <4>1. \A j \in i + 1..Len(a) : j \in i + 1..Len(c) /\ c[j] = a[j]
        BY <1>1, <3>1
      <4>. QED
        BY <1>3, <4>1
    <3>. QED
      BY <1>3, <3>1, <3>2, <3>3 DEF Ends
  <2>2. CASE i > Len(a)
    <3>1. i - Len(a) \in 1..Len(b) /\ c[i] = b[i - Len(a)]
      BY <1>1, <2>2
    <3>2. ASSUME NEW j \in (i - Len(a)) + 1..Len(b) PROVE b[j].kind # "status"
      <4>1. j \in 1..Len(b) /\ Len(a) + j \in i + 1..Len(c)
        BY <1>1, <2>2, <3>1
      <4>2. c[Len(a) + j] = b[j]
        BY <1>2, <4>1
      <4>. QED
        BY <1>3, <4>1, <4>2
    <3>. QED
      BY <1>3, <3>1, <3>2 DEF Ends
  <2>. QED
    BY <1>1, <2>1, <2>2
<1>. QED
  BY <1>3 DEF Ends, c

LEMMA EndsSuffix ==
  ASSUME NEW q \in Seq(Message), NEW k \in 0..Len(q), NEW r, Ends(q, r)
  PROVE  Ends(SubSeq(q, k + 1, Len(q)), r)
<1>. DEFINE t == SubSeq(q, k + 1, Len(q))
<1>1. /\ Len(q) \in Nat /\ Len(t) = Len(q) - k
      /\ \A i \in 1..Len(q) - k : t[i] = q[k + i]
  BY SuffixIs
<1>. HIDE DEF t
<1>2. ASSUME NEW i \in 1..Len(t), t[i].kind = "status", \A j \in i + 1..Len(t) : t[j].kind # "status"
      PROVE  t[i] = r
  <2>1. k + i \in 1..Len(q) /\ t[i] = q[k + i]
    BY <1>1
  <2>2. ASSUME NEW j \in (k + i) + 1..Len(q) PROVE q[j].kind # "status"
    <3>1. /\ j - k \in i + 1..Len(t) /\ j - k \in 1..Len(q) - k
          /\ k + (j - k) = j
      BY <1>1
    <3>2. t[j - k] = q[j]
      BY <1>1, <3>1
    <3>. QED
      BY <1>2, <3>1, <3>2
  <2>. QED
    BY <1>2, <2>1, <2>2 DEF Ends
<1>. QED
  BY <1>2 DEF Ends, t


-----------------------------------------------------------------------------
(* Types.                                                                  *)

\* What is under way has been published, keys are no more than the events, and
\* nothing is on a connection that is not there.
Bounded ==
  /\ mainKey <= spent.events + 1
  /\ SamplesOf(queue) \subseteq 1..spent.meas
  /\ SamplesOf(onLink) \subseteq 1..spent.meas
  /\ SamplesOf(ready) \subseteq 1..spent.meas
  /\ InSequence(pending) \subseteq 1..spent.meas
  /\ ~linked => onLink = << >>

Typed == TypeOK /\ Bounded

LEMMA PendingAppend ==
  ASSUME NEW q \in Seq(Samples), NEW n \in Samples
  PROVE  /\ Append(q, n) \in Seq(Samples) /\ Append(q, n) # << >>
         /\ InSequence(Append(q, n)) = InSequence(q) \cup {n}
         /\ Last(Append(q, n)) = n
<1>. DEFINE c == Append(q, n)
<1>1. /\ c \in Seq(Samples) /\ c # << >> /\ Len(q) \in Nat /\ Len(c) = Len(q) + 1
      /\ \A i \in 1..Len(q) : c[i] = q[i]
      /\ c[Len(q) + 1] = n
  BY AppendProperties, LenProperties
<1>. HIDE DEF c
<1>2. DOMAIN c = 1..Len(c) /\ DOMAIN q = 1..Len(q)
  BY <1>1, LenProperties
<1>3. \A i \in 1..Len(c) : i \in 1..Len(q) \/ i = Len(q) + 1
  BY <1>1
<1>4. (\A i \in 1..Len(q) : i \in 1..Len(c)) /\ Len(q) + 1 \in 1..Len(c)
  BY <1>1
<1>5. InSequence(c) = InSequence(q) \cup {n}
  <2>1. ASSUME NEW x PROVE x \in InSequence(c) <=> x \in InSequence(q) \cup {n}
    BY <1>1, <1>2, <1>3, <1>4 DEF InSequence
  <2>. QED
    BY <2>1
<1>6. Last(c) = n
  BY <1>1 DEF Last
<1>. QED
  BY <1>1, <1>5, <1>6 DEF c

LEMMA PendingLast ==
  ASSUME NEW q \in Seq(Samples), q # << >>
  PROVE  Last(q) \in InSequence(q)
<1>1. Len(q) \in Nat /\ Len(q) >= 1 /\ DOMAIN q = 1..Len(q)
  BY EmptySeq, LenProperties
<1>2. Len(q) \in DOMAIN q
  BY <1>1
<1>. QED
  BY <1>2 DEF Last, InSequence

LEMMA NothingIn == SamplesOf(<< >>) = {} /\ InSequence(<< >>) = {} /\ ~HoldsStatus(<< >>)
BY DEF SamplesOf, InSequence, HoldsStatus

LEMMA TypeInit == Init => Typed
<1>. SUFFICES ASSUME Init PROVE Typed
  OBVIOUS
<1>1. (CHOOSE fw \in Firmwares : TRUE) \in Firmwares
  BY MqttUplinkAssumption
<1>2. node \in [on : BOOLEAN, fw : Firmwares, key : Keys]
  BY <1>1, MqttUplinkAssumption DEF Init, Keys
<1>3. TypeOK
  <2>1. view \in [online : BOOLEAN \cup {None}, caps : BOOLEAN, sigCaps : BOOLEAN] /\ ~view.sigCaps
    BY DEF Init, Nowhere
  <2>2. mainKey \in Keys \ {0} /\ edgeKey \in 0..mainKey /\ signed \in [Kinds -> 0..mainKey]
    BY MqttUplinkAssumption DEF Init, Keys
  <2>3. spent \in [meas : 0..MaxMeas, events : 0..MaxEvents] /\ shown = None
    BY MqttUplinkAssumption DEF Init
  <2>4. /\ queue \in Seq(Message) /\ onLink \in Seq(Message) /\ ready \in Seq(Message)
        /\ pending \in Seq(Samples)
    BY DEF Init
  <2>. QED
    BY <1>2, <2>1, <2>2, <2>3, <2>4 DEF Init, TypeOK
<1>4. Bounded
  BY NothingIn DEF Init, Bounded
<1>. QED
  BY <1>3, <1>4 DEF Typed

\* The keys of firmware and the packets it makes.
LEMMA KeyType ==
  ASSUME TypeOK, NEW kind \in Kinds, NEW fw \in Firmwares
  PROVE  KeyFor(kind, fw) \in Keys
BY MqttUplinkAssumption DEF TypeOK, KeyFor, Keys

\* The first call: its message, and what is left.
LEMMA NextIs ==
  ASSUME TypeOK, ready # << >>
  PROVE  /\ NextCall.m = Head(ready) /\ NextCall.rest = Tail(ready)
         /\ NextCall.m \in Message /\ NextCall.rest \in Seq(Message)
         /\ NextCall.m.key \in Nat
         /\ SamplesOf(ready) = SampleOf(NextCall.m) \cup SamplesOf(NextCall.rest)
         /\ HoldsStatus(ready) <=> HoldsStatus(NextCall.rest) \/ NextCall.m.kind = "status"
<1>1. NextCall.m = Head(ready) /\ NextCall.rest = Tail(ready) /\ ready \in Seq(Message)
  BY DEF NextCall, TypeOK
<1>2. Head(ready) \in Message /\ Tail(ready) \in Seq(Message)
  BY <1>1, TailIs
<1>3. Head(ready).key \in Nat
  BY <1>2, MqttUplinkAssumption DEF Message, Measurement, Status, Keys
<1>. QED
  BY <1>1, <1>2, <1>3, SamplesTail, HoldsTail

\* What the broker has to send again.
LEMMA RequeuedIs ==
  ASSUME TypeOK, NEW acked \in 0..Len(onLink)
  PROVE  LET rest == SubSeq(onLink, acked + 1, Len(onLink))
         IN  /\ Requeued(acked) \in Seq(Message)
             /\ SamplesOf(Requeued(acked)) = SamplesOf(rest) \cup SamplesOf(queue)
             /\ SamplesOf(Requeued(acked)) \subseteq SamplesOf(onLink) \cup SamplesOf(queue)
             /\ HoldsStatus(Requeued(acked)) <=> HoldsStatus(rest) \/ HoldsStatus(queue)
<1>. DEFINE rest == SubSeq(onLink, acked + 1, Len(onLink))
<1>1. onLink \in Seq(Message) /\ queue \in Seq(Message)
  BY DEF TypeOK
<1>2. rest \in Seq(Message) /\ SamplesOf(rest) \subseteq SamplesOf(onLink)
  BY <1>1, SuffixIs, SamplesSuffix
<1>3. Requeued(acked) = rest \o queue
  BY DEF Requeued
<1>. HIDE DEF rest
<1>4. /\ rest \o queue \in Seq(Message)
      /\ SamplesOf(rest \o queue) = SamplesOf(rest) \cup SamplesOf(queue)
      /\ HoldsStatus(rest \o queue) <=> HoldsStatus(rest) \/ HoldsStatus(queue)
  BY <1>1, <1>2, ConcatProperties, SamplesConcat, HoldsConcat
<1>. QED
  BY <1>2, <1>3, <1>4 DEF rest


\* A message for the edge, if the broker has a session for it.
LEMMA RouteIs ==
  ASSUME TypeOK, NEW m \in Message, Route(m)
  PROVE  /\ queue' \in Seq(Message)
         /\ ~session => queue' = queue
         /\ session => /\ queue' = Append(queue, m)
                       /\ SamplesOf(queue') = SamplesOf(queue) \cup SampleOf(m)
<1>1. queue \in Seq(Message)
  BY DEF TypeOK
<1>2. Append(queue, m) \in Seq(Message)
  BY <1>1, AppendProperties
<1>. QED
  BY <1>1, <1>2, SamplesAppend DEF Route

\* An event is counted.
LEMMA EventIs ==
  ASSUME TypeOK, Event
  PROVE  /\ spent' \in [meas : 0..MaxMeas, events : 0..MaxEvents]
         /\ spent'.meas = spent.meas /\ spent'.events = spent.events + 1
         /\ spent.events < MaxEvents
<1>1. spent \in [meas : 0..MaxMeas, events : 0..MaxEvents] /\ spent.events \in 0..MaxEvents
  BY DEF TypeOK
<1>2. spent.events + 1 \in 0..MaxEvents
  BY <1>1, MqttUplinkAssumption DEF Event
<1>. QED
  BY <1>1, <1>2 DEF Event

LEMMA PublishIs ==
  ASSUME TypeOK, Publish
  PROVE  /\ spent' \in [meas : 0..MaxMeas, events : 0..MaxEvents]
         /\ spent'.meas = spent.meas + 1 /\ spent'.events = spent.events
         /\ spent.meas \in Nat /\ spent'.meas \in Samples
         /\ \E m \in Measurement : m.n = spent'.meas /\ m.kind = "meas" /\ Route(m)
<1>1. spent \in [meas : 0..MaxMeas, events : 0..MaxEvents] /\ spent.meas \in 0..MaxMeas
  BY DEF TypeOK
<1>2. spent.meas + 1 \in 0..MaxMeas /\ spent.meas + 1 \in Samples
  BY <1>1, MqttUplinkAssumption DEF Publish, Samples
<1>3. /\ spent' \in [meas : 0..MaxMeas, events : 0..MaxEvents]
      /\ spent'.meas = spent.meas + 1 /\ spent'.events = spent.events
  BY <1>1, <1>2 DEF Publish
<1>4. node.fw \in Firmwares
  BY DEF TypeOK
<1>5. KeyFor("meas", node.fw) \in Keys
  BY <1>4, KeyType DEF Kinds
<1>. DEFINE m == [kind |-> "meas", n |-> spent'.meas, key |-> KeyFor("meas", node.fw)]
<1>6. m \in Measurement /\ m.n = spent'.meas /\ m.kind = "meas"
  BY <1>2, <1>3, <1>5 DEF Measurement
<1>7. Route(m)
  BY DEF Publish
<1>. QED
  BY <1>1, <1>2, <1>3, <1>6, <1>7

LEMMA TypePublish == Typed /\ Publish => Typed'
<1>. SUFFICES ASSUME TypeOK, Bounded, Publish PROVE TypeOK' /\ Bounded'
  BY DEF Typed
<1>1. PICK m \in Measurement : m.n = spent'.meas /\ m.kind = "meas" /\ Route(m)
  BY PublishIs
<1>2. /\ spent' \in [meas : 0..MaxMeas, events : 0..MaxEvents]
      /\ spent'.meas = spent.meas + 1 /\ spent'.events = spent.events /\ spent.meas \in Nat
  BY PublishIs
<1>3. 1..spent.meas \subseteq 1..spent'.meas /\ spent'.meas \in 1..spent'.meas
  BY <1>2
<1>4. queue' \in Seq(Message) /\ SamplesOf(queue') \subseteq SamplesOf(queue) \cup {spent'.meas}
  BY <1>1, RouteIs DEF SampleOf, Message
<1>5. /\ UNCHANGED <<node, mainKey, edge, session, linked, onLink, retained, kept, shown, lost, unheard>>
      /\ unheld' \in {unheld, unheld \cup {spent'.meas}}
  BY DEF Publish
<1>6. kept' \subseteq 1..spent'.meas /\ unheld' \subseteq 1..spent'.meas /\ lost' \subseteq 1..spent'.meas
  BY <1>3, <1>5 DEF TypeOK
<1>7. TypeOK'
  BY <1>2, <1>4, <1>5, <1>6 DEF TypeOK, edge
<1>8. Bounded'
  BY <1>2, <1>3, <1>4, <1>5 DEF Bounded, edge
<1>. QED
  BY <1>7, <1>8

\* The node says that it is there, or the broker that it is gone.
LEMMA ReportIs ==
  ASSUME TypeOK, NodeUp \/ NodeDown
  PROVE  /\ node' \in [on : BOOLEAN, fw : Firmwares, key : Keys]
         /\ retained' \in Status /\ retained' \in Message /\ retained'.kind = "status"
         /\ Route(retained') /\ unheard' = ~session
         /\ Event
         /\ UNCHANGED <<mainKey, edge, session, linked, onLink, kept, shown, unheld, lost>>
<1>1. node \in [on : BOOLEAN, fw : Firmwares, key : Keys]
  BY DEF TypeOK
<1>2. CASE NodeUp
  <2>1. PICK fw \in Firmwares :
          /\ node' = [node EXCEPT !.on = TRUE, !.fw = fw]
          /\ retained' = [kind |-> "status", online |-> TRUE, cmd |-> fw.cmd,
                          sigCmd |-> fw.sigCmd, key |-> KeyFor("status", fw)]
    BY <1>2 DEF NodeUp
  <2>2. fw.cmd \in BOOLEAN /\ fw.sigCmd \in BOOLEAN /\ KeyFor("status", fw) \in Keys
    BY KeyType, MqttUplinkAssumption DEF Kinds
  <2>3. retained' \in Status /\ retained'.kind = "status"
    BY <2>1, <2>2 DEF Status
  <2>4. node' \in [on : BOOLEAN, fw : Firmwares, key : Keys]
    BY <1>1, <2>1
  <2>. QED
    BY <1>2, <2>3, <2>4 DEF NodeUp, Message
<1>3. CASE NodeDown
  <2>1. retained' \in Status /\ retained'.kind = "status"
    BY <1>3, MqttUplinkAssumption DEF NodeDown, Status, Keys
  <2>2. node' \in [on : BOOLEAN, fw : Firmwares, key : Keys]
    BY <1>1, <1>3 DEF NodeDown
  <2>. QED
    BY <1>3, <2>1, <2>2 DEF NodeDown, Message
<1>. QED
  BY <1>2, <1>3

LEMMA TypeReport == Typed /\ (NodeUp \/ NodeDown) => Typed'
<1>. SUFFICES ASSUME TypeOK, Bounded, NodeUp \/ NodeDown PROVE TypeOK' /\ Bounded'
  BY DEF Typed
<1>1. /\ node' \in [on : BOOLEAN, fw : Firmwares, key : Keys]
      /\ retained' \in Status /\ retained' \in Message /\ retained'.kind = "status"
      /\ Route(retained') /\ unheard' = ~session /\ Event
      /\ UNCHANGED <<mainKey, edge, session, linked, onLink, kept, shown, unheld, lost>>
  BY ReportIs
<1>2. /\ spent' \in [meas : 0..MaxMeas, events : 0..MaxEvents]
      /\ spent'.meas = spent.meas /\ spent'.events = spent.events + 1
  BY <1>1, EventIs
<1>3. queue' \in Seq(Message) /\ SamplesOf(queue') = SamplesOf(queue)
  BY <1>1, RouteIs DEF SampleOf
<1>4. mainKey \in Nat /\ spent.events \in Nat
  BY MqttUplinkAssumption DEF TypeOK, Keys
<1>5. TypeOK'
  BY <1>1, <1>2, <1>3 DEF TypeOK, edge
<1>6. mainKey' <= spent'.events + 1
  BY <1>1, <1>2, <1>4 DEF Bounded
<1>7. Bounded'
  BY <1>1, <1>2, <1>3, <1>6 DEF Bounded, edge
<1>. QED
  BY <1>5, <1>7

LEMMA TypeKeys == Typed /\ (NodeLearns \/ RotateKey \/ ApplyConfig) => Typed'
<1>. SUFFICES ASSUME TypeOK, Bounded, NodeLearns \/ RotateKey \/ ApplyConfig PROVE TypeOK' /\ Bounded'
  BY DEF Typed
<1>1. mainKey \in Keys \ {0} /\ edgeKey \in 0..mainKey /\ mainKey \in Nat /\ spent.events \in Nat
  BY MqttUplinkAssumption DEF TypeOK, Keys
<1>2. CASE NodeLearns
  <2>1. edgeKey \in Keys
    BY <1>1, MqttUplinkAssumption DEF Keys
  <2>2. node' \in [on : BOOLEAN, fw : Firmwares, key : Keys]
    BY <1>2, <2>1 DEF NodeLearns, TypeOK
  <2>. QED
    BY <1>2, <2>2 DEF NodeLearns, TypeOK, Bounded, edge, broker, history
<1>3. CASE RotateKey
  <2>1. /\ spent' \in [meas : 0..MaxMeas, events : 0..MaxEvents]
        /\ spent'.meas = spent.meas /\ spent'.events = spent.events + 1 /\ spent.events < MaxEvents
    BY <1>3, EventIs DEF RotateKey
  <2>2. mainKey' = mainKey + 1 /\ mainKey' <= spent'.events + 1
    BY <1>1, <1>3, <2>1 DEF RotateKey, Bounded
  <2>3. mainKey' \in Keys \ {0} /\ 0..mainKey \subseteq 0..mainKey'
    BY <1>1, <2>1, <2>2, MqttUplinkAssumption DEF Keys
  <2>4. edgeKey' \in 0..mainKey' /\ signed' \in [Kinds -> 0..mainKey']
    BY <1>3, <2>3 DEF RotateKey, TypeOK, edge
  <2>5. UNCHANGED <<node, edge, broker, kept, shown, history>>
    BY <1>3 DEF RotateKey
  <2>6. TypeOK'
    BY <2>1, <2>3, <2>4, <2>5 DEF TypeOK, edge, broker, history
  <2>7. Bounded'
    BY <2>1, <2>2, <2>5 DEF Bounded, edge, broker, history
  <2>. QED
    BY <2>6, <2>7
<1>4. CASE ApplyConfig
  BY <1>1, <1>4 DEF ApplyConfig, TypeOK, Bounded, broker, history
<1>. QED
  BY <1>2, <1>3, <1>4

LEMMA TypeLinkLost == Typed /\ LinkLost => Typed'
<1>. SUFFICES ASSUME TypeOK, Bounded, LinkLost PROVE TypeOK' /\ Bounded'
  BY DEF Typed
<1>1. PICK acked \in 0..Len(onLink) : queue' = Requeued(acked)
  BY DEF LinkLost
<1>2. queue' \in Seq(Message) /\ SamplesOf(queue') \subseteq SamplesOf(onLink) \cup SamplesOf(queue)
  BY <1>1, RequeuedIs
<1>3. /\ spent' \in [meas : 0..MaxMeas, events : 0..MaxEvents]
      /\ spent'.meas = spent.meas /\ spent'.events = spent.events + 1
  BY EventIs DEF LinkLost
<1>4. mainKey <= spent'.events + 1
  BY <1>3, MqttUplinkAssumption DEF TypeOK, Bounded, Keys
<1>5. /\ linked' = FALSE /\ onLink' = << >> /\ onLink' \in Seq(Message)
      /\ UNCHANGED <<node, mainKey, edge, session, retained, kept, shown, history>>
  BY DEF LinkLost
<1>6. TypeOK'
  BY <1>2, <1>3, <1>5 DEF TypeOK, edge, history
<1>7. Bounded'
  BY <1>2, <1>3, <1>4, <1>5, NothingIn DEF Bounded, edge
<1>. QED
  BY <1>6, <1>7

LEMMA TypeRestart == Typed /\ Restart => Typed'
<1>. SUFFICES ASSUME TypeOK, Bounded, Restart PROVE TypeOK' /\ Bounded'
  BY DEF Typed
<1>1. PICK acked \in 0..Len(onLink) : queue' = Requeued(acked)
  BY DEF Restart
<1>2. queue' \in Seq(Message) /\ SamplesOf(queue') \subseteq SamplesOf(onLink) \cup SamplesOf(queue)
  BY <1>1, RequeuedIs
<1>3. /\ spent' \in [meas : 0..MaxMeas, events : 0..MaxEvents]
      /\ spent'.meas = spent.meas /\ spent'.events = spent.events + 1
  BY EventIs DEF Restart
<1>4. mainKey <= spent'.events + 1 /\ mainKey \in Nat
  BY <1>3, MqttUplinkAssumption DEF TypeOK, Bounded, Keys
<1>5. /\ linked' = FALSE /\ onLink' = << >> /\ ready' = << >> /\ pending' = << >>
      /\ edgeKey' = 0 /\ view' = Nowhere /\ signed' = [k \in Kinds |-> 0] /\ known' = FALSE
      /\ UNCHANGED <<node, mainKey, session, retained, kept, shown, unheld>>
  BY DEF Restart
<1>6. lost' \subseteq 1..spent'.meas /\ unheard' \in BOOLEAN
  <2>1. lost' \subseteq lost \cup SamplesOf(ready) \cup InSequence(pending)
    BY DEF Restart
  <2>2. lost \subseteq 1..spent.meas
    BY DEF TypeOK
  <2>. QED
    BY <1>3, <2>1, <2>2 DEF Bounded, Restart, TypeOK, HoldsStatus
<1>7. view' \in [online : BOOLEAN \cup {None}, caps : BOOLEAN, sigCaps : BOOLEAN] /\ ~view'.sigCaps
  BY <1>5 DEF Nowhere
<1>8. edgeKey' \in 0..mainKey' /\ signed' \in [Kinds -> 0..mainKey']
  BY <1>4, <1>5
<1>9. /\ onLink' \in Seq(Message) /\ ready' \in Seq(Message) /\ pending' \in Seq(Samples)
  BY <1>5
<1>10. TypeOK'
  BY <1>2, <1>3, <1>5, <1>6, <1>7, <1>8, <1>9 DEF TypeOK
<1>11. Bounded'
  BY <1>2, <1>3, <1>4, <1>5, NothingIn DEF Bounded
<1>. QED
  BY <1>10, <1>11

LEMMA TypeConnection == Typed /\ (SessionExpires \/ Connect \/ OnMessage) => Typed'
<1>. SUFFICES ASSUME TypeOK, Bounded, SessionExpires \/ Connect \/ OnMessage PROVE TypeOK' /\ Bounded'
  BY DEF Typed
<1>1. CASE SessionExpires
  <2>1. /\ spent' \in [meas : 0..MaxMeas, events : 0..MaxEvents]
        /\ spent'.meas = spent.meas /\ spent'.events = spent.events + 1
    BY <1>1, EventIs DEF SessionExpires
  <2>2. mainKey <= spent'.events + 1
    BY <2>1, MqttUplinkAssumption DEF TypeOK, Bounded, Keys
  <2>3. /\ ~linked /\ session' = FALSE /\ queue' = << >> /\ unheld' = unheld \cup SamplesOf(queue)
        /\ UNCHANGED <<node, mainKey, edge, linked, onLink, retained, kept, shown, lost>>
    BY <1>1 DEF SessionExpires
  <2>4. queue' \in Seq(Message) /\ unheld' \subseteq 1..spent'.meas /\ unheard' \in BOOLEAN
    BY <1>1, <2>1, <2>3 DEF SessionExpires, TypeOK, Bounded, HoldsStatus
  <2>5. TypeOK'
    BY <2>1, <2>3, <2>4 DEF TypeOK, edge
  <2>6. Bounded'
    BY <2>1, <2>2, <2>3, NothingIn DEF Bounded, edge
  <2>. QED
    BY <2>5, <2>6
<1>2. CASE Connect
  BY <1>2 DEF Connect, TypeOK, Bounded, edge, history
<1>3. CASE OnMessage
  <2>1. /\ queue \in Seq(Message) /\ queue # << >> /\ linked
        /\ queue' = Tail(queue) /\ onLink' = Append(onLink, Head(queue))
        /\ ready' = Append(ready, Head(queue))
        /\ UNCHANGED <<node, mainKey, edgeKey, view, signed, known, pending, session, linked,
                       retained, kept, shown, history, spent>>
    BY <1>3 DEF OnMessage, TypeOK
  <2>2. Head(queue) \in Message /\ Tail(queue) \in Seq(Message)
    BY <2>1, TailIs
  <2>3. /\ onLink' \in Seq(Message) /\ ready' \in Seq(Message)
        /\ SamplesOf(onLink') = SamplesOf(onLink) \cup SampleOf(Head(queue))
        /\ SamplesOf(ready') = SamplesOf(ready) \cup SampleOf(Head(queue))
        /\ SamplesOf(queue) = SampleOf(Head(queue)) \cup SamplesOf(queue')
    BY <2>1, <2>2, AppendProperties, SamplesAppend, SamplesTail DEF TypeOK
  <2>4. TypeOK'
    BY <2>1, <2>2, <2>3 DEF TypeOK, history
  <2>5. Bounded'
    BY <2>1, <2>3 DEF Bounded
  <2>. QED
    BY <2>4, <2>5
<1>. QED
  BY <1>1, <1>2, <1>3


\* The kinds that are signed, and the view, after a packet that is genuine.
LEMMA HandledIs ==
  ASSUME TypeOK, NEW m \in Message, Genuine(m), m.key \in Nat
  PROVE  /\ SignedAfter(m) \in [Kinds -> 0..mainKey]
         /\ m.kind = "status" =>
              /\ ViewAfter(m) \in [online : BOOLEAN \cup {None}, caps : BOOLEAN, sigCaps : BOOLEAN]
              /\ ViewAfter(m).sigCaps => ViewAfter(m).caps
<1>1. signed \in [Kinds -> 0..mainKey] /\ edgeKey \in 0..mainKey /\ m.kind \in Kinds
  BY MessageKinds DEF TypeOK
<1>2. m.key # 0 => m.key = edgeKey
  BY DEF Genuine
<1>3. SignedAfter(m) \in [Kinds -> 0..mainKey]
  BY <1>1, <1>2 DEF SignedAfter
<1>4. ASSUME m.kind = "status"
      PROVE  /\ ViewAfter(m) \in [online : BOOLEAN \cup {None}, caps : BOOLEAN, sigCaps : BOOLEAN]
             /\ ViewAfter(m).sigCaps => ViewAfter(m).caps
  <2>1. m.online \in BOOLEAN /\ m.cmd \in BOOLEAN /\ m.sigCmd \in BOOLEAN
    BY <1>4, MessageKinds DEF Status
  <2>2. view.caps \in BOOLEAN /\ view.sigCaps \in BOOLEAN /\ (view.sigCaps => view.caps)
    BY DEF TypeOK
  <2>. QED
    BY <2>1, <2>2 DEF ViewAfter
<1>. QED
  BY <1>3, <1>4

\* The broker is asked for the status of a node that is new.
LEMMA SubscribeIs ==
  ASSUME TypeOK, SubscribeStatus
  PROVE  /\ queue' \in Seq(Message) /\ SamplesOf(queue') = SamplesOf(queue)
         /\ unheard' \in BOOLEAN
         /\ \/ UNCHANGED <<queue, unheard>>
            \/ /\ retained \in Status /\ retained \in Message /\ retained.kind = "status"
               /\ queue' = Append(queue, retained)
<1>1. queue \in Seq(Message)
  BY DEF TypeOK
<1>2. CASE UNCHANGED <<queue, unheard>>
  BY <1>1, <1>2 DEF TypeOK
<1>3. CASE ~UNCHANGED <<queue, unheard>>
  <2>1. retained # None /\ queue' = Append(queue, retained) /\ unheard' = FALSE
    BY <1>3 DEF SubscribeStatus
  <2>2. retained \in Status /\ retained \in Message /\ retained.kind = "status"
    BY <2>1 DEF TypeOK, Message, Status
  <2>3. /\ Append(queue, retained) \in Seq(Message)
        /\ SamplesOf(Append(queue, retained)) = SamplesOf(queue) \cup SampleOf(retained)
    BY <1>1, <2>2, AppendProperties, SamplesAppend
  <2>4. SampleOf(retained) = {}
    BY <2>2 DEF SampleOf
  <2>. QED
    BY <2>1, <2>2, <2>3, <2>4
<1>. QED
  BY <1>2, <1>3

LEMMA TypeHandle == Typed /\ (HandleMeas \/ HandleStatus \/ Refuse \/ Flush) => Typed'
<1>. SUFFICES ASSUME TypeOK, Bounded, HandleMeas \/ HandleStatus \/ Refuse \/ Flush
              PROVE  TypeOK' /\ Bounded'
  BY DEF Typed
<1>. DEFINE m == NextCall.m
<1>1. ASSUME ready # << >>
      PROVE  /\ m \in Message /\ NextCall.rest \in Seq(Message) /\ m.key \in Nat
             /\ SamplesOf(ready) = SampleOf(m) \cup SamplesOf(NextCall.rest)
  BY <1>1, NextIs
<1>. HIDE DEF m
<1>2. CASE HandleMeas
  <2>1. /\ m \in Message /\ m.key \in Nat /\ m.kind = "meas" /\ Genuine(m)
        /\ signed' = SignedAfter(m) /\ pending' = Append(pending, m.n)
        /\ ready' = NextCall.rest /\ ready' \in Seq(Message) /\ SubscribeStatus /\ known' = TRUE
        /\ SamplesOf(ready) = SampleOf(m) \cup SamplesOf(ready')
        /\ UNCHANGED <<node, mainKey, edgeKey, view, session, linked, onLink, retained,
                       kept, shown, unheld, lost, spent>>
    BY <1>1, <1>2 DEF HandleMeas, m
  <2>2. m.n \in Samples /\ m.n \in SamplesOf(ready) /\ pending \in Seq(Samples)
    BY <2>1, MessageKinds DEF SampleOf, TypeOK
  <2>3. pending' \in Seq(Samples) /\ InSequence(pending') = InSequence(pending) \cup {m.n}
    BY <2>1, <2>2, PendingAppend
  <2>4. queue' \in Seq(Message) /\ SamplesOf(queue') = SamplesOf(queue) /\ unheard' \in BOOLEAN
    BY <2>1, SubscribeIs
  <2>5. signed' \in [Kinds -> 0..mainKey]
    BY <2>1, HandledIs
  <2>6. TypeOK'
    BY <2>1, <2>3, <2>4, <2>5 DEF TypeOK
  <2>7. Bounded'
    BY <2>1, <2>2, <2>3, <2>4 DEF Bounded
  <2>. QED
    BY <2>6, <2>7
<1>3. CASE HandleStatus
  <2>1. /\ m \in Message /\ m.key \in Nat /\ m.kind = "status" /\ Genuine(m)
        /\ signed' = SignedAfter(m) /\ view' = ViewAfter(m)
        /\ ready' = NextCall.rest /\ ready' \in Seq(Message)
        /\ SamplesOf(ready) = SampleOf(m) \cup SamplesOf(ready')
        /\ UNCHANGED <<node, mainKey, edgeKey, known, pending, broker, kept, shown, history, spent>>
    BY <1>1, <1>3 DEF HandleStatus, m
  <2>2. /\ signed' \in [Kinds -> 0..mainKey]
        /\ view' \in [online : BOOLEAN \cup {None}, caps : BOOLEAN, sigCaps : BOOLEAN]
        /\ view'.sigCaps => view'.caps
    BY <2>1, HandledIs
  <2>3. TypeOK'
    BY <2>1, <2>2 DEF TypeOK, broker, history
  <2>4. Bounded'
    BY <2>1 DEF Bounded, broker
  <2>. QED
    BY <2>3, <2>4
<1>4. CASE Refuse
  <2>1. /\ m \in Message /\ ready' = NextCall.rest /\ ready' \in Seq(Message)
        /\ SamplesOf(ready) = SampleOf(m) \cup SamplesOf(ready')
        /\ lost' \subseteq lost \cup SampleOf(m) /\ unheard' \in BOOLEAN
        /\ UNCHANGED <<node, mainKey, edgeKey, view, signed, known, pending, broker, kept, shown,
                       unheld, spent>>
    BY <1>1, <1>4 DEF Refuse, m, SampleOf
  <2>2. lost' \subseteq 1..spent.meas
    BY <2>1 DEF TypeOK, Bounded
  <2>3. TypeOK'
    BY <2>1, <2>2 DEF TypeOK, broker
  <2>4. Bounded'
    BY <2>1 DEF Bounded, broker
  <2>. QED
    BY <2>3, <2>4
<1>5. CASE Flush
  <2>1. /\ pending # << >> /\ pending \in Seq(Samples)
        /\ kept' = kept \cup InSequence(pending) /\ shown' = Last(pending) /\ pending' = << >>
        /\ UNCHANGED <<node, mainKey, edgeKey, ready, view, signed, known, broker, history, spent>>
    BY <1>5 DEF Flush, TypeOK
  <2>2. kept' \subseteq 1..spent.meas /\ shown' \in kept' /\ pending' \in Seq(Samples)
    <3>1. kept \subseteq 1..spent.meas /\ InSequence(pending) \subseteq 1..spent.meas
      BY DEF TypeOK, Bounded
    <3>2. Last(pending) \in InSequence(pending)
      BY <2>1, PendingLast
    <3>3. pending' \in Seq(Samples)
      BY <2>1
    <3>. QED
      BY <2>1, <3>1, <3>2, <3>3, Zenon
  <2>3. TypeOK'
    BY <2>1, <2>2 DEF TypeOK, broker, history
  <2>4. Bounded'
    BY <2>1, NothingIn DEF Bounded, broker
  <2>. QED
    BY <2>3, <2>4
<1>. QED
  BY <1>2, <1>3, <1>4, <1>5

LEMMA TypeStep == Typed /\ [Next]_vars => Typed'
<1>1. Typed /\ UNCHANGED vars => Typed'
  BY DEF Typed, TypeOK, Bounded, vars, edge, broker, history
<1>. QED
  BY <1>1, TypePublish, TypeReport, TypeKeys, TypeLinkLost, TypeRestart, TypeConnection,
     TypeHandle DEF Next, Edge


-----------------------------------------------------------------------------
(* Where a measurement is, and what comes after it.                        *)

\* The measurements that are not excepted.
Good == Published \ (unheld \cup lost)

Accounted == Published \subseteq UnderWay \cup InSequence(pending) \cup kept \cup unheld \cup lost

\* The broker and the loop have every greater measurement behind a smaller one.
Streams ==
  /\ Climbs(onLink, Good, SamplesOf(queue))
  /\ Climbs(queue, Good, {})
  /\ Climbs(ready, Good, SamplesOf(queue))

\* What is greater than the one that Main is shown, or will be, is on its way.
Latest ==
  \A n \in Good :
    /\ shown = None \/ shown < n => n \in InSequence(pending) \cup UnderWay
    /\ pending # << >> /\ Last(pending) < n => n \in UnderWay

Flow == Accounted /\ Streams /\ Latest

LEMMA ClimbsEmpty == \A G, X : Climbs(<< >>, G, X)
BY DEF Climbs

LEMMA FlowInit == Init => Flow
BY ClimbsEmpty DEF Init, Flow, Accounted, Streams, Latest, Published, Good

LEMMA FlowPublish == Typed /\ Flow /\ Publish => Flow'
<1>. SUFFICES ASSUME TypeOK, Bounded, Flow, Publish PROVE Flow'
  BY DEF Typed
<1>. DEFINE top == spent'.meas
<1>1. PICK m \in Measurement : m.n = top /\ m.kind = "meas" /\ Route(m)
  BY PublishIs
<1>2. top = spent.meas + 1 /\ spent.meas \in Nat
  BY PublishIs
<1>3. m \in Message /\ SampleOf(m) = {top}
  BY <1>1 DEF Message, SampleOf
<1>4. /\ UNCHANGED <<ready, pending, onLink, kept, shown, lost>>
      /\ unheld' = IF session THEN unheld ELSE unheld \cup {top}
  BY DEF Publish, edge
<1>5. Published' = Published \cup {top} /\ \A n \in Published : n < top
  BY <1>2 DEF Published
<1>. HIDE DEF top
<1>6. queue \in Seq(Message)
  BY DEF TypeOK
<1>7. CASE session
  <2>1. queue' = Append(queue, m) /\ SamplesOf(queue') = SamplesOf(queue) \cup {top}
    BY <1>1, <1>3, <1>7, RouteIs
  <2>2. \A n \in Good' : n \in Good \/ n = top
    BY <1>4, <1>5, <1>7 DEF Good
  <2>3. Climbs(onLink', Good', SamplesOf(queue')) /\ Climbs(ready', Good', SamplesOf(queue'))
    BY <1>4, <2>1, <2>2, ClimbsMono DEF Flow, Streams
  <2>4. Climbs(queue', Good', {})
    <3>1. Climbs(queue, Good', {} \cup SampleOf(m))
      BY <1>3, <2>2, ClimbsMono DEF Flow, Streams
    <3>2. \A n \in Good' : ~(m.n < n)
      BY <1>1, <1>2, <1>5, <2>2 DEF Good, Published, top
    <3>. QED
      BY <1>3, <1>6, <2>1, <3>1, <3>2, ClimbsAppend
  <2>5. UnderWay' = UnderWay \cup {top}
    BY <1>4, <2>1 DEF UnderWay
  <2>6. Accounted' /\ Latest'
    BY <1>4, <1>5, <1>7, <2>2, <2>5 DEF Flow, Accounted, Latest
  <2>. QED
    BY <2>3, <2>4, <2>6 DEF Flow, Streams
<1>8. CASE ~session
  <2>1. queue' = queue
    BY <1>1, <1>3, <1>8, RouteIs
  <2>2. \A n \in Good' : n \in Good
    BY <1>4, <1>5, <1>8 DEF Good
  <2>3. Streams'
    BY <1>4, <2>1, <2>2, ClimbsMono DEF Flow, Streams
  <2>4. UnderWay' = UnderWay
    BY <1>4, <2>1 DEF UnderWay
  <2>5. Accounted' /\ Latest'
    BY <1>4, <1>5, <1>8, <2>2, <2>4 DEF Flow, Accounted, Latest
  <2>. QED
    BY <2>3, <2>5 DEF Flow
<1>. QED
  BY <1>7, <1>8

\* A status, or nothing, is appended to what the broker has for the edge.
LEMMA FlowStatus ==
  ASSUME TypeOK, NEW G, NEW m \in Message, m.kind = "status",
         queue' = queue \/ queue' = Append(queue, m), Climbs(queue, G, {})
  PROVE  Climbs(queue', G, {}) /\ SamplesOf(queue') = SamplesOf(queue)
<1>1. queue \in Seq(Message) /\ SampleOf(m) = {}
  BY DEF TypeOK, SampleOf
<1>2. Climbs(queue, G, {} \cup SampleOf(m))
  BY <1>1
<1>3. /\ Climbs(Append(queue, m), G, {})
      /\ SamplesOf(Append(queue, m)) = SamplesOf(queue) \cup SampleOf(m)
  BY <1>1, <1>2, ClimbsAppend, SamplesAppend
<1>. QED
  BY <1>1, <1>3

LEMMA FlowReport == Typed /\ Flow /\ (NodeUp \/ NodeDown) => Flow'
<1>. SUFFICES ASSUME TypeOK, Flow, NodeUp \/ NodeDown PROVE Flow'
  BY DEF Typed
<1>1. /\ retained' \in Message /\ retained'.kind = "status" /\ Route(retained') /\ Event
      /\ UNCHANGED <<edge, onLink, kept, shown, unheld, lost>>
  BY ReportIs
<1>2. spent'.meas = spent.meas
  BY <1>1, EventIs
<1>3. queue' = queue \/ queue' = Append(queue, retained')
  BY <1>1 DEF Route
<1>4. Published' = Published /\ Good' = Good
  BY <1>1, <1>2 DEF Published, Good
<1>5. Climbs(queue', Good, {}) /\ SamplesOf(queue') = SamplesOf(queue)
  BY <1>1, <1>3, FlowStatus DEF Flow, Streams
<1>6. UnderWay' = UnderWay
  BY <1>1, <1>5 DEF UnderWay, edge
<1>. QED
  BY <1>1, <1>4, <1>5, <1>6 DEF Flow, Accounted, Streams, Latest, edge

\* What is sent again goes in front of what was not sent.
LEMMA FlowRequeued ==
  ASSUME TypeOK, NEW acked \in 0..Len(onLink), NEW G, Climbs(onLink, G, SamplesOf(queue)),
         Climbs(queue, G, {})
  PROVE  Climbs(Requeued(acked), G, {}) /\ SamplesOf(queue) \subseteq SamplesOf(Requeued(acked))
<1>. DEFINE rest == SubSeq(onLink, acked + 1, Len(onLink))
<1>1. onLink \in Seq(Message) /\ queue \in Seq(Message)
  BY DEF TypeOK
<1>2. rest \in Seq(Message) /\ Climbs(rest, G, SamplesOf(queue))
  BY <1>1, SuffixIs, ClimbsSuffix
<1>3. Requeued(acked) = rest \o queue
  BY DEF Requeued
<1>. HIDE DEF rest
<1>4. Climbs(rest, G, {} \cup SamplesOf(queue))
  BY <1>2
<1>5. Climbs(rest \o queue, G, {})
  BY <1>1, <1>2, <1>4, ClimbsConcat
<1>. QED
  BY <1>3, <1>5, RequeuedIs

LEMMA FlowLinkLost == Typed /\ Flow /\ LinkLost => Flow'
<1>. SUFFICES ASSUME TypeOK, Flow, LinkLost PROVE Flow'
  BY DEF Typed
<1>1. PICK acked \in 0..Len(onLink) : queue' = Requeued(acked)
  BY DEF LinkLost
<1>2. onLink' = << >> /\ UNCHANGED <<edge, kept, shown, history>> /\ spent'.meas = spent.meas
  BY EventIs DEF LinkLost
<1>3. Published' = Published /\ Good' = Good
  BY <1>2 DEF Published, Good, history
<1>4. Climbs(queue', Good, {}) /\ SamplesOf(queue) \subseteq SamplesOf(queue')
  BY <1>1, FlowRequeued DEF Flow, Streams
<1>5. Climbs(ready', Good, SamplesOf(queue'))
  BY <1>2, <1>4, ClimbsMono DEF Flow, Streams, edge
<1>6. UnderWay \subseteq UnderWay'
  BY <1>2, <1>4 DEF UnderWay, edge
<1>7. Accounted' /\ Latest'
  BY <1>2, <1>3, <1>6 DEF Flow, Accounted, Latest, edge, history
<1>. QED
  BY <1>2, <1>3, <1>4, <1>5, <1>7, ClimbsEmpty DEF Flow, Streams

LEMMA FlowRestart == Typed /\ Flow /\ Restart => Flow'
<1>. SUFFICES ASSUME TypeOK, Flow, Restart PROVE Flow'
  BY DEF Typed
<1>1. PICK acked \in 0..Len(onLink) : queue' = Requeued(acked)
  BY DEF Restart
<1>2. /\ onLink' = << >> /\ ready' = << >> /\ pending' = << >> /\ spent'.meas = spent.meas
      /\ lost' = lost \cup ((SamplesOf(ready) \cup InSequence(pending)) \ SamplesOf(queue'))
      /\ UNCHANGED <<kept, shown, unheld>>
  BY EventIs DEF Restart
<1>3. Published' = Published /\ \A n \in Good' : n \in Good
  BY <1>2 DEF Published, Good
<1>4. Climbs(queue', Good, {}) /\ SamplesOf(queue) \subseteq SamplesOf(queue')
  BY <1>1, FlowRequeued DEF Flow, Streams
<1>5. Climbs(queue', Good', {})
  BY <1>3, <1>4, ClimbsMono
<1>6. UnderWay' = SamplesOf(queue') /\ InSequence(pending') = {}
  BY <1>2, NothingIn DEF UnderWay
<1>7. Accounted'
  BY <1>2, <1>3, <1>4, <1>6 DEF Flow, Accounted, UnderWay
<1>8. ASSUME NEW n \in Good', shown = None \/ shown < n PROVE n \in SamplesOf(queue')
  <2>1. n \in InSequence(pending) \cup SamplesOf(queue) \cup SamplesOf(ready)
    BY <1>3, <1>8 DEF Flow, Latest, UnderWay
  <2>2. n \notin lost'
    BY DEF Good
  <2>. QED
    BY <1>2, <1>4, <2>1, <2>2
<1>9. Latest'
  BY <1>2, <1>6, <1>8 DEF Latest
<1>. QED
  BY <1>2, <1>5, <1>7, <1>9, ClimbsEmpty DEF Flow, Streams

LEMMA FlowConnection == Typed /\ Flow /\ (SessionExpires \/ Connect \/ OnMessage) => Flow'
<1>. SUFFICES ASSUME TypeOK, Bounded, Flow, SessionExpires \/ Connect \/ OnMessage PROVE Flow'
  BY DEF Typed
<1>1. CASE SessionExpires
  <2>1. /\ queue' = << >> /\ onLink' = << >> /\ spent'.meas = spent.meas
        /\ unheld' = unheld \cup SamplesOf(queue)
        /\ UNCHANGED <<edge, kept, shown, lost>>
    BY <1>1, EventIs DEF SessionExpires, Bounded
  <2>2. Published' = Published /\ \A n \in Good' : n \in Good /\ n \notin SamplesOf(queue)
    BY <2>1 DEF Published, Good
  <2>3. Climbs(ready', Good', SamplesOf(queue'))
    BY <2>1, <2>2, ClimbsMono DEF Flow, Streams, edge
  <2>4. UnderWay' = SamplesOf(ready)
    BY <2>1, NothingIn DEF UnderWay, edge
  <2>5. Accounted' /\ Latest'
    BY <2>1, <2>2, <2>4 DEF Flow, Accounted, Latest, UnderWay, edge
  <2>. QED
    BY <2>1, <2>3, <2>5, ClimbsEmpty DEF Flow, Streams
<1>2. CASE Connect
  BY <1>2 DEF Connect, Flow, Accounted, Streams, Latest, Published, Good, UnderWay, edge, history
<1>3. CASE OnMessage
  <2>. DEFINE h == Head(queue)
  <2>1. /\ queue \in Seq(Message) /\ queue # << >> /\ onLink \in Seq(Message) /\ ready \in Seq(Message)
        /\ queue' = Tail(queue) /\ onLink' = Append(onLink, h) /\ ready' = Append(ready, h)
        /\ UNCHANGED <<pending, kept, shown, history, spent>>
    BY <1>3 DEF OnMessage, TypeOK
  <2>2. h \in Message /\ SamplesOf(queue) = SampleOf(h) \cup SamplesOf(queue')
    BY <2>1, TailIs, SamplesTail
  <2>3. Climbs(queue', Good, {}) /\ (h.kind = "meas" => \A n \in Good : h.n < n => n \in SamplesOf(queue'))
    BY <2>1, ClimbsTail DEF Flow, Streams
  <2>4. SamplesOf(ready') = SamplesOf(ready) \cup SampleOf(h)
    BY <2>1, <2>2, SamplesAppend
  <2>. HIDE DEF h
  <2>5. SamplesOf(queue') \cup SampleOf(h) = SamplesOf(queue)
    BY <2>2
  <2>6. Climbs(onLink', Good, SamplesOf(queue')) /\ Climbs(ready', Good, SamplesOf(queue'))
    BY <2>1, <2>2, <2>3, <2>5, ClimbsAppend DEF Flow, Streams
  <2>7. UnderWay' = UnderWay
    BY <2>2, <2>4 DEF UnderWay
  <2>8. Published' = Published /\ Good' = Good
    BY <2>1 DEF Published, Good, history
  <2>9. Accounted' /\ Latest'
    BY <2>1, <2>7, <2>8 DEF Flow, Accounted, Latest, history
  <2>. QED
    BY <2>3, <2>6, <2>8, <2>9 DEF Flow, Streams
<1>. QED
  BY <1>1, <1>2, <1>3

\* The loop takes the first call.
LEMMA FlowNext ==
  ASSUME TypeOK, Flow, ready # << >>
  PROVE  /\ Climbs(NextCall.rest, Good, SamplesOf(queue))
         /\ NextCall.m.kind = "meas" =>
              \A n \in Good : NextCall.m.n < n => n \in SamplesOf(queue) \cup SamplesOf(NextCall.rest)
<1>1. ready \in Seq(Message) /\ NextCall.m = Head(ready) /\ NextCall.rest = Tail(ready)
  BY NextIs DEF TypeOK
<1>. QED
  BY <1>1, ClimbsTail DEF Flow, Streams

LEMMA FlowHandle == Typed /\ Flow /\ (HandleMeas \/ HandleStatus \/ Refuse \/ Flush) => Flow'
<1>. SUFFICES ASSUME TypeOK, Bounded, Flow, HandleMeas \/ HandleStatus \/ Refuse \/ Flush PROVE Flow'
  BY DEF Typed
<1>. DEFINE m == NextCall.m
            rest == NextCall.rest
<1>1. ASSUME ready # << >>
      PROVE  /\ m \in Message /\ SamplesOf(ready) = SampleOf(m) \cup SamplesOf(rest)
             /\ Climbs(rest, Good, SamplesOf(queue))
             /\ m.kind = "meas" =>
                  \A n \in Good : m.n < n => n \in SamplesOf(queue) \cup SamplesOf(rest)
  BY <1>1, NextIs, FlowNext
<1>. HIDE DEF m, rest
<1>2. CASE HandleMeas
  <2>1. /\ ready # << >> /\ m.kind = "meas" /\ pending' = Append(pending, m.n) /\ ready' = rest
        /\ SubscribeStatus
        /\ UNCHANGED <<onLink, kept, shown, unheld, lost, spent>>
    BY <1>2 DEF HandleMeas, m, rest
  <2>2. pending \in Seq(Samples) /\ m.n \in Samples /\ SampleOf(m) = {m.n}
    BY <1>1, <2>1, MessageKinds DEF SampleOf, TypeOK
  <2>3. /\ pending' # << >> /\ Last(pending') = m.n
        /\ InSequence(pending') = InSequence(pending) \cup {m.n}
    BY <2>1, <2>2, PendingAppend
  <2>4. Climbs(queue', Good, {}) /\ SamplesOf(queue') = SamplesOf(queue)
    <3>1. CASE queue' = queue
      BY <3>1 DEF Flow, Streams
    <3>2. CASE /\ retained \in Message /\ retained.kind = "status"
               /\ queue' = Append(queue, retained)
      BY <3>2, FlowStatus DEF Flow, Streams
    <3>. QED
      BY <2>1, <3>1, <3>2, SubscribeIs
  <2>5. Published' = Published /\ Good' = Good
    BY <2>1 DEF Published, Good
  <2>6. Streams'
    BY <1>1, <2>1, <2>4, <2>5 DEF Flow, Streams
  <2>7. /\ UnderWay = UnderWay' \cup {m.n}
        /\ UnderWay' = SamplesOf(queue) \cup SamplesOf(rest)
    BY <1>1, <2>1, <2>2, <2>4 DEF UnderWay
  <2>8. Accounted'
    BY <2>1, <2>3, <2>5, <2>7 DEF Flow, Accounted
  <2>9. Latest'
    BY <1>1, <2>1, <2>3, <2>5, <2>7 DEF Flow, Latest
  <2>. QED
    BY <2>6, <2>8, <2>9 DEF Flow
<1>3. CASE HandleStatus
  <2>1. /\ ready # << >> /\ m.kind = "status" /\ ready' = rest
        /\ UNCHANGED <<pending, queue, onLink, kept, shown, history, spent>>
    BY <1>3 DEF HandleStatus, m, rest, broker
  <2>2. Published' = Published /\ Good' = Good
    BY <2>1 DEF Published, Good, history
  <2>3. UnderWay' = UnderWay
    BY <1>1, <2>1 DEF UnderWay, SampleOf
  <2>4. Streams'
    BY <1>1, <2>1, <2>2 DEF Flow, Streams
  <2>5. Accounted' /\ Latest'
    BY <2>1, <2>2, <2>3 DEF Flow, Accounted, Latest, history
  <2>. QED
    BY <2>4, <2>5 DEF Flow
<1>4. CASE Refuse
  <2>1. /\ ready # << >> /\ ready' = rest /\ lost' = lost \cup SampleOf(m)
        /\ UNCHANGED <<pending, queue, onLink, kept, shown, unheld, spent>>
    BY <1>4 DEF Refuse, m, rest, broker, SampleOf
  <2>2. Published' = Published /\ \A n \in Good' : n \in Good /\ n \notin SampleOf(m)
    BY <2>1 DEF Published, Good
  <2>3. Streams'
    BY <1>1, <2>1, <2>2, ClimbsMono DEF Flow, Streams
  <2>4. UnderWay = UnderWay' \cup SampleOf(m)
    BY <1>1, <2>1 DEF UnderWay
  <2>5. Accounted'
    BY <2>1, <2>2, <2>4 DEF Flow, Accounted
  <2>6. Latest'
    BY <2>1, <2>2, <2>4 DEF Flow, Latest
  <2>. QED
    BY <2>3, <2>5, <2>6 DEF Flow
<1>5. CASE Flush
  <2>1. /\ pending # << >> /\ pending \in Seq(Samples)
        /\ kept' = kept \cup InSequence(pending) /\ shown' = Last(pending) /\ pending' = << >>
        /\ UNCHANGED <<ready, queue, onLink, history, spent>>
    BY <1>5 DEF Flush, TypeOK, broker
  <2>2. shown' # None
    <3>1. Last(pending) \in 1..spent.meas
      BY <2>1, PendingLast DEF Bounded
    <3>2. Last(pending) \in Nat
      BY <3>1 DEF TypeOK
    <3>. QED
      BY <2>1, <3>2, MqttUplinkAssumption
  <2>3. /\ Published' = Published /\ Good' = Good /\ UnderWay' = UnderWay
        /\ InSequence(pending') = {}
    BY <2>1, NothingIn DEF Published, Good, UnderWay, history
  <2>4. Streams'
    BY <2>1, <2>3 DEF Flow, Streams
  <2>5. Accounted'
    BY <2>1, <2>3 DEF Flow, Accounted, history
  <2>6. Latest'
    BY <2>1, <2>2, <2>3 DEF Flow, Latest
  <2>. QED
    BY <2>4, <2>5, <2>6 DEF Flow
<1>. QED
  BY <1>2, <1>3, <1>4, <1>5

LEMMA FlowStep == Typed /\ Flow /\ [Next]_vars => Flow'
<1>1. Typed /\ Flow /\ (NodeLearns \/ RotateKey \/ ApplyConfig \/ UNCHANGED vars) => Flow'
  <2>. SUFFICES ASSUME TypeOK, Flow, NodeLearns \/ RotateKey \/ ApplyConfig \/ UNCHANGED vars
                PROVE  Flow'
    BY DEF Typed
  <2>1. /\ UNCHANGED <<ready, pending, queue, onLink, kept, shown, history>>
        /\ spent'.meas = spent.meas
    BY EventIs DEF NodeLearns, RotateKey, ApplyConfig, vars, edge, broker
  <2>2. Published' = Published /\ Good' = Good /\ UnderWay' = UnderWay
    BY <2>1 DEF Published, Good, UnderWay, history
  <2>. QED
    BY <2>1, <2>2 DEF Flow, Accounted, Streams, Latest, history
<1>. QED
  BY <1>1, FlowPublish, FlowReport, FlowLinkLost, FlowRestart, FlowConnection, FlowHandle
     DEF Next, Edge


-----------------------------------------------------------------------------
(* What the edge has heard of the node.                                    *)

\* The edge's view of the node is that of its retained status.
Current ==
  /\ view.online = retained.online
  /\ retained.online /\ retained.cmd => view.caps /\ view.sigCaps = retained.sigCmd

\* The last status on its way, wherever it is, is the retained one.
Heard ==
  ~unheard =>
    /\ Ends(queue, retained)
    /\ ~HoldsStatus(queue) => Ends(ready, retained) /\ Ends(onLink, retained)
    /\ ~StatusUnderWay => Current

LEMMA EndsEmpty == \A r : Ends(<< >>, r)
BY DEF Ends

LEMMA HeardInit == Init => Heard
BY DEF Init, Heard

LEMMA HeardPublish == Typed /\ Heard /\ (Publish \/ NodeUp \/ NodeDown) => Heard'
<1>. SUFFICES ASSUME TypeOK, Heard, Publish \/ NodeUp \/ NodeDown, ~unheard' PROVE Heard'
  BY DEF Typed, Heard
<1>0. queue \in Seq(Message)
  BY DEF TypeOK
<1>1. CASE Publish
  <2>1. PICK m \in Measurement : m.kind = "meas" /\ Route(m)
    BY <1>1, PublishIs
  <2>2. m \in Message /\ ~unheard /\ UNCHANGED <<ready, onLink, view, retained>>
    BY <1>1 DEF Publish, Message, edge
  <2>3. queue' = queue \/ queue' = Append(queue, m)
    BY <2>1 DEF Route
  <2>4. Ends(queue, retained)
    BY <2>2 DEF Heard
  <2>5. Ends(Append(queue, m), retained)
    BY <1>0, <2>1, <2>2, <2>4, EndsAppend
  <2>6. HoldsStatus(Append(queue, m)) <=> HoldsStatus(queue)
    BY <1>0, <2>1, <2>2, HoldsAppend
  <2>7. Ends(queue', retained) /\ (HoldsStatus(queue') <=> HoldsStatus(queue))
    BY <2>3, <2>4, <2>5, <2>6
  <2>. QED
    BY <2>2, <2>7 DEF Heard, StatusUnderWay, Current
<1>2. CASE NodeUp \/ NodeDown
  <2>1. retained' \in Message /\ retained'.kind = "status" /\ Route(retained') /\ session
    BY <1>2, ReportIs DEF TypeOK
  <2>2. queue' = Append(queue, retained')
    BY <2>1 DEF Route
  <2>3. Ends(queue', retained') /\ HoldsStatus(queue')
    BY <1>0, <2>1, <2>2, EndsAppend, HoldsAppend
  <2>. QED
    BY <2>3 DEF Heard, StatusUnderWay
<1>. QED
  BY <1>1, <1>2

LEMMA HeardRequeued ==
  ASSUME TypeOK, Heard, ~unheard, NEW acked \in 0..Len(onLink)
  PROVE  /\ Ends(Requeued(acked), retained)
         /\ HoldsStatus(queue) => HoldsStatus(Requeued(acked))
<1>. DEFINE rest == SubSeq(onLink, acked + 1, Len(onLink))
<1>1. onLink \in Seq(Message) /\ queue \in Seq(Message)
  BY DEF TypeOK
<1>2. /\ Requeued(acked) = rest \o queue /\ rest \in Seq(Message)
      /\ Ends(onLink, retained) => Ends(rest, retained)
  BY <1>1, SuffixIs, EndsSuffix DEF Requeued
<1>. HIDE DEF rest
<1>3. Ends(queue, retained) /\ (~HoldsStatus(queue) => Ends(onLink, retained))
  BY DEF Heard
<1>4. Ends(rest \o queue, retained)
  BY <1>1, <1>2, <1>3, EndsConcat
<1>. QED
  BY <1>2, <1>4, RequeuedIs

LEMMA HeardConnection ==
  Typed /\ Heard /\ (LinkLost \/ Restart \/ SessionExpires \/ Connect) => Heard'
<1>. SUFFICES ASSUME TypeOK, Bounded, Heard, LinkLost \/ Restart \/ SessionExpires \/ Connect, ~unheard'
              PROVE  Heard'
  BY DEF Typed, Heard
<1>1. CASE LinkLost
  <2>1. PICK acked \in 0..Len(onLink) : queue' = Requeued(acked)
    BY <1>1 DEF LinkLost
  <2>2. ~unheard /\ onLink' = << >> /\ UNCHANGED <<ready, view, retained>>
    BY <1>1 DEF LinkLost, history, edge
  <2>3. Ends(queue', retained) /\ (HoldsStatus(queue) => HoldsStatus(queue'))
    BY <2>1, <2>2, HeardRequeued
  <2>. QED
    BY <2>2, <2>3, EndsEmpty DEF Heard, StatusUnderWay, Current
<1>2. CASE Restart
  <2>1. PICK acked \in 0..Len(onLink) : queue' = Requeued(acked)
    BY <1>2 DEF Restart
  <2>2. ~unheard /\ HoldsStatus(queue') /\ UNCHANGED retained
    BY <1>2 DEF Restart
  <2>3. Ends(queue', retained)
    BY <2>1, <2>2, HeardRequeued
  <2>. QED
    BY <2>2, <2>3 DEF Heard, StatusUnderWay
<1>3. CASE SessionExpires
  <2>1. ~unheard /\ ~HoldsStatus(queue) /\ queue' = << >> /\ UNCHANGED <<ready, onLink, view, retained>>
    BY <1>3 DEF SessionExpires, edge
  <2>. QED
    BY <2>1, EndsEmpty, NothingIn DEF Heard, StatusUnderWay, Current
<1>4. CASE Connect
  BY <1>4 DEF Connect, Heard, StatusUnderWay, Current, edge, history
<1>. QED
  BY <1>1, <1>2, <1>3, <1>4

LEMMA HeardOnMessage == Typed /\ Heard /\ OnMessage => Heard'
<1>. SUFFICES ASSUME TypeOK, Heard, OnMessage, ~unheard' PROVE Heard'
  BY DEF Typed, Heard
<1>. DEFINE h == Head(queue)
<1>1. /\ queue \in Seq(Message) /\ queue # << >> /\ onLink \in Seq(Message) /\ ready \in Seq(Message)
      /\ queue' = Tail(queue) /\ onLink' = Append(onLink, h) /\ ready' = Append(ready, h)
      /\ ~unheard /\ UNCHANGED <<view, retained>>
  BY DEF OnMessage, TypeOK, history
<1>2. /\ Ends(queue, retained)
      /\ ~HoldsStatus(queue) => Ends(ready, retained) /\ Ends(onLink, retained)
  BY <1>1 DEF Heard
<1>3. h \in Message
  BY <1>1, TailIs
<1>4. /\ Ends(queue', retained)
      /\ h.kind = "status" /\ ~HoldsStatus(queue') => h = retained
  BY <1>1, <1>2, EndsTail
<1>5. HoldsStatus(queue) <=> HoldsStatus(queue') \/ h.kind = "status"
  BY <1>1, HoldsTail
<1>6. HoldsStatus(ready') <=> HoldsStatus(ready) \/ h.kind = "status"
  BY <1>1, <1>3, HoldsAppend
<1>. HIDE DEF h
<1>7. ASSUME ~HoldsStatus(queue') PROVE Ends(ready', retained) /\ Ends(onLink', retained)
  <2>1. CASE h.kind = "status"
    <3>1. h = retained
      BY <1>4, <1>7, <2>1
    <3>. QED
      BY <1>1, <1>3, <2>1, <3>1, EndsAppend
  <2>2. CASE h.kind # "status"
    <3>1. Ends(ready, retained) /\ Ends(onLink, retained)
      BY <1>2, <1>5, <1>7, <2>2
    <3>. QED
      BY <1>1, <1>3, <2>2, <3>1, EndsAppend
  <2>. QED
    BY <2>1, <2>2
<1>8. StatusUnderWay' <=> StatusUnderWay
  BY <1>5, <1>6 DEF StatusUnderWay
<1>. QED
  BY <1>1, <1>4, <1>7, <1>8 DEF Heard, Current

LEMMA HeardHandle == Typed /\ Heard /\ (HandleMeas \/ HandleStatus \/ Refuse) => Heard'
<1>. SUFFICES ASSUME TypeOK, Heard, HandleMeas \/ HandleStatus \/ Refuse, ~unheard' PROVE Heard'
  BY DEF Typed, Heard
<1>. DEFINE m == NextCall.m
            rest == NextCall.rest
<1>1. /\ ready \in Seq(Message) /\ ready # << >> /\ m = Head(ready) /\ rest = Tail(ready)
      /\ ready' = rest /\ m \in Message /\ queue \in Seq(Message)
      /\ HoldsStatus(ready) <=> HoldsStatus(rest) \/ m.kind = "status"
  BY NextIs DEF HandleMeas, HandleStatus, Refuse, TypeOK
<1>2. Ends(ready, retained) =>
        /\ Ends(rest, retained)
        /\ m.kind = "status" /\ ~HoldsStatus(rest) => m = retained
  BY <1>1, EndsTail
<1>3. UNCHANGED <<onLink, retained>>
  BY DEF HandleMeas, HandleStatus, Refuse, broker
<1>4. CASE HandleMeas
  <2>1. m.kind = "meas" /\ SubscribeStatus /\ UNCHANGED view
    BY <1>4 DEF HandleMeas
  <2>. HIDE DEF m, rest
  <2>2. CASE UNCHANGED <<queue, unheard>>
    <3>1. StatusUnderWay' <=> StatusUnderWay
      BY <1>1, <2>1, <2>2 DEF StatusUnderWay
    <3>. QED
      BY <1>1, <1>2, <1>3, <2>1, <2>2, <3>1 DEF Heard, Current
  <2>3. CASE /\ retained \in Message /\ retained.kind = "status"
             /\ queue' = Append(queue, retained)
    <3>1. Ends(queue', retained) /\ HoldsStatus(queue')
      BY <1>1, <2>3, EndsAppend, HoldsAppend
    <3>. QED
      BY <1>3, <3>1 DEF Heard, StatusUnderWay
  <2>. QED
    BY <2>1, <2>2, <2>3, SubscribeIs
<1>5. CASE HandleStatus
  <2>1. m.kind = "status" /\ view' = ViewAfter(m) /\ ~unheard /\ UNCHANGED queue
    BY <1>5 DEF HandleStatus, history, broker
  <2>. HIDE DEF m, rest
  <2>2. ASSUME ~StatusUnderWay' PROVE Current'
    <3>1. ~HoldsStatus(queue) /\ ~HoldsStatus(rest)
      BY <1>1, <2>1, <2>2 DEF StatusUnderWay
    <3>2. m = retained
      BY <1>2, <2>1, <3>1 DEF Heard
    <3>. QED
      BY <1>3, <2>1, <3>2 DEF Current, ViewAfter
  <2>. QED
    BY <1>1, <1>2, <1>3, <2>1, <2>2 DEF Heard
<1>6. CASE Refuse
  <2>1. m # retained /\ ~unheard /\ UNCHANGED <<queue, view>>
    BY <1>6 DEF Refuse, broker
  <2>. HIDE DEF m, rest
  <2>2. ASSUME ~StatusUnderWay' PROVE ~StatusUnderWay
    <3>1. ~HoldsStatus(queue) /\ ~HoldsStatus(rest)
      BY <1>1, <2>1, <2>2 DEF StatusUnderWay
    <3>2. m.kind # "status"
      BY <1>2, <2>1, <3>1 DEF Heard
    <3>. QED
      BY <1>1, <3>1, <3>2 DEF StatusUnderWay
  <2>. QED
    BY <1>1, <1>2, <1>3, <2>1, <2>2 DEF Heard, Current
<1>. QED
  BY <1>4, <1>5, <1>6

LEMMA HeardStep == Typed /\ Heard /\ [Next]_vars => Heard'
<1>1. Heard /\ (NodeLearns \/ RotateKey \/ ApplyConfig \/ Flush \/ UNCHANGED vars) => Heard'
  <2>. SUFFICES ASSUME Heard, NodeLearns \/ RotateKey \/ ApplyConfig \/ Flush \/ UNCHANGED vars
                PROVE  Heard'
    OBVIOUS
  <2>1. UNCHANGED <<queue, ready, onLink, retained, view, unheard>>
    BY DEF NodeLearns, RotateKey, ApplyConfig, Flush, vars, edge, broker, history
  <2>. QED
    BY <2>1 DEF Heard, StatusUnderWay, Current
<1>. QED
  BY <1>1, HeardPublish, HeardConnection, HeardOnMessage, HeardHandle DEF Next, Edge

-----------------------------------------------------------------------------
(* The theorems.                                                           *)

IInv == Typed /\ Flow /\ Heard

LEMMA UplinkInductive == Spec => []IInv
<1>1. Init => IInv
  BY TypeInit, FlowInit, HeardInit DEF IInv
<1>2. IInv /\ [Next]_vars => IInv'
  BY TypeStep, FlowStep, HeardStep DEF IInv
<1>. QED
  BY <1>1, <1>2, PTL DEF Spec

(***************************************************************************)
(* The node, the broker's session, paho's thread and the edge keep their   *)
(* types, for any firmwares, measurements and events.                      *)
(***************************************************************************)
THEOREM UplinkTyped == Spec => []TypeOK
BY UplinkInductive, PTL DEF IInv, Typed

(***************************************************************************)
(* However often connections, sessions and processes are lost and messages *)
(* come again, every measurement is under way, kept, or lost in one of the *)
(* ways that are excepted; and once none is under way, Main is shown the   *)
(* newest that is not lost.                                                *)
(***************************************************************************)
THEOREM NewestAlwaysWins == Spec => []NewestWins
<1>1. IInv => NewestWins
  <2>. SUFFICES ASSUME TypeOK, Bounded, Flow PROVE NewestWins
    BY DEF IInv, Typed
  <2>1. UnderWay \cup InSequence(pending) \cup kept \cup unheld \cup lost \subseteq Published
    BY DEF TypeOK, Bounded, UnderWay, Published
  <2>2. Published = UnderWay \cup InSequence(pending) \cup kept \cup unheld \cup lost
    BY <2>1 DEF Flow, Accounted
  <2>3. ASSUME UnderWay = {}, NEW n \in Published \ (unheld \cup lost) PROVE n <= Shown
    <3>1. n \in Nat /\ n \in Good /\ spent.meas \in Nat
      BY MqttUplinkAssumption DEF Published, TypeOK, Good
    <3>2. CASE pending # << >>
      <4>1. Shown = Last(pending) /\ Last(pending) \in Nat
        BY <3>1, <3>2, PendingLast DEF Shown, TypeOK, Bounded
      <4>2. ~(Last(pending) < n)
        BY <2>3, <3>1, <3>2 DEF Flow, Latest
      <4>. QED
        BY <3>1, <4>1, <4>2
    <3>3. CASE pending = << >>
      <4>1. Shown = shown /\ shown # None /\ ~(shown < n)
        BY <2>3, <3>1, <3>3, NothingIn DEF Flow, Latest, Shown
      <4>2. shown \in Nat
        BY <3>1, <4>1 DEF TypeOK
      <4>. QED
        BY <3>1, <4>1, <4>2
    <3>. QED
      BY <3>2, <3>3
  <2>. QED
    BY <2>2, <2>3 DEF NewestWins
<1>. QED
  BY <1>1, UplinkInductive, PTL

(***************************************************************************)
(* Once no status is under way, the edge's view of a node is what the node *)
(* or its Last Will said last, as long as that came to the edge's session. *)
(***************************************************************************)
THEOREM ViewAlwaysCurrent == Spec => []ViewIsCurrent
<1>1. IInv => ViewIsCurrent
  BY DEF IInv, Heard, Current, ViewIsCurrent
<1>. QED
  BY <1>1, UplinkInductive, PTL
=============================================================================
