---------------------------- MODULE SequenceFacts ----------------------------
(***************************************************************************)
(* Facts about sequences that all the proofs share: the vectors of the     *)
(* servers, from which one entry is erased, and the FIFOs and streams, to  *)
(* which one appends and from which one takes the head.                    *)
(***************************************************************************)
EXTENDS Integers, SequencesExt, SequenceTheorems, TLAPS

\* RemoveAt, as vector::erase, closes the gap and keeps the order.
LEMMA RemoveAtProperties ==
  ASSUME NEW S, NEW s \in Seq(S), NEW k \in 1 .. Len(s)
  PROVE  /\ RemoveAt(s, k) \in Seq(S)
         /\ Len(RemoveAt(s, k)) = Len(s) - 1
         /\ \A j \in 1 .. k - 1 : RemoveAt(s, k)[j] = s[j]
         /\ \A j \in k .. Len(s) - 1 : RemoveAt(s, k)[j] = s[j + 1]
<1> DEFINE a == SubSeq(s, 1, k - 1)
           b == SubSeq(s, k + 1, Len(s))
<1>1. /\ a \in Seq(S) /\ Len(a) = k - 1
      /\ \A j \in 1 .. k - 1 : a[j] = s[j]
  <2>1. \A j \in 1 .. k - 1 : s[j] \in S
    BY ElementOfSeq
  <2>2. k - 1 \in Int /\ 1 \in Int
    OBVIOUS
  <2>3. /\ a \in Seq(S)
        /\ Len(a) = IF 1 <= k - 1 THEN (k - 1) - 1 + 1 ELSE 0
        /\ \A j \in 1 .. (k - 1) - 1 + 1 : a[j] = s[1 + j - 1]
    BY <2>1, <2>2, SubSeqProperties
  <2> QED
    BY <2>3
<1>2. /\ b \in Seq(S) /\ Len(b) = Len(s) - k
      /\ \A j \in 1 .. Len(s) - k : b[j] = s[k + j]
  <2>1. \A j \in k + 1 .. Len(s) : s[j] \in S
    BY ElementOfSeq
  <2>2. k + 1 \in Int /\ Len(s) \in Int
    OBVIOUS
  <2>3. /\ b \in Seq(S)
        /\ Len(b) = IF k + 1 <= Len(s) THEN Len(s) - (k + 1) + 1 ELSE 0
        /\ \A j \in 1 .. Len(s) - (k + 1) + 1 : b[j] = s[(k + 1) + j - 1]
    BY <2>1, <2>2, SubSeqProperties
  <2> QED
    BY <2>3
<1>3. RemoveAt(s, k) = a \o b
  BY DEF RemoveAt
<1>4. /\ a \o b \in Seq(S)
      /\ Len(a \o b) = Len(a) + Len(b)
      /\ \A j \in 1 .. Len(a) + Len(b) :
           (a \o b)[j] = IF j <= Len(a) THEN a[j] ELSE b[j - Len(a)]
  BY <1>1, <1>2, ConcatProperties
<1> HIDE DEF a, b
<1>5. RemoveAt(s, k) \in Seq(S) /\ Len(RemoveAt(s, k)) = Len(s) - 1
  BY <1>1, <1>2, <1>3, <1>4
<1>6. ASSUME NEW j \in 1 .. k - 1 PROVE RemoveAt(s, k)[j] = s[j]
  BY <1>1, <1>2, <1>3, <1>4
<1>7. ASSUME NEW j \in k .. Len(s) - 1 PROVE RemoveAt(s, k)[j] = s[j + 1]
  <2>1. /\ j \in 1 .. Len(a) + Len(b) /\ ~(j <= Len(a))
        /\ j - Len(a) \in 1 .. Len(s) - k /\ k + (j - Len(a)) = j + 1
    BY <1>1, <1>2
  <2>2. (a \o b)[j] = b[j - Len(a)]
    BY <1>4, <2>1
  <2> QED
    BY <1>2, <1>3, <2>1, <2>2
<1> QED
  BY <1>5, <1>6, <1>7

\* A line joins those under way at the end, and those in hand are the first.
LEMMA UnderWayProperties ==
  ASSUME NEW S, NEW h \in Seq(S), NEW s \in Seq(S)
  PROVE  /\ h \o s \in Seq(S)
         /\ \A l \in S : h \o Append(s, l) = Append(h \o s, l)
         /\ SubSeq(h \o s, 1, Len(h)) = h
         /\ SubSeq(h \o s, Len(h) + 1, Len(h \o s)) = s
         /\ h # <<>> => Len(h) \in 1 .. Len(h \o s)
<1>1. /\ h \o s \in Seq(S) /\ Len(h \o s) = Len(h) + Len(s)
      /\ \A j \in 1 .. Len(h) + Len(s) :
           (h \o s)[j] = IF j <= Len(h) THEN h[j] ELSE s[j - Len(h)]
      /\ Len(h) \in Nat /\ Len(s) \in Nat
      /\ \A j \in 1 .. Len(h) : h[j] \in S
      /\ \A j \in 1 .. Len(s) : s[j] \in S
  BY ConcatProperties, LenProperties, ElementOfSeq
<1>2. ASSUME NEW l \in S PROVE h \o Append(s, l) = Append(h \o s, l)
  <2>1. <<l>> \in Seq(S)
    OBVIOUS
  <2>2. Append(s, l) = s \o <<l>> /\ Append(h \o s, l) = (h \o s) \o <<l>>
    BY <1>1, AppendIsConcat
  <2> QED
    BY <2>1, <2>2, ConcatAssociative
<1> DEFINE t == h \o s
<1>3. SubSeq(t, 1, Len(h)) = h
  <2>1. \A j \in 1 .. Len(h) : t[j] \in S /\ t[j] = h[j]
    BY <1>1
  <2>2. 1 \in Int /\ Len(h) \in Int
    BY <1>1
  <2>3. /\ SubSeq(t, 1, Len(h)) \in Seq(S)
        /\ Len(SubSeq(t, 1, Len(h))) = IF 1 <= Len(h) THEN Len(h) - 1 + 1 ELSE 0
        /\ \A j \in 1 .. Len(h) - 1 + 1 : SubSeq(t, 1, Len(h))[j] = t[1 + j - 1]
    BY <2>1, <2>2, SubSeqProperties
  <2>4. Len(SubSeq(t, 1, Len(h))) = Len(h)
    BY <1>1, <2>3
  <2>5. \A j \in 1 .. Len(h) : SubSeq(t, 1, Len(h))[j] = h[j]
    BY <1>1, <2>1, <2>3
  <2> QED
    BY <2>3, <2>4, <2>5, SeqEqual
<1>4. SubSeq(t, Len(h) + 1, Len(t)) = s
  <2>1. \A j \in 1 .. Len(s) : t[Len(h) + j] = s[j]
    BY <1>1
  <2>2. \A j \in Len(h) + 1 .. Len(t) : t[j] \in S
    BY <1>1
  <2>3. Len(h) + 1 \in Int /\ Len(t) \in Int
    BY <1>1
  <2> DEFINE u == SubSeq(t, Len(h) + 1, Len(t))
  <2>4. /\ u \in Seq(S)
        /\ Len(u) = IF Len(h) + 1 <= Len(t) THEN Len(t) - (Len(h) + 1) + 1 ELSE 0
        /\ \A j \in 1 .. Len(t) - (Len(h) + 1) + 1 : u[j] = t[(Len(h) + 1) + j - 1]
    BY <2>2, <2>3, SubSeqProperties
  <2>5. Len(u) = Len(s)
    BY <1>1, <2>4
  <2>6. \A j \in 1 .. Len(s) : u[j] = s[j]
    BY <1>1, <2>1, <2>4
  <2> HIDE DEF u
  <2>7. u = s
    BY <2>4, <2>5, <2>6, SeqEqual
  <2> QED
    BY <2>7 DEF u
<1>5. h # <<>> => Len(h) \in 1 .. Len(h \o s)
  BY <1>1, EmptySeq
<1> QED
  BY <1>1, <1>2, <1>3, <1>4, <1>5


\* What a FIFO gives back was put in, in the same order.
LEMMA FifoProperties ==
  ASSUME NEW S, NEW s \in Seq(S)
  PROVE  /\ <<>> \in Seq(S) /\ DOMAIN <<>> = {}
         /\ \A k \in DOMAIN s : k \in Nat /\ s[k] \in S
         /\ s # <<>> => /\ Head(s) \in S /\ Head(s) = s[1] /\ 1 \in DOMAIN s
                        /\ Tail(s) \in Seq(S)
                        /\ \A k \in DOMAIN Tail(s) : k + 1 \in DOMAIN s /\ Tail(s)[k] = s[k + 1]
         /\ \A e \in S :
              /\ Append(s, e) \in Seq(S) /\ Append(s, e) # <<>>
              /\ Len(s) + 1 \in DOMAIN Append(s, e) /\ Append(s, e)[Len(s) + 1] = e
              /\ Len(s) + 1 \notin DOMAIN s
              /\ \A k \in DOMAIN s : k \in DOMAIN Append(s, e) /\ Append(s, e)[k] = s[k]
              /\ \A k \in DOMAIN Append(s, e) : k \in DOMAIN s \/ k = Len(s) + 1
              /\ Head(Append(s, e)) = IF s = <<>> THEN e ELSE Head(s)
<1>1. <<>> \in Seq(S) /\ DOMAIN <<>> = {}
  BY EmptySeq
<1>2. \A k \in DOMAIN s : k \in Nat /\ s[k] \in S
  BY ElementOfSeq
<1>3. s # <<>> => /\ Head(s) \in S /\ Head(s) = s[1] /\ 1 \in DOMAIN s
                  /\ Tail(s) \in Seq(S)
                  /\ \A k \in DOMAIN Tail(s) : k + 1 \in DOMAIN s /\ Tail(s)[k] = s[k + 1]
  BY HeadTailProperties, EmptySeq
<1>4. ASSUME NEW e \in S
      PROVE  /\ Append(s, e) \in Seq(S) /\ Append(s, e) # <<>>
             /\ Len(s) + 1 \in DOMAIN Append(s, e) /\ Append(s, e)[Len(s) + 1] = e
             /\ Len(s) + 1 \notin DOMAIN s
             /\ \A k \in DOMAIN s : k \in DOMAIN Append(s, e) /\ Append(s, e)[k] = s[k]
             /\ \A k \in DOMAIN Append(s, e) : k \in DOMAIN s \/ k = Len(s) + 1
  BY AppendProperties, EmptySeq
<1>5. ASSUME NEW e \in S PROVE Head(Append(s, e)) = IF s = <<>> THEN e ELSE Head(s)
  BY AppendProperties, EmptySeq
<1>6. QED BY <1>1, <1>2, <1>3, <1>4, <1>5
=============================================================================
