-------------------------- MODULE MessageSequences --------------------------
(***************************************************************************)
(* Facts about sequences of messages, that is of numbers: what it means to *)
(* pass a message from one sequence to the next.                           *)
(***************************************************************************)
EXTENDS Naturals, Sequences, SequenceTheorems, TLAPS

\* A sequence is its head and then its tail.
LEMMA HeadThenTail ==
  ASSUME NEW c \in Seq(Nat), c # <<>>
  PROVE  /\ Head(c) \in Nat /\ Tail(c) \in Seq(Nat)
         /\ <<Head(c)>> \in Seq(Nat) /\ <<Head(c)>> \o Tail(c) = c
         /\ Len(Tail(c)) = Len(c) - 1
<1>1. /\ Head(c) \in Nat /\ Tail(c) \in Seq(Nat) /\ Len(Tail(c)) = Len(c) - 1
      /\ Head(c) = c[1] /\ Len(c) \in Nat \ {0}
      /\ \A i \in 1 .. Len(c) - 1 : Tail(c)[i] = c[i + 1]
  BY HeadTailProperties, EmptySeq
<1>2. <<Head(c)>> \in Seq(Nat) /\ Len(<<Head(c)>>) = 1 /\ <<Head(c)>>[1] = Head(c)
  BY <1>1
<1> DEFINE d == <<Head(c)>> \o Tail(c)
<1>3. /\ d \in Seq(Nat) /\ Len(d) = 1 + Len(Tail(c))
      /\ \A i \in 1 .. 1 + Len(Tail(c)) :
           d[i] = IF i <= 1 THEN <<Head(c)>>[i] ELSE Tail(c)[i - 1]
  BY <1>1, <1>2, ConcatProperties
<1>4. Len(d) = Len(c) /\ \A i \in 1 .. Len(d) : d[i] = c[i]
  BY <1>1, <1>2, <1>3
<1> HIDE DEF d
<1>5. d = c
  BY <1>3, <1>4, SeqEqual
<1> QED
  BY <1>1, <1>2, <1>5 DEF d

\* A concatenation has the type of its parts.
LEMMA Closed == \A a, b \in Seq(Nat) : a \o b \in Seq(Nat)
BY ConcatProperties

\* The empty sequence is neutral.
LEMMA Neutral == \A a \in Seq(Nat) : <<>> \o a = a /\ a \o <<>> = a
BY ConcatEmptySeq

\* Associativity at three given sequences: with a name, so that the provers need not
\* look for the three.
Grouped(a, b, c) == (a \o b) \o c = a \o (b \o c)

LEMMA Assoc == \A a, b, c \in Seq(Nat) : Grouped(a, b, c)
<1>1. \A a, b, c \in Seq(Nat) : (a \o b) \o c = a \o (b \o c)
  OBVIOUS
<1> QED
  BY <1>1 DEF Grouped

(* The places of a message are one sequence, wherever the parentheses are: *)
(* w is what was written, h and k what the two goroutines have in hand, c  *)
(* what the channel holds and p what is pending.                           *)

\* A message is written.
WriteKeeps(w, h, c, k, p) == (w \o h) \o (<<>> \o c \o k \o p) = w \o (h \o c \o k \o p)

LEMMA HandToClient ==
  ASSUME NEW w \in Seq(Nat), NEW h \in Seq(Nat), NEW c \in Seq(Nat), NEW k \in Seq(Nat),
         NEW p \in Seq(Nat)
  PROVE  WriteKeeps(w, h, c, k, p)
<1>1. /\ h \o c \in Seq(Nat) /\ c \o k \in Seq(Nat) /\ h \o c \o k \in Seq(Nat)
      /\ c \o k \o p \in Seq(Nat)
  BY Closed, Zenon
<1>2. Grouped(h, c, k) /\ Grouped(h, c \o k, p) /\ Grouped(w, h, c \o k \o p)
  BY <1>1, Assoc, Zenon
<1>3. <<>> \o c = c
  BY Neutral, Zenon
<1> QED
  BY <1>2, <1>3, Zenon DEF Grouped, WriteKeeps

\* The handler receives.
LEMMA ChannelToHand ==
  ASSUME NEW c \in Seq(Nat), c # <<>>, NEW k \in Seq(Nat), NEW p \in Seq(Nat)
  PROVE  <<Head(c)>> \o Tail(c) \o k \o p = <<>> \o c \o k \o p
<1>1. <<Head(c)>> \o Tail(c) = c /\ <<>> \o c = c
  BY HeadThenTail, Neutral
<1> QED
  BY <1>1, Zenon

\* The callback sends.
SendKeeps(h, c, k, p) == h \o (c \o k) \o <<>> \o p = h \o c \o k \o p

LEMMA HandToChannel ==
  ASSUME NEW h \in Seq(Nat), NEW c \in Seq(Nat), NEW k \in Seq(Nat), NEW p \in Seq(Nat)
  PROVE  SendKeeps(h, c, k, p)
<1>1. h \o c \o k \in Seq(Nat)
  BY Closed, Zenon
<1>2. Grouped(h, c, k)
  BY Assoc, Zenon
<1>3. h \o c \o k \o <<>> = h \o c \o k
  BY <1>1, Neutral, Zenon
<1> QED
  BY <1>2, <1>3, Zenon DEF Grouped, SendKeeps

\* The callback is called.
LEMMA PendingToHand ==
  ASSUME NEW h \in Seq(Nat), NEW c \in Seq(Nat), NEW p \in Seq(Nat), p # <<>>
  PROVE  h \o c \o <<Head(p)>> \o Tail(p) = h \o c \o <<>> \o p
<1>1. h \o c \in Seq(Nat)
  BY Closed, Zenon
<1>2. <<Head(p)>> \in Seq(Nat) /\ Tail(p) \in Seq(Nat) /\ <<Head(p)>> \o Tail(p) = p
  BY HeadThenTail
<1>3. Grouped(h \o c, <<Head(p)>>, Tail(p))
  BY <1>1, <1>2, Assoc, Zenon
<1>4. h \o c \o <<>> = h \o c
  BY <1>1, Neutral, Zenon
<1> QED
  BY <1>2, <1>3, <1>4, Zenon DEF Grouped

\* A message that is added at the end is the last of all.
AppendAdds(w, a, p, m) == w \o (a \o Append(p, m)) = Append(w \o (a \o p), m)

LEMMA AddedLast ==
  ASSUME NEW w \in Seq(Nat), NEW a \in Seq(Nat), NEW p \in Seq(Nat), NEW m \in Nat
  PROVE  AppendAdds(w, a, p, m)
<1>1. <<m>> \in Seq(Nat)
  OBVIOUS
<1>2. a \o p \in Seq(Nat) /\ w \o (a \o p) \in Seq(Nat)
  BY Closed, Zenon
<1>3. Append(p, m) = p \o <<m>>
  BY AppendIsConcat
<1>4. Append(w \o (a \o p), m) = (w \o (a \o p)) \o <<m>>
  BY <1>2, AppendIsConcat
<1>5. Grouped(a, p, <<m>>) /\ Grouped(w, a \o p, <<m>>)
  BY <1>1, <1>2, Assoc, Zenon
<1> QED
  BY <1>3, <1>4, <1>5, Zenon DEF Grouped, AppendAdds

\* The same without what was written.
LEMMA AppendedLast ==
  ASSUME NEW a \in Seq(Nat), NEW p \in Seq(Nat), NEW m \in Nat
  PROVE  a \o Append(p, m) = Append(a \o p, m)
<1>1. <<m>> \in Seq(Nat)
  OBVIOUS
<1>2. Append(p, m) = p \o <<m>> /\ Append(a \o p, m) = (a \o p) \o <<m>>
  BY Closed, AppendIsConcat
<1>3. Grouped(a, p, <<m>>)
  BY <1>1, Assoc, Zenon
<1> QED
  BY <1>2, <1>3, Zenon DEF Grouped

\* What is left when the pending messages are discarded is a prefix.
LEMMA PrefixIsLeft ==
  ASSUME NEW a \in Seq(Nat), NEW p \in Seq(Nat)
  PROVE  Len(a) \in 0 .. Len(a \o p) /\ a \o <<>> = SubSeq(a \o p, 1, Len(a))
<1>1. /\ a \o p \in Seq(Nat) /\ Len(a \o p) = Len(a) + Len(p)
      /\ \A i \in 1 .. Len(a) + Len(p) : (a \o p)[i] = IF i <= Len(a) THEN a[i] ELSE p[i - Len(a)]
  BY ConcatProperties
<1>2. Len(a) \in Nat /\ Len(p) \in Nat /\ a \o <<>> = a
  BY Neutral
<1> DEFINE b == SubSeq(a \o p, 1, Len(a))
<1>3. /\ b \in Seq(Nat) /\ Len(b) = Len(a)
      /\ \A i \in 1 .. Len(a) : b[i] = (a \o p)[i]
  BY <1>1, <1>2
<1>4. \A i \in 1 .. Len(a) : b[i] = a[i]
  BY <1>1, <1>2, <1>3
<1> HIDE DEF b
<1>5. b = a
  BY <1>3, <1>4, SeqEqual
<1> QED
  BY <1>1, <1>2, <1>5 DEF b

\* The message in hand comes first.
LEMMA HeadInHand ==
  ASSUME NEW w \in Seq(Nat), NEW h \in Seq(Nat), NEW r \in Seq(Nat), h # <<>>, h = <<Head(h)>>
  PROVE  /\ h \o r # <<>> /\ Head(h \o r) = Head(h) /\ Tail(h \o r) = r
         /\ w \o h = Append(w, Head(h))
<1>1. PICK m \in Nat : h = <<m>>
  BY HeadThenTail
<1>2. /\ <<m>> \in Seq(Nat) /\ Len(<<m>>) = 1 /\ <<m>>[1] = m /\ Head(<<m>>) = m
  OBVIOUS
<1> DEFINE d == <<m>> \o r
<1>3. /\ d \in Seq(Nat) /\ Len(d) = 1 + Len(r)
      /\ \A i \in 1 .. 1 + Len(r) : d[i] = IF i <= 1 THEN <<m>>[i] ELSE r[i - 1]
  BY <1>2, ConcatProperties
<1>4. Len(r) \in Nat /\ d[1] = m /\ \A i \in 1 .. Len(r) : d[i + 1] = r[i]
  BY <1>2, <1>3
<1> HIDE DEF d
<1>5. d # <<>> /\ Head(d) = m
  BY <1>3, <1>4
<1>6. /\ Tail(d) \in Seq(Nat) /\ Len(Tail(d)) = Len(r)
      /\ \A i \in 1 .. Len(r) : Tail(d)[i] = d[i + 1]
  BY <1>3, <1>4
<1>7. Tail(d) = r
  BY <1>4, <1>6, SeqEqual
<1>8. w \o <<m>> = Append(w, m)
  BY AppendIsConcat
<1> QED
  BY <1>1, <1>2, <1>5, <1>7, <1>8 DEF d

\* What is written and what is left.
HandFirst(h, c, k, p) == h \o c \o k \o p = h \o (<<>> \o c \o k \o p)

LEMMA TakeHand ==
  ASSUME NEW h \in Seq(Nat), NEW c \in Seq(Nat), NEW k \in Seq(Nat), NEW p \in Seq(Nat)
  PROVE  HandFirst(h, c, k, p)
<1>1. h \o c \in Seq(Nat) /\ c \o k \in Seq(Nat)
  BY Closed, Zenon
<1>2. Grouped(h, c, k) /\ Grouped(h, c \o k, p)
  BY <1>1, Assoc, Zenon
<1>3. <<>> \o c = c
  BY Neutral, Zenon
<1> QED
  BY <1>2, <1>3, Zenon DEF Grouped, HandFirst

\* Lengths add up.
LEMMA LengthsAdd ==
  ASSUME NEW h \in Seq(Nat), NEW c \in Seq(Nat), NEW k \in Seq(Nat), NEW p \in Seq(Nat)
  PROVE  Len(h \o c \o k \o p) = Len(h) + Len(c) + Len(k) + Len(p)
<1>1. \A a, b \in Seq(Nat) : Len(a \o b) = Len(a) + Len(b)
  BY ConcatProperties
<1>2. h \o c \in Seq(Nat) /\ h \o c \o k \in Seq(Nat)
  BY Closed, Zenon
<1>3. /\ Len(h \o c) = Len(h) + Len(c)
      /\ Len(h \o c \o k) = Len(h \o c) + Len(k)
      /\ Len(h \o c \o k \o p) = Len(h \o c \o k) + Len(p)
  BY <1>1, <1>2, Zenon
<1> QED
  BY <1>3, Zenon
=============================================================================
