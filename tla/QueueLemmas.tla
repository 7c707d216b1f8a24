---------------------------- MODULE QueueLemmas ----------------------------
(***************************************************************************)
(* A queue that is kept in two parts, as the writers keep it in an active  *)
(* and a pending buffer.                                                   *)
(***************************************************************************)
EXTENDS Integers, Sequences, SequenceTheorems, TLAPS

(* Appending to the second part of a queue appends to the queue.           *)
LEMMA AppendToSecond ==
    ASSUME NEW s \in Seq(Nat), NEW t \in Seq(Nat), NEW e \in Nat
    PROVE  s \o Append(t, e) = Append(s \o t, e)
<1>1. <<e>> \in Seq(Nat)
  OBVIOUS
<1>2. s \o t \in Seq(Nat)
  BY ConcatProperties
<1>3. Append(t, e) = t \o <<e>> /\ Append(s \o t, e) = (s \o t) \o <<e>>
  BY <1>2, AppendIsConcat
<1> QED
  BY <1>1, <1>3, ConcatAssociative

(* Taking from the first part of a queue takes from the queue.             *)
LEMMA TakeFromFirst ==
    ASSUME NEW s \in Seq(Nat), NEW t \in Seq(Nat), s # <<>>
    PROVE  /\ s \o t # <<>>
           /\ Head(s \o t) = Head(s)
           /\ Tail(s \o t) = Tail(s) \o t
<1> DEFINE c == s \o t
<1>1. c \in Seq(Nat) /\ Len(c) = Len(s) + Len(t) /\ Len(s) > 0
  BY ConcatProperties, EmptySeq
<1>2. \A i \in 1..Len(c) : c[i] = IF i <= Len(s) THEN s[i] ELSE t[i - Len(s)]
  BY ConcatProperties
<1>3. c # <<>>
  BY <1>1, EmptySeq
<1>4. Head(c) = Head(s)
  BY <1>1, <1>2
<1>5. /\ Tail(c) \in Seq(Nat) /\ Len(Tail(c)) = Len(c) - 1
      /\ \A i \in 1..Len(Tail(c)) : Tail(c)[i] = c[i + 1]
  BY <1>1, <1>3, HeadTailProperties
<1>6. /\ Tail(s) \in Seq(Nat) /\ Len(Tail(s)) = Len(s) - 1
      /\ \A i \in 1..Len(Tail(s)) : Tail(s)[i] = s[i + 1]
  BY HeadTailProperties
<1>7. /\ Tail(s) \o t \in Seq(Nat) /\ Len(Tail(s) \o t) = Len(s) - 1 + Len(t)
      /\ \A i \in 1..(Len(s) - 1 + Len(t)) :
            (Tail(s) \o t)[i] = IF i <= Len(s) - 1 THEN Tail(s)[i]
                                ELSE t[i - (Len(s) - 1)]
  BY <1>6, ConcatProperties
<1>8. Len(s) \in Nat /\ Len(t) \in Nat
  BY LenProperties
<1>9. ASSUME NEW i \in 1..Len(Tail(c))
      PROVE  Tail(c)[i] = (Tail(s) \o t)[i]
  <2> DEFINE u == Tail(s) \o t
  <2>1. i \in Nat /\ i >= 1 /\ i <= Len(s) - 1 + Len(t)
    BY <1>1, <1>5, <1>8
  <2>2. Tail(c)[i] = IF i + 1 <= Len(s) THEN s[i + 1] ELSE t[i + 1 - Len(s)]
    <3>1. i + 1 \in 1..Len(c)
      BY <2>1, <1>1, <1>8
    <3> HIDE DEF c
    <3> QED
      BY <3>1, <1>2, <1>5
  <2>3. i \in 1..(Len(s) - 1 + Len(t))
    BY <2>1, <1>8
  <2>4. CASE i <= Len(s) - 1
    <3>1. i \in 1..Len(Tail(s)) /\ i + 1 <= Len(s)
      BY <2>1, <2>4, <1>6, <1>8
    <3> HIDE DEF c
    <3> QED
      BY <3>1, <2>2, <2>3, <2>4, <1>6, <1>7
  <2>5. CASE i > Len(s) - 1
    <3>1. ~(i + 1 <= Len(s)) /\ ~(i <= Len(s) - 1) /\ i + 1 - Len(s) = i - (Len(s) - 1)
      BY <2>1, <2>5, <1>8
    <3> HIDE DEF c
    <3> QED
      BY <3>1, <2>2, <2>3, <1>7
  <2> QED
    BY <2>1, <2>4, <2>5, <1>8
<1>10. Tail(c) = Tail(s) \o t
  <2>1. Len(Tail(c)) = Len(Tail(s) \o t)
    BY <1>1, <1>5, <1>7, <1>8
  <2> HIDE DEF c
  <2> QED
    BY <1>5, <1>7, <1>9, <2>1, SeqEqual
<1> QED
  BY <1>3, <1>4, <1>10

-----------------------------------------------------------------------------
(* Arithmetic of a buffer and of a stack.                                  *)

(* What does not fit behind an offset that is not above the mark takes     *)
(* more than the space above the mark.                                     *)
LEMMA SpaceAboveMark ==
    ASSUME NEW buffer \in Nat, NEW mark \in Nat, mark < buffer,
           NEW used \in Nat, NEW more \in Nat, ~(used > mark),
           ~(used < buffer /\ used + more <= buffer)
    PROVE  more > buffer - mark
OBVIOUS

(* A stack in which something is not the last has more than one element.   *)
LEMMA BelowTheTop ==
    ASSUME NEW n \in Nat, NEW i \in 1..n, i # n
    PROVE  n > 1
OBVIOUS
=============================================================================
