--------------------------- MODULE PipelineProofs ---------------------------
(***************************************************************************)
(* Proofs about Pipeline: each direction is an ordered stream, for every   *)
(* size of the buffers, mark, number and sizes of messages.                *)
(***************************************************************************)
EXTENDS Pipeline, QueueLemmas, TLAPS

TypeInv ==
    /\ taken \in [Sides -> Nat]
    /\ batch \in [Sides -> Seq(Nat)]
    /\ pending \in [Sides -> Seq(Nat)]
    /\ active \in [Sides -> Seq(Nat)]
    /\ delivered \in [Sides -> Seq(Nat)]
    /\ writing \subseteq Sides
    /\ stack \in Seq(Sides)

(* The messages of s that its handler has not processed are the last ones  *)
(* that were read from s.                                                  *)
BatchIsLast(s) ==
    /\ Len(batch[s]) <= taken[s]
    /\ \A i \in 1..Len(batch[s]) : batch[s][i] = taken[s] - Len(batch[s]) + i

(* The invariant behind the refinement: the numbers in a batch, that only  *)
(* the handler of s has one, and that nothing is in a buffer of s without  *)
(* a write under way.                                                      *)
Inv ==
    /\ TypeInv
    /\ \A s \in Sides :
          /\ BatchIsLast(s)
          /\ s \notin Range(stack) => batch[s] = <<>>
          /\ s \notin writing => active[s] = <<>> /\ pending[s] = <<>>

-----------------------------------------------------------------------------
(* The stack and the batches.                                              *)

LEMMA PushedStack ==
    ASSUME NEW st \in Seq(Sides), NEW s \in Sides
    PROVE  /\ Append(st, s) \in Seq(Sides)
           /\ Range(Append(st, s)) = Range(st) \cup {s}
<1>1. /\ Append(st, s) \in Seq(Sides) /\ Len(Append(st, s)) = Len(st) + 1
      /\ \A i \in 1..Len(st) : Append(st, s)[i] = st[i]
      /\ Append(st, s)[Len(st) + 1] = s
  BY AppendProperties
<1>2. DOMAIN st = 1..Len(st) /\ DOMAIN Append(st, s) = 1..(Len(st) + 1) /\ Len(st) \in Nat
  BY <1>1, LenProperties
<1>3. Range(Append(st, s)) = Range(st) \cup {s}
  BY <1>1, <1>2 DEF Range
<1> QED
  BY <1>1, <1>3

(* Popping takes away at most the last one.                                *)
LEMMA PoppedStack ==
    ASSUME NEW st \in Seq(Sides), st # <<>>
    PROVE  /\ Front(st) \in Seq(Sides)
           /\ Range(st) \subseteq Range(Front(st)) \cup {Last(st)}
           /\ Last(st) \in Range(st)
<1>1. Len(st) \in Nat /\ Len(st) > 0 /\ DOMAIN st = 1..Len(st)
  BY EmptySeq, LenProperties
<1>2. \A i \in 1..(Len(st) - 1) : st[i] \in Sides
  BY <1>1, ElementOfSeq
<1>3. /\ Front(st) \in Seq(Sides) /\ Len(Front(st)) = Len(st) - 1
      /\ \A i \in 1..(Len(st) - 1) : Front(st)[i] = st[i]
  BY <1>1, <1>2, SubSeqProperties DEF Front
<1>4. DOMAIN Front(st) = 1..(Len(st) - 1)
  BY <1>3, LenProperties
<1> QED
  BY <1>1, <1>3, <1>4 DEF Range, Last

(* The first of a batch is the message after those processed before, and   *)
(* the rest of the batch are the last ones of those that remain.           *)
LEMMA FirstOfBatch ==
    ASSUME Inv, NEW s \in Sides, batch[s] # <<>>
    PROVE  /\ Head(batch[s]) = taken[s] - Len(batch[s]) + 1
           /\ Tail(batch[s]) \in Seq(Nat)
           /\ Len(Tail(batch[s])) = Len(batch[s]) - 1
           /\ Len(batch[s]) \in Nat /\ Len(batch[s]) > 0
           /\ \A i \in 1..Len(Tail(batch[s])) :
                 Tail(batch[s])[i] = taken[s] - Len(Tail(batch[s])) + i
<1> DEFINE b == batch[s]
<1>0. b \in Seq(Nat) /\ taken[s] \in Nat
  BY DEF Inv, TypeInv
<1>1. Len(b) \in Nat /\ Len(b) > 0
  BY <1>0, EmptySeq
<1>2. \A i \in 1..Len(b) : b[i] = taken[s] - Len(b) + i
  BY DEF Inv, BatchIsLast
<1>3. /\ Tail(b) \in Seq(Nat) /\ Len(Tail(b)) = Len(b) - 1
      /\ \A i \in 1..Len(Tail(b)) : Tail(b)[i] = b[i + 1]
  BY <1>0, HeadTailProperties
<1>4. Head(b) = b[1]
  BY <1>0
<1> HIDE DEF b
<1>5. ASSUME NEW i \in 1..Len(Tail(b)) PROVE Tail(b)[i] = taken[s] - Len(Tail(b)) + i
  <2>1. i + 1 \in 1..Len(b)
    BY <1>1, <1>3
  <2>2. Tail(b)[i] = b[i + 1] /\ b[i + 1] = taken[s] - Len(b) + (i + 1)
    BY <2>1, <1>2, <1>3
  <2>3. i \in Nat
    BY <1>1, <1>3
  <2>4. \A t, n, j \in Nat : t - n + (j + 1) = t - (n - 1) + j
    OBVIOUS
  <2>5. taken[s] - Len(b) + (i + 1) = taken[s] - (Len(b) - 1) + i
    BY <1>0, <1>1, <2>3, <2>4
  <2> QED
    BY <2>2, <2>5, <1>3
<1>6. b[1] = taken[s] - Len(b) + 1
  BY <1>1, <1>2
<1> QED
  BY <1>1, <1>3, <1>4, <1>5, <1>6 DEF b

(* Processing one message of a batch keeps what is known of the batches.   *)
LEMMA ProcessedOne ==
    ASSUME Inv, NEW s \in Sides, Running(s), batch[s] # <<>>,
           batch' = [batch EXCEPT ![s] = Tail(@)], UNCHANGED <<taken, stack>>
    PROVE  /\ taken' \in [Sides -> Nat] /\ batch' \in [Sides -> Seq(Nat)]
           /\ stack' \in Seq(Sides)
           /\ \A u \in Sides : /\ BatchIsLast(u)'
                               /\ u \notin Range(stack)' => batch'[u] = <<>>
<1>1. s \in Range(stack)
  <2>1. stack \in Seq(Sides) /\ stack # <<>> /\ Last(stack) = s
    BY DEF Running, Inv, TypeInv
  <2> QED
    BY <2>1, PoppedStack
<1>2. batch'[s] = Tail(batch[s]) /\ \A u \in Sides : u # s => batch'[u] = batch[u]
  BY DEF Inv, TypeInv
<1>3. /\ Tail(batch[s]) \in Seq(Nat) /\ Len(Tail(batch[s])) = Len(batch[s]) - 1
      /\ Len(batch[s]) \in Nat /\ Len(batch[s]) > 0
      /\ \A i \in 1..Len(Tail(batch[s])) :
            Tail(batch[s])[i] = taken[s] - Len(Tail(batch[s])) + i
  BY FirstOfBatch
<1>4. taken' \in [Sides -> Nat] /\ batch' \in [Sides -> Seq(Nat)] /\ stack' \in Seq(Sides)
  BY <1>3 DEF Inv, TypeInv
<1>5. BatchIsLast(s)'
  <2>1. taken'[s] = taken[s] /\ taken[s] \in Nat /\ Len(batch[s]) <= taken[s]
    BY DEF Inv, TypeInv, BatchIsLast
  <2>2. Len(batch'[s]) <= taken'[s]
    <3>1. Len(batch'[s]) = Len(batch[s]) - 1
      BY <1>2, <1>3, Zenon
    <3>2. Len(batch[s]) - 1 <= taken[s]
      BY <1>3, <2>1
    <3> QED
      BY <2>1, <3>1, <3>2, Zenon
  <2>3. \A i \in 1..Len(batch'[s]) : batch'[s][i] = taken'[s] - Len(batch'[s]) + i
    BY <1>2, <1>3, <2>1, Zenon
  <2> QED
    BY <2>2, <2>3, Zenon DEF BatchIsLast
<1>6. ASSUME NEW u \in Sides, u # s PROVE BatchIsLast(u)'
  BY <1>2, <1>6 DEF Inv, BatchIsLast
<1>7. ASSUME NEW u \in Sides, u \notin Range(stack)' PROVE batch'[u] = <<>>
  BY <1>1, <1>2, <1>7 DEF Inv
<1> QED
  BY <1>4, <1>5, <1>6, <1>7

-----------------------------------------------------------------------------
(* The invariant.                                                          *)

LEMMA InitInv == Init => Inv
<1> SUFFICES ASSUME Init PROVE Inv
  OBVIOUS
<1>1. <<>> \in Seq(Nat) /\ <<>> \in Seq(Sides) /\ Len(<<>>) = 0
  BY EmptySeq
<1> QED
  BY <1>1 DEF Init, Nothing, Inv, TypeInv, BatchIsLast

(* The handler of a read begins with a batch of its own.                   *)
LEMMA ReadInv ==
    ASSUME Inv, NEW s \in Sides, NEW n \in 1..Messages, ReadHandler(s, n)
    PROVE  Inv'
<1> DEFINE b == [i \in 1..n |-> taken[s] + i]
<1>0. n \in Nat /\ taken[s] \in Nat
  BY PipelineAssumption DEF Inv, TypeInv
<1>1. b \in Seq(Nat) /\ Len(b) = n
  BY <1>0
<1>2. /\ taken' = [taken EXCEPT ![s] = @ + n] /\ batch' = [batch EXCEPT ![s] = b]
      /\ stack' = Append(stack, s) /\ UNCHANGED buffers /\ delivered' = delivered
  BY DEF ReadHandler
<1>3. taken'[s] = taken[s] + n /\ batch'[s] = b
      /\ \A u \in Sides : u # s => taken'[u] = taken[u] /\ batch'[u] = batch[u]
  BY <1>2 DEF Inv, TypeInv
<1>4. stack' \in Seq(Sides) /\ Range(stack') = Range(stack) \cup {s}
  BY <1>2, PushedStack DEF Inv, TypeInv
<1>5. TypeInv'
  <2>1. taken' \in [Sides -> Nat] /\ batch' \in [Sides -> Seq(Nat)]
    <3> HIDE DEF b
    <3> QED
      BY <1>0, <1>1, <1>2 DEF Inv, TypeInv
  <2> QED
    BY <1>2, <1>4, <2>1 DEF Inv, TypeInv, buffers
<1>6. BatchIsLast(s)'
  <2>1. n <= taken[s] + n /\ \A i \in 1..n : b[i] = (taken[s] + n) - n + i
    BY <1>0
  <2> HIDE DEF b
  <2>2. Len(batch'[s]) = n /\ taken'[s] = taken[s] + n /\ batch'[s] = b
    BY <1>1, <1>3
  <2>3. n <= taken'[s] /\ \A i \in 1..n : batch'[s][i] = taken'[s] - n + i
    BY <2>1, <2>2, Zenon
  <2> QED
    BY <2>2, <2>3, Zenon DEF BatchIsLast
<1>7. ASSUME NEW u \in Sides PROVE BatchIsLast(u)'
  <2>1. CASE u = s
    BY <1>6, <2>1
  <2>2. CASE u # s
    BY <1>3, <2>2 DEF Inv, BatchIsLast
  <2> QED
    BY <2>1, <2>2
<1>8. ASSUME NEW u \in Sides, u \notin Range(stack') PROVE batch'[u] = <<>>
  BY <1>3, <1>4, <1>8 DEF Inv
<1>9. ASSUME NEW u \in Sides, u \notin writing'
      PROVE  active'[u] = <<>> /\ pending'[u] = <<>>
  BY <1>2, <1>9 DEF Inv, buffers
<1> QED
  BY <1>5, <1>7, <1>8, <1>9 DEF Inv

(* Forwarding takes from the batch and puts into one of the buffers.       *)
LEMMA ForwardInv ==
    ASSUME Inv, NEW s \in Sides, Forward(s)
    PROVE  Inv'
<1> DEFINE p == Append(pending[s], Head(batch[s]))
<1>1. /\ Running(s) /\ batch[s] # <<>> /\ batch' = [batch EXCEPT ![s] = Tail(@)]
      /\ UNCHANGED <<taken, stack>> /\ delivered' = delivered
  BY DEF Forward
<1>2. /\ taken' \in [Sides -> Nat] /\ batch' \in [Sides -> Seq(Nat)]
      /\ stack' \in Seq(Sides)
      /\ \A u \in Sides : /\ BatchIsLast(u)'
                          /\ u \notin Range(stack)' => batch'[u] = <<>>
  BY <1>1, ProcessedOne
<1>3. p \in Seq(Nat)
  <2>1. batch[s] \in Seq(Nat) /\ pending[s] \in Seq(Nat)
    BY DEF Inv, TypeInv
  <2>2. Head(batch[s]) \in Nat
    BY <1>1, <2>1, HeadTailProperties
  <2> QED
    BY <2>1, <2>2, AppendProperties
<1>4. CASE s \in writing
  <2>1. /\ pending' = [pending EXCEPT ![s] = p] /\ active' = active
        /\ writing' = writing
    BY <1>4 DEF Forward
  <2> HIDE DEF p
  <2> QED
    BY <1>1, <1>2, <1>3, <1>4, <2>1 DEF Inv, TypeInv
<1>5. CASE s \notin writing
  <2>1. /\ active' = [active EXCEPT ![s] = p] /\ pending' = [pending EXCEPT ![s] = <<>>]
        /\ writing' = writing \cup {s}
    BY <1>5 DEF Forward
  <2>2. <<>> \in Seq(Nat)
    OBVIOUS
  <2> HIDE DEF p
  <2> QED
    BY <1>1, <1>2, <1>3, <2>1, <2>2 DEF Inv, TypeInv
<1> QED
  BY <1>4, <1>5

LEMMA NextInv == Inv /\ [Next]_vars => Inv'
<1> SUFFICES ASSUME Inv, [Next]_vars PROVE Inv'
  OBVIOUS
<1>1. ASSUME NEW s \in Sides, NEW n \in 1..Messages, ReadHandler(s, n) PROVE Inv'
  BY <1>1, ReadInv
<1>2. ASSUME NEW s \in Sides, ScriptFails(s) PROVE Inv'
  <2>1. /\ Running(s) /\ batch[s] # <<>> /\ batch' = [batch EXCEPT ![s] = Tail(@)]
        /\ UNCHANGED <<taken, stack, delivered>> /\ UNCHANGED buffers
    BY <1>2 DEF ScriptFails
  <2>2. /\ taken' \in [Sides -> Nat] /\ batch' \in [Sides -> Seq(Nat)]
        /\ stack' \in Seq(Sides)
        /\ \A u \in Sides : /\ BatchIsLast(u)'
                            /\ u \notin Range(stack)' => batch'[u] = <<>>
    BY <2>1, ProcessedOne
  <2> QED
    BY <2>1, <2>2 DEF Inv, TypeInv, buffers
<1>3. ASSUME NEW s \in Sides, Forward(s) PROVE Inv'
  BY <1>3, ForwardInv
<1>4. ASSUME NEW s \in Sides, HandlerReturns(s) PROVE Inv'
  <2>1. /\ stack' = Front(stack) /\ stack # <<>> /\ Last(stack) = s /\ batch[s] = <<>>
        /\ UNCHANGED <<taken, batch, pending, active, writing, delivered>>
    BY <1>4 DEF HandlerReturns, Running, buffers
  <2>2. stack' \in Seq(Sides) /\ Range(stack) \subseteq Range(stack') \cup {s}
    BY <2>1, PoppedStack DEF Inv, TypeInv
  <2>3. TypeInv'
    BY <2>1, <2>2 DEF Inv, TypeInv
  <2>4. ASSUME NEW u \in Sides
        PROVE  /\ BatchIsLast(u)'
               /\ u \notin Range(stack') => batch'[u] = <<>>
               /\ u \notin writing' => active'[u] = <<>> /\ pending'[u] = <<>>
    BY <2>1, <2>2 DEF Inv, BatchIsLast
  <2> QED
    BY <2>3, <2>4 DEF Inv
<1>5. ASSUME NEW s \in Sides, SocketTakes(s) PROVE Inv'
  <2>1. /\ active[s] # <<>> /\ active' = [active EXCEPT ![s] = Tail(@)]
        /\ delivered' = [delivered EXCEPT ![s] = Append(@, Head(active[s]))]
        /\ UNCHANGED <<taken, batch, pending, writing, stack>>
    BY <1>5 DEF SocketTakes
  <2>2. active[s] \in Seq(Nat) /\ s \in writing
    BY <2>1 DEF Inv, TypeInv
  <2>3. Tail(active[s]) \in Seq(Nat) /\ Append(delivered[s], Head(active[s])) \in Seq(Nat)
    BY <2>1, <2>2, HeadTailProperties, AppendProperties DEF Inv, TypeInv
  <2>4. TypeInv'
    BY <2>1, <2>3 DEF Inv, TypeInv
  <2>5. ASSUME NEW u \in Sides
        PROVE  /\ BatchIsLast(u)'
               /\ u \notin Range(stack') => batch'[u] = <<>>
               /\ u \notin writing' => active'[u] = <<>> /\ pending'[u] = <<>>
    BY <2>1, <2>2 DEF Inv, TypeInv, BatchIsLast
  <2> QED
    BY <2>4, <2>5 DEF Inv
<1>6. ASSUME NEW s \in Sides, WriteCompleted(s) PROVE Inv'
  <2>1. /\ active' = [active EXCEPT ![s] = pending[s]]
        /\ pending' = [pending EXCEPT ![s] = <<>>]
        /\ writing' = (IF pending[s] = <<>> THEN writing \ {s} ELSE writing)
        /\ s \in writing
        /\ UNCHANGED <<taken, batch, stack, delivered>>
    BY <1>6 DEF WriteCompleted
  <2>2. <<>> \in Seq(Nat)
    OBVIOUS
  <2>3. TypeInv'
    BY <2>1, <2>2 DEF Inv, TypeInv
  <2>4. ASSUME NEW u \in Sides
        PROVE  /\ BatchIsLast(u)'
               /\ u \notin Range(stack') => batch'[u] = <<>>
               /\ u \notin writing' => active'[u] = <<>> /\ pending'[u] = <<>>
    BY <2>1 DEF Inv, TypeInv, BatchIsLast
  <2> QED
    BY <2>3, <2>4 DEF Inv
<1>7. ASSUME UNCHANGED <<taken, batch, pending, active, writing, stack, delivered>> PROVE Inv'
  BY <1>7 DEF Inv, TypeInv, BatchIsLast
<1>8. CASE \/ \E s \in Sides : ForwardThrows(s) \/ Disconnect(s)
           \/ WriteReturns \/ UNCHANGED vars
  <2>1. UNCHANGED <<taken, batch, pending, active, writing, stack, delivered>>
    BY <1>8 DEF ForwardThrows, Disconnect, WriteReturns, vars, buffers
  <2> QED
    BY <1>7, <2>1
<1> QED
  BY <1>1, <1>2, <1>3, <1>4, <1>5, <1>6, <1>8 DEF Next

LEMMA InvariantHolds == Spec => []Inv
BY InitInv, NextInv, PTL DEF Spec

-----------------------------------------------------------------------------
(* The refinement.                                                         *)

(* What the two instances of OrderedStream see of side s.                  *)
Calls(s) == taken[s] - Len(batch[s])
Queue(s) == active[s] \o pending[s]

(* The steps of an ordered stream, for side s.                             *)
Accepts(s) ==
    /\ Calls(s)' = Calls(s) + 1
    /\ Queue(s)' = Append(Queue(s), Calls(s) + 1)
    /\ delivered'[s] = delivered[s]
Refuses(s) ==
    /\ Calls(s)' = Calls(s) + 1
    /\ Queue(s)' = Queue(s)
    /\ delivered'[s] = delivered[s]
Emits(s) ==
    /\ Queue(s) # <<>>
    /\ delivered'[s] = Append(delivered[s], Head(Queue(s)))
    /\ Queue(s)' = Tail(Queue(s))
    /\ Calls(s)' = Calls(s)
Stutters(s) ==
    /\ Calls(s)' = Calls(s)
    /\ Queue(s)' = Queue(s)
    /\ delivered'[s] = delivered[s]

LEMMA ReadStutters ==
    ASSUME Inv, NEW u \in Sides, NEW n \in 1..Messages, ReadHandler(u, n),
           NEW s \in Sides
    PROVE  Stutters(s)
<1> DEFINE b == [i \in 1..n |-> taken[u] + i]
<1>1. /\ taken' = [taken EXCEPT ![u] = @ + n] /\ batch' = [batch EXCEPT ![u] = b]
      /\ u \notin Range(stack) /\ UNCHANGED <<active, pending, delivered>>
  BY DEF ReadHandler, buffers
<1>2. n \in Nat /\ taken[u] \in Nat /\ Len(b) = n
  BY PipelineAssumption DEF Inv, TypeInv
<1>3. batch[u] = <<>> /\ Len(<<>>) = 0
  BY <1>1, EmptySeq DEF Inv
<1>4. Calls(s)' = Calls(s)
  <2>1. CASE s = u
    <3>1. taken'[s] = taken[s] + n /\ Len(batch'[s]) = n /\ Len(batch[s]) = 0
      <4> HIDE DEF b
      <4> QED
        BY <1>1, <1>2, <1>3, <2>1 DEF Inv, TypeInv
    <3>2. (taken[s] + n) - n = taken[s] - 0
      BY <1>2, <2>1
    <3>3. Calls(s) = taken[s] - 0 /\ Calls(s)' = (taken[s] + n) - n
      BY <3>1, Zenon DEF Calls
    <3> QED
      BY <3>2, <3>3, Zenon
  <2>2. CASE s # u
    <3>1. taken'[s] = taken[s] /\ batch'[s] = batch[s]
      BY <1>1, <2>2 DEF Inv, TypeInv
    <3> QED
      BY <3>1 DEF Calls
  <2> QED
    BY <2>1, <2>2
<1> QED
  BY <1>1, <1>4 DEF Stutters, Queue

(* A message that is processed, forwarded or not, is one more call.        *)
LEMMA OneMoreCall ==
    ASSUME Inv, NEW s \in Sides, batch[s] # <<>>,
           batch' = [batch EXCEPT ![s] = Tail(@)], taken' = taken
    PROVE  /\ Calls(s) \in Nat /\ Calls(s)' = Calls(s) + 1
           /\ Head(batch[s]) = Calls(s) + 1
<1>1. batch'[s] = Tail(batch[s]) /\ taken[s] \in Nat /\ Len(batch[s]) <= taken[s]
  BY DEF Inv, TypeInv, BatchIsLast
<1>2. /\ Head(batch[s]) = taken[s] - Len(batch[s]) + 1
      /\ Len(Tail(batch[s])) = Len(batch[s]) - 1
      /\ Len(batch[s]) \in Nat /\ Len(batch[s]) > 0
  BY FirstOfBatch
<1>3. Calls(s)' = taken[s] - (Len(batch[s]) - 1)
  BY <1>1, <1>2, Zenon DEF Calls
<1> QED
  BY <1>1, <1>2, <1>3 DEF Calls

LEMMA ForwardAccepts ==
    ASSUME Inv, NEW s \in Sides, Forward(s)
    PROVE  Accepts(s)
<1> DEFINE c == Calls(s) + 1
<1>1. /\ batch[s] # <<>> /\ batch' = [batch EXCEPT ![s] = Tail(@)] /\ taken' = taken
      /\ delivered' = delivered
  BY DEF Forward
<1>2. Calls(s) \in Nat /\ Calls(s)' = Calls(s) + 1 /\ Head(batch[s]) = c
  BY <1>1, OneMoreCall
<1>3. active[s] \in Seq(Nat) /\ pending[s] \in Seq(Nat) /\ c \in Nat
  BY <1>2 DEF Inv, TypeInv
<1>4. CASE s \in writing
  <2>1. pending' = [pending EXCEPT ![s] = Append(pending[s], c)] /\ active' = active
    BY <1>2, <1>4 DEF Forward
  <2>2. Queue(s)' = active[s] \o Append(pending[s], c)
    <3> HIDE DEF c
    <3> QED
      BY <2>1 DEF Queue, Inv, TypeInv
  <2>3. Queue(s)' = Append(Queue(s), c)
    BY <1>3, <2>2, AppendToSecond, Zenon DEF Queue
  <2> QED
    BY <1>1, <1>2, <2>3, Zenon DEF Accepts
<1>5. CASE s \notin writing
  <2>1. active' = [active EXCEPT ![s] = Append(pending[s], c)]
        /\ pending' = [pending EXCEPT ![s] = <<>>]
    BY <1>2, <1>5 DEF Forward
  <2>2. active[s] = <<>> /\ pending[s] = <<>>
    BY <1>5 DEF Inv
  <2>3. active'[s] = Append(<<>>, c) /\ pending'[s] = <<>>
    <3> HIDE DEF c
    <3> QED
      BY <2>1, <2>2 DEF Inv, TypeInv
  <2>4. Append(<<>>, c) \in Seq(Nat) /\ <<>> \in Seq(Nat)
    BY <1>3, AppendProperties
  <2>5. Queue(s)' = Append(<<>>, c) /\ Queue(s) = <<>>
    <3> HIDE DEF c
    <3> QED
      BY <2>2, <2>3, <2>4, ConcatEmptySeq DEF Queue
  <2> QED
    BY <1>1, <1>2, <2>5, Zenon DEF Accepts
<1> QED
  BY <1>4, <1>5

(* Every step is a step of the ordered stream of each side, or leaves it.  *)
LEMMA StepsAreOrdered ==
    ASSUME Inv, [Next]_vars, NEW s \in Sides
    PROVE  Accepts(s) \/ Refuses(s) \/ Emits(s) \/ Stutters(s)
<1>1. ASSUME NEW u \in Sides, NEW n \in 1..Messages, ReadHandler(u, n)
      PROVE  Stutters(s)
  BY <1>1, ReadStutters
<1>2. ASSUME taken'[s] = taken[s], batch'[s] = batch[s], active'[s] = active[s],
             pending'[s] = pending[s], delivered'[s] = delivered[s]
      PROVE  Stutters(s)
  BY <1>2 DEF Stutters, Calls, Queue
<1>3. ASSUME NEW u \in Sides, u # s,
             \/ ScriptFails(u) \/ Forward(u) \/ SocketTakes(u) \/ WriteCompleted(u)
      PROVE  Stutters(s)
  <2>1. /\ taken'[s] = taken[s] /\ batch'[s] = batch[s] /\ active'[s] = active[s]
        /\ pending'[s] = pending[s] /\ delivered'[s] = delivered[s]
    BY <1>3 DEF ScriptFails, Forward, SocketTakes, WriteCompleted, buffers, Inv, TypeInv
  <2> QED
    BY <1>2, <2>1
<1>4. CASE ScriptFails(s)
  <2>1. /\ batch[s] # <<>> /\ batch' = [batch EXCEPT ![s] = Tail(@)] /\ taken' = taken
        /\ UNCHANGED <<active, pending, delivered>>
    BY <1>4 DEF ScriptFails, buffers
  <2>2. Calls(s)' = Calls(s) + 1
    BY <2>1, OneMoreCall
  <2> QED
    BY <2>1, <2>2 DEF Refuses, Queue
<1>5. CASE Forward(s)
  BY <1>5, ForwardAccepts
<1>6. CASE SocketTakes(s)
  <2>1. /\ active[s] # <<>> /\ UNCHANGED <<taken, batch, pending>>
        /\ active' = [active EXCEPT ![s] = Tail(@)]
        /\ delivered' = [delivered EXCEPT ![s] = Append(@, Head(active[s]))]
    BY <1>6 DEF SocketTakes
  <2>2. active[s] \in Seq(Nat) /\ pending[s] \in Seq(Nat)
    BY DEF Inv, TypeInv
  <2>3. /\ Queue(s) # <<>> /\ Head(Queue(s)) = Head(active[s])
        /\ Tail(Queue(s)) = Tail(active[s]) \o pending[s]
    BY <2>1, <2>2, TakeFromFirst DEF Queue
  <2>4. active'[s] = Tail(active[s]) /\ pending'[s] = pending[s]
    BY <2>1 DEF Inv, TypeInv
  <2>5. Queue(s)' = Tail(Queue(s)) /\ Calls(s)' = Calls(s)
    BY <2>1, <2>3, <2>4, Zenon DEF Queue, Calls
  <2>6. delivered'[s] = Append(delivered[s], Head(Queue(s)))
    BY <2>1, <2>3 DEF Inv, TypeInv
  <2> QED
    BY <2>3, <2>5, <2>6 DEF Emits
<1>7. CASE WriteCompleted(s)
  <2>1. /\ active[s] = <<>> /\ UNCHANGED <<taken, batch, delivered>>
        /\ active' = [active EXCEPT ![s] = pending[s]]
        /\ pending' = [pending EXCEPT ![s] = <<>>]
    BY <1>7 DEF WriteCompleted
  <2>2. active'[s] = pending[s] /\ pending'[s] = <<>> /\ pending[s] \in Seq(Nat)
    BY <2>1 DEF Inv, TypeInv
  <2>3. Queue(s)' = Queue(s)
    <3>1. <<>> \o pending[s] = pending[s] /\ pending[s] \o <<>> = pending[s]
      BY <2>2, ConcatEmptySeq
    <3> QED
      BY <2>1, <2>2, <3>1, Zenon DEF Queue
  <2> QED
    BY <2>1, <2>3 DEF Stutters, Calls
<1>8. CASE \/ \E u \in Sides : ForwardThrows(u) \/ HandlerReturns(u) \/ Disconnect(u)
           \/ WriteReturns \/ UNCHANGED vars
  <2>1. UNCHANGED <<taken, batch, active, pending, delivered>>
    BY <1>8 DEF ForwardThrows, HandlerReturns, Disconnect, WriteReturns, vars, buffers
  <2> QED
    BY <1>2, <2>1
<1> QED
  BY <1>1, <1>3, <1>4, <1>5, <1>6, <1>7, <1>8 DEF Next

(* fixsed forwards each direction as an ordered stream: whatever handlers  *)
(* run nested in the waits of process_message's writes, and whatever the   *)
(* script drops, messages leave in the order of reading, each at most once.*)
THEOREM DirectionsAreOrdered == Spec => OrderedForwarding
<1>1. ASSUME Init, NEW s \in Sides
      PROVE  Calls(s) = 0 /\ Queue(s) = <<>> /\ delivered[s] = <<>>
  <2>1. /\ taken[s] = 0 /\ batch[s] = <<>> /\ active[s] = <<>> /\ pending[s] = <<>>
        /\ delivered[s] = <<>>
    BY <1>1 DEF Init, Nothing
  <2>2. <<>> \o <<>> = <<>> /\ Len(<<>>) = 0
    BY EmptySeq, ConcatEmptySeq
  <2>3. Calls(s) = 0
    <3>1. Len(batch[s]) = 0
      BY <2>1, <2>2, Zenon
    <3>2. Calls(s) = 0 - 0
      BY <2>1, <3>1, Zenon DEF Calls
    <3> QED
      BY <3>2
  <2> QED
    BY <2>1, <2>2, <2>3, Zenon DEF Queue
<1>2. "initiator" \in Sides /\ "acceptor" \in Sides
  BY DEF Sides
<1>3. Init => FromInitiator!StreamInit /\ FromAcceptor!StreamInit
  BY <1>1, <1>2 DEF FromInitiator!StreamInit, FromAcceptor!StreamInit, Calls, Queue
<1>4. Inv /\ [Next]_vars => [FromInitiator!StreamNext]_(FromInitiator!streamVars)
  BY <1>2, StepsAreOrdered, Zenon
     DEF FromInitiator!StreamNext, FromInitiator!streamVars, FromInitiator!Accept,
         FromInitiator!Refuse, FromInitiator!Emit,
         Accepts, Refuses, Emits, Stutters, Calls, Queue
<1>5. Inv /\ [Next]_vars => [FromAcceptor!StreamNext]_(FromAcceptor!streamVars)
  BY <1>2, StepsAreOrdered, Zenon
     DEF FromAcceptor!StreamNext, FromAcceptor!streamVars, FromAcceptor!Accept,
         FromAcceptor!Refuse, FromAcceptor!Emit,
         Accepts, Refuses, Emits, Stutters, Calls, Queue
<1> QED
  BY <1>3, <1>4, <1>5, InvariantHolds, PTL
     DEF Spec, OrderedForwarding, FromInitiator!StreamSpec, FromAcceptor!StreamSpec

-----------------------------------------------------------------------------
(* The wait.                                                               *)

(* Behind the promise of the wait: a buffer is above the mark only while   *)
(* the handler that filled it waits, itself or in one called by it, and    *)
(* there is no offset without a write under way.                           *)
WaitInv ==
    /\ size \in [1..Messages -> Nat \ {0}]
    /\ offset \in [Sides -> Nat]
    /\ \A s \in Sides :
          /\ taken[s] <= Messages
          /\ s \notin writing => offset[s] = 0
          /\ offset[s] > HighWaterMark =>
                s \in Range(stack) /\ (Last(stack) = s => waiting)

(* The message a handler forwards next has a size.                         *)
LEMMA NextSize ==
    ASSUME Inv, WaitInv, NEW s \in Sides, batch[s] # <<>>
    PROVE  size[Head(batch[s])] \in Nat /\ offset[s] \in Nat /\ NewOffset(s) \in Nat
<1>1. /\ Head(batch[s]) = taken[s] - Len(batch[s]) + 1
      /\ Len(batch[s]) \in Nat /\ Len(batch[s]) > 0
  BY FirstOfBatch
<1>2. taken[s] \in Nat /\ Len(batch[s]) <= taken[s] /\ taken[s] <= Messages
  BY DEF Inv, TypeInv, BatchIsLast, WaitInv
<1>3. Messages \in Nat
  BY PipelineAssumption
<1>4. Head(batch[s]) \in 1..Messages
  BY <1>1, <1>2, <1>3
<1> QED
  BY <1>4 DEF WaitInv, NewOffset

LEMMA InitWaitInv == Init => WaitInv
BY PipelineAssumption DEF Init, WaitInv

LEMMA NextWaitInv ==
    ASSUME Inv, WaitInv, [Next]_vars
    PROVE  WaitInv'
<1>0. /\ HighWaterMark \in Nat /\ Messages \in Nat
      /\ taken \in [Sides -> Nat] /\ stack \in Seq(Sides) /\ offset \in [Sides -> Nat]
  BY PipelineAssumption DEF Inv, TypeInv, WaitInv
<1>1. ASSUME NEW s \in Sides, NEW n \in 1..Messages, ReadHandler(s, n) PROVE WaitInv'
  <2>1. /\ s \notin Range(stack) /\ taken[s] + n <= Messages
        /\ taken' = [taken EXCEPT ![s] = @ + n] /\ stack' = Append(stack, s)
        /\ UNCHANGED <<size, offset, writing>>
    BY <1>1 DEF ReadHandler, buffers
  <2>2. Range(stack') = Range(stack) \cup {s}
    BY <1>0, <2>1, PushedStack
  <2>3. Last(stack') = s
    <3>1. Len(stack') = Len(stack) + 1 /\ stack'[Len(stack) + 1] = s
      BY <1>0, <2>1, AppendProperties
    <3> QED
      BY <3>1 DEF Last
  <2>4. ASSUME NEW u \in Sides
        PROVE  /\ taken'[u] <= Messages
               /\ u \notin writing' => offset'[u] = 0
               /\ offset'[u] > HighWaterMark =>
                     u \in Range(stack') /\ (Last(stack') = u => waiting')
    BY <1>0, <2>1, <2>2, <2>3 DEF WaitInv
  <2> QED
    BY <2>1, <2>4 DEF WaitInv
<1>2. ASSUME NEW s \in Sides, Forward(s) PROVE WaitInv'
  <2>1. /\ batch[s] # <<>> /\ stack # <<>> /\ Last(stack) = s
        /\ UNCHANGED <<size, taken, stack>>
    BY <1>2 DEF Forward, Running
  <2>2. NewOffset(s) \in Nat
    BY <2>1, NextSize
  <2>3. s \in Range(stack)
    BY <1>0, <2>1, PoppedStack
  <2>4. CASE s \in writing
    <3>1. /\ offset' = [offset EXCEPT ![s] = NewOffset(s)] /\ writing' = writing
          /\ waiting' = (NewOffset(s) > HighWaterMark)
      BY <1>2, <2>4 DEF Forward
    <3>2. offset' \in [Sides -> Nat] /\ offset'[s] = NewOffset(s)
          /\ \A u \in Sides : u # s => offset'[u] = offset[u]
      BY <1>0, <2>2, <3>1
    <3> QED
      BY <2>1, <2>3, <2>4, <3>1, <3>2 DEF WaitInv
  <2>5. CASE s \notin writing
    <3>1. /\ offset' = [offset EXCEPT ![s] = 0] /\ writing' = writing \cup {s}
      BY <1>2, <2>5 DEF Forward
    <3>2. offset' \in [Sides -> Nat] /\ offset'[s] = 0
          /\ \A u \in Sides : u # s => offset'[u] = offset[u]
      BY <1>0, <3>1
    <3> QED
      BY <1>0, <2>1, <3>1, <3>2 DEF WaitInv
  <2> QED
    BY <2>4, <2>5
<1>3. ASSUME NEW s \in Sides, HandlerReturns(s) PROVE WaitInv'
  <2>1. /\ stack # <<>> /\ Last(stack) = s /\ ~waiting
        /\ stack' = Front(stack) /\ waiting' = (Len(stack) > 1)
        /\ UNCHANGED <<size, taken, offset, writing>>
    BY <1>3 DEF HandlerReturns, Running, buffers
  <2>2. Range(stack) \subseteq Range(stack') \cup {s} /\ s \in Range(stack)
    BY <1>0, <2>1, PoppedStack
  <2>3. ASSUME NEW u \in Sides, offset[u] > HighWaterMark
        PROVE  u \in Range(stack') /\ waiting'
    <3>1. u \in Range(stack) /\ u # s
      BY <2>1, <2>3 DEF WaitInv
    <3>2. Len(stack) > 1
      <4>1. Len(stack) \in Nat /\ DOMAIN stack = 1..Len(stack)
        BY <1>0, LenProperties
      <4>2. PICK i \in 1..Len(stack) : stack[i] = u
        BY <3>1, <4>1 DEF Range
      <4>3. i # Len(stack)
        BY <2>1, <3>1, <4>2, Zenon DEF Last
      <4> QED
        BY <4>1, <4>2, <4>3, BelowTheTop, Zenon
    <3> QED
      BY <2>1, <2>2, <3>1, <3>2
  <2> QED
    BY <2>1, <2>3 DEF WaitInv
<1>4. ASSUME NEW s \in Sides, WriteCompleted(s) PROVE WaitInv'
  <2>1. /\ offset' = [offset EXCEPT ![s] = 0]
        /\ writing' = (IF pending[s] = <<>> THEN writing \ {s} ELSE writing)
        /\ UNCHANGED <<size, taken, stack, waiting>>
    BY <1>4 DEF WriteCompleted
  <2>2. offset' \in [Sides -> Nat] /\ offset'[s] = 0
        /\ \A u \in Sides : u # s => offset'[u] = offset[u]
    BY <1>0, <2>1
  <2> QED
    BY <1>0, <2>1, <2>2 DEF WaitInv
<1>5. CASE WriteReturns
  <2>1. Last(stack) \notin writing /\ UNCHANGED <<size, taken, offset, writing, stack>>
    BY <1>5 DEF WriteReturns, buffers
  <2> QED
    BY <1>0, <2>1 DEF WaitInv
<1>6. CASE \/ \E s \in Sides : \/ ScriptFails(s) \/ ForwardThrows(s) \/ SocketTakes(s)
                             \/ Disconnect(s)
           \/ UNCHANGED vars
  <2>1. UNCHANGED <<size, taken, offset, writing, stack, waiting>>
    BY <1>6 DEF ScriptFails, ForwardThrows, SocketTakes, Disconnect, vars, buffers
  <2> QED
    BY <2>1 DEF WaitInv
<1> QED
  BY <1>1, <1>2, <1>3, <1>4, <1>5, <1>6 DEF Next

(* socket_writer::write throws in fixsed only for a message larger than    *)
(* the space above the high water mark: whatever handlers run nested in a  *)
(* write that waits, none of them writes to the same socket.               *)
THEOREM WaitsSuffice == Spec => []NeverOverflows
<1>1. Init => NeverOverflows
  BY DEF Init, NeverOverflows
<1>2. Inv /\ WaitInv /\ NeverOverflows /\ [Next]_vars => NeverOverflows'
  <2> SUFFICES ASSUME Inv, WaitInv, NeverOverflows, [Next]_vars,
                      status' = "failed to encode"
               PROVE  size'[Head(batch'[Last(stack')])] > BufferSize - HighWaterMark
    BY DEF NeverOverflows
  <2>1. CASE status = "failed to encode"
    <3>1. UNCHANGED <<size, batch, stack>>
      BY <2>1 DEF Next, vars, ReadHandler, ScriptFails, Forward, ForwardThrows, Disconnect,
         HandlerReturns, SocketTakes, WriteCompleted, WriteReturns, Looping, Running
    <3> QED
      BY <2>1, <3>1 DEF NeverOverflows
  <2>2. CASE status # "failed to encode"
    <3>1. PICK s \in Sides : ForwardThrows(s)
      BY <2>2 DEF Next, vars, ReadHandler, ScriptFails, Forward, Disconnect,
         HandlerReturns, SocketTakes, WriteCompleted, WriteReturns
    <3>2. /\ batch[s] # <<>> /\ Last(stack) = s /\ ~waiting /\ ~Fits(s)
          /\ UNCHANGED <<size, batch, stack>>
      BY <3>1 DEF ForwardThrows, Running
    <3>3. size[Head(batch[s])] \in Nat /\ offset[s] \in Nat
      BY <3>2, NextSize
    <3>4. ~(offset[s] > HighWaterMark)
      BY <3>2 DEF WaitInv
    <3>5. BufferSize \in Nat /\ HighWaterMark \in Nat /\ HighWaterMark < BufferSize
      BY PipelineAssumption
    <3>6. ~(offset[s] < BufferSize /\ offset[s] + size[Head(batch[s])] <= BufferSize)
      BY <3>2, Zenon DEF Fits, NewOffset
    <3>7. size[Head(batch[s])] > BufferSize - HighWaterMark
      BY <3>3, <3>4, <3>5, <3>6, SpaceAboveMark, Zenon
    <3>8. size' = size /\ batch' = batch /\ stack' = stack
      BY <3>2
    <3> QED
      BY <3>2, <3>7, <3>8, Zenon
  <2> QED
    BY <2>1, <2>2
<1> QED
  BY <1>1, <1>2, InitWaitInv, NextWaitInv, InvariantHolds, PTL DEF Spec
=============================================================================
