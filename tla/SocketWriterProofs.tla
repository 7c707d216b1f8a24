------------------------- MODULE SocketWriterProofs -------------------------
(***************************************************************************)
(* Proofs about SocketWriter: its two buffers, swapped and refilled while  *)
(* writes are nested in one another, behave as one queue, for every size   *)
(* of the buffers, mark, set of message sizes and number of calls.         *)
(***************************************************************************)
EXTENDS SocketWriter, QueueLemmas, TLAPS

(* The invariant behind the theorems: NothingStranded, with what it takes  *)
(* when the handler of a completed write has run (the active buffer is on  *)
(* the wire, an offset of zero means no messages), and the bound the mark  *)
(* keeps outside of a wait.                                                *)
Inv ==
    /\ TypeOK
    /\ NothingStranded
    /\ operation = "written" => active.messages = <<>>
    /\ pending.offset = 0 => pending.messages = <<>>
    /\ depth = 0 /\ ~unwound => pending.offset <= HighWaterMark

-----------------------------------------------------------------------------
(* The invariant.                                                          *)

LEMMA InitInv == Init => Inv
<1> SUFFICES ASSUME Init PROVE Inv
  OBVIOUS
<1>1. Empty \in Buffer /\ Empty.offset = 0 /\ Empty.messages = <<>>
  BY DEF Buffer, Empty
<1>2. TypeOK
  <2>1. <<>> \in Seq(Nat) /\ 0 \in Nat
    OBVIOUS
  <2> QED
    BY <1>1, <2>1, Zenon DEF Init, TypeOK, Operations, Threads
<1>3. NothingStranded
  BY <1>1 DEF Init, NothingStranded
<1> QED
  BY <1>1, <1>2, <1>3, WriterAssumption DEF Init, Inv

(* An exception leaves depth and thread well typed and takes note of every *)
(* wait it has ended.                                                      *)
LEMMA ThrowUnwinds ==
    ASSUME TypeOK, NEW d \in Int, d <= depth, Throw(d)
    PROVE  /\ depth' \in Nat /\ thread' \in Threads /\ unwound' \in BOOLEAN
           /\ depth' = 0 /\ ~unwound' => depth = 0 /\ ~unwound
<1>1. depth' \in Nat /\ depth' <= depth
  BY DEF Throw, TypeOK
<1>2. thread' \in Threads
  BY DEF Throw, Threads
<1>3. unwound' = (unwound \/ depth' < depth)
  BY DEF Throw
<1>4. unwound' \in BOOLEAN
  BY <1>3, Zenon DEF TypeOK
<1>5. ASSUME depth' = 0, ~unwound' PROVE depth = 0 /\ ~unwound
  <2>1. ~unwound /\ ~(depth' < depth)
    BY <1>3, <1>5, Zenon
  <2> QED
    BY <1>1, <1>5, <2>1 DEF TypeOK
<1> QED
  BY <1>1, <1>2, <1>4, <1>5

(* A write that fits.                                                      *)
LEMMA WriteInv ==
    ASSUME Inv, NEW size \in Sizes, write(size)
    PROVE  Inv'
<1> DEFINE p == [messages |-> Append(pending.messages, calls + 1),
                 offset |-> pending.offset + size]
<1>1. size \in Nat /\ size > 0
  BY WriterAssumption
<1>2. /\ p \in Buffer /\ p.offset > 0
      /\ calls' \in Nat /\ wire' \in Seq(Nat) /\ open' \in BOOLEAN
      /\ stopped' \in BOOLEAN /\ unwound' = unwound
  BY <1>1 DEF Inv, TypeOK, Buffer, write, WaitOrReturn
<1>3. depth' \in Nat /\ thread' \in Threads /\ depth' >= depth
  BY DEF Inv, TypeOK, write, WaitOrReturn, Threads
<1>4. CASE active.offset > 0
  <2>1. pending' = p /\ active' = active /\ operation' = operation
    BY <1>4 DEF write, flush_pending_writes
  <2>2. TypeOK'
    BY <1>2, <1>3, <2>1 DEF Inv, TypeOK
  <2>3. NothingStranded'
    BY <1>4, <2>1 DEF Inv, NothingStranded, TypeOK, Buffer
  <2>4. depth' = 0 /\ ~unwound' => pending'.offset <= HighWaterMark
    BY <1>2, <1>3, <1>4, <2>1, WriterAssumption
       DEF Inv, TypeOK, Buffer, write, WaitOrReturn
  <2> QED
    BY <1>2, <2>1, <2>2, <2>3, <2>4 DEF Inv
<1>5. CASE ~(active.offset > 0)
  <2>1. pending' = active /\ active' = p /\ operation' = "writing"
    BY <1>5 DEF write, flush_pending_writes
  <2>2. active.offset = 0 /\ active.messages = <<>>
    BY <1>5 DEF Inv, TypeOK, Buffer, NothingStranded
  <2>3. TypeOK'
    BY <1>2, <1>3, <2>1 DEF Inv, TypeOK, Operations
  <2>4. NothingStranded'
    BY <1>2, <2>1 DEF NothingStranded
  <2> QED
    BY <2>1, <2>2, <2>3, <2>4, WriterAssumption DEF Inv
<1> QED
  BY <1>4, <1>5

(* The handler of a completed write.                                       *)
LEMMA CompletedInv ==
    ASSUME Inv, WriteCompleted
    PROVE  Inv'
<1> DEFINE a == [active EXCEPT !.offset = 0]
<1>1. /\ a \in Buffer /\ a.offset = 0 /\ a.messages = <<>>
      /\ calls' \in Nat /\ wire' \in Seq(Nat) /\ open' \in BOOLEAN
      /\ stopped' \in BOOLEAN /\ depth' \in Nat /\ thread' \in Threads
      /\ unwound' = unwound /\ unwound \in BOOLEAN /\ depth' = depth
  BY DEF Inv, TypeOK, Buffer, WriteCompleted, threadVars
<1>2. CASE pending.offset > 0
  <2>1. pending' = a /\ active' = pending /\ operation' = "writing"
    BY <1>1, <1>2 DEF WriteCompleted, flush_pending_writes
  <2>2. TypeOK'
    BY <1>1, <2>1 DEF Inv, TypeOK, Operations
  <2>3. NothingStranded'
    BY <1>2, <2>1 DEF NothingStranded
  <2> QED
    BY <1>1, <2>1, <2>2, <2>3, WriterAssumption DEF Inv
<1>3. CASE ~(pending.offset > 0)
  <2>1. pending' = pending /\ active' = a /\ operation' = "none"
    BY <1>3 DEF WriteCompleted
  <2>2. pending.offset = 0 /\ pending.messages = <<>> /\ pending = Empty
    BY <1>3 DEF Inv, TypeOK, Buffer, Empty
  <2>3. TypeOK'
    BY <1>1, <2>1 DEF Inv, TypeOK, Operations
  <2>4. NothingStranded'
    BY <1>1, <2>1, <2>2 DEF NothingStranded
  <2> QED
    BY <1>1, <2>1, <2>2, <2>3, <2>4, WriterAssumption DEF Inv
<1> QED
  BY <1>2, <1>3

(* Every step preserves the invariant.                                     *)
LEMMA NextInv == Inv /\ [Next]_vars => Inv'
<1> SUFFICES ASSUME Inv, [Next]_vars PROVE Inv'
  OBVIOUS
<1>1. ASSUME NEW size \in Sizes, write(size) PROVE Inv'
  BY <1>1, WriteInv
<1>2. ASSUME NEW size \in Sizes, WriteThrows(size) PROVE Inv'
  <2>1. Throw(depth) /\ depth \in Int /\ depth <= depth
    BY <1>2 DEF WriteThrows, Inv, TypeOK
  <2>2. /\ depth' \in Nat /\ thread' \in Threads /\ unwound' \in BOOLEAN
        /\ depth' = 0 /\ ~unwound' => depth = 0 /\ ~unwound
    BY <2>1, ThrowUnwinds DEF Inv
  <2> QED
    BY <1>2, <2>2 DEF WriteThrows, Inv, TypeOK, NothingStranded
<1>3. ASSUME WriteFailed PROVE Inv'
  <2>1. Throw(depth - 1) /\ depth - 1 \in Int /\ depth - 1 <= depth
    BY <1>3 DEF WriteFailed, Inv, TypeOK
  <2>2. /\ depth' \in Nat /\ thread' \in Threads /\ unwound' \in BOOLEAN
        /\ depth' = 0 /\ ~unwound' => depth = 0 /\ ~unwound
    BY <2>1, ThrowUnwinds DEF Inv
  <2> QED
    BY <1>3, <2>2 DEF WriteFailed, Inv, TypeOK, NothingStranded, Operations
<1>4. CASE WriteCompleted
  BY <1>4, CompletedInv
<1>5. CASE close
  BY <1>5 DEF close, Inv, TypeOK, NothingStranded, Operations, threadVars
<1>6. CASE RunHandler \/ HandlerReturns
  BY <1>6 DEF RunHandler, HandlerReturns, Inv, TypeOK, NothingStranded, Threads
<1>7. CASE Stop
  BY <1>7 DEF Stop, Inv, TypeOK, NothingStranded, threadVars
<1>8. CASE WriteReturns
  BY <1>8, WriterAssumption
     DEF WriteReturns, Inv, TypeOK, NothingStranded, Threads, Empty
<1>9. CASE SocketTakes
  <2>0. /\ active.messages \in Seq(Nat) /\ active.messages # <<>>
        /\ active \in Buffer /\ wire \in Seq(Nat)
    BY <1>9 DEF SocketTakes, Inv, TypeOK, Buffer
  <2>1. active' \in Buffer /\ active'.offset = active.offset /\ wire' \in Seq(Nat)
    <3>1. Head(active.messages) \in Nat /\ Tail(active.messages) \in Seq(Nat)
      BY <2>0, HeadTailProperties
    <3>2. active' = [active EXCEPT !.messages = Tail(active.messages)]
      BY <1>9 DEF SocketTakes
    <3>3. active' \in Buffer /\ active'.offset = active.offset
      BY <2>0, <3>1, <3>2 DEF Buffer
    <3>4. wire' \in Seq(Nat)
      BY <1>9, <2>0, <3>1, AppendProperties DEF SocketTakes
    <3> QED
      BY <3>3, <3>4
  <2>2. active.offset # 0
    BY <1>9 DEF SocketTakes, Inv, NothingStranded
  <2> QED
    BY <1>9, <2>1, <2>2 DEF SocketTakes, Inv, TypeOK, NothingStranded, threadVars
<1>10. CASE SocketDone \/ SocketFails
  BY <1>10 DEF SocketDone, SocketFails, Inv, TypeOK, NothingStranded, Operations, threadVars
<1>11. CASE UNCHANGED vars
  BY <1>11 DEF vars, threadVars, Inv, TypeOK, NothingStranded
<1> QED
  BY <1>1, <1>2, <1>3, <1>4, <1>5, <1>6, <1>7, <1>8, <1>9, <1>10, <1>11 DEF Next

LEMMA InvariantHolds == Spec => []Inv
BY InitInv, NextInv, PTL DEF Spec

-----------------------------------------------------------------------------
(* The theorems.                                                           *)

(* Every reachable state of socket_writer and the thread that runs it is   *)
(* well typed.                                                             *)
THEOREM WriterTypeCorrect == Spec => []TypeOK
<1>1. Inv => TypeOK
  BY DEF Inv
<1> QED
  BY <1>1, InvariantHolds, PTL

(* No message of socket_writer is left behind in a buffer without a write  *)
(* under way, and a write that has waited returns with empty buffers.      *)
THEOREM NothingIsStranded == Spec => []NothingStranded
<1>1. Inv => NothingStranded
  BY DEF Inv
<1> QED
  BY <1>1, InvariantHolds, PTL

(* The high water mark of socket_writer does what it is for: outside of a  *)
(* wait a message no larger than the space above it is accepted.           *)
THEOREM SmallMessagesAreAccepted == Spec => []SmallMessagesFit
<1>1. Inv => SmallMessagesFit
  BY WriterAssumption DEF Inv, TypeOK, Buffer, SmallMessagesFit, Fits
<1> QED
  BY <1>1, InvariantHolds, PTL

(* Every step of socket_writer is a step of the ordered stream: a write    *)
(* accepts or refuses, the socket emits, swapping the buffers is invisible.*)
LEMMA StepsRefine == Inv /\ [Next]_vars => [Stream!StreamNext]_(Stream!streamVars)
<1> SUFFICES ASSUME Inv, [Next]_vars
             PROVE  [Stream!StreamNext]_(Stream!streamVars)
  OBVIOUS
<1> DEFINE queue == active.messages \o pending.messages
<1>0. calls \in Nat /\ active.messages \in Seq(Nat) /\ pending.messages \in Seq(Nat)
  BY DEF Inv, TypeOK, Buffer
<1>1. ASSUME NEW size \in Sizes, write(size) PROVE Stream!Accept
  <2> DEFINE p == [messages |-> Append(pending.messages, calls + 1),
                   offset |-> pending.offset + size]
  <2>1. calls' = calls + 1 /\ wire' = wire
    BY <1>1 DEF write
  <2>2. CASE active.offset > 0
    <3>1. pending' = p /\ active' = active
      BY <1>1, <2>2 DEF write, flush_pending_writes
    <3>2. queue' = active.messages \o Append(pending.messages, calls + 1)
      BY <3>1
    <3>3. queue' = Append(queue, calls + 1)
      <4>1. calls + 1 \in Nat
        BY <1>0
      <4>2. active.messages \o Append(pending.messages, calls + 1)
              = Append(active.messages \o pending.messages, calls + 1)
        BY <1>0, <4>1, AppendToSecond, Zenon
      <4> QED
        BY <3>2, <4>2, Zenon
    <3> QED
      BY <2>1, <3>3 DEF Stream!Accept
  <2>3. CASE ~(active.offset > 0)
    <3>1. pending' = active /\ active' = p
      BY <1>1, <2>3 DEF write, flush_pending_writes
    <3>2. active.messages = <<>> /\ pending.messages = <<>>
      BY <2>3 DEF Inv, TypeOK, Buffer, NothingStranded, Empty
    <3>3. queue' = Append(pending.messages, calls + 1) \o <<>>
      BY <3>1, <3>2
    <3>4. Append(pending.messages, calls + 1) \in Seq(Nat) /\ queue = <<>>
      BY <1>0, <3>2, ConcatEmptySeq
    <3>5. queue' = Append(pending.messages, calls + 1)
      BY <3>3, <3>4, ConcatEmptySeq
    <3>6. queue' = Append(queue, calls + 1)
      <4> HIDE DEF queue
      <4> QED
        BY <3>2, <3>4, <3>5
    <3> QED
      BY <2>1, <3>6 DEF Stream!Accept
  <2> QED
    BY <2>2, <2>3
<1>2. ASSUME NEW size \in Sizes, WriteThrows(size) PROVE Stream!Refuse
  BY <1>2 DEF WriteThrows, Stream!Refuse
<1>3. CASE SocketTakes
  <2>1. /\ active.messages # <<>>
        /\ wire' = Append(wire, Head(active.messages))
        /\ active'.messages = Tail(active.messages)
        /\ pending' = pending /\ calls' = calls
    BY <1>3 DEF SocketTakes, Inv, TypeOK, Buffer
  <2>2. queue # <<>> /\ Head(queue) = Head(active.messages)
        /\ Tail(queue) = Tail(active.messages) \o pending.messages
    BY <1>0, <2>1, TakeFromFirst
  <2> QED
    BY <2>1, <2>2 DEF Stream!Emit, Stream!StreamNext
<1>4. CASE WriteCompleted
  <2> DEFINE a == [active EXCEPT !.offset = 0]
  <2>1. calls' = calls /\ wire' = wire
    BY <1>4 DEF WriteCompleted
  <2>2. a.messages = active.messages /\ active.messages = <<>> /\ a.offset = 0
    BY <1>4 DEF WriteCompleted, Inv, TypeOK, Buffer
  <2>3. CASE pending.offset > 0
    <3>1. pending' = a /\ active' = pending
      BY <1>4, <2>2, <2>3 DEF WriteCompleted, flush_pending_writes
    <3>2. queue' = pending.messages \o <<>> /\ queue = <<>> \o pending.messages
      BY <2>2, <3>1
    <3>3. queue' = queue
      BY <1>0, <3>2, ConcatEmptySeq
    <3> QED
      BY <2>1, <3>3 DEF Stream!streamVars
  <2>4. CASE ~(pending.offset > 0)
    <3>1. pending' = pending /\ active' = a
      BY <1>4, <2>4 DEF WriteCompleted
    <3> QED
      BY <2>1, <2>2, <3>1 DEF Stream!streamVars
  <2> QED
    BY <2>3, <2>4
<1>5. ASSUME UNCHANGED <<calls, pending, active, wire>>
      PROVE  UNCHANGED Stream!streamVars
  BY <1>5 DEF Stream!streamVars
<1>6. CASE \/ close \/ RunHandler \/ HandlerReturns \/ Stop \/ WriteReturns
           \/ WriteFailed \/ SocketDone \/ SocketFails \/ UNCHANGED vars
  <2>1. UNCHANGED <<calls, pending, active, wire>>
    BY <1>6 DEF close, RunHandler, HandlerReturns, Stop, WriteReturns,
                WriteFailed, SocketDone, SocketFails, vars
  <2> QED
    BY <1>5, <2>1
<1> QED
  BY <1>1, <1>2, <1>3, <1>4, <1>6 DEF Next, Stream!StreamNext

(* socket_writer implements the ordered stream that the session's numbers  *)
(* rely on: whatever handlers write while a write waits, messages leave in *)
(* the order of the calls, each at most once.                              *)
THEOREM WriterIsOrderedStream == Spec => OrderedWrites
<1>1. Init => Stream!StreamInit
  BY ConcatEmptySeq, EmptySeq DEF Init, Empty, Stream!StreamInit
<1> QED
  BY <1>1, StepsRefine, InvariantHolds, PTL
     DEF Spec, OrderedWrites, Stream!StreamSpec
=============================================================================
