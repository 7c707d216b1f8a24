------------------------------ MODULE Pipeline ------------------------------
(***************************************************************************)
(* fixsed: what the initiator sends is read, given to a script and written *)
(* to the acceptor, and the other way round, all on one thread.            *)
(*                                                                         *)
(* A write that waits runs other handlers in the middle of the read        *)
(* handler that forwards a message: also the read handler of the opposite  *)
(* direction, which may have to wait itself.  The first write can then     *)
(* only return after the second.                                           *)
(*                                                                         *)
(* A direction is named by the side its messages come from.  A message is  *)
(* named by its number in its direction.                                   *)
(***************************************************************************)
EXTENDS Naturals, Sequences, SequencesExt

CONSTANTS
    BufferSize,      \* the size of a buffer of a socket_writer
    HighWaterMark,   \* what it may hold before write waits
    Messages,        \* bound on the messages each side sends
    SizeTables       \* the encoded sizes of the messages, by number

ASSUME PipelineAssumption ==
    /\ BufferSize \in Nat /\ HighWaterMark \in Nat /\ Messages \in Nat
    /\ HighWaterMark < BufferSize
    /\ SizeTables \subseteq [1..Messages -> Nat \ {0}]

Sides == {"initiator", "acceptor"}
Other(s) == IF s = "initiator" THEN "acceptor" ELSE "initiator"

VARIABLES
    size,        \* the size of the messages
    receivers,   \* the sides that read what is sent to them
    taken,       \* the messages read from a side
    batch,       \* of those, the ones its handler has not processed
    pending,     \* the pending buffer of the direction's writer
    offset,      \* and how much of it is used
    active,      \* what is left of the buffer being written
    writing,     \* the directions whose write has not completed
    failed,      \* the messages whose script has failed (history)
    delivered,   \* what the socket has taken
    stack,       \* the read handlers under way, each called by the one before
    waiting,     \* the last of them is in a write that waits
    status       \* of run

buffers == <<pending, offset, active, writing>>
vars == <<size, receivers, taken, batch, buffers, failed, delivered, stack, waiting, status>>

Nothing == [s \in Sides |-> <<>>]

Init ==
    /\ size \in SizeTables
    /\ receivers \in SUBSET Sides
    /\ taken = [s \in Sides |-> 0]
    /\ batch = Nothing
    /\ pending = Nothing /\ offset = [s \in Sides |-> 0]
    /\ active = Nothing /\ writing = {}
    /\ failed = [s \in Sides |-> {}]
    /\ delivered = Nothing
    /\ stack = <<>> /\ waiting = FALSE
    /\ status = "running"

Running(s) == status = "running" /\ stack # <<>> /\ Last(stack) = s /\ ~waiting

(* A handler may run: called by io_context::run, or by the write at the    *)
(* top of the stack, which still waits.                                    *)
Looping ==
    /\ status = "running"
    /\ \/ stack = <<>>
       \/ waiting /\ Last(stack) \in writing

(* Mutant: the next read is started before the messages are dispatched.    *)
ReadAgain(s, n) ==
    /\ Looping
    /\ Len(stack) < 3
    /\ taken[s] + n <= Messages
    /\ taken' = [taken EXCEPT ![s] = @ + n]
    /\ batch' = [batch EXCEPT ![s] = [i \in 1..n |-> taken[s] + i] \o @]
    /\ stack' = Append(stack, s)
    /\ waiting' = FALSE
    /\ UNCHANGED <<size, receivers, buffers, failed, delivered, status>>

(* The handler of a read that brought n messages.  There is no read of s   *)
(* to complete while its handler is under way.                             *)
ReadHandler(s, n) ==
    /\ Looping
    /\ s \notin Range(stack)
    /\ taken[s] + n <= Messages
    /\ taken' = [taken EXCEPT ![s] = @ + n]
    /\ batch' = [batch EXCEPT ![s] = [i \in 1..n |-> taken[s] + i]]
    /\ stack' = Append(stack, s)
    /\ waiting' = FALSE
    /\ UNCHANGED <<size, receivers, buffers, failed, delivered, status>>

(* process_message when the script fails: the message is dropped.          *)
ScriptFails(s) ==
    /\ Running(s)
    /\ batch[s] # <<>>
    /\ batch' = [batch EXCEPT ![s] = Tail(@)]
    /\ failed' = [failed EXCEPT ![s] = @ \cup {Head(batch[s])}]
    /\ UNCHANGED <<size, receivers, taken, buffers, delivered, stack, waiting, status>>

(* What the pending buffer holds with one more message, and whether that   *)
(* message fits.                                                           *)
NewOffset(s) == offset[s] + size[Head(batch[s])]

Fits(s) == offset[s] < BufferSize /\ NewOffset(s) <= BufferSize

(* Mutant: the buffers are swapped while one is being written.             *)
ForwardSwapsAlways(s) ==
    /\ Running(s)
    /\ batch[s] # <<>>
    /\ Fits(s)
    /\ batch' = [batch EXCEPT ![s] = Tail(@)]
    /\ active' = [active EXCEPT ![s] = Append(pending[s], Head(batch[s]))]
    /\ pending' = [pending EXCEPT ![s] = active[s]]
    /\ offset' = [offset EXCEPT ![s] = 0]
    /\ writing' = writing \cup {s}
    /\ UNCHANGED <<size, receivers, taken, failed, delivered, stack, waiting, status>>

(* process_message when it does not: socket_writer::write appends to the   *)
(* pending buffer, starts to write it if nothing is being written, and     *)
(* waits if what is left pending is above the mark.                        *)
Forward(s) ==
    /\ Running(s)
    /\ batch[s] # <<>>
    /\ Fits(s)
    /\ batch' = [batch EXCEPT ![s] = Tail(@)]
    /\ LET p == Append(pending[s], Head(batch[s]))
       IN  IF s \in writing
           THEN /\ pending' = [pending EXCEPT ![s] = p]
                /\ offset' = [offset EXCEPT ![s] = NewOffset(s)]
                /\ waiting' = (NewOffset(s) > HighWaterMark)
                /\ UNCHANGED <<active, writing>>
           ELSE /\ active' = [active EXCEPT ![s] = p]
                /\ pending' = [pending EXCEPT ![s] = <<>>]
                /\ offset' = [offset EXCEPT ![s] = 0]
                /\ writing' = writing \cup {s}
                /\ UNCHANGED waiting
    /\ UNCHANGED <<size, receivers, taken, failed, delivered, stack, status>>

(* A write that does not fit throws, and run logs the error and ends.      *)
ForwardThrows(s) ==
    /\ Running(s)
    /\ batch[s] # <<>>
    /\ ~Fits(s)
    /\ status' = "failed to encode"
    /\ UNCHANGED <<size, receivers, taken, batch, buffers, failed, delivered, stack, waiting>>

(* The write at the top of the stack has nothing left to wait for.         *)
WriteReturns ==
    /\ status = "running"
    /\ waiting
    /\ Last(stack) \notin writing
    /\ waiting' = FALSE
    /\ UNCHANGED <<size, receivers, taken, batch, buffers, failed, delivered, stack, status>>

(* The handler has processed its messages, starts the next read and        *)
(* returns, to a write that waits if it was called by one.                 *)
HandlerReturns(s) ==
    /\ Running(s)
    /\ batch[s] = <<>>
    /\ stack' = Front(stack)
    /\ waiting' = (Len(stack) > 1)
    /\ UNCHANGED <<size, receivers, taken, batch, buffers, failed, delivered, status>>

(* The socket takes a message, if the other side reads.                    *)
SocketTakes(s) ==
    /\ status = "running"
    /\ Other(s) \in receivers
    /\ active[s] # <<>>
    /\ delivered' = [delivered EXCEPT ![s] = Append(@, Head(active[s]))]
    /\ active' = [active EXCEPT ![s] = Tail(@)]
    /\ UNCHANGED <<size, receivers, taken, batch, pending, offset, writing, failed, stack, waiting, status>>

(* Mutant: the handler does not come back for what is pending.             *)
CompletedWithoutFlush(s) ==
    /\ Looping
    /\ s \in writing /\ active[s] = <<>>
    /\ writing' = writing \ {s}
    /\ UNCHANGED <<size, receivers, taken, batch, pending, offset, active, failed, delivered, stack, waiting, status>>

(* The handler of a write that has completed starts the next one.          *)
WriteCompleted(s) ==
    /\ Looping
    /\ s \in writing /\ active[s] = <<>>
    /\ active' = [active EXCEPT ![s] = pending[s]]
    /\ pending' = [pending EXCEPT ![s] = <<>>]
    /\ offset' = [offset EXCEPT ![s] = 0]
    /\ writing' = IF pending[s] = <<>> THEN writing \ {s} ELSE writing
    /\ UNCHANGED <<size, receivers, taken, batch, failed, delivered, stack, waiting, status>>

(* A side disconnects: the handler of its read throws, and run ends with   *)
(* whatever is on the stack and in the buffers.                            *)
Disconnect(s) ==
    /\ Looping
    /\ s \notin Range(stack)
    /\ status' = "disconnected"
    /\ UNCHANGED <<size, receivers, taken, batch, buffers, failed, delivered, stack, waiting>>

Handler(s) == ScriptFails(s) \/ Forward(s) \/ ForwardThrows(s) \/ HandlerReturns(s)

Next ==
    \/ \E s \in Sides : \E n \in 1..Messages : ReadHandler(s, n)
    \/ \E s \in Sides :
          \/ ScriptFails(s) \/ Forward(s) \/ ForwardThrows(s) \/ HandlerReturns(s)
          \/ SocketTakes(s) \/ WriteCompleted(s) \/ Disconnect(s)
    \/ WriteReturns

(* The thread runs, what the sides send arrives, and a side that reads     *)
(* goes on reading.                                                        *)
Fairness ==
    /\ WF_vars(WriteReturns)
    /\ \A s \in Sides :
          /\ WF_vars(Handler(s))
          /\ WF_vars(\E n \in 1..Messages : ReadHandler(s, n))
          /\ WF_vars(SocketTakes(s))
          /\ WF_vars(WriteCompleted(s))

Spec == Init /\ [][Next]_vars /\ Fairness

-----------------------------------------------------------------------------
(* The two directions as ordered streams of the calls of process_message.  *)
FromInitiator == INSTANCE OrderedStream WITH
    calls <- taken["initiator"] - Len(batch["initiator"]),
    queue <- active["initiator"] \o pending["initiator"],
    sent <- delivered["initiator"]

FromAcceptor == INSTANCE OrderedStream WITH
    calls <- taken["acceptor"] - Len(batch["acceptor"]),
    queue <- active["acceptor"] \o pending["acceptor"],
    sent <- delivered["acceptor"]

(* Each direction forwards in the order of reading and at most once,       *)
(* whatever the handlers of both do in the middle of one another.          *)
OrderedForwarding == FromInitiator!StreamSpec /\ FromAcceptor!StreamSpec

(* A message that takes no more than the space above the mark never finds  *)
(* its buffer full: the wait suffices, because no handler of the same      *)
(* direction runs during it.                                               *)
NeverOverflows ==
    status = "failed to encode" =>
        size[Head(batch[Last(stack)])] > BufferSize - HighWaterMark

(* Everything is read, and forwarded but for the messages whose script has *)
(* failed, also through waits nested in waits, if both sides go on reading *)
(* and run has not ended.  Those messages are dropped: "There is no        *)
(* mechanism to drop or reject messages", says the README of fixsed.       *)
AllForwarded ==
    receivers = Sides =>
        <>(\/ status # "running"
           \/ \A s \in Sides : /\ taken[s] = Messages
                               /\ Range(delivered[s]) = (1..Messages) \ failed[s])
=============================================================================
