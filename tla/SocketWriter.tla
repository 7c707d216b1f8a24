---------------------------- MODULE SocketWriter ----------------------------
(***************************************************************************)
(* socket_writer: one buffer is filled while the other one is written to   *)
(* the socket.  Everything runs on the thread of the io_context.  A write  *)
(* that leaves the pending buffer nearly full runs further handlers in the *)
(* middle of the call, until nothing is being written; those handlers may  *)
(* write, and wait, themselves.  depth counts the calls that wait, nested  *)
(* in one another; the thread is in the loop of the innermost of them, or  *)
(* of io_context::run when there is none, or runs a handler called there.  *)
(***************************************************************************)
EXTENDS Integers, Sequences

CONSTANTS
    BufferSize,     \* buffer_size
    HighWaterMark,  \* buffer_high_water_mark
    Sizes,          \* the encoded sizes of messages
    MaxCalls,       \* bound on the calls to write
    MayFail,        \* whether the network may fail
    MayStop         \* whether a handler may stop the io_context

ASSUME WriterAssumption ==
    /\ BufferSize \in Nat
    /\ HighWaterMark \in Nat
    /\ Sizes \subseteq Nat \ {0}
    /\ MaxCalls \in Nat
    /\ MayFail \in BOOLEAN
    /\ MayStop \in BOOLEAN

VARIABLES
    calls,          \* the calls to write so far; the last one's number
    pending,        \* the buffer m_pending_buffer points to
    active,         \* the buffer m_active_buffer points to
    operation,      \* the async_write of the active buffer
    wire,           \* what the socket has taken
    open,           \* whether the socket is open
    depth,          \* the writes that wait in their loop
    thread,         \* "loop": between handlers; "handler": inside one
    stopped,        \* io_context::stop was called
    unwound         \* history: an exception has ended a write that waited

threadVars == <<depth, thread, unwound>>
vars == <<calls, pending, active, operation, wire, open, stopped, threadVars>>

(* A buffer: its offset, and the messages in it the socket has not taken.  *)
Buffer == [messages : Seq(Nat), offset : Nat]
Empty == [messages |-> <<>>, offset |-> 0]

(* None, under way, completed or failed with its handler not yet run, and  *)
(* failed for good: the handler threw.                                     *)
Operations == {"none", "writing", "written", "failing", "failed"}

Threads == {"loop", "handler", "ended"}

-----------------------------------------------------------------------------
(* Before io_context::run the program's main function opens the session.   *)
Init ==
    /\ calls = 0
    /\ pending = Empty
    /\ active = Empty
    /\ operation = "none"
    /\ wire = <<>>
    /\ open = TRUE
    /\ depth = 0
    /\ thread = "handler"
    /\ stopped = FALSE
    /\ unwound = FALSE

(* Mutant: flush does not look whether a write is under way.              *)
FlushAlways(p, a) ==
    pending' = a /\ active' = p /\ operation' = "writing"

(* flush_pending_writes of a pending buffer p: unless a write is under way *)
(* the buffers are swapped and the full one is written.                    *)
flush_pending_writes(p, a) ==
    IF a.offset > 0
    THEN pending' = p /\ active' = a /\ UNCHANGED operation
    ELSE pending' = a /\ active' = p /\ operation' = "writing"

(* The message fits behind what is pending; at() refuses a full buffer and *)
(* encode returns 0 when it reaches the end.                               *)
Fits(size) == pending.offset < BufferSize /\ size <= BufferSize - pending.offset

(* An exception leaves the handler that runs above the d-th loop: it is    *)
(* caught there or by a handler below, or it ends io_context::run.         *)
Throw(d) ==
    /\ \/ \E caught \in 0..d : depth' = caught /\ thread' = "handler"
       \/ depth' = 0 /\ thread' = "ended"
    /\ unwound' = (unwound \/ depth' < depth)

(* Mutant: write never waits.                                              *)
NeverWait == UNCHANGED threadVars

(* The end of write: wait if the pending buffer is above the mark and the  *)
(* active one still being written.                                         *)
WaitOrReturn ==
    /\ IF pending'.offset > HighWaterMark /\ active'.offset > 0
       THEN depth' = depth + 1 /\ thread' = "loop"
       ELSE UNCHANGED <<depth, thread>>
    /\ UNCHANGED unwound

(* write, from a handler.                                                  *)
write(size) ==
    /\ thread = "handler"
    /\ calls < MaxCalls
    /\ Fits(size)
    /\ calls' = calls + 1
    /\ flush_pending_writes([messages |-> Append(pending.messages, calls + 1),
                             offset |-> pending.offset + size], active)
    /\ WaitOrReturn
    /\ UNCHANGED <<wire, open, stopped>>

(* A write that does not fit throws before it has changed anything.        *)
WriteThrows(size) ==
    /\ thread = "handler"
    /\ calls < MaxCalls
    /\ ~Fits(size)
    /\ calls' = calls + 1
    /\ Throw(depth)
    /\ UNCHANGED <<pending, active, operation, wire, open, stopped>>

(* close, from a handler: an operation under way is aborted.               *)
close ==
    /\ thread = "handler"
    /\ open
    /\ open' = FALSE
    /\ operation' = IF operation = "writing" THEN "failing" ELSE operation
    /\ UNCHANGED <<calls, pending, active, wire, stopped, threadVars>>

-----------------------------------------------------------------------------
(* The io_context.                                                         *)

(* The loop of the innermost call goes on: run_one, or run.                *)
Looping == thread = "loop" /\ ~stopped /\ (depth > 0 => active.offset > 0)

(* A handler of somebody else runs: the reader's, a timer's, a callback.   *)
RunHandler ==
    /\ Looping
    /\ thread' = "handler"
    /\ UNCHANGED <<calls, pending, active, operation, wire, open, stopped, depth, unwound>>

HandlerReturns ==
    /\ thread = "handler"
    /\ thread' = "loop"
    /\ UNCHANGED <<calls, pending, active, operation, wire, open, stopped, depth, unwound>>

(* A handler calls io_context::stop.                                       *)
Stop ==
    /\ MayStop
    /\ thread = "handler"
    /\ ~stopped
    /\ stopped' = TRUE
    /\ UNCHANGED <<calls, pending, active, operation, wire, open, threadVars>>

(* Mutant: the handler that returns is taken for a wait that is over.      *)
ReturnUnchecked ==
    /\ thread = "loop"
    /\ active.offset = 0
    /\ depth' = depth - 1
    /\ thread' = "handler"
    /\ UNCHANGED <<calls, pending, active, operation, wire, open, stopped, unwound>>

(* The innermost wait is over and write returns to the handler it was in.  *)
WriteReturns ==
    /\ thread = "loop"
    /\ depth > 0
    /\ active.offset = 0
    /\ depth' = depth - 1
    /\ thread' = "handler"
    /\ UNCHANGED <<calls, pending, active, operation, wire, open, stopped, unwound>>

(* Mutant: the handler forgets what is pending.                            *)
CompletedWithoutFlush ==
    /\ Looping
    /\ operation = "written"
    /\ active' = [active EXCEPT !.offset = 0]
    /\ operation' = "none"
    /\ UNCHANGED <<calls, pending, wire, open, stopped, threadVars>>

(* Mutant: the handler does not reset the offset.                          *)
CompletedWithoutReset ==
    /\ Looping
    /\ operation = "written"
    /\ operation' = "none"
    /\ UNCHANGED <<calls, pending, active, wire, open, stopped, threadVars>>

(* The handler of the async_write, when it has completed.                  *)
WriteCompleted ==
    /\ Looping
    /\ operation = "written"
    /\ IF pending.offset > 0
       THEN flush_pending_writes(pending, [active EXCEPT !.offset = 0])
       ELSE /\ active' = [active EXCEPT !.offset = 0]
            /\ operation' = "none"
            /\ UNCHANGED pending
    /\ UNCHANGED <<calls, wire, open, stopped, threadVars>>

(* Its handler when it has failed: it throws, out of the call that waits,  *)
(* if there is one, and leaves the offset of the active buffer.            *)
WriteFailed ==
    /\ Looping
    /\ operation = "failing"
    /\ operation' = "failed"
    /\ Throw(depth - 1)
    /\ UNCHANGED <<calls, pending, active, wire, open, stopped>>

-----------------------------------------------------------------------------
(* The socket: it takes the bytes of the active buffer at its own pace.    *)

SocketTakes ==
    /\ operation = "writing"
    /\ open
    /\ active.messages # <<>>
    /\ wire' = Append(wire, Head(active.messages))
    /\ active' = [active EXCEPT !.messages = Tail(active.messages)]
    /\ UNCHANGED <<calls, pending, operation, open, stopped, threadVars>>

SocketDone ==
    /\ operation = "writing"
    /\ active.messages = <<>>
    /\ operation' = "written"
    /\ UNCHANGED <<calls, pending, active, wire, open, stopped, threadVars>>

(* The network fails, or the socket was closed before the operation.       *)
SocketFails ==
    /\ operation = "writing"
    /\ MayFail \/ ~open
    /\ operation' = "failing"
    /\ UNCHANGED <<calls, pending, active, wire, open, stopped, threadVars>>

Next ==
    \/ \E size \in Sizes : write(size) \/ WriteThrows(size)
    \/ close \/ RunHandler \/ HandlerReturns \/ Stop \/ WriteReturns
    \/ WriteCompleted \/ WriteFailed
    \/ SocketTakes \/ SocketDone \/ SocketFails

(* Handlers return; one that is ready runs however many others are, since  *)
(* the io_context takes them in order; and the peer reads.                 *)
Fairness ==
    /\ WF_vars(HandlerReturns)
    /\ WF_vars(WriteReturns)
    /\ SF_vars(WriteCompleted \/ WriteFailed)
    /\ WF_vars(SocketTakes \/ SocketDone \/ SocketFails)

Spec == Init /\ [][Next]_vars /\ Fairness

-----------------------------------------------------------------------------
TypeOK ==
    /\ calls \in Nat
    /\ pending \in Buffer
    /\ active \in Buffer
    /\ operation \in Operations
    /\ wire \in Seq(Nat)
    /\ open \in BOOLEAN
    /\ depth \in Nat
    /\ thread \in Threads
    /\ stopped \in BOOLEAN
    /\ unwound \in BOOLEAN

(* Whatever waits in the pending buffer is behind a write whose handler    *)
(* will send it, or has thrown: there is no message nobody comes back for, *)
(* and a write that has waited returns with everything on the wire, since  *)
(* that handler starts the next write before the wait looks again.         *)
NothingStranded ==
    /\ active.offset = 0 <=> operation = "none"
    /\ active.offset = 0 => pending = Empty /\ active.messages = <<>>

(* What the mark is for: outside of a write that waits, a message no       *)
(* larger than the space above the mark is never refused, unless an        *)
(* exception has cut such a wait short before.                             *)
SmallMessagesFit ==
    depth = 0 /\ ~unwound =>
        \A size \in Sizes : size <= BufferSize - HighWaterMark => Fits(size)

(* The two buffers are one queue and the wire what has left it.            *)
Stream == INSTANCE OrderedStream WITH
    queue <- active.messages \o pending.messages, sent <- wire

(* The writer is an ordered stream: with re-entrant calls, refused calls,  *)
(* failures and swaps of the buffers, messages leave in the order of the   *)
(* calls and at most once.                                                 *)
OrderedWrites == Stream!StreamSpec

(* What was accepted gets out and every write returns, unless the write    *)
(* failed, an exception ended the program, or the io_context was stopped.  *)
WritesReturn ==
    pending.offset > 0 \/ active.offset > 0 \/ depth > 0
        ~> \/ pending.offset = 0 /\ active.offset = 0 /\ depth = 0
           \/ operation = "failed" \/ thread = "ended" \/ stopped
=============================================================================
