--------------------------- MODULE OrderedStream ---------------------------
(***************************************************************************)
(* What a writer promises to the session above it: the messages it accepts *)
(* leave in the order of the calls, each of them once, none of them made   *)
(* up.  Messages are named by the number of the call to write.             *)
(***************************************************************************)
EXTENDS Naturals, Sequences

VARIABLES
    calls,      \* the number of calls to write so far
    queue,      \* accepted and not yet on the wire
    sent        \* on the wire

streamVars == <<calls, queue, sent>>

StreamInit ==
    /\ calls = 0
    /\ queue = <<>>
    /\ sent = <<>>

(* A call is accepted behind the ones before it.                           *)
Accept ==
    /\ calls' = calls + 1
    /\ queue' = Append(queue, calls + 1)
    /\ UNCHANGED sent

(* A call is refused; what was accepted is not affected.                   *)
Refuse ==
    /\ calls' = calls + 1
    /\ UNCHANGED <<queue, sent>>

(* The oldest accepted message goes on the wire.                           *)
Emit ==
    /\ queue # <<>>
    /\ sent' = Append(sent, Head(queue))
    /\ queue' = Tail(queue)
    /\ UNCHANGED calls

StreamNext == Accept \/ Refuse \/ Emit

StreamSpec == StreamInit /\ [][StreamNext]_streamVars
=============================================================================
