-------------------------- MODULE SchedulerProofs --------------------------
(* Theorems about Scheduler, for any number of timers and of beats.        *)
EXTENDS Scheduler, TLAPS

(* Tokens that were not given out yet belong to no timer.                  *)
Unused ==
    \A t \in Tokens : t >= next =>
        /\ wait[t] = "none" /\ beats[t] = 0
        /\ t \notin timers /\ t \notin repeating /\ t \notin stopped /\ t \notin stray

(* Why a wait was aborted, and what it means to have been cancelled or     *)
(* erased.                                                                 *)
Aborted ==
    \A t \in Tokens :
        /\ t \in stray => t \notin timers
        /\ wait[t] = "aborted" => t \in stopped \/ t \in stray
        /\ t \in stopped => wait[t] \in {"aborted", "none"}

(* A single shot timer that waits has not expired before.                  *)
FirstWait == \A t \in Tokens : Single(t) /\ wait[t] = "pending" => beats[t] = 0

(* The inductive invariant.                                                *)
Inv == TypeOK /\ TimersAccounted /\ CallbacksCounted /\ Unused /\ Aborted /\ FirstWait

(* The parts of the invariant hold at the start.                           *)
LEMMA InitInv == Init => Inv
BY SchedulerAssumption
DEF Init, Inv, TypeOK, TimersAccounted, CallbacksCounted, Unused, Aborted, FirstWait,
    Single, Waits, Tokens

(* emplace, for either kind of timer.                                      *)
LEMMA EmplaceInv ==
    ASSUME Inv, schedule_relative_callback \/ schedule_repeating_callback
    PROVE  Inv'
<1> USE DEF Inv
<1>1. emplace /\ repeating' \in {repeating, repeating \cup {next}}
  BY DEF schedule_relative_callback, schedule_repeating_callback
<1>2. /\ next \in Tokens /\ next' = next + 1 /\ next \in Nat /\ Tokens \subseteq Nat
      /\ \A t \in Tokens : t # next => (t < next' <=> t < next)
      /\ wait[next] = "none" /\ beats[next] = 0
  BY <1>1, SchedulerAssumption DEF emplace, TypeOK, Tokens, Unused
<1>3. TypeOK'
  BY <1>1, <1>2 DEF emplace, TypeOK, taskVars, historyVars, Waits
<1>4. TimersAccounted'
  BY <1>1, <1>2 DEF emplace, TypeOK, TimersAccounted, Unused, Single, taskVars, historyVars
<1>5. CallbacksCounted'
  BY <1>1, <1>2 DEF emplace, TypeOK, CallbacksCounted, Single, taskVars, historyVars
<1>6. Unused' /\ Aborted' /\ FirstWait'
  BY <1>1, <1>2 DEF emplace, TypeOK, Unused, Aborted, FirstWait, Single, taskVars,
                    historyVars
<1> QED
  BY <1>3, <1>4, <1>5, <1>6

(* cancel_callback.                                                        *)
LEMMA CancelInv ==
    ASSUME Inv, NEW t \in Tokens, cancel_callback(t)
    PROVE  Inv'
<1> USE DEF Inv, cancel_callback, taskVars, historyVars
<1>1. next \in Nat /\ \A u \in Tokens : u \in Nat
  BY SchedulerAssumption DEF TypeOK, Tokens
<1>2. TypeOK'
  BY <1>1 DEF TypeOK, Waits, Abort
<1>3. TimersAccounted'
  BY <1>1 DEF TypeOK, TimersAccounted, Unused, Aborted, Single, Abort
<1>4. CallbacksCounted'
  BY <1>1 DEF TypeOK, TimersAccounted, CallbacksCounted, Unused, Aborted, FirstWait, Single, Abort
<1>5. Unused' /\ Aborted' /\ FirstWait'
  BY <1>1 DEF TypeOK, TimersAccounted, CallbacksCounted, Unused, Aborted, FirstWait, Single, Abort
<1> QED
  BY <1>2, <1>3, <1>4, <1>5

(* The expiry of a timer.                                                  *)
LEMMA ExpireInv ==
    ASSUME Inv, NEW t \in Tokens, Expire(t)
    PROVE  Inv'
<1> USE DEF Inv, Expire, taskVars, historyVars
<1>1. next \in Nat /\ \A u \in Tokens : u \in Nat
  BY SchedulerAssumption DEF TypeOK, Tokens
<1>2. TypeOK'
  BY <1>1 DEF TypeOK, Waits
<1>3. TimersAccounted'
  BY <1>1 DEF TypeOK, TimersAccounted, Unused, Aborted, Single
<1>4. CallbacksCounted'
  BY <1>1 DEF TypeOK, TimersAccounted, CallbacksCounted, Unused, Aborted, FirstWait, Single
<1>5. Unused' /\ Aborted' /\ FirstWait'
  BY <1>1 DEF TypeOK, TimersAccounted, CallbacksCounted, Unused, Aborted, FirstWait, Single
<1> QED
  BY <1>2, <1>3, <1>4, <1>5

(* The handler of a single shot timer, whatever it erases.                 *)
LEMMA SingleShotInv ==
    ASSUME Inv, NEW t \in Tokens, single_shot_handler(t)
    PROVE  Inv'
<1> USE DEF Inv, single_shot_handler, taskVars, historyVars
<1>1. next \in Nat /\ \A u \in Tokens : u \in Nat
  BY SchedulerAssumption DEF TypeOK, Tokens
<1>2. TypeOK'
  BY <1>1 DEF TypeOK, Waits, HandlerReady, Post, Abort
<1>3. TimersAccounted'
  BY <1>1 DEF TypeOK, TimersAccounted, Unused, Aborted, Single, HandlerReady, Post, Abort
<1>4. CallbacksCounted'
  BY <1>1 DEF TypeOK, TimersAccounted, CallbacksCounted, Unused, Aborted, FirstWait, Single,
              HandlerReady, Post, Abort
<1>5. Unused' /\ Aborted' /\ FirstWait'
  BY <1>1 DEF TypeOK, TimersAccounted, CallbacksCounted, Unused, Aborted, FirstWait, Single,
              HandlerReady, Post, Abort
<1> QED
  BY <1>2, <1>3, <1>4, <1>5

(* The two branches of the handler of a repeating timer.                   *)
LEMMA AbortedInv ==
    ASSUME Inv, NEW t \in Tokens, handler_aborted(t)
    PROVE  Inv'
<1> USE DEF Inv, handler_aborted, taskVars, historyVars
<1>1. next \in Nat /\ \A u \in Tokens : u \in Nat
  BY SchedulerAssumption DEF TypeOK, Tokens
<1>2. TypeOK'
  BY <1>1 DEF TypeOK, Waits, HandlerReady
<1>3. TimersAccounted'
  BY <1>1 DEF TypeOK, TimersAccounted, Unused, Aborted, Single, HandlerReady
<1>4. CallbacksCounted'
  BY <1>1 DEF TypeOK, TimersAccounted, CallbacksCounted, Unused, Aborted, FirstWait, Single, HandlerReady
<1>5. Unused' /\ Aborted' /\ FirstWait'
  BY <1>1 DEF TypeOK, TimersAccounted, CallbacksCounted, Unused, Aborted, FirstWait, Single, HandlerReady
<1> QED
  BY <1>2, <1>3, <1>4, <1>5

(* The handler that throws can do so only for a timer that was erased.     *)
LEMMA ExpiredInv ==
    ASSUME Inv, NEW t \in Tokens, handler_expired(t)
    PROVE  Inv'
<1> USE DEF Inv, handler_expired, taskVars, historyVars
<1>1. next \in Nat /\ \A u \in Tokens : u \in Nat
  BY SchedulerAssumption DEF TypeOK, Tokens
<1>2. TypeOK'
  BY <1>1 DEF TypeOK, Waits, HandlerReady, Post
<1>3. TimersAccounted'
  <2>1. \A u \in Tokens :
           /\ wait'[u] # "none" => u \in timers \/ u \in stray
           /\ u \in stray => wait'[u] # "pending"
           /\ u \in timers /\ wait'[u] = "none" => Single(u)
    BY <1>1 DEF TypeOK, TimersAccounted, Aborted, HandlerReady
  <2>2. CASE t \in timers
    <3>1. running' /\ UNCHANGED <<timers, stray, next, repeating>>
      BY <2>2
    <3> QED
      BY <2>1, <3>1 DEF TimersAccounted, Single
  <2>3. CASE t \notin timers
    <3>1. t \in stray \cap repeating
      BY <2>3 DEF TimersAccounted
    <3> QED
      BY <2>1, <3>1 DEF TimersAccounted, Single
  <2> QED
    BY <2>2, <2>3
<1>4. CallbacksCounted'
  BY <1>1 DEF TypeOK, TimersAccounted, CallbacksCounted, Unused, Aborted, FirstWait, Single,
              HandlerReady, Post
<1>5. Unused' /\ Aborted' /\ FirstWait'
  BY <1>1 DEF TypeOK, TimersAccounted, CallbacksCounted, Unused, Aborted, FirstWait, Single,
              HandlerReady, Post
<1> QED
  BY <1>2, <1>3, <1>4, <1>5

(* The run of a callback.                                                  *)
LEMMA CallbackInv ==
    ASSUME Inv, NEW t \in Tokens, RunCallback(t)
    PROVE  Inv'
<1> USE DEF Inv, RunCallback, taskVars, historyVars
<1>1. next \in Nat /\ \A u \in Tokens : u \in Nat
  BY SchedulerAssumption DEF TypeOK, Tokens
<1>2. TypeOK'
  BY <1>1 DEF TypeOK, Waits
<1>3. TimersAccounted'
  BY <1>1 DEF TimersAccounted, Single
<1>4. CallbacksCounted'
  <2> SUFFICES ASSUME NEW u \in Tokens
               PROVE  ran'[u] + posted'[u] = ran[u] + posted[u]
    BY DEF CallbacksCounted, Single
  <2> QED
    BY DEF TypeOK
<1>5. Unused' /\ Aborted' /\ FirstWait'
  BY <1>1 DEF Unused, Aborted, FirstWait, Single
<1> QED
  BY <1>2, <1>3, <1>4, <1>5

-----------------------------------------------------------------------------
(* Every step preserves the invariant.                                     *)
LEMMA NextInv == Inv /\ [Next]_vars => Inv'
<1> SUFFICES ASSUME Inv, [Next]_vars PROVE Inv'
  OBVIOUS
<1>1. CASE UNCHANGED vars
  BY <1>1 DEF vars, taskVars, historyVars, Inv, TypeOK, TimersAccounted, CallbacksCounted,
              Unused, Aborted, FirstWait, Single
<1>2. CASE schedule_relative_callback \/ schedule_repeating_callback
  BY <1>2, EmplaceInv
<1>3. ASSUME NEW t \in Tokens,
             \/ cancel_callback(t)
             \/ Expire(t) \/ single_shot_handler(t)
             \/ handler_aborted(t) \/ handler_expired(t)
             \/ RunCallback(t)
      PROVE  Inv'
  BY <1>3, CancelInv, ExpireInv, SingleShotInv, AbortedInv, ExpiredInv, CallbackInv
<1> QED
  BY <1>1, <1>2, <1>3 DEF Next

(* The inductive invariant holds throughout.                               *)
LEMMA InvHolds == Spec => []Inv
BY InitInv, NextInv, PTL DEF Spec

(* The variables of the scheduler keep their types: in particular no       *)
(* callback runs that was not posted.                                      *)
THEOREM SchedulerTypeCorrect == Spec => []TypeOK
<1>1. Inv => TypeOK
  BY DEF Inv
<1> QED
  BY <1>1, InvHolds, PTL

(* Whatever token the handler of a single shot timer reads when it erases, *)
(* a timer that waits is in the map or was erased by another handler, only *)
(* single shot timers are left behind in it, and the exception of handler  *)
(* means that a repeater was erased by somebody else.                      *)
THEOREM TimersAreAccountedFor == Spec => []TimersAccounted
<1>1. Inv => TimersAccounted
  BY DEF Inv
<1> QED
  BY <1>1, InvHolds, PTL

(* No callback is lost or comes twice between the expiry of a timer, its   *)
(* handler and the queue of the io_context, for any number of timers.      *)
THEOREM CallbacksAreCounted == Spec => []CallbacksCounted
<1>1. Inv => CallbacksCounted
  BY DEF Inv
<1> QED
  BY <1>1, InvHolds, PTL

(* A cancellation that finds the wait pending is final: from then on the   *)
(* wait is never armed again and nothing is posted for that token.         *)
THEOREM CancellationStaysFinal == Spec => CancellationIsFinal
<1>1. Inv /\ Inv' /\ [Next]_vars => [StaysCancelled]_vars
  <2> SUFFICES ASSUME Inv, Inv', [Next]_vars, NEW t \in stopped
               PROVE  /\ wait[t] \in {"aborted", "none"}
                      /\ wait'[t] \in {"aborted", "none"}
                      /\ posted'[t] <= posted[t]
    BY DEF StaysCancelled
  <2>1. t \in Tokens /\ wait[t] \in {"aborted", "none"} /\ posted \in [Tokens -> Nat]
        /\ (wait[t] = "none" \/ wait[t] = "aborted")
    BY DEF Inv, TypeOK, Aborted
  <2>2. posted'[t] <= posted[t] /\ stopped \subseteq stopped'
    <3>1. CASE UNCHANGED vars
      BY <2>1, <3>1 DEF vars, taskVars, historyVars
    <3>2. CASE schedule_relative_callback \/ schedule_repeating_callback
      BY <2>1, <3>2 DEF schedule_relative_callback, schedule_repeating_callback, emplace,
                        taskVars, historyVars
    <3>3. ASSUME NEW u \in Tokens, cancel_callback(u) \/ Expire(u) \/ handler_aborted(u)
          PROVE  posted'[t] <= posted[t] /\ stopped \subseteq stopped'
      BY <2>1, <3>3 DEF cancel_callback, Expire, handler_aborted, taskVars, historyVars
    <3>4. ASSUME NEW u \in Tokens,
                 single_shot_handler(u) \/ handler_expired(u) \/ RunCallback(u)
          PROVE  posted'[t] <= posted[t] /\ stopped \subseteq stopped'
      BY <2>1, <3>4 DEF single_shot_handler, handler_expired, RunCallback, HandlerReady,
                        Post, taskVars, historyVars
    <3> QED
      BY <3>1, <3>2, <3>3, <3>4 DEF Next
  <2>3. wait'[t] \in {"aborted", "none"}
    BY <2>1, <2>2 DEF Inv, Aborted
  <2> QED
    BY <2>1, <2>2, <2>3
<1> QED
  BY <1>1, InvHolds, PTL DEF Spec, CancellationIsFinal
=============================================================================
