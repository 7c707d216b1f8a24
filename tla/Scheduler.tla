----------------------------- MODULE Scheduler -----------------------------
(***************************************************************************)
(* boost_asio_scheduler: timers in a map from cancellation tokens, each    *)
(* with one asynchronous wait, whose handler posts the callback.  Between  *)
(* the expiry of a timer and its handler, and between the handler and the  *)
(* callback, anything else may run: the io_context promises no order.      *)
(*                                                                         *)
(* The handler of a single shot timer erases by a token it captured by     *)
(* reference and that has gone out of scope.  What it reads is any value:  *)
(* its own token, that of another timer, or that of none.                  *)
(***************************************************************************)
EXTENDS Integers

CONSTANTS
    MaxTimers,  \* bound on the timers that are scheduled
    MaxBeats    \* bound on the expiries of a repeating timer

ASSUME SchedulerAssumption == MaxTimers \in Nat /\ MaxBeats \in Nat \ {0}

Tokens == 0 .. (MaxTimers - 1)

VARIABLES
    next,       \* m_next_cancellation_token
    timers,     \* the tokens in m_timers
    repeating,  \* the tokens schedule_repeating_callback returned
    wait,       \* the asynchronous wait of each timer
    beats,      \* bound: how often each timer has expired
    posted,     \* the callbacks in the queue of the io_context
    ran,        \* how often each callback has run
    running,    \* io_context::run has not been left by an exception
    stopped,    \* history: cancelled while the wait was pending
    stray       \* history: erased by the handler of another timer

taskVars == <<beats, posted, ran>>
historyVars == <<stopped, stray>>
vars == <<next, timers, repeating, wait, running, taskVars, historyVars>>

(* No wait, or one that is pending, or one whose handler is in the queue,  *)
(* without an error or with operation_aborted.                             *)
Waits == {"none", "pending", "expired", "aborted"}

Init ==
    /\ next = 0
    /\ timers = {}
    /\ repeating = {}
    /\ wait = [t \in Tokens |-> "none"]
    /\ beats = [t \in Tokens |-> 0]
    /\ posted = [t \in Tokens |-> 0]
    /\ ran = [t \in Tokens |-> 0]
    /\ running = TRUE
    /\ stopped = {}
    /\ stray = {}

-----------------------------------------------------------------------------
(* What the session calls, from a handler or before run.                   *)

(* The end of a wait before its time: a handler in the queue stays as it is. *)
Abort(t) == [wait EXCEPT ![t] = IF wait[t] = "pending" THEN "aborted" ELSE wait[t]]

(* A new timer whose wait is pending.  The counter has never returned the  *)
(* token before, so it is not in the map.                                  *)
emplace ==
    /\ running
    /\ next \in Tokens
    /\ next' = next + 1
    /\ timers' = timers \cup {next}
    /\ wait' = [wait EXCEPT ![next] = "pending"]
    /\ UNCHANGED <<taskVars, running, historyVars>>

schedule_relative_callback == emplace /\ UNCHANGED repeating

schedule_repeating_callback == emplace /\ repeating' = repeating \cup {next}

(* Mutant: the timer is taken out of the map and left to run.              *)
CancelForgetsTheWait(t) ==
    /\ running
    /\ t < next
    /\ timers' = timers \ {t}
    /\ stopped' = IF t \in timers /\ wait[t] = "pending"
                  THEN stopped \cup {t} ELSE stopped
    /\ UNCHANGED <<next, repeating, wait, taskVars, running, stray>>

(* cancel_callback of a token it has returned: cancel has no effect on a   *)
(* handler that is in the queue already.                                   *)
cancel_callback(t) ==
    /\ running
    /\ t < next
    /\ wait' = IF t \in timers THEN Abort(t) ELSE wait
    /\ stopped' = IF t \in timers /\ wait[t] = "pending"
                  THEN stopped \cup {t} ELSE stopped
    /\ UNCHANGED <<next, timers, repeating, taskVars, running, stray>>

-----------------------------------------------------------------------------
(* The io_context.                                                         *)

Expire(t) ==
    /\ running
    /\ wait[t] = "pending"
    /\ beats[t] < MaxBeats
    /\ wait' = [wait EXCEPT ![t] = "expired"]
    /\ beats' = [beats EXCEPT ![t] = beats[t] + 1]
    /\ UNCHANGED <<next, timers, repeating, posted, ran, running, historyVars>>

HandlerReady(t) == running /\ wait[t] \in {"expired", "aborted"}

Post(t) == posted' = [posted EXCEPT ![t] = posted[t] + 1]

(* Mutant: the handler of a single shot timer waits again.                 *)
SingleShotRepeats(t) ==
    /\ HandlerReady(t)
    /\ t \notin repeating
    /\ IF wait[t] = "expired" THEN Post(t) ELSE UNCHANGED posted
    /\ timers' = IF wait[t] = "expired" THEN timers ELSE timers \ {t}
    /\ wait' = [wait EXCEPT ![t] = IF wait[t] = "expired" THEN "pending" ELSE "none"]
    /\ UNCHANGED <<next, repeating, beats, ran, running, historyVars>>

(* The handler of a single shot timer: it posts the callback unless there  *)
(* is an error, and erases some token.  A timer that is destroyed aborts   *)
(* its wait.                                                               *)
single_shot_handler(t) ==
    /\ HandlerReady(t)
    /\ t \notin repeating
    /\ IF wait[t] = "expired" THEN Post(t) ELSE UNCHANGED posted
    /\ \E token \in Tokens \cup {MaxTimers} :
          /\ timers' = timers \ {token}
          /\ wait' = [u \in Tokens |->
                         IF u = t THEN "none"
                         ELSE IF u = token THEN Abort(u)[u]
                         ELSE wait[u]]
          /\ stray' = IF token \in timers \ {t} THEN stray \cup {token} ELSE stray
    /\ UNCHANGED <<next, repeating, beats, ran, running, stopped>>

(* Mutant: an aborted repeater stays in the map.                           *)
AbortLeavesTimer(t) ==
    /\ HandlerReady(t)
    /\ t \in repeating
    /\ wait[t] = "aborted"
    /\ wait' = [wait EXCEPT ![t] = "none"]
    /\ UNCHANGED <<next, timers, repeating, taskVars, running, historyVars>>

(* handler of a repeating timer that was aborted.                          *)
handler_aborted(t) ==
    /\ HandlerReady(t)
    /\ t \in repeating
    /\ wait[t] = "aborted"
    /\ timers' = timers \ {t}
    /\ wait' = [wait EXCEPT ![t] = "none"]
    /\ UNCHANGED <<next, repeating, taskVars, running, historyVars>>

(* Mutant: the timer is not armed again.                                   *)
HandlerForgetsToRearm(t) ==
    /\ HandlerReady(t)
    /\ t \in repeating
    /\ wait[t] = "expired"
    /\ Post(t)
    /\ running' = (t \in timers)
    /\ wait' = [wait EXCEPT ![t] = "none"]
    /\ UNCHANGED <<next, timers, repeating, beats, ran, historyVars>>

(* handler of one that expired: it posts, looks the timer up and waits     *)
(* again; without the timer it throws, out of io_context::run.             *)
handler_expired(t) ==
    /\ HandlerReady(t)
    /\ t \in repeating
    /\ wait[t] = "expired"
    /\ Post(t)
    /\ running' = (t \in timers)
    /\ wait' = [wait EXCEPT ![t] = IF t \in timers THEN "pending" ELSE "none"]
    /\ UNCHANGED <<next, timers, repeating, beats, ran, historyVars>>

handler(t) == handler_aborted(t) \/ handler_expired(t)

(* Mutant: a callback runs whether or not it was posted.                   *)
RunCallbackUnposted(t) ==
    /\ running
    /\ t < next
    /\ ran[t] < MaxBeats
    /\ posted' = [posted EXCEPT ![t] = posted[t] - 1]
    /\ ran' = [ran EXCEPT ![t] = ran[t] + 1]
    /\ UNCHANGED <<next, timers, repeating, wait, beats, running, historyVars>>

RunCallback(t) ==
    /\ running
    /\ posted[t] > 0
    /\ posted' = [posted EXCEPT ![t] = posted[t] - 1]
    /\ ran' = [ran EXCEPT ![t] = ran[t] + 1]
    /\ UNCHANGED <<next, timers, repeating, wait, beats, running, historyVars>>

Next ==
    \/ schedule_relative_callback \/ schedule_repeating_callback
    \/ \E t \in Tokens :
          \/ cancel_callback(t)
          \/ Expire(t) \/ single_shot_handler(t)
          \/ handler_aborted(t) \/ handler_expired(t)
          \/ RunCallback(t)

(* The clock advances and whatever is in the queue runs.                   *)
Fairness ==
    \A t \in Tokens :
        /\ WF_vars(Expire(t))
        /\ WF_vars(single_shot_handler(t) \/ handler(t))
        /\ WF_vars(RunCallback(t))

Spec == Init /\ [][Next]_vars /\ Fairness

-----------------------------------------------------------------------------
TypeOK ==
    /\ next \in Nat
    /\ timers \subseteq Tokens
    /\ repeating \subseteq Tokens
    /\ wait \in [Tokens -> Waits]
    /\ beats \in [Tokens -> Nat]
    /\ posted \in [Tokens -> Nat]
    /\ ran \in [Tokens -> Nat]
    /\ running \in BOOLEAN
    /\ stopped \subseteq Tokens
    /\ stray \subseteq Tokens

Single(t) == t < next /\ t \notin repeating

(* What erasing by a token that is out of scope can and cannot do.  A      *)
(* timer that waits is in the map, unless another handler erased it, and   *)
(* then it does not wait any longer.  A timer in the map waits, unless it  *)
(* is a single shot one that has expired: these may stay, and repeaters    *)
(* that are cancelled go, the reverse of the TODO in cancel_callback,      *)
(* "single shot timers clean themselves up, repeaters do not".  And the    *)
(* exception in handler means that a repeater was erased by somebody else: *)
(* its own cancellation, or one that comes after it has expired, never     *)
(* leads to it.                                                            *)
TimersAccounted ==
    /\ \A t \in Tokens :
          /\ wait[t] # "none" => t \in timers \/ t \in stray
          /\ t \in stray => wait[t] # "pending"
          /\ t \in timers /\ wait[t] = "none" => Single(t)
    /\ ~running => stray \cap repeating # {}

(* Every callback that is due comes once.  A single shot timer that has    *)
(* ended without being cancelled in time or erased has called back, or has *)
(* its callback queued, once; a repeating one as often as it has expired   *)
(* and its handler has run.                                                *)
CallbacksCounted ==
    \A t \in Tokens :
        /\ ran[t] + posted[t] + (IF wait[t] = "expired" THEN 1 ELSE 0) = beats[t]
        /\ Single(t) => beats[t] <= 1
        /\ Single(t) /\ wait[t] \in {"none", "expired"} /\ t \notin stopped \cup stray
              => beats[t] = 1

StaysCancelled ==
    \A t \in stopped :
        /\ wait[t] \in {"aborted", "none"} /\ wait'[t] \in {"aborted", "none"}
        /\ posted'[t] <= posted[t]

(* A timer that was cancelled while its wait was pending is never armed    *)
(* again and posts nothing more: the callback runs again only if it was    *)
(* posted before.  (A repeater that is cancelled after it has expired is   *)
(* armed again, and its cancellation lost.)                                *)
CancellationIsFinal == [][StaysCancelled]_vars

(* Unless it is stopped in time, erased by another one or the exception    *)
(* has ended the io_context, a single shot timer calls back, and a         *)
(* repeating one does so again and again (up to the bound), also when it   *)
(* was cancelled too late.                                                 *)
CallbacksRun ==
    \A t \in Tokens :
        wait[t] = "pending" ~>
            \/ ran[t] = IF t \in repeating THEN MaxBeats ELSE 1
            \/ t \in stopped \cup stray
            \/ ~running
=============================================================================
