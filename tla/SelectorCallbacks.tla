--------------------------- MODULE SelectorCallbacks ---------------------------
(***************************************************************************)
(* The functions that other threads hand to a Selector                     *)
(* (whisperlib/net/selector.{h,cc}): the queue to_run_ with its flag       *)
(* have_to_run_ and its wake-up descriptor, the loop that runs the queued  *)
(* functions, and SelectorThread, which starts and stops the loop.         *)
(*                                                                         *)
(* Descriptors and alarms are the business of SelectorPoll, SelectorAlarms: *)
(* here a step of poll() ends because of the wake-up descriptor, because   *)
(* of its timeout, or with an error.                                       *)
(***************************************************************************)
EXTENDS Integers, Sequences, FiniteSets

CONSTANTS
    Threads,        \* the threads that use the selector
    Controllers,    \* those of them that call Start and Stop
    MaxPerEvent,    \* params_.max_num_callbacks_per_event
    LoopTimesOut,   \* default_loop_timeout is finite
    Kinds,          \* what functions do: a subset of {"plain", "again", "exit"}
    MaxCallbacks,   \* bound on the functions ever queued from outside
    MaxFailures     \* bound on the failures of poll()

ASSUME ThreadsAssumption == Controllers \subseteq Threads /\ "free" \notin Threads

ASSUME BoundsAssumption ==
    /\ MaxPerEvent \in Nat \ {0} /\ MaxCallbacks \in Nat /\ MaxFailures \in Nat
    /\ LoopTimesOut \in BOOLEAN

ASSUME KindsAssumption == Kinds \subseteq {"plain", "again", "exit"}

VARIABLES
    to_run,        \* to_run_
    have_to_run,   \* have_to_run_
    lock,          \* the holder of to_run_mutex_, or "free"
    signalled,     \* something can be read from output_signal_fd_
    should_end,    \* should_end_
    tid,           \* tid_ # 0
    lpc,           \* where the thread in SelectorThread::Run is; "off": none
    zero_timeout,  \* loop_timeout = 0 in this step
    batch,         \* to_run of RunCallbacks
    run_count,     \* run_count of LoopCallbacks
    num_run,       \* num_run of RunCallbacks
    tpc,           \* where every other thread is
    stopping,      \* the thread is inside Stop
    thread,        \* thread_ # nullptr
    is_started,    \* is_started_
    next_id,       \* number of functions queued from outside, which names them
    ran,           \* history: the functions that were run
    failures       \* number of failures of poll()

queue   == <<to_run, have_to_run, lock>>
loop    == <<lpc, zero_timeout, batch, run_count, num_run>>
callers == <<tpc, stopping>>
owner   == <<thread, is_started>>
hist    == <<next_id, ran>>
callbacksVars == <<queue, signalled, should_end, tid, loop, callers, owner, hist, failures>>

Callbacks == [id : 1 .. MaxCallbacks, kind : {"plain", "again", "exit"}]

LoopSteps == {"off", "begin", "settid", "top", "timeout", "poll", "test",
              "clear", "pop", "run", "close"}

CallbacksTypeOK ==
    /\ to_run \in Seq(Callbacks) /\ have_to_run \in BOOLEAN
    /\ lock \in Threads \cup {"free"}
    /\ signalled \in BOOLEAN /\ should_end \in BOOLEAN /\ tid \in BOOLEAN
    /\ lpc \in LoopSteps /\ zero_timeout \in BOOLEAN
    /\ batch \in Seq(Callbacks)
    /\ run_count \in 0 .. MaxPerEvent /\ num_run \in 0 .. MaxPerEvent
    /\ tpc \in [Threads -> {"idle", "flag", "signal", "exit", "join"}]
    /\ stopping \in [Threads -> BOOLEAN]
    /\ thread \in BOOLEAN /\ is_started \in BOOLEAN
    /\ next_id \in 0 .. MaxCallbacks /\ ran \subseteq 1 .. MaxCallbacks
    /\ failures \in 0 .. MaxFailures

CallbacksInit ==
    /\ to_run = <<>> /\ have_to_run = FALSE /\ lock = "free"
    /\ signalled = FALSE /\ should_end = FALSE /\ tid = FALSE
    /\ lpc = "off" /\ zero_timeout = FALSE
    /\ batch = <<>> /\ run_count = 0 /\ num_run = 0
    /\ tpc = [t \in Threads |-> "idle"] /\ stopping = [t \in Threads |-> FALSE]
    /\ thread = FALSE /\ is_started = FALSE
    /\ next_id = 0 /\ ran = {}
    /\ failures = 0

-----------------------------------------------------------------------------
(* RunInSelectLoop(callback), called outside of the loop's thread.         *)

\* the bound on the functions, with a place kept for every Stop() under way
Room == next_id + Cardinality({t \in Threads : tpc[t] = "exit"}) < MaxCallbacks

\* to_run_.emplace_back(callback), with to_run_mutex_ held from here
Push(t, kind) ==
    /\ lock = "free"
    /\ lock' = t
    /\ next_id' = next_id + 1
    /\ to_run' = Append(to_run, [id |-> next_id + 1, kind |-> kind])
    /\ tpc' = [tpc EXCEPT ![t] = "flag"]
    /\ UNCHANGED <<have_to_run, signalled, should_end, tid, loop, owner, ran,
                   failures>>

RunInSelectLoop(t, kind) ==
    /\ tpc[t] = "idle"
    /\ Room
    /\ Push(t, kind)
    /\ UNCHANGED stopping

\* have_to_run_.store(true), and the mutex is released
SetFlag(t) ==
    /\ tpc[t] = "flag"
    /\ have_to_run' = TRUE
    /\ lock' = "free"
    /\ tpc' = [tpc EXCEPT ![t] = "signal"]
    /\ UNCHANGED <<to_run, signalled, should_end, tid, loop, stopping, owner, hist,
                   failures>>

\* faulty variant: no byte is written
SendNoWakeSignal(t) ==
    /\ tpc[t] = "signal"
    /\ signalled' = signalled
    /\ tpc' = [tpc EXCEPT ![t] = IF stopping[t] THEN "join" ELSE "idle"]
    /\ UNCHANGED <<queue, should_end, tid, loop, stopping, owner, hist, failures>>

\* SendWakeSignal(); a pipe too full for the byte is readable all the same
SendWakeSignal(t) ==
    /\ tpc[t] = "signal"
    /\ signalled' = TRUE
    /\ tpc' = [tpc EXCEPT ![t] = IF stopping[t] THEN "join" ELSE "idle"]
    /\ UNCHANGED <<queue, should_end, tid, loop, stopping, owner, hist, failures>>

-----------------------------------------------------------------------------
(* SelectorThread                                                          *)

\* faulty variant: is_started_ is not tested
StartWhileStopping(t) ==
    /\ tpc[t] = "idle"
    /\ ~thread
    /\ thread' = TRUE /\ is_started' = TRUE
    /\ lpc' = "begin"
    /\ UNCHANGED <<queue, signalled, should_end, tid, zero_timeout, batch,
                   run_count, num_run, callers, hist, failures>>

\* Start(), under mutex_
Start(t) ==
    /\ tpc[t] = "idle"
    /\ ~thread /\ ~is_started
    /\ thread' = TRUE /\ is_started' = TRUE
    /\ lpc' = "begin"
    /\ UNCHANGED <<queue, signalled, should_end, tid, zero_timeout, batch,
                   run_count, num_run, callers, hist, failures>>

\* Stop() moves thread_ away under mutex_; it returns false if there is none
StopTakeThread(t) ==
    /\ tpc[t] = "idle"
    /\ thread
    /\ Room
    /\ thread' = FALSE
    /\ stopping' = [stopping EXCEPT ![t] = TRUE]
    /\ tpc' = [tpc EXCEPT ![t] = "exit"]
    /\ UNCHANGED <<queue, signalled, should_end, tid, loop, is_started, hist,
                   failures>>

\* MakeLoopExit() of a thread that is not the loop's queues a function
MakeLoopExit(t) ==
    /\ tpc[t] = "exit"
    /\ Push(t, "exit")
    /\ UNCHANGED stopping

\* join() returns once the loop's thread ended, then is_started_ is cleared
StopJoin(t) ==
    /\ tpc[t] = "join"
    /\ lpc = "off"
    /\ is_started' = FALSE
    /\ stopping' = [stopping EXCEPT ![t] = FALSE]
    /\ tpc' = [tpc EXCEPT ![t] = "idle"]
    /\ UNCHANGED <<queue, signalled, should_end, tid, loop, thread, hist, failures>>

-----------------------------------------------------------------------------
(* Selector::Loop()                                                        *)

LoopBegin ==
    /\ lpc = "begin"
    /\ should_end' = FALSE
    /\ lpc' = "settid"
    /\ UNCHANGED <<queue, signalled, tid, zero_timeout, batch, run_count, num_run,
                   callers, owner, hist, failures>>

LoopSetTid ==
    /\ lpc = "settid"
    /\ tid' = TRUE
    /\ lpc' = "top"
    /\ UNCHANGED <<queue, signalled, should_end, zero_timeout, batch, run_count,
                   num_run, callers, owner, hist, failures>>

LoopTop ==
    /\ lpc = "top"
    /\ lpc' = IF should_end THEN "close" ELSE "timeout"
    /\ UNCHANGED <<queue, signalled, should_end, tid, zero_timeout, batch, run_count,
                   num_run, callers, owner, hist, failures>>

\* have_to_run_ is read without the mutex
LoopTimeout ==
    /\ lpc = "timeout"
    /\ zero_timeout' = have_to_run
    /\ lpc' = "poll"
    /\ UNCHANGED <<queue, signalled, should_end, tid, batch, run_count, num_run,
                   callers, owner, hist, failures>>

\* loop_->LoopStep(loop_timeout) returns
LoopStep ==
    /\ lpc = "poll"
    /\ zero_timeout \/ signalled \/ LoopTimesOut
    /\ lpc' = "test"
    /\ zero_timeout' = FALSE
    /\ run_count' = 0
    /\ UNCHANGED <<queue, signalled, should_end, tid, batch, num_run, callers, owner,
                   hist, failures>>

\* ASSIGN_OR_RETURN leaves Loop() without any cleaning
LoopStepFails ==
    /\ lpc = "poll"
    /\ failures < MaxFailures
    /\ failures' = failures + 1
    /\ lpc' = "off"
    /\ zero_timeout' = FALSE
    /\ UNCHANGED <<queue, signalled, should_end, tid, batch, run_count, num_run,
                   callers, owner, hist>>

\* the condition of the while in LoopCallbacks()
TestCallbacks ==
    /\ lpc = "test"
    /\ lpc' = IF have_to_run /\ run_count < MaxPerEvent THEN "clear" ELSE "top"
    /\ UNCHANGED <<queue, signalled, should_end, tid, zero_timeout, batch, run_count,
                   num_run, callers, owner, hist, failures>>

\* RunCallbacks() empties the descriptor before it looks at the queue
ClearSignalFd ==
    /\ lpc = "clear"
    /\ signalled' = FALSE
    /\ lpc' = "pop"
    /\ UNCHANGED <<queue, should_end, tid, zero_timeout, batch, run_count, num_run,
                   callers, owner, hist, failures>>

\* faulty variant: the flag is cleared with functions left
PopForgetsRest ==
    /\ lpc = "pop"
    /\ lock = "free"
    /\ LET room == MaxPerEvent - run_count
           n == IF Len(to_run) < room THEN Len(to_run) ELSE room
       IN /\ batch' = SubSeq(to_run, 1, n)
          /\ to_run' = SubSeq(to_run, n + 1, Len(to_run))
    /\ have_to_run' = FALSE
    /\ num_run' = 0
    /\ lpc' = "run"
    /\ UNCHANGED <<lock, signalled, should_end, tid, zero_timeout, run_count,
                   callers, owner, hist, failures>>

\* faulty variant: what exceeds the limit is dropped
PopDropsRest ==
    /\ lpc = "pop"
    /\ lock = "free"
    /\ LET room == MaxPerEvent - run_count
           n == IF Len(to_run) < room THEN Len(to_run) ELSE room
       IN /\ batch' = SubSeq(to_run, 1, n)
          /\ to_run' = <<>>
    /\ have_to_run' = (to_run' # <<>>)
    /\ num_run' = 0
    /\ lpc' = "run"
    /\ UNCHANGED <<lock, signalled, should_end, tid, zero_timeout, run_count,
                   callers, owner, hist, failures>>

\* PopCallbacks(max_num_to_run), under to_run_mutex_
PopCallbacks ==
    /\ lpc = "pop"
    /\ lock = "free"
    /\ LET room == MaxPerEvent - run_count
           n == IF Len(to_run) < room THEN Len(to_run) ELSE room
       IN /\ batch' = SubSeq(to_run, 1, n)
          /\ to_run' = SubSeq(to_run, n + 1, Len(to_run))
    /\ have_to_run' = (to_run' # <<>>)
    /\ num_run' = 0
    /\ lpc' = "run"
    /\ UNCHANGED <<lock, signalled, should_end, tid, zero_timeout, run_count,
                   callers, owner, hist, failures>>

\* to_run.front()(): a plain function, one that queues itself again (in the
\* loop's thread, so without a signal), or one that ends the loop.  The test
\* absl::Time() < deadline compares the epoch and never ends the batch.
RunOne ==
    /\ lpc = "run"
    /\ batch # <<>>
    /\ LET f == Head(batch)
       IN /\ ran' = ran \cup {f.id}
          /\ should_end' = (should_end \/ f.kind = "exit")
          /\ f.kind = "again" => lock = "free"
          /\ to_run' = IF f.kind = "again" THEN Append(to_run, f) ELSE to_run
          /\ have_to_run' = (have_to_run \/ f.kind = "again")
    /\ batch' = Tail(batch)
    /\ num_run' = num_run + 1
    /\ UNCHANGED <<lock, signalled, tid, lpc, zero_timeout, run_count, callers,
                   owner, next_id, failures>>

\* faulty variant: run_count is not added up
RunCallbacksNotCounted ==
    /\ lpc = "run"
    /\ batch = <<>>
    /\ run_count' = 0
    /\ lpc' = IF num_run = 0 THEN "top" ELSE "test"
    /\ num_run' = 0
    /\ UNCHANGED <<queue, signalled, should_end, tid, zero_timeout, batch, callers,
                   owner, hist, failures>>

\* nothing is left for PrependCallbacks(); LoopCallbacks() returns on n = 0
RunCallbacksEnd ==
    /\ lpc = "run"
    /\ batch = <<>>
    /\ run_count' = run_count + num_run
    /\ lpc' = IF num_run = 0 THEN "top" ELSE "test"
    /\ num_run' = 0
    /\ UNCHANGED <<queue, signalled, should_end, tid, zero_timeout, batch, callers,
                   owner, hist, failures>>

\* CleanAndCloseAll(), call_on_close_, and the thread ends; tid_ stays
LoopClose ==
    /\ lpc = "close"
    /\ lpc' = "off"
    /\ run_count' = 0
    /\ UNCHANGED <<queue, signalled, should_end, tid, zero_timeout, batch, num_run,
                   callers, owner, hist, failures>>

-----------------------------------------------------------------------------
CallerStep(t) == SetFlag(t) \/ SendWakeSignal(t) \/ MakeLoopExit(t) \/ StopJoin(t)

LoopThread ==
    \/ LoopBegin \/ LoopSetTid \/ LoopTop \/ LoopTimeout \/ LoopStep
    \/ TestCallbacks \/ ClearSignalFd \/ PopCallbacks \/ RunOne
    \/ RunCallbacksEnd \/ LoopClose

CallbacksNext ==
    \/ \E t \in Threads, k \in Kinds : RunInSelectLoop(t, k)
    \/ \E t \in Controllers : Start(t) \/ StopTakeThread(t)
    \/ \E t \in Threads : CallerStep(t)
    \/ LoopThread
    \/ LoopStepFails

CallbacksSpec == CallbacksInit /\ [][CallbacksNext]_callbacksVars

(* The threads inside a call, and the thread of the loop, are scheduled.   *)
(* Nothing makes a thread call the selector, nor makes poll() fail.        *)
CallbacksFairness == WF_callbacksVars(LoopThread) /\ \A t \in Threads : WF_callbacksVars(CallerStep(t))

CallbacksFairSpec == CallbacksSpec /\ CallbacksFairness

-----------------------------------------------------------------------------
(* Properties                                                              *)

Ids(s) == {s[i].id : i \in DOMAIN s}

(* The loop never sleeps on a queued function: while it waits in poll()    *)
(* with a timeout, the wake-up descriptor is readable or a thread that has *)
(* just queued is about to write to it.                                    *)
NoLostWakeup ==
    lpc = "poll" /\ ~zero_timeout /\ to_run # <<>> =>
        signalled \/ \E t \in Threads : tpc[t] \in {"flag", "signal"}

(* A function handed over is queued, in the batch being run, or was run,   *)
(* whatever stops, restarts and failures of the loop happened meanwhile.   *)
NoCallbackLost == ran \cup Ids(to_run) \cup Ids(batch) = 1 .. next_id

(* Functions are run in the order in which they were queued.               *)
RunInOrder == \A i \in ran : \A j \in 1 .. i : j \in ran

(* Start() never puts a second thread into the loop, and Stop() does not   *)
(* return before the thread has left it.                                   *)
OneLoopThread ==
    [][/\ ~thread /\ thread' => lpc = "off"
       /\ is_started /\ ~is_started' => lpc = "off" /\ ~thread]_callbacksVars

(* A function queued while the loop is alive is run, unless the loop ends, *)
(* even when poll() has no timeout to fall back on: again and again, all   *)
(* of those queued have run.                                               *)
CallbackRuns == []<>(Ids(to_run) \cup Ids(batch) \subseteq ran \/ lpc = "off")

(* Functions that queue themselves again do not keep the loop from its     *)
(* descriptors: it comes back to poll() or ends.                           *)
LoopReturnsToPoll == []<>(lpc \in {"poll", "off"})

(* A Stop() that took the thread returns.                                  *)
StopReturns == \A t \in Controllers : []<>(~stopping[t])

(* What Selector and SelectorThread keep, whatever threads queue, start    *)
(* and stop: a function is neither lost nor overtaken, with counts in      *)
(* range.                                                                  *)
CallbacksInv == CallbacksTypeOK /\ NoCallbackLost /\ RunInOrder

(* The loop moves on: functions that queue themselves again do not keep it *)
(* from its descriptors, and every Stop() that took the thread returns.    *)
LoopMovesOn == LoopReturnsToPoll /\ StopReturns
=============================================================================
