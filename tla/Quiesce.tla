------------------------------- MODULE Quiesce -------------------------------
(***************************************************************************)
(* The debounce timer that asks for a rescan once no message has arrived   *)
(* for a while (quiesce/mod.rs, quiesce/timer.rs).                         *)
(*                                                                         *)
(* The main thread calls process_message for every message of its loop:    *)
(* the running timer is ignored, a new one is scheduled, and the worker    *)
(* thread is notified.  The two requests go through a channel, which the   *)
(* worker drains before it fires what is due and goes to sleep.            *)
(*                                                                         *)
(* Time: timers have the same delay, so they fall due in the order of      *)
(* their ids; due is the last id whose time has come.  Ids are counted     *)
(* without their wrap-around at 2^64.                                      *)
(***************************************************************************)
EXTENDS Naturals, Sequences, Functions

CONSTANT MaxMessages     \* bound: how many messages restart the timer

ASSUME QuiesceAssumption == MaxMessages \in Nat

VARIABLES
    counter,      \* WatchTimer.counter
    timer_id,     \* Quiesce.timer_id, 0 for None
    main,         \* where the main thread is in restart_timer
    channel,      \* the requests the worker has not received
    schedule,     \* the ids in the worker's heap
    ignore,       \* ScheduleWorker.ignore
    worker,       \* where the worker is in run
    wake,         \* the id whose time ends the worker's sleep, 0 for none
    due,          \* the last id whose time has come
    fired         \* the ids whose RescanRequest was broadcast

mainVars == <<counter, timer_id, main>>
workerVars == <<schedule, ignore, worker, wake, fired>>
vars == <<mainVars, channel, workerVars, due>>

Id == 1 .. MaxMessages
Schedule(id) == [op |-> "Schedule", id |-> id]
Ignore(id) == [op |-> "Ignore", id |-> id]

TypeOK ==
    /\ counter \in 0 .. MaxMessages
    /\ timer_id \in 0 .. MaxMessages
    /\ main \in {"idle", "schedule", "notify"}
    /\ channel \in Seq([op : {"Schedule", "Ignore"}, id : Id])
    /\ schedule \subseteq Id
    /\ ignore \subseteq Id
    /\ worker \in {"drain", "fire", "gap", "asleep"}
    /\ wake \in 0 .. MaxMessages
    /\ due \in 0 .. MaxMessages
    /\ fired \subseteq Id

Init ==
    /\ counter = 0
    /\ timer_id = 0
    /\ main = "idle"
    /\ channel = <<>>
    /\ schedule = {}
    /\ ignore = {}
    /\ worker = "drain"
    /\ wake = 0
    /\ due = 0
    /\ fired = {}

-----------------------------------------------------------------------------
(* The main thread: process_message, for a message that is no rescan one.   *)

(* Seeded mistake: the running timer is not cancelled.                      *)
SendNoIgnore ==
    /\ main = "idle"
    /\ counter < MaxMessages
    /\ main' = "schedule"
    /\ UNCHANGED <<counter, timer_id, channel, workerVars, due>>

SendIgnore ==
    /\ main = "idle"
    /\ counter < MaxMessages
    /\ channel' = IF timer_id = 0 THEN channel ELSE Append(channel, Ignore(timer_id))
    /\ main' = "schedule"
    /\ UNCHANGED <<counter, timer_id, workerVars, due>>

SendSchedule ==
    /\ main = "schedule"
    /\ counter' = counter + 1
    /\ channel' = Append(channel, Schedule(counter + 1))
    /\ main' = "notify"
    /\ UNCHANGED <<timer_id, workerVars, due>>

(* Seeded mistake: the timer is cancelled after it is restarted.            *)
NotifyThenIgnore ==
    /\ main = "notify"
    /\ timer_id' = counter
    /\ channel' = Append(channel, Ignore(counter))
    /\ main' = "idle"
    /\ worker' = IF worker = "asleep" THEN "drain" ELSE worker
    /\ UNCHANGED <<counter, schedule, ignore, wake, fired, due>>

(* notify_one reaches the worker only while it waits on the condition       *)
(* variable; at any other time the notification is lost.                    *)
Notify ==
    /\ main = "notify"
    /\ timer_id' = counter
    /\ main' = "idle"
    /\ worker' = IF worker = "asleep" THEN "drain" ELSE worker
    /\ UNCHANGED <<counter, channel, schedule, ignore, wake, fired, due>>

-----------------------------------------------------------------------------
(* The worker thread: run.                                                  *)

(* Seeded mistake: ids are remembered that may have fired.                  *)
AlwaysIgnored(id) == {id}

(* Only a timer that is still in the heap is remembered as ignored.         *)
Ignored(id) == schedule \cap {id}

DrainOne ==
    /\ worker = "drain"
    /\ channel # <<>>
    /\ LET request == Head(channel)
       IN IF request.op = "Schedule"
          THEN schedule' = schedule \cup {request.id} /\ UNCHANGED ignore
          ELSE ignore' = ignore \cup Ignored(request.id) /\ UNCHANGED schedule
    /\ channel' = Tail(channel)
    /\ UNCHANGED <<mainVars, worker, wake, fired, due>>

DrainEnds ==
    /\ worker = "drain"
    /\ channel = <<>>
    /\ worker' = "fire"
    /\ UNCHANGED <<mainVars, channel, schedule, ignore, wake, fired, due>>

(* The top of the heap.                                                     *)
Peek == {id \in schedule : \A other \in schedule : id <= other}

has_event_now == \E id \in Peek : id <= due

Fire ==
    /\ worker = "fire"
    /\ has_event_now
    /\ \E id \in Peek :
          /\ schedule' = schedule \ {id}
          /\ ignore' = ignore \ {id}
          /\ fired' = IF id \in ignore THEN fired ELSE fired \cup {id}
    /\ UNCHANGED <<mainVars, channel, worker, wake, due>>

(* Seeded mistake: the worker sleeps without a time-out.                    *)
FireEndsUntimed ==
    /\ worker = "fire"
    /\ ~has_event_now
    /\ wake' = 0
    /\ worker' = "gap"
    /\ UNCHANGED <<mainVars, channel, schedule, ignore, fired, due>>

(* duration_until_next_event                                                *)
FireEnds ==
    /\ worker = "fire"
    /\ ~has_event_now
    /\ wake' \in IF schedule = {} THEN {0} ELSE Peek
    /\ worker' = "gap"
    /\ UNCHANGED <<mainVars, channel, schedule, ignore, fired, due>>

(* wait, or wait_timeout when there is a next timer.                        *)
Sleep ==
    /\ worker = "gap"
    /\ worker' = "asleep"
    /\ UNCHANGED <<mainVars, channel, schedule, ignore, wake, fired, due>>

TimedOut ==
    /\ worker = "asleep"
    /\ wake \in 1 .. due
    /\ worker' = "drain"
    /\ UNCHANGED <<mainVars, channel, schedule, ignore, wake, fired, due>>

(* A condition variable may wake up for no reason.                          *)
SpuriousWakeup ==
    /\ worker = "asleep"
    /\ worker' = "drain"
    /\ UNCHANGED <<mainVars, channel, schedule, ignore, wake, fired, due>>

(* The time of the next timer comes.                                        *)
Tick ==
    /\ due < counter
    /\ due' = due + 1
    /\ UNCHANGED <<mainVars, channel, workerVars>>

-----------------------------------------------------------------------------
WorkerRuns == DrainOne \/ DrainEnds \/ Fire \/ FireEnds \/ Sleep \/ TimedOut

Next ==
    \/ SendIgnore
    \/ SendSchedule
    \/ Notify
    \/ WorkerRuns
    \/ SpuriousWakeup
    \/ Tick

(* The worker thread runs, time passes, and the main thread completes a     *)
(* restart it has begun.  No message need come, and no spurious wake-up.    *)
Fairness ==
    /\ WF_vars(WorkerRuns)
    /\ WF_vars(Tick)
    /\ WF_vars(SendSchedule \/ Notify)

Spec == Init /\ [][Next]_vars
FairSpec == Spec /\ Fairness

-----------------------------------------------------------------------------
(* The set of ignored timers does not grow without bound: an id in it is    *)
(* still in the heap, and leaves it together with the timer; and a timer    *)
(* that has fired is not in the heap any more.                              *)
IgnoredAreScheduled ==
    /\ ignore \subseteq schedule
    /\ fired \cap schedule = {}

(* The newest timer is never lost, whatever the worker is doing when it is  *)
(* scheduled: its request is in the channel, or it is in the heap and not   *)
(* ignored, or it has fired.  Otherwise the last change before the system   *)
(* falls silent would never be taken in.                                    *)
NewestTimerLives ==
    counter > 0 /\ main # "schedule" =>
       \/ Schedule(counter) \in Range(channel)
       \/ counter \in schedule \ ignore
       \/ counter \in fired

(* A superseded timer fires only in the window in which the request to      *)
(* ignore it has not been drained: once it has, the rescan does not come    *)
(* before the system is quiet.                                              *)
FiresAreCurrent ==
    [][\A id \in fired' \ fired :
          \/ id = counter /\ main # "schedule"
          \/ Ignore(id) \in Range(channel)]_vars

(* A timer in the heap fires, or is superseded, without help from a further *)
(* message or a spurious wake-up.                                           *)
ScheduledFires ==
    \A id \in Id : id \in schedule ~> id \in fired \/ id \in ignore
=============================================================================
