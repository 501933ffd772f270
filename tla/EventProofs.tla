----------------------------- MODULE EventProofs -----------------------------
(***************************************************************************)
(* Theorems about how events travel, for any number of them: through the   *)
(* timer that waits for quiet (Quiesce, Debounce) and through the bus      *)
(* (UnitBroadcaster).                                                      *)
(***************************************************************************)
EXTENDS Debounce, UnitBroadcaster, TLAPS

-----------------------------------------------------------------------------
(***************************************************************************)
(* Proofs about Quiesce, for any number of messages, and about Debounce,   *)
(* for any number of writes and messages: the newest timer is never lost,  *)
(* only it fires, the timer in the composition is the timer of Quiesce,    *)
(* and dirty units are always followed by a rescan that is on its way.     *)
(***************************************************************************)

Message == [op : {"Schedule", "Ignore"}, id : Id]

(* Where restart_timer is decides which id timer_id holds; the newest id is *)
(* cancelled only between the two requests of restart_timer.                *)
MainInv ==
    /\ main \in {"idle", "schedule"} => timer_id = counter
    /\ main = "schedule" => counter < MaxMessages
    /\ main = "notify" => counter > 0
    /\ due <= counter

(* Timers are requested in the order of their ids, each one once.           *)
ChannelInv ==
    /\ \A n \in DOMAIN channel : channel[n].id <= counter
    /\ \A n \in DOMAIN channel :
          channel[n].op = "Ignore" /\ channel[n].id = counter => main = "schedule"
    /\ \A n \in DOMAIN channel : \A k \in DOMAIN channel :
          n < k /\ channel[n].op = "Schedule" /\ channel[k].op = "Schedule"
             => channel[n].id < channel[k].id

(* What the worker has of a timer, it has received.                         *)
WorkerInv ==
    /\ \A id \in schedule \cup fired : id <= counter
    /\ \A n \in DOMAIN channel : \A id \in schedule \cup fired :
          channel[n].op = "Schedule" => id < channel[n].id
    /\ counter \in ignore => main = "schedule"

QuiesceInv ==
    /\ TypeOK
    /\ MainInv
    /\ ChannelInv
    /\ WorkerInv
    /\ IgnoredAreScheduled
    /\ NewestTimerLives

(* A queue of requests, one longer or one shorter.                          *)
LEMMA Requests ==
    ASSUME NEW q \in Seq(Message)
    PROVE  /\ \A m \in Message :
                 /\ Append(q, m) \in Seq(Message)
                 /\ DOMAIN Append(q, m) = 1 .. Len(q) + 1
                 /\ \A n \in 1 .. Len(q) : Append(q, m)[n] = q[n]
                 /\ Append(q, m)[Len(q) + 1] = m
           /\ DOMAIN q = 1 .. Len(q)
           /\ Len(q) \in Nat
           /\ q # <<>> => /\ Head(q) \in Message
                          /\ Head(q) = q[1]
                          /\ Len(q) > 0
                          /\ Tail(q) \in Seq(Message)
                          /\ DOMAIN Tail(q) = 1 .. Len(q) - 1
                          /\ \A n \in 1 .. Len(q) - 1 : Tail(q)[n] = q[n + 1]
OBVIOUS

(* Membership in the channel, by position.                                  *)
LEMMA InChannel ==
    ASSUME NEW q, NEW m
    PROVE  m \in Range(q) <=> \E n \in DOMAIN q : q[n] = m
BY Zenon DEF Range

(* The invariant holds at the start.                                        *)
LEMMA QuiesceInit == Init => QuiesceInv
BY QuiesceAssumption DEF Init, QuiesceInv, TypeOK, MainInv, ChannelInv, WorkerInv,
   IgnoredAreScheduled, NewestTimerLives, Id, Message

(* restart_timer sends the request to ignore the running timer.             *)
LEMMA SendIgnoreInv ==
    ASSUME QuiesceInv, SendIgnore
    PROVE  QuiesceInv'
<1> USE QuiesceAssumption
<1>1. CASE timer_id = 0
    BY <1>1, Zenon DEF SendIgnore, QuiesceInv, TypeOK, MainInv, ChannelInv, WorkerInv,
                IgnoredAreScheduled, NewestTimerLives, workerVars
<1>2. CASE timer_id # 0
  <2>1. /\ Ignore(timer_id) \in Message
        /\ channel' = Append(channel, Ignore(timer_id))
        /\ channel \in Seq(Message)
      BY <1>2 DEF SendIgnore, QuiesceInv, TypeOK, Ignore, Id, Message
  <2>2. /\ DOMAIN channel' = 1 .. Len(channel) + 1
        /\ DOMAIN channel = 1 .. Len(channel)
        /\ Len(channel) \in Nat
        /\ \A n \in 1 .. Len(channel) : channel'[n] = channel[n]
        /\ channel'[Len(channel) + 1] = Ignore(timer_id)
        /\ channel' \in Seq(Message)
      BY <2>1, Requests, Zenon
  <2>3. TypeOK' /\ MainInv'
      BY <2>2, Zenon DEF SendIgnore, QuiesceInv, TypeOK, MainInv, Message, workerVars
  <2>4. ChannelInv'
      BY <2>2 DEF SendIgnore, QuiesceInv, TypeOK, MainInv, ChannelInv, Ignore
  <2>5. WorkerInv'
      BY <2>2 DEF SendIgnore, QuiesceInv, TypeOK, WorkerInv, Ignore, workerVars
  <2>6. IgnoredAreScheduled' /\ NewestTimerLives'
      BY Zenon DEF SendIgnore, QuiesceInv, IgnoredAreScheduled, NewestTimerLives, workerVars
  <2>7. QED
      BY <2>3, <2>4, <2>5, <2>6, Zenon DEF QuiesceInv
<1>3. QED
    BY <1>1, <1>2, Zenon

(* restart_timer schedules the next timer.                                  *)
LEMMA SendScheduleInv ==
    ASSUME QuiesceInv, SendSchedule
    PROVE  QuiesceInv'
<1> USE QuiesceAssumption
<1>1. /\ Schedule(counter + 1) \in Message
      /\ channel' = Append(channel, Schedule(counter + 1))
      /\ channel \in Seq(Message)
      /\ counter \in Nat
      /\ counter' = counter + 1
    BY DEF SendSchedule, QuiesceInv, TypeOK, MainInv, Schedule, Id, Message
<1>2. /\ DOMAIN channel' = 1 .. Len(channel) + 1
      /\ DOMAIN channel = 1 .. Len(channel)
      /\ Len(channel) \in Nat
      /\ \A n \in 1 .. Len(channel) : channel'[n] = channel[n]
      /\ channel'[Len(channel) + 1] = Schedule(counter + 1)
      /\ channel' \in Seq(Message)
    BY <1>1, Requests, Zenon
<1>3. TypeOK' /\ MainInv'
    BY <1>1, <1>2 DEF SendSchedule, QuiesceInv, TypeOK, MainInv, Message, workerVars
<1>4. ChannelInv'
  <2>1. \A n \in 1 .. Len(channel) : channel[n] \in Message
      BY <1>1
  <2>2. QED
      BY <1>1, <1>2, <2>1 DEF SendSchedule, QuiesceInv, ChannelInv, Schedule, Message, Id
<1>5. WorkerInv'
    BY <1>1, <1>2 DEF SendSchedule, QuiesceInv, TypeOK, WorkerInv, IgnoredAreScheduled,
                      Schedule, workerVars, Id
<1>6. IgnoredAreScheduled'
    BY Zenon DEF SendSchedule, QuiesceInv, IgnoredAreScheduled, workerVars
<1>7. NewestTimerLives'
  <2>1. Len(channel) + 1 \in DOMAIN channel' /\ channel'[Len(channel) + 1] = Schedule(counter')
      BY <1>1, <1>2
  <2>2. Schedule(counter') \in Range(channel')
      BY <2>1, Zenon DEF Range
  <2>3. QED
      BY <2>2, Zenon DEF NewestTimerLives, Schedule
<1>8. QED
    BY <1>3, <1>4, <1>5, <1>6, <1>7, Zenon DEF QuiesceInv

(* The worker takes a request out of the channel.                           *)
LEMMA DrainOneInv ==
    ASSUME QuiesceInv, DrainOne
    PROVE  QuiesceInv'
<1> USE QuiesceAssumption
<1>1. channel \in Seq(Message) /\ channel # <<>> /\ channel' = Tail(channel)
    BY Zenon DEF DrainOne, QuiesceInv, TypeOK, Message
<1>2. /\ DOMAIN channel = 1 .. Len(channel)
      /\ Len(channel) \in Nat
      /\ Len(channel) > 0
      /\ Head(channel) = channel[1]
      /\ channel[1] \in Message
      /\ channel' \in Seq(Message)
      /\ DOMAIN channel' = 1 .. Len(channel) - 1
      /\ \A n \in 1 .. Len(channel) - 1 : channel'[n] = channel[n + 1]
    BY <1>1, Requests, Zenon
<1>3. UNCHANGED <<counter, timer_id, main, worker, wake, fired, due>>
    BY Zenon DEF DrainOne, mainVars
<1>a. \A n \in DOMAIN channel' : /\ n \in Nat /\ n >= 1
                                 /\ n + 1 \in DOMAIN channel
                                 /\ channel'[n] = channel[n + 1]
    BY <1>2
<1>4. ChannelInv'
  <2>1. \A n \in DOMAIN channel' : channel'[n].id <= counter
      BY <1>3, <1>a, Zenon DEF QuiesceInv, ChannelInv
  <2>2. \A n \in DOMAIN channel' :
           channel'[n].op = "Ignore" /\ channel'[n].id = counter => main = "schedule"
      BY <1>3, <1>a, Zenon DEF QuiesceInv, ChannelInv
  <2>3. ASSUME NEW n \in DOMAIN channel', NEW k \in DOMAIN channel', n < k,
               channel'[n].op = "Schedule", channel'[k].op = "Schedule"
        PROVE  channel'[n].id < channel'[k].id
    <3>1. n + 1 \in DOMAIN channel /\ k + 1 \in DOMAIN channel /\ n + 1 < k + 1
        BY <1>a, <2>3
    <3>2. QED
        BY <1>a, <2>3, <3>1, Zenon DEF QuiesceInv, ChannelInv
  <2>4. QED
      BY <1>3, <2>1, <2>2, <2>3, Zenon DEF ChannelInv
<1>5. ASSUME NEW m, m \in Range(channel), m \notin Range(channel')
      PROVE  m = channel[1]
  <2>1. PICK n \in DOMAIN channel : channel[n] = m
      BY <1>5, Zenon DEF Range
  <2>2. CASE n = 1
      BY <2>1, <2>2, Zenon
  <2>3. CASE n # 1
    <3>1. n - 1 \in DOMAIN channel' /\ channel'[n - 1] = m
        BY <1>2, <2>1, <2>3
    <3>2. QED
        BY <1>5, <3>1, Zenon DEF Range
  <2>4. QED
      BY <2>2, <2>3, Zenon
<1>6. CASE channel[1].op = "Schedule"
  <2>1. schedule' = schedule \cup {channel[1].id} /\ ignore' = ignore
      BY <1>2, <1>6, Zenon DEF DrainOne
  <2>2. TypeOK' /\ MainInv'
      BY <1>2, <1>3, <2>1, Zenon DEF QuiesceInv, TypeOK, MainInv, Message
  <2>3. channel[1].id \in Id /\ channel[1].id <= counter /\ counter \in Nat
      BY <1>2 DEF QuiesceInv, TypeOK, ChannelInv, Message
  <2>4. \A n \in DOMAIN channel' : channel'[n].op = "Schedule" => channel[1].id < channel'[n].id
    <3>1. 1 \in DOMAIN channel
        BY <1>2
    <3>2. \A n \in DOMAIN channel' : 1 < n + 1
        BY <1>a
    <3>3. QED
        BY <1>a, <1>6, <3>1, <3>2, Zenon DEF QuiesceInv, ChannelInv
  <2>5. \A id \in schedule \cup fired : id < channel[1].id
      BY <1>2, <1>6 DEF QuiesceInv, WorkerInv
  <2>6. WorkerInv'
      BY <1>2, <1>3, <2>1, <2>3, <2>4 DEF QuiesceInv, WorkerInv
  <2>7. IgnoredAreScheduled'
      BY <1>3, <2>1, <2>3, <2>5 DEF QuiesceInv, IgnoredAreScheduled, Id
  <2>8. NewestTimerLives'
    <3>1. SUFFICES ASSUME counter > 0, main # "schedule", Schedule(counter) \notin Range(channel')
                   PROVE  counter \in schedule' \ ignore' \/ counter \in fired'
        BY <1>3, Zenon DEF NewestTimerLives, Schedule
    <3>2. CASE Schedule(counter) \in Range(channel)
      <4>1. channel[1] = Schedule(counter)
          BY <1>5, <3>1, <3>2, Zenon
      <4>2. counter \in schedule'
          BY <2>1, <4>1 DEF Schedule
      <4>3. QED
          BY <2>1, <3>1, <4>2, Zenon DEF QuiesceInv, WorkerInv
    <3>3. CASE Schedule(counter) \notin Range(channel)
        BY <1>3, <2>1, <3>1, <3>3, Zenon DEF QuiesceInv, NewestTimerLives
    <3>4. QED
        BY <3>2, <3>3, Zenon
  <2>9. QED
      BY <1>4, <2>2, <2>6, <2>7, <2>8, Zenon DEF QuiesceInv
<1>7. CASE channel[1].op # "Schedule"
  <2>1. schedule' = schedule /\ ignore' = ignore \cup (schedule \cap {channel[1].id})
      BY <1>2, <1>7, Zenon DEF DrainOne, Ignored
  <2>2. TypeOK' /\ MainInv'
      BY <1>2, <1>3, <2>1, Zenon DEF QuiesceInv, TypeOK, MainInv, Message
  <2>3. channel[1].id = counter => main = "schedule"
      BY <1>2, <1>7 DEF QuiesceInv, ChannelInv, Message
  <2>4. WorkerInv'
      BY <1>2, <1>3, <2>1, <2>3 DEF QuiesceInv, WorkerInv
  <2>5. IgnoredAreScheduled'
      BY <1>3, <2>1, Zenon DEF QuiesceInv, IgnoredAreScheduled
  <2>6. NewestTimerLives'
    <3>1. SUFFICES ASSUME counter > 0, main # "schedule", Schedule(counter) \notin Range(channel')
                   PROVE  counter \in schedule' \ ignore' \/ counter \in fired'
        BY <1>3, Zenon DEF NewestTimerLives, Schedule
    <3>2. Schedule(counter) \notin Range(channel)
        BY <1>5, <1>7, <3>1 DEF Schedule
    <3>3. QED
        BY <1>3, <2>1, <2>3, <3>1, <3>2, Zenon DEF QuiesceInv, NewestTimerLives
  <2>7. QED
      BY <1>4, <2>2, <2>4, <2>5, <2>6, Zenon DEF QuiesceInv
<1>8. QED
    BY <1>6, <1>7, Zenon

(* The worker takes the timer at the top of the heap out, and fires it      *)
(* unless it was cancelled.                                                 *)
LEMMA FireInv ==
    ASSUME QuiesceInv, Fire
    PROVE  QuiesceInv'
<1>1. PICK id \in schedule :
          /\ schedule' = schedule \ {id}
          /\ ignore' = ignore \ {id}
          /\ fired' = IF id \in ignore THEN fired ELSE fired \cup {id}
    BY Zenon DEF Fire, Peek
<1>2. UNCHANGED <<counter, timer_id, main, channel, worker, wake, due>>
    BY Zenon DEF Fire, mainVars
<1>3. TypeOK' /\ MainInv' /\ ChannelInv'
    BY <1>1, <1>2, Zenon DEF QuiesceInv, TypeOK, MainInv, ChannelInv
<1>4. WorkerInv'
    BY <1>1, <1>2, Zenon DEF QuiesceInv, WorkerInv
<1>5. IgnoredAreScheduled'
    BY <1>1, Zenon DEF QuiesceInv, IgnoredAreScheduled
<1>6. NewestTimerLives'
    BY <1>1, <1>2, Zenon DEF QuiesceInv, NewestTimerLives, Schedule
<1>7. QED
    BY <1>3, <1>4, <1>5, <1>6, Zenon DEF QuiesceInv

(* Steps that move no timer and no request.                                 *)
LEMMA OtherStepsInv ==
    ASSUME QuiesceInv,
           Notify \/ DrainEnds \/ FireEnds \/ Sleep \/ TimedOut \/ SpuriousWakeup \/ Tick
              \/ UNCHANGED vars
    PROVE  QuiesceInv'
<1> USE QuiesceAssumption
<1>1. UNCHANGED <<counter, channel, schedule, ignore, fired>>
    BY Zenon DEF Notify, DrainEnds, FireEnds, Sleep, TimedOut, SpuriousWakeup, Tick, mainVars,
           workerVars, vars
<1>2. \/ main' = main /\ timer_id' = timer_id
      \/ main = "notify" /\ main' = "idle" /\ timer_id' = counter
    BY Zenon DEF Notify, DrainEnds, FireEnds, Sleep, TimedOut, SpuriousWakeup, Tick, mainVars,
           workerVars, vars
<1>3. due' = due \/ (due < counter /\ due' = due + 1)
    BY Zenon DEF Notify, DrainEnds, FireEnds, Sleep, TimedOut, SpuriousWakeup, Tick, mainVars,
           workerVars, vars
<1>4. wake' \in 0 .. MaxMessages
  <2>1. CASE FireEnds
    <3>1. wake' = 0 \/ wake' \in schedule
        BY <2>1, Zenon DEF FireEnds, Peek
    <3>2. schedule \subseteq 0 .. MaxMessages
        BY DEF QuiesceInv, TypeOK, Id
    <3>3. 0 \in 0 .. MaxMessages
        BY QuiesceAssumption
    <3>4. QED
        BY <3>1, <3>2, <3>3, Zenon
  <2>2. CASE ~FireEnds
    <3>1. wake' = wake
        BY <2>2, Zenon DEF Notify, DrainEnds, Sleep, TimedOut, SpuriousWakeup, Tick, workerVars, vars
    <3>2. QED
        BY <3>1, Zenon DEF QuiesceInv, TypeOK
  <2>3. QED
      BY <2>1, <2>2, Zenon
<1>5. worker' \in {"drain", "fire", "gap", "asleep"}
    BY Zenon DEF QuiesceInv, TypeOK, Notify, DrainEnds, FireEnds, Sleep, TimedOut,
           SpuriousWakeup, Tick, mainVars, workerVars, vars
<1>6. TypeOK'
    BY <1>1, <1>2, <1>3, <1>4, <1>5 DEF QuiesceInv, TypeOK
<1>7. MainInv'
    BY <1>1, <1>2, <1>3 DEF QuiesceInv, TypeOK, MainInv
<1>8. ChannelInv' /\ WorkerInv'
    BY <1>1, <1>2, Zenon DEF QuiesceInv, ChannelInv, WorkerInv
<1>9. IgnoredAreScheduled' /\ NewestTimerLives'
    BY <1>1, <1>2, Zenon DEF QuiesceInv, IgnoredAreScheduled, NewestTimerLives, Schedule
<1>10. QED
    BY <1>6, <1>7, <1>8, <1>9, Zenon DEF QuiesceInv

(* The inductive invariant of the timer.                                    *)
THEOREM TimerInvariant == Spec => []QuiesceInv
<1>1. QuiesceInv /\ [Next]_vars => QuiesceInv'
    BY SendIgnoreInv, SendScheduleInv, DrainOneInv, FireInv, OtherStepsInv, Zenon
       DEF Next, WorkerRuns
<1>2. QED
    BY <1>1, QuiesceInit, PTL DEF Spec

(* The set of cancelled timers never outgrows the heap, however requests    *)
(* and due times interleave.                                                *)
THEOREM IgnoreSetIsBounded == Spec => []IgnoredAreScheduled
<1>1. QuiesceInv => IgnoredAreScheduled
    BY Zenon DEF QuiesceInv
<1>2. QED
    BY <1>1, TimerInvariant, PTL

(* The timer restarted last is never lost and never cancelled.              *)
THEOREM NewestTimerIsNeverLost == Spec => []NewestTimerLives
<1>1. QuiesceInv => NewestTimerLives
    BY Zenon DEF QuiesceInv
<1>2. QED
    BY <1>1, TimerInvariant, PTL

(* The types of the timer's state, for any number of messages.              *)
THEOREM TimerTypes == Spec => []TypeOK
<1>1. QuiesceInv => TypeOK
    BY Zenon DEF QuiesceInv
<1>2. QED
    BY <1>1, TimerInvariant, PTL

-----------------------------------------------------------------------------
(* The timer that is current: the newest, unless it is about to be replaced. *)
Current(id) == id = counter /\ main # "schedule"

(* A timer that is not the current one has its cancellation behind it in    *)
(* the channel, whether the worker has received the timer or not.           *)
CancelledInv ==
    /\ \A id \in schedule \ ignore :
          Current(id) \/ \E k \in DOMAIN channel : channel[k] = Ignore(id)
    /\ \A n \in DOMAIN channel : channel[n].op = "Schedule" =>
          \/ Current(channel[n].id)
          \/ \E k \in DOMAIN channel : n < k /\ channel[k] = Ignore(channel[n].id)

(* The running timer stops being current when its cancellation is sent.     *)
LEMMA SendIgnoreCancels ==
    ASSUME QuiesceInv, CancelledInv, SendIgnore
    PROVE  CancelledInv'
<1> USE QuiesceAssumption
<1>1. timer_id = counter /\ counter \in Nat /\ UNCHANGED <<counter, schedule, ignore>>
    BY DEF QuiesceInv, TypeOK, MainInv, SendIgnore, workerVars
<1>2. CASE timer_id = 0
  <2>1. channel' = channel
      BY <1>2, Zenon DEF SendIgnore
  <2>2. \A id \in schedule : id # counter
      BY <1>1, <1>2 DEF QuiesceInv, TypeOK, Id
  <2>3. \A n \in DOMAIN channel : channel[n].id # counter
    <3>1. channel \in Seq(Message)
        BY Zenon DEF QuiesceInv, TypeOK, Message
    <3>2. \A n \in DOMAIN channel : channel[n] \in Message
        BY <3>1
    <3>3. QED
        BY <1>1, <1>2, <3>2 DEF Message, Id
  <2>4. QED
      BY <1>1, <2>1, <2>2, <2>3, Zenon DEF CancelledInv, Current
<1>3. CASE timer_id # 0
  <2>1. /\ Ignore(counter) \in Message
        /\ channel' = Append(channel, Ignore(counter))
        /\ channel \in Seq(Message)
      BY <1>1, <1>3 DEF SendIgnore, QuiesceInv, TypeOK, Ignore, Id, Message
  <2>2. /\ DOMAIN channel' = 1 .. Len(channel) + 1
        /\ DOMAIN channel = 1 .. Len(channel)
        /\ Len(channel) \in Nat
        /\ \A n \in 1 .. Len(channel) : channel'[n] = channel[n]
        /\ channel'[Len(channel) + 1] = Ignore(counter)
      BY <2>1, Requests, Zenon
  <2>3. ASSUME NEW id \in schedule' \ ignore'
        PROVE  \E k \in DOMAIN channel' : channel'[k] = Ignore(id)
      BY <1>1, <2>2 DEF CancelledInv, Current
  <2>4. ASSUME NEW n \in DOMAIN channel', channel'[n].op = "Schedule"
        PROVE  \E k \in DOMAIN channel' : n < k /\ channel'[k] = Ignore(channel'[n].id)
    <3>1. n # Len(channel) + 1
        BY <2>2, <2>4 DEF Ignore
    <3>2. n \in DOMAIN channel /\ channel'[n] = channel[n]
        BY <2>2, <3>1
    <3>3. CASE Current(channel[n].id)
        BY <2>2, <3>2, <3>3 DEF Current
    <3>4. CASE ~Current(channel[n].id)
        BY <2>2, <2>4, <3>2, <3>4 DEF CancelledInv
    <3>5. QED
        BY <3>3, <3>4, Zenon
  <2>5. QED
      BY <2>3, <2>4, Zenon DEF CancelledInv
<1>4. QED
    BY <1>2, <1>3, Zenon

(* The new timer becomes the current one; the old one was cancelled.        *)
LEMMA SendScheduleCancels ==
    ASSUME QuiesceInv, CancelledInv, SendSchedule
    PROVE  CancelledInv'
<1> USE QuiesceAssumption
<1>1. /\ Schedule(counter + 1) \in Message
      /\ channel' = Append(channel, Schedule(counter + 1))
      /\ channel \in Seq(Message)
      /\ counter' = counter + 1
      /\ main = "schedule" /\ main' = "notify"
      /\ UNCHANGED <<schedule, ignore>>
    BY DEF SendSchedule, QuiesceInv, TypeOK, MainInv, Schedule, Id, Message, workerVars
<1>2. /\ DOMAIN channel' = 1 .. Len(channel) + 1
      /\ DOMAIN channel = 1 .. Len(channel)
      /\ Len(channel) \in Nat
      /\ \A n \in 1 .. Len(channel) : channel'[n] = channel[n]
      /\ channel'[Len(channel) + 1] = Schedule(counter + 1)
    BY <1>1, Requests, Zenon
<1>3. ASSUME NEW id \in schedule' \ ignore'
      PROVE  \E k \in DOMAIN channel' : channel'[k] = Ignore(id)
    BY <1>1, <1>2 DEF CancelledInv, Current
<1>4. ASSUME NEW n \in DOMAIN channel', channel'[n].op = "Schedule"
      PROVE  \/ channel'[n].id = counter' /\ main' # "schedule"
             \/ \E k \in DOMAIN channel' : n < k /\ channel'[k] = Ignore(channel'[n].id)
  <2>1. CASE n = Len(channel) + 1
      BY <1>1, <1>2, <2>1 DEF Schedule
  <2>2. CASE n # Len(channel) + 1
    <3>1. n \in DOMAIN channel /\ channel'[n] = channel[n]
        BY <1>2, <2>2
    <3>2. PICK k \in DOMAIN channel : n < k /\ channel[k] = Ignore(channel[n].id)
        BY <1>1, <1>4, <3>1, Zenon DEF CancelledInv, Current
    <3>3. QED
        BY <1>2, <3>1, <3>2
  <2>3. QED
      BY <2>1, <2>2, Zenon
<1>5. QED
    BY <1>3, <1>4, Zenon DEF CancelledInv, Current

(* The worker takes a request out of the channel: a timer together with its *)
(* cancellation's being behind it, or the cancellation of a timer.          *)
LEMMA DrainOneCancels ==
    ASSUME QuiesceInv, CancelledInv, DrainOne
    PROVE  CancelledInv'
<1>1. channel \in Seq(Message) /\ channel # <<>> /\ channel' = Tail(channel)
    BY Zenon DEF DrainOne, QuiesceInv, TypeOK, Message
<1>2. /\ DOMAIN channel = 1 .. Len(channel)
      /\ Len(channel) \in Nat
      /\ Len(channel) > 0
      /\ Head(channel) = channel[1]
      /\ DOMAIN channel' = 1 .. Len(channel) - 1
      /\ \A n \in 1 .. Len(channel) - 1 : channel'[n] = channel[n + 1]
    BY <1>1, Requests, Zenon
<1>3. UNCHANGED <<counter, main>>
    BY Zenon DEF DrainOne, mainVars
<1>4. ASSUME NEW n \in DOMAIN channel', channel'[n].op = "Schedule", ~Current(channel'[n].id)
      PROVE  \E k \in DOMAIN channel' : n < k /\ channel'[k] = Ignore(channel'[n].id)
  <2>1. n + 1 \in DOMAIN channel /\ channel[n + 1] = channel'[n]
      BY <1>2
  <2>2. PICK k \in DOMAIN channel : n + 1 < k /\ channel[k] = Ignore(channel'[n].id)
      BY <1>4, <2>1, Zenon DEF CancelledInv
  <2>3. k - 1 \in DOMAIN channel' /\ n < k - 1 /\ channel'[k - 1] = channel[k]
      BY <1>2, <2>2
  <2>4. QED
      BY <2>2, <2>3, Zenon
<1>5. ASSUME NEW id \in schedule' \ ignore', ~Current(id)
      PROVE  \E k \in DOMAIN channel' : channel'[k] = Ignore(id)
  <2>1. PICK k \in DOMAIN channel : k # 1 /\ channel[k] = Ignore(id)
    <3>1. CASE channel[1].op = "Schedule" /\ id = channel[1].id
      <4>1. 1 \in DOMAIN channel
          BY <1>2
      <4>2. QED
          BY <1>2, <1>5, <3>1, <4>1 DEF CancelledInv
    <3>2. CASE channel[1].op = "Schedule" /\ id # channel[1].id
      <4>1. id \in schedule \ ignore
          BY <1>2, <3>2, Zenon DEF DrainOne
      <4>2. QED
          BY <1>5, <3>2, <4>1 DEF CancelledInv, Ignore
    <3>3. CASE channel[1].op # "Schedule"
      <4>1. id \in schedule \ ignore /\ id # channel[1].id
          BY <1>2, <3>3, Zenon DEF DrainOne, Ignored
      <4>2. QED
          BY <1>5, <4>1 DEF CancelledInv, Ignore
    <3>4. QED
        BY <3>1, <3>2, <3>3, Zenon
  <2>2. k - 1 \in DOMAIN channel' /\ channel'[k - 1] = channel[k]
      BY <1>2, <2>1
  <2>3. QED
      BY <2>1, <2>2, Zenon
<1>6. QED
    BY <1>3, <1>4, <1>5, Zenon DEF CancelledInv, Current

(* Steps that send nothing and put no timer into the heap.                  *)
LEMMA OtherStepsCancel ==
    ASSUME QuiesceInv, CancelledInv,
           Notify \/ DrainEnds \/ Fire \/ FireEnds \/ Sleep \/ TimedOut \/ SpuriousWakeup
              \/ Tick \/ UNCHANGED vars
    PROVE  CancelledInv'
<1>1. UNCHANGED <<counter, channel>>
    BY Zenon DEF Notify, DrainEnds, Fire, FireEnds, Sleep, TimedOut, SpuriousWakeup, Tick,
           mainVars, workerVars, vars
<1>2. main # "schedule" => main' # "schedule"
    BY Zenon DEF Notify, DrainEnds, Fire, FireEnds, Sleep, TimedOut, SpuriousWakeup, Tick,
           mainVars, workerVars, vars
<1>3. schedule' \ ignore' \subseteq schedule \ ignore
    BY Zenon DEF Notify, DrainEnds, Fire, FireEnds, Sleep, TimedOut, SpuriousWakeup, Tick,
           mainVars, workerVars, vars
<1>4. QED
    BY <1>1, <1>2, <1>3, Zenon DEF CancelledInv, Current

(* Once the worker has drained the cancellation of a timer, that timer does *)
(* not ask for a rescan, for any number of messages and any interleaving.   *)
THEOREM OnlyCurrentTimersFire == Spec => FiresAreCurrent
<1>1. Init => CancelledInv
    BY DEF Init, CancelledInv
<1>2. QuiesceInv /\ CancelledInv /\ [Next]_vars => CancelledInv'
    BY SendIgnoreCancels, SendScheduleCancels, DrainOneCancels, OtherStepsCancel, Zenon
       DEF Next, WorkerRuns
<1>3. QuiesceInv /\ CancelledInv /\ [Next]_vars =>
         [\A id \in fired' \ fired :
            \/ id = counter /\ main # "schedule"
            \/ Ignore(id) \in Range(channel)]_vars
  <2> SUFFICES ASSUME QuiesceInv, CancelledInv, Next, NEW id \in fired' \ fired
               PROVE  Current(id) \/ Ignore(id) \in Range(channel)
      BY Zenon DEF Current
  <2>1. Fire
      BY Zenon DEF Next, WorkerRuns, SendIgnore, SendSchedule, Notify, DrainOne, DrainEnds,
             FireEnds, Sleep, TimedOut, SpuriousWakeup, Tick, workerVars
  <2>2. id \in schedule \ ignore
      BY <2>1, Zenon DEF Fire, Peek
  <2>3. QED
      BY <2>2, Zenon DEF CancelledInv, Range
<1>4. QED
    BY <1>1, <1>2, <1>3, TimerInvariant, PTL DEF Spec, FiresAreCurrent

-----------------------------------------------------------------------------
(* A message on the bus that leads to a rescan.                             *)
Pending(q) == \E n \in 1 .. Len(q) : q[n] # "RescanStart" /\ q[n] # "RescanFinish"

(* DirtyIsFollowed without its help from main: once the new timer is sent,  *)
(* a rescan is on its way.                                                  *)
FollowedInv ==
    dirty /\ main # "schedule" => Pending(bus) \/ (counter > 0 /\ counter \notin fired)

DebounceInv ==
    /\ QuiesceInv
    /\ bus \in Seq(BusMessage)
    /\ FollowedInv

-----------------------------------------------------------------------------
(* Every step of the composition is a step of the timer, or leaves it alone. *)
LEMMA TimerSteps == [DebounceNext]_allVars => [Next]_vars
<1> SUFFICES ASSUME DebounceNext \/ UNCHANGED allVars
             PROVE  Next \/ UNCHANGED vars
    BY Zenon
<1>1. CASE UNCHANGED allVars
    BY <1>1, Zenon DEF allVars
<1>2. CASE MainThread
    BY <1>2, Zenon DEF MainThread, ListDirectory, WatchBegins, MainTakes, MainRescans, MainPasses,
                MainRestarts, Next
<1>3. CASE FileWritten \/ OtherMessage
    BY <1>3, Zenon DEF FileWritten, OtherMessage
<1>4. CASE WorkerFires \/ WorkerGoesOn
    BY <1>4, Zenon DEF WorkerFires, WorkerGoesOn, Next, WorkerRuns
<1>5. CASE TimePasses \/ WakesUp
    BY <1>5, Zenon DEF TimePasses, WakesUp, Next
<1>6. QED
    BY <1>1, <1>2, <1>3, <1>4, <1>5, Zenon DEF DebounceNext

(* The main loop and the worker's broadcasts use the timer as Quiesce        *)
(* describes it, so that what is proved of the timer holds in the program.   *)
THEOREM CompositionKeepsTimer == DebounceSpec => Spec
<1>1. DebounceInit => Init
    BY Zenon DEF DebounceInit
<1>2. QED
    BY <1>1, TimerSteps, PTL DEF DebounceSpec, Spec

-----------------------------------------------------------------------------
(* Messages are added at the end of the bus and taken from its front.       *)
LEMMA PendingStays ==
    ASSUME NEW q \in Seq(BusMessage), NEW r \in Seq(BusMessage)
    PROVE  /\ q \o r \in Seq(BusMessage)
           /\ Pending(q) => Pending(q \o r)
           /\ Pending(r) => Pending(q \o r)
<1>1. /\ q \o r \in Seq(BusMessage)
      /\ Len(q \o r) = Len(q) + Len(r)
      /\ Len(q) \in Nat /\ Len(r) \in Nat
      /\ \A n \in 1 .. Len(q) : (q \o r)[n] = q[n]
      /\ \A n \in 1 .. Len(r) : (q \o r)[Len(q) + n] = r[n]
    OBVIOUS
<1>2. ASSUME Pending(q) PROVE Pending(q \o r)
    BY <1>1, <1>2 DEF Pending
<1>3. ASSUME Pending(r) PROVE Pending(q \o r)
  <2>1. PICK n \in 1 .. Len(r) : r[n] # "RescanStart" /\ r[n] # "RescanFinish"
      BY <1>3, Zenon DEF Pending
  <2>2. Len(q) + n \in 1 .. Len(q \o r)
      BY <1>1
  <2>3. QED
      BY <1>1, <2>1, <2>2, Zenon DEF Pending
<1>4. QED
    BY <1>1, <1>2, <1>3, Zenon

(* Appending is one message at the end.                                     *)
LEMMA PendingAppend ==
    ASSUME NEW q \in Seq(BusMessage), NEW msg \in BusMessage
    PROVE  /\ Append(q, msg) \in Seq(BusMessage)
           /\ Pending(q) => Pending(Append(q, msg))
           /\ msg \notin {"RescanStart", "RescanFinish"} => Pending(Append(q, msg))
<1>1. /\ Append(q, msg) \in Seq(BusMessage)
      /\ Len(Append(q, msg)) = Len(q) + 1
      /\ Len(q) \in Nat
      /\ \A n \in 1 .. Len(q) : Append(q, msg)[n] = q[n]
      /\ Append(q, msg)[Len(q) + 1] = msg
    OBVIOUS
<1>2. ASSUME Pending(q) PROVE Pending(Append(q, msg))
    BY <1>1, <1>2 DEF Pending
<1>3. ASSUME msg \notin {"RescanStart", "RescanFinish"} PROVE Pending(Append(q, msg))
  <2>1. Len(q) + 1 \in 1 .. Len(Append(q, msg))
      BY <1>1
  <2>2. QED
      BY <1>1, <1>3, <2>1, Zenon DEF Pending
<1>4. QED
    BY <1>1, <1>2, <1>3, Zenon

(* What a handler broadcasts is at most one message at a time.              *)
LEMMA OneMessage ==
    /\ <<>> \in Seq(BusMessage)
    /\ \A msg \in BusMessage : <<msg>> \in Seq(BusMessage)
OBVIOUS

(* Taking a message that says only that a rescan began or ended.            *)
LEMMA PendingTail ==
    ASSUME NEW q \in Seq(BusMessage), q # <<>>
    PROVE  /\ Head(q) \in BusMessage
           /\ Tail(q) \in Seq(BusMessage)
           /\ Head(q) \in {"RescanStart", "RescanFinish"} /\ Pending(q) => Pending(Tail(q))
<1>1. /\ Head(q) \in BusMessage
      /\ Head(q) = q[1]
      /\ Tail(q) \in Seq(BusMessage)
      /\ Len(q) \in Nat
      /\ Len(Tail(q)) = Len(q) - 1
      /\ \A n \in 1 .. Len(q) - 1 : Tail(q)[n] = q[n + 1]
    OBVIOUS
<1>2. ASSUME Head(q) \in {"RescanStart", "RescanFinish"}, Pending(q)
      PROVE  Pending(Tail(q))
  <2>1. PICK n \in 1 .. Len(q) : q[n] # "RescanStart" /\ q[n] # "RescanFinish"
      BY <1>2, Zenon DEF Pending
  <2>2. n - 1 \in 1 .. Len(Tail(q)) /\ Tail(q)[n - 1] = q[n]
      BY <1>1, <1>2, <2>1
  <2>3. QED
      BY <2>1, <2>2, Zenon DEF Pending
<1>3. QED
    BY <1>1, <1>2, Zenon

-----------------------------------------------------------------------------
(* The invariant holds at the start.                                        *)
LEMMA DebounceInvInit == DebounceInit => DebounceInv
<1>1. DebounceInit => QuiesceInv
    BY QuiesceInit, Zenon DEF DebounceInit
<1>2. DebounceInit => bus \in Seq(BusMessage) /\ FollowedInv
    BY DEF DebounceInit, FollowedInv
<1>3. QED
    BY <1>1, <1>2, Zenon DEF DebounceInv

(* A message that is handled restarts the timer: main is then about to      *)
(* schedule the new one.                                                    *)
LEMMA MainTakesInv ==
    ASSUME DebounceInv, MainTakes
    PROVE  bus' \in Seq(BusMessage) /\ FollowedInv'
<1>1. bus \in Seq(BusMessage) /\ bus # <<>> /\ bus' = Tail(bus) \o Answer(Head(bus))
    BY Zenon DEF DebounceInv, MainTakes
<1>2. Answer(Head(bus)) \in Seq(BusMessage)
  <2>1. Answer(Head(bus)) \in {<<"LoadStarted">>, <<"Category">>, <<>>}
      BY Zenon DEF Answer
  <2>2. "LoadStarted" \in BusMessage /\ "Category" \in BusMessage
      BY Zenon DEF BusMessage
  <2>3. QED
      BY <2>1, <2>2, OneMessage, Zenon
<1>3. bus' \in Seq(BusMessage)
    BY <1>1, <1>2, PendingTail, PendingStays, Zenon
<1>4. main' = "schedule"
    BY Zenon DEF MainTakes, SendIgnore
<1>5. QED
    BY <1>3, <1>4, Zenon DEF FollowedInv

(* A rescan leaves nothing dirty.                                           *)
LEMMA MainRescansInv ==
    ASSUME DebounceInv, MainRescans
    PROVE  bus' \in Seq(BusMessage) /\ FollowedInv'
<1>1. PICK news \in News : bus' = Tail(bus) \o <<"RescanStart">> \o news \o <<"RescanFinish">>
    BY Zenon DEF MainRescans
<1>2. /\ news \in Seq(BusMessage)
      /\ <<"RescanStart">> \in Seq(BusMessage)
      /\ <<"RescanFinish">> \in Seq(BusMessage)
  <2>1. news \in {<<>>, <<"Loaded">>}
      BY Zenon DEF News
  <2>2. {"Loaded", "RescanStart", "RescanFinish"} \subseteq BusMessage
      BY Zenon DEF BusMessage, AboutRescan
  <2>3. QED
      BY <2>1, <2>2, OneMessage, Zenon
<1>3. Tail(bus) \in Seq(BusMessage)
    BY PendingTail, Zenon DEF DebounceInv, MainRescans
<1>4. bus' \in Seq(BusMessage)
    BY <1>1, <1>2, <1>3, PendingStays, Zenon
<1>5. dirty' = FALSE
    BY Zenon DEF MainRescans
<1>6. QED
    BY <1>4, <1>5, Zenon DEF FollowedInv

(* Main takes note of a rescan's begin or end.                              *)
LEMMA MainPassesInv ==
    ASSUME DebounceInv, MainPasses
    PROVE  bus' \in Seq(BusMessage) /\ FollowedInv'
<1>1. Head(bus) \in {"RescanStart", "RescanFinish"}
    BY PendingTail, Zenon DEF DebounceInv, MainPasses, Restarts, AboutRescan
<1>2. bus' = Tail(bus) /\ UNCHANGED <<dirty, main, counter, fired>>
    BY Zenon DEF MainPasses, libraryVars, vars, mainVars, workerVars
<1>3. bus' \in Seq(BusMessage) /\ (Pending(bus) => Pending(bus'))
    BY <1>1, <1>2, PendingTail, Zenon DEF DebounceInv, MainPasses
<1>4. QED
    BY <1>2, <1>3, Zenon DEF DebounceInv, FollowedInv

(* The new timer has not fired when it is scheduled.                        *)
LEMMA MainRestartsInv ==
    ASSUME DebounceInv, MainRestarts
    PROVE  bus' \in Seq(BusMessage) /\ FollowedInv'
<1>1. UNCHANGED <<bus, dirty>>
    BY Zenon DEF MainRestarts, libraryVars
<1>2. CASE SendSchedule
  <2>1. counter' = counter + 1 /\ fired' = fired /\ counter \in Nat /\ fired \subseteq Id
      BY <1>2 DEF SendSchedule, workerVars, DebounceInv, QuiesceInv, TypeOK
  <2>2. \A id \in fired : id <= counter /\ id \in Nat
      BY <2>1 DEF DebounceInv, QuiesceInv, WorkerInv, Id
  <2>3. counter' > 0 /\ counter' \notin fired'
      BY <2>1, <2>2
  <2>4. QED
      BY <1>1, <2>3, Zenon DEF DebounceInv, FollowedInv
<1>3. CASE Notify
  <2>1. main = "notify" /\ UNCHANGED <<counter, fired>>
      BY <1>3, Zenon DEF Notify
  <2>2. QED
      BY <1>1, <2>1, Zenon DEF DebounceInv, FollowedInv
<1>4. QED
    BY <1>2, <1>3, Zenon DEF MainRestarts

(* A timer that fires puts its request onto the bus.                        *)
LEMMA WorkerFiresInv ==
    ASSUME DebounceInv, WorkerFires
    PROVE  bus' \in Seq(BusMessage) /\ FollowedInv'
<1>1. UNCHANGED <<dirty, main, counter>> /\ bus \in Seq(BusMessage)
    BY Zenon DEF WorkerFires, Fire, libraryVars, mainVars, DebounceInv
<1>2. CASE fired' = fired
    BY <1>1, <1>2, Zenon DEF WorkerFires, DebounceInv, FollowedInv
<1>3. CASE fired' # fired
  <2>1. bus' = Append(bus, "RescanRequest") /\ "RescanRequest" \in BusMessage
      BY <1>3, Zenon DEF WorkerFires, BusMessage, AboutRescan
  <2>2. bus' \in Seq(BusMessage) /\ Pending(bus')
      BY <1>1, <2>1, PendingAppend, Zenon
  <2>3. QED
      BY <2>2, Zenon DEF FollowedInv
<1>4. QED
    BY <1>2, <1>3, Zenon

(* Steps that at most add a message that is not about a rescan.             *)
LEMMA OtherDebounceInv ==
    ASSUME DebounceInv,
           \/ ListDirectory \/ WatchBegins \/ FileWritten \/ OtherMessage
           \/ WorkerGoesOn \/ TimePasses \/ WakesUp \/ UNCHANGED allVars
    PROVE  bus' \in Seq(BusMessage) /\ FollowedInv'
<1>1. UNCHANGED <<dirty, main, counter, fired>>
    BY Zenon DEF ListDirectory, WatchBegins, FileWritten, OtherMessage, WorkerGoesOn, TimePasses,
           WakesUp, DrainOne, DrainEnds, FireEnds, Sleep, TimedOut, SpuriousWakeup, Tick,
           libraryVars, vars, mainVars, workerVars, allVars
<1>2. bus' = bus \/ bus' = Append(bus, "Added") \/ bus' = Append(bus, "Log")
    BY Zenon DEF ListDirectory, WatchBegins, FileWritten, OtherMessage, WorkerGoesOn, TimePasses,
           WakesUp, allVars
<1>3. "Added" \in BusMessage /\ "Log" \in BusMessage
    BY Zenon DEF BusMessage
<1>4. bus' \in Seq(BusMessage) /\ (Pending(bus) => Pending(bus'))
    BY <1>2, <1>3, PendingAppend, Zenon DEF DebounceInv
<1>5. QED
    BY <1>1, <1>4, Zenon DEF DebounceInv, FollowedInv

(* The inductive invariant of the composition.                              *)
THEOREM CompositionInvariant == DebounceSpec => []DebounceInv
<1>1. DebounceInv /\ [DebounceNext]_allVars => DebounceInv'
  <2> SUFFICES ASSUME DebounceInv, [DebounceNext]_allVars
               PROVE  DebounceInv'
      BY Zenon
  <2>1. QuiesceInv'
      BY TimerSteps, SendIgnoreInv, SendScheduleInv, DrainOneInv, FireInv, OtherStepsInv, Zenon
         DEF DebounceInv, Next, WorkerRuns
  <2>2. bus' \in Seq(BusMessage) /\ FollowedInv'
      BY MainTakesInv, MainRescansInv, MainPassesInv, MainRestartsInv, WorkerFiresInv,
         OtherDebounceInv, Zenon DEF DebounceNext, MainThread
  <2>3. QED
      BY <2>1, <2>2, Zenon DEF DebounceInv
<1>2. QED
    BY <1>1, DebounceInvInit, PTL DEF DebounceSpec

(* A dirty unit is never forgotten, for any number of writes and of other   *)
(* messages, wherever they meet main and the worker.                        *)
THEOREM DirtyUnitsAreFollowed == DebounceSpec => []DirtyIsFollowed
<1>1. DebounceInv => DirtyIsFollowed
    BY Zenon DEF DebounceInv, FollowedInv, Pending, DirtyIsFollowed
<1>2. QED
    BY <1>1, CompositionInvariant, PTL

-----------------------------------------------------------------------------
(***************************************************************************)
(* Proofs about UnitBroadcaster, for any kinds of units and any number of  *)
(* files and broadcasts: the two subscribers are sent one sequence of      *)
(* events, a listener is not taken off the list by another, and the        *)
(* terminal never looks for a bucket that does not exist.                  *)
(***************************************************************************)

What == {"Added", "LoadStarted", "LoadFailed", "Category", "Log", "RescanRequest",
         "RescanStart", "RescanFinish", "ManagerRequest", "Shutdown"}

Event == [what : What, kind : Kind \cup {None}]

ToMain == delivered["main"]
ToTerminal == delivered["terminal"]

MainListed == senders \in {<<"main">>, <<"main", "terminal">>}
TerminalListed == senders \in {<<"terminal">>, <<"main", "terminal">>}

BusTypes ==
    /\ senders \in {<<>>, <<"main">>, <<"terminal">>, <<"main", "terminal">>}
    /\ sending \in [Thread -> [event : Event, next : Nat, failed : Nat]]
    /\ delivered \in [Subscriber -> Seq(Event)]
    /\ received \in [Subscriber -> Nat]
    /\ received["main"] <= Len(ToMain) /\ received["terminal"] <= Len(ToTerminal)
    /\ mainAt \in {"subscribe", "list", "loop", "ended"}
    /\ todo \in Seq(Event)
    /\ terminal \in {"absent", "running", "gone"}
    /\ screen \in [categories : SUBSET (Kind \cup {None}), buckets : SUBSET (Kind \cup {None})]
    /\ joined \in Nat

(* Only the holder of the mutex is in a broadcast, and what failed there is *)
(* the sender of a terminal that listens no more.                           *)
LockInv ==
    /\ lock \in Thread \cup {None}
    /\ \A t \in Thread \ {lock} : sending[t] = NotSending
    /\ lock # None =>
          /\ sending[lock].next \in 1 .. Len(senders) + 1
          /\ sending[lock].failed # 0 =>
                /\ terminal # "running"
                /\ sending[lock].failed \in 1 .. Len(senders)
                /\ senders[sending[lock].failed] = "terminal"

(* Before the terminal subscribes nothing but a Shutdown can be sent.       *)
StartInv ==
    /\ mainAt = "subscribe" <=> terminal = "absent"
    /\ mainAt = "subscribe" =>
          /\ senders \in {<<>>, <<"main">>} /\ ToTerminal = <<>> /\ joined = 0
          /\ lock # None => sending[lock].event.what = "Shutdown"
          /\ \A n \in 1 .. Len(ToMain) : ToMain[n].what = "Shutdown"
    /\ joined <= Len(ToMain) /\ \A n \in 1 .. joined : ToMain[n].what = "Shutdown"

(* How far the terminal is behind main: by the event that is being sent.    *)
OrderInv ==
    /\ OneOrder
    /\ MainListed => Len(ToMain) >= joined + Len(ToTerminal)
    /\ senders = <<"terminal">> => Len(ToMain) = joined
    /\ senders = <<"main", "terminal">> /\ terminal = "running" =>
          IF lock # None /\ sending[lock].next = 2
          THEN /\ Len(ToMain) = joined + Len(ToTerminal) + 1
               /\ ToMain[Len(ToMain)] = sending[lock].event
          ELSE Len(ToMain) = joined + Len(ToTerminal)

(* A listener is on the list unless it was sent Shutdown; one that has been *)
(* served in the present broadcast has the event.                           *)
StayInv ==
    /\ MainListed \/ ShutdownSent("main")
    /\ terminal = "running" => TerminalListed \/ ShutdownSent("terminal")
    /\ lock # None /\ sending[lock].next > 1 /\ MainListed =>
          \E k \in 1 .. Len(ToMain) : ToMain[k] = sending[lock].event
    /\ lock # None /\ sending[lock].next > Len(senders) /\ TerminalListed /\ terminal = "running" =>
          \E k \in 1 .. Len(ToTerminal) : ToTerminal[k] = sending[lock].event

LoadAnnounced(list, n, k) == \E i \in 1 .. n : list[i].what = "LoadStarted" /\ list[i].kind = k

(* A count of units of a kind follows the load of one, with main, with the  *)
(* terminal and on the screen.                                              *)
BucketInv ==
    /\ \A n \in 1 .. Len(todo) : todo[n].what = "Category" =>
          LoadAnnounced(ToMain, received["main"], todo[n].kind)
    /\ \A t \in Thread : sending[t].event.what = "Category" =>
          t = "main" /\ LoadAnnounced(ToMain, received["main"], sending[t].event.kind)
    /\ terminal = "running" => \A n \in 1 .. Len(ToTerminal) :
          ToTerminal[n].what = "Category" => LoadAnnounced(ToTerminal, n - 1, ToTerminal[n].kind)
    /\ screen.categories \subseteq screen.buckets
    /\ \A n \in 1 .. received["terminal"] :
          ToTerminal[n].what = "LoadStarted" => ToTerminal[n].kind \in screen.buckets

(* The inductive invariant.                                                 *)
BusInv == BusTypes /\ LockInv /\ StartInv /\ OrderInv /\ StayInv /\ BucketInv

-----------------------------------------------------------------------------
(* Sequences and lists of senders.                                          *)

(* The elements of a sequence of one more.                                  *)
LEMMA AppendElements ==
    ASSUME NEW S, NEW q \in Seq(S), NEW m \in S
    PROVE  /\ Len(q) \in Nat /\ Append(q, m) \in Seq(S)
           /\ Len(Append(q, m)) = Len(q) + 1
           /\ Append(q, m)[Len(q) + 1] = m
           /\ \A k \in 1 .. Len(q) : Append(q, m)[k] = q[k] /\ q[k] \in S
OBVIOUS

(* Main is first on the list, the terminal last.                            *)
LEMMA SenderLists ==
    ASSUME BusTypes
    PROVE  /\ Len(senders) \in 0 .. 2
           /\ MainListed => Len(senders) >= 1 /\ senders[1] = "main"
           /\ TerminalListed => Len(senders) >= 1 /\ senders[Len(senders)] = "terminal"
           /\ MainListed /\ TerminalListed <=> senders = <<"main", "terminal">>
           /\ senders = <<"main", "terminal">> => Len(senders) = 2
           /\ senders = <<"terminal">> => Len(senders) = 1
           /\ \A n \in 1 .. Len(senders) :
                 \/ n = 1 /\ senders[n] = "main" /\ MainListed
                 \/ n = Len(senders) /\ senders[n] = "terminal" /\ TerminalListed
<1>1. CASE senders = <<>>
    BY <1>1 DEF MainListed, TerminalListed
<1>2. CASE senders = <<"main">>
    BY <1>2 DEF MainListed, TerminalListed
<1>3. CASE senders = <<"terminal">>
    BY <1>3 DEF MainListed, TerminalListed
<1>4. CASE senders = <<"main", "terminal">>
    BY <1>4 DEF MainListed, TerminalListed
<1>5. QED
    BY <1>1, <1>2, <1>3, <1>4, Zenon DEF BusTypes

(* Without the terminal, the list is main or empty.                         *)
LEMMA TerminalRemoved ==
    ASSUME BusTypes, NEW failed \in 1 .. Len(senders), senders[failed] = "terminal"
    PROVE  WithoutFailed(senders, failed) = IF MainListed THEN <<"main">> ELSE <<>>
<1>1. CASE senders = <<"terminal">>
  <2>1. failed = 1 /\ Len(senders) = 1 /\ ~MainListed
      BY <1>1 DEF MainListed
  <2>2. QED
      BY <1>1, <2>1 DEF WithoutFailed
<1>2. CASE senders = <<"main", "terminal">>
  <2>1. failed = 2 /\ Len(senders) = 2 /\ MainListed
      BY <1>2 DEF MainListed
  <2> DEFINE rest == SubSeq(<<"main", "terminal">>, 1, 1)
  <2>2. rest \in Seq({"main", "terminal"}) /\ Len(rest) = 1 /\ rest[1] = "main"
      OBVIOUS
  <2>3. rest = <<"main">>
    <3> HIDE DEF rest
    <3>1. QED
        BY <2>2
  <2>4. SubSeq(<<"main", "terminal">>, 3, 2) = <<>>
      OBVIOUS
  <2>5. WithoutFailed(senders, failed) = rest \o SubSeq(<<"main", "terminal">>, 3, 2)
      BY <1>2, <2>1 DEF WithoutFailed
  <2>6. <<"main">> \o <<>> = <<"main">>
      OBVIOUS
  <2>7. QED
      BY <2>1, <2>3, <2>4, <2>5, <2>6, Zenon
<1>3. QED
    BY <1>1, <1>2 DEF BusTypes

(* What threads other than main broadcast on their own.                     *)
LEMMA ThreadEvents ==
    ASSUME NEW t \in Thread \ {"main"}, NEW e \in EventsOf[t]
    PROVE  /\ e \in Event /\ e.what # "Category"
           /\ t = "signal" => e.what = "Shutdown"
BY DEF Thread, EventsOf, Event, What, Added, Plain

(* What handlers on the main thread broadcast: a count only for a load.     *)
LEMMA AnswerEvents ==
    ASSUME NEW e \in Event, NEW answer \in Answers(e)
    PROVE  /\ answer \in Seq(Event)
           /\ \A n \in 1 .. Len(answer) : answer[n].what = "Category" =>
                 e.what = "LoadStarted" /\ answer[n].kind = e.kind
<1>1. \A w \in What : Plain(w) \in Event /\ Plain(w).what = w
    BY Zenon DEF Plain, Event
<1>2. \A k \in Kind \cup {None} :
         /\ LoadStarted(k) \in Event /\ LoadStarted(k).what = "LoadStarted"
         /\ Category(k) \in Event /\ Category(k).kind = k
         /\ LoadFailed(k) \in Event /\ LoadFailed(k).what = "LoadFailed"
    BY Zenon DEF LoadStarted, Category, LoadFailed, Event, What
<1>3. e.kind \in Kind \cup {None}
    BY Zenon DEF Event
<1>4. \A a, b \in Event :
         /\ <<>> \in Seq(Event) /\ Len(<<>>) = 0
         /\ <<a>> \in Seq(Event) /\ Len(<<a>>) = 1 /\ <<a>>[1] = a
         /\ <<a, b>> \in Seq(Event) /\ Len(<<a, b>>) = 2 /\ <<a, b>>[1] = a /\ <<a, b>>[2] = b
    OBVIOUS
<1>5. CASE e.what = "Added"
  <2>1. answer = <<LoadStarted(e.kind)>>
      BY <1>5, Zenon DEF Answers
  <2>2. QED
      BY <1>2, <1>3, <1>4, <2>1
<1>6. CASE e.what = "LoadStarted"
  <2>1. answer \in {<<Category(e.kind)>>, <<LoadFailed(e.kind)>>}
      BY <1>6, Zenon DEF Answers
  <2>2. CASE answer = <<Category(e.kind)>>
      BY <1>2, <1>3, <1>4, <1>6, <2>2
  <2>3. CASE answer = <<LoadFailed(e.kind)>>
      BY <1>2, <1>3, <1>4, <2>3
  <2>4. QED
      BY <2>1, <2>2, <2>3, Zenon
<1>7. CASE e.what = "RescanRequest"
  <2>1. answer = <<Plain("RescanStart"), Plain("RescanFinish")>>
      BY <1>7, Zenon DEF Answers
  <2>2. QED
      BY <1>1, <1>4, <2>1 DEF What
<1>8. CASE e.what = "ManagerRequest"
  <2>1. answer \in {<<Plain("Log"), Plain("Shutdown")>>, <<Plain("Log")>>}
      BY <1>8, Zenon DEF Answers
  <2>2. CASE answer = <<Plain("Log"), Plain("Shutdown")>>
      BY <1>1, <1>4, <2>2 DEF What
  <2>3. CASE answer = <<Plain("Log")>>
      BY <1>1, <1>4, <2>3 DEF What
  <2>4. QED
      BY <2>1, <2>2, <2>3, Zenon
<1>9. CASE e.what \notin {"Added", "LoadStarted", "RescanRequest", "ManagerRequest"}
  <2>1. answer = <<>>
      BY <1>9, Zenon DEF Answers
  <2>2. QED
      BY <1>4, <2>1
<1>10. QED
    BY <1>5, <1>6, <1>7, <1>8, <1>9, Zenon

(* A load that was announced stays so.                                      *)
LEMMA AnnouncedStays ==
    ASSUME NEW list, NEW longer, NEW n \in Nat, NEW m \in Nat, n <= m, NEW k,
           \A i \in 1 .. n : longer[i] = list[i], LoadAnnounced(list, n, k)
    PROVE  LoadAnnounced(longer, m, k)
<1>1. PICK i \in 1 .. n : list[i].what = "LoadStarted" /\ list[i].kind = k
    BY Zenon DEF LoadAnnounced
<1>2. i \in 1 .. m /\ longer[i] = list[i]
    OBVIOUS
<1>3. QED
    BY <1>1, <1>2, Zenon DEF LoadAnnounced

-----------------------------------------------------------------------------
(* Steps that preserve the invariant.                                       *)

(* A thread that is in no broadcast sends no count of units.                *)
LEMMA NotSendingFields ==
    NotSending.event.what = "Log" /\ NotSending.event.what # "Category" /\ NotSending.next = 0
BY Zenon DEF NotSending, Plain

(* A thread takes the mutex and begins a broadcast.                         *)
LEMMA LockedKeeps ==
    ASSUME BusInv, NEW t \in Thread, NEW e \in Event, Locked(t, e),
           mainAt = "subscribe" => e.what = "Shutdown",
           e.what = "Category" => t = "main" /\ LoadAnnounced(ToMain, received["main"], e.kind),
           todo' \in Seq(Event),
           \A n \in 1 .. Len(todo') : todo'[n].what = "Category" =>
              LoadAnnounced(ToMain, received["main"], todo'[n].kind),
           UNCHANGED <<received, mainAt, terminal, screen, joined>>
    PROVE  BusInv'
<1>1. /\ \A u \in Thread : sending[u] = NotSending
      /\ lock = None /\ lock' = t /\ lock' # None
    BY BroadcasterAssumption, Zenon DEF BusInv, LockInv, Locked
<1>2. /\ sending'[t] = [event |-> e, next |-> 1, failed |-> 0]
      /\ \A u \in Thread \ {t} : sending'[u] = NotSending
      /\ sending' \in [Thread -> [event : Event, next : Nat, failed : Nat]]
    BY <1>1, Zenon DEF BusInv, BusTypes, Locked
<1>3. /\ senders' = senders /\ delivered' = delivered
      /\ MainListed' <=> MainListed
      /\ TerminalListed' <=> TerminalListed
    BY Zenon DEF Locked, MainListed, TerminalListed
<1>4. BusTypes'
    BY <1>2, <1>3, Zenon DEF BusInv, BusTypes, ToMain, ToTerminal
<1>5. LockInv'
    BY <1>1, <1>2, <1>3, SenderLists DEF BusInv, LockInv
<1>11. sending'[t].event = e /\ sending'[t].next = 1
    BY <1>2
<1>12. ToMain' = ToMain /\ ToTerminal' = ToTerminal
    BY <1>3, Zenon DEF ToMain, ToTerminal
<1>6. StartInv'
    BY <1>1, <1>3, <1>11, <1>12, Zenon DEF BusInv, StartInv
<1>7. OrderInv'
    BY <1>1, <1>3, <1>11, <1>12 DEF BusInv, OrderInv, OneOrder
<1>8. StayInv'
    BY <1>1, <1>3, <1>11, <1>12, SenderLists DEF BusInv, StayInv, ShutdownSent
<1>9. BucketInv'
  <2>1. sending'[t].event = e /\ \A u \in Thread \ {t} : sending'[u].event.what # "Category"
      BY <1>2, <1>11, NotSendingFields, Zenon
  <2>2. QED
      BY <1>3, <2>1, Zenon DEF BusInv, BucketInv, ToMain, ToTerminal
<1>10. QED
    BY <1>4, <1>5, <1>6, <1>7, <1>8, <1>9, Zenon DEF BusInv

(* Who is in a broadcast holds the mutex.                                   *)
LEMMA SenderHolds ==
    ASSUME BusInv, NEW t \in Thread, sending[t].next > 0
    PROVE  lock = t /\ lock # None
BY BroadcasterAssumption DEF BusInv, LockInv, NotSending

(* A broadcast after a step of the loop is one.                             *)
LEMMA BroadcastUpdated ==
    ASSUME NEW b \in [event : Event, next : Nat, failed : Nat], NEW n \in Nat, NEW f \in Nat
    PROVE  [b EXCEPT !.next = n, !.failed = f] \in [event : Event, next : Nat, failed : Nat]
BY Zenon

(* What a step of the loop over the senders changes.                        *)
SentBy(t) ==
    /\ lock = t /\ lock # None /\ lock' = lock
    /\ sending[t].next \in 1 .. Len(senders)
    /\ sending'[t].event = sending[t].event
    /\ sending'[t].next = sending[t].next + 1
    /\ sending'[t].failed = IF Listens(senders[sending[t].next])
                           THEN sending[t].failed ELSE sending[t].next
    /\ \A u \in Thread \ {t} : sending'[u] = sending[u]
    /\ sending' \in [Thread -> [event : Event, next : Nat, failed : Nat]]
    /\ sending[t].event \in Event
    /\ senders' = senders
    /\ MainListed' <=> MainListed
    /\ TerminalListed' <=> TerminalListed
    /\ UNCHANGED <<received, mainAt, todo, terminal, screen, joined>>

\* One send: the sender moves on, and the event reaches that inbox if it listens.
LEMMA SendFacts ==
    ASSUME BusInv, NEW t \in Thread, SendNext(t)
    PROVE  SentBy(t)
<1>1. /\ sending[t].next \in 1 .. Len(senders)
      /\ senders' = senders /\ lock' = lock
      /\ UNCHANGED <<received, mainAt, todo, terminal, screen, joined>>
      /\ sending' = [sending EXCEPT ![t].next = @ + 1,
             ![t].failed = IF Listens(senders[sending[t].next]) THEN @ ELSE sending[t].next]
    BY Zenon DEF SendNext, terminalVars
<1>2. sending[t].next > 0
    BY <1>1
<1>3. lock = t /\ lock # None
    BY <1>2, SenderHolds, Zenon
<1>4. sending[t] \in [event : Event, next : Nat, failed : Nat]
    BY Zenon DEF BusInv, BusTypes
<1>5. /\ sending'[t].event = sending[t].event
      /\ sending'[t].next = sending[t].next + 1
      /\ sending'[t].failed = IF Listens(senders[sending[t].next])
                             THEN sending[t].failed ELSE sending[t].next
      /\ \A u \in Thread \ {t} : sending'[u] = sending[u]
    BY <1>1, <1>4, Zenon DEF BusInv, BusTypes
<1>6. sending' \in [Thread -> [event : Event, next : Nat, failed : Nat]]
  <2> DEFINE failed == IF Listens(senders[sending[t].next])
                       THEN sending[t].failed ELSE sending[t].next
             new == [sending[t] EXCEPT !.next = @ + 1, !.failed = failed]
  <2>1. new \in [event : Event, next : Nat, failed : Nat]
    <3>1. failed \in Nat
        BY <1>4, Zenon
    <3> HIDE DEF failed
    <3>2. sending[t].next + 1 \in Nat
        BY <1>4
    <3>3. QED
        BY <1>4, <3>1, <3>2, BroadcastUpdated, Zenon
  <2>2. sending' = [sending EXCEPT ![t] = new]
      BY <1>1, Zenon DEF BusInv, BusTypes
  <2> HIDE DEF new
  <2>3. QED
      BY <2>1, <2>2, Zenon DEF BusInv, BusTypes
<1>7. (MainListed' <=> MainListed) /\ (TerminalListed' <=> TerminalListed)
    BY <1>1, Zenon DEF MainListed, TerminalListed
<1>8. QED
    BY <1>1, <1>3, <1>4, <1>5, <1>6, <1>7, Zenon DEF SentBy

(* The event is sent to main.                                               *)
LEMMA SendToMain ==
    ASSUME BusInv, NEW t \in Thread, SendNext(t), senders[sending[t].next] = "main"
    PROVE  BusInv'
<1>0. SentBy(t)
    BY SendFacts, Zenon
<1> DEFINE e == sending[t].event
<1>1. sending[t].next = 1 /\ MainListed /\ Len(senders) \in 1 .. 2
    BY <1>0, SenderLists DEF SentBy, BusInv
<1>2. /\ delivered' = [delivered EXCEPT !["main"] = Append(@, e)]
      /\ delivered \in [Subscriber -> Seq(Event)] /\ e \in Event
    BY <1>0, Zenon DEF SentBy, SendNext, Listens, BusInv, BusTypes
<1>3. /\ ToMain \in Seq(Event) /\ ToMain' = Append(ToMain, e)
      /\ ToTerminal \in Seq(Event) /\ ToTerminal' = ToTerminal
    BY <1>2, Zenon DEF Subscriber, ToMain, ToTerminal
<1>4. /\ Len(ToMain) \in Nat /\ ToMain' \in Seq(Event) /\ Len(ToMain') = Len(ToMain) + 1
      /\ ToMain'[Len(ToMain) + 1] = e /\ \A k \in 1 .. Len(ToMain) : ToMain'[k] = ToMain[k]
      /\ Len(ToTerminal) \in Nat
    BY <1>2, <1>3, AppendElements
<1>5. /\ received["main"] \in Nat /\ received["terminal"] \in Nat /\ joined \in Nat
      /\ received["main"] <= Len(ToMain)
    BY Zenon DEF BusInv, BusTypes, Subscriber
<1>6. BusTypes'
  <2>1. delivered' \in [Subscriber -> Seq(Event)]
      BY <1>2, AppendElements, Zenon DEF Subscriber
  <2>2. received'["main"] <= Len(ToMain') /\ received'["terminal"] <= Len(ToTerminal')
    <3>1. received' = received /\ received["terminal"] <= Len(ToTerminal)
        BY <1>0, Zenon DEF SentBy, BusInv, BusTypes
    <3>2. QED
        BY <1>3, <1>4, <1>5, <3>1
  <2>3. QED
      BY <2>1, <2>2, <1>0, Zenon DEF SentBy, BusInv, BusTypes
<1>7. LockInv'
    BY <1>1, <1>0 DEF SentBy, BusInv, LockInv, Listens
<1>8. StartInv'
  <2>1. /\ UNCHANGED <<senders, lock, mainAt, terminal, joined>> /\ lock = t
        /\ sending'[lock].event = e
      BY <1>0, Zenon DEF SentBy
  <2>2. mainAt = "subscribe" => \A n \in 1 .. Len(ToMain') : ToMain'[n].what = "Shutdown"
    <3>1. mainAt = "subscribe" =>
             e.what = "Shutdown" /\ \A n \in 1 .. Len(ToMain) : ToMain[n].what = "Shutdown"
        BY <1>0, Zenon DEF SentBy, BusInv, StartInv
    <3>2. \A n \in 1 .. Len(ToMain') : n = Len(ToMain) + 1 \/ n \in 1 .. Len(ToMain)
        BY <1>4
    <3>3. QED
        BY <1>4, <3>1, <3>2, Zenon
  <2>3. joined <= Len(ToMain) /\ \A n \in 1 .. joined : ToMain[n].what = "Shutdown"
      BY Zenon DEF BusInv, StartInv
  <2>4. joined <= Len(ToMain') /\ \A n \in 1 .. joined : ToMain'[n].what = "Shutdown"
      BY <1>4, <1>5, <2>3
  <2>5. QED
      BY <1>3, <2>1, <2>2, <2>4, Zenon DEF BusInv, StartInv
<1>9. OrderInv'
  <2>1. OneOrder'
    <3>1. MainListed => Len(ToMain) >= joined + Len(ToTerminal)
        BY Zenon DEF BusInv, OrderInv
    <3>2. \A n \in 1 .. Len(ToTerminal) :
             joined + n \in 1 .. Len(ToMain) /\ ToTerminal[n] = ToMain[joined + n]
      <4>1. \A n \in 1 .. Len(ToTerminal) :
               joined + n <= Len(ToMain) => ToTerminal[n] = ToMain[joined + n]
          BY Zenon DEF BusInv, OrderInv, OneOrder, ToMain, ToTerminal
      <4>2. QED
          BY <1>1, <1>4, <1>5, <3>1, <4>1
    <3>3. \A n \in 1 .. Len(ToTerminal') : ToTerminal'[n] = ToMain'[joined' + n]
        BY <1>3, <1>4, <3>2, <1>0, Zenon DEF SentBy
    <3>4. QED
        BY <3>3, Zenon DEF OneOrder, ToMain, ToTerminal
  <2>2. senders # <<"terminal">>
      BY <1>1 DEF MainListed
  <2>3. senders = <<"main", "terminal">> /\ terminal = "running" =>
           Len(ToMain) = joined + Len(ToTerminal)
      BY <1>1, <1>0 DEF SentBy, BusInv, OrderInv
  <2>4. /\ UNCHANGED <<senders, terminal, joined>> /\ lock' = t /\ lock' # None
        /\ sending'[t].event = e /\ sending'[t].next = 2
      BY <1>0, <1>1 DEF SentBy
  <2>5. Len(ToMain') >= joined + Len(ToTerminal') /\ ToMain'[Len(ToMain')] = e
    <3>1. Len(ToMain) >= joined + Len(ToTerminal)
        BY <1>1, Zenon DEF BusInv, OrderInv
    <3>2. QED
        BY <1>3, <1>4, <1>5, <3>1
  <2>6. senders = <<"main", "terminal">> /\ terminal = "running" =>
           Len(ToMain') = joined + Len(ToTerminal') + 1
      BY <1>3, <1>4, <1>5, <2>3, Zenon
  <2>7. QED
      BY <2>1, <2>2, <2>4, <2>5, <2>6, Zenon DEF OrderInv
<1>10. StayInv'
  <2>1. \E k \in 1 .. Len(ToMain') : ToMain'[k] = e
      BY <1>4
  <2>2. ShutdownSent("main") => ShutdownSent("main")'
      BY <1>4 DEF ShutdownSent, ToMain
  <2>3. ShutdownSent("terminal") => ShutdownSent("terminal")'
      BY <1>3, Zenon DEF ShutdownSent, ToTerminal
  <2>4. sending'[t].next > Len(senders) => ~TerminalListed
      BY <1>1, <1>0, SenderLists DEF SentBy, BusInv
  <2>5. QED
      BY <1>3, <2>1, <2>2, <2>3, <2>4, <1>0, Zenon DEF SentBy, BusInv, StayInv
<1>11. BucketInv'
  <2>1. \A k : LoadAnnounced(ToMain, received["main"], k) => LoadAnnounced(ToMain', received["main"], k)
    <3>1. \A i \in 1 .. received["main"] : ToMain'[i] = ToMain[i]
        BY <1>4, <1>5
    <3>2. received["main"] <= received["main"]
        BY <1>5
    <3>3. QED
        BY <1>5, <3>1, <3>2, AnnouncedStays, Zenon
  <2>2. \A u \in Thread : sending'[u].event = sending[u].event
      BY <1>0, Zenon DEF SentBy
  <2>3. QED
      BY <1>3, <2>1, <2>2, <1>0, Zenon DEF SentBy, BusInv, BucketInv
<1>12. QED
    BY <1>6, <1>7, <1>8, <1>9, <1>10, <1>11, Zenon DEF BusInv

(* The event is sent to a terminal that listens.                            *)
LEMMA SendToTerminal ==
    ASSUME BusInv, NEW t \in Thread, SendNext(t), senders[sending[t].next] = "terminal",
           terminal = "running"
    PROVE  BusInv'
<1>0. SentBy(t)
    BY SendFacts, Zenon
<1> DEFINE e == sending[t].event
<1>1. sending[t].next = Len(senders) /\ TerminalListed /\ Len(senders) \in 1 .. 2
    BY <1>0, SenderLists DEF SentBy, BusInv
<1>2. /\ delivered' = [delivered EXCEPT !["terminal"] = Append(@, e)]
      /\ delivered \in [Subscriber -> Seq(Event)] /\ e \in Event
    BY <1>0, Zenon DEF SentBy, SendNext, Listens, BusInv, BusTypes
<1>3. /\ ToMain \in Seq(Event) /\ ToMain' = ToMain
      /\ ToTerminal \in Seq(Event) /\ ToTerminal' = Append(ToTerminal, e)
    BY <1>2, Zenon DEF Subscriber, ToMain, ToTerminal
<1>4. /\ Len(ToTerminal) \in Nat /\ ToTerminal' \in Seq(Event)
      /\ Len(ToTerminal') = Len(ToTerminal) + 1
      /\ ToTerminal'[Len(ToTerminal) + 1] = e
      /\ \A k \in 1 .. Len(ToTerminal) : ToTerminal'[k] = ToTerminal[k]
      /\ Len(ToMain) \in Nat
    BY <1>2, <1>3, AppendElements
<1>5. /\ received["main"] \in Nat /\ received["terminal"] \in Nat /\ joined \in Nat
      /\ received["terminal"] <= Len(ToTerminal) /\ received["main"] <= Len(ToMain)
    BY Zenon DEF BusInv, BusTypes, Subscriber
<1>6. \/ senders = <<"terminal">> /\ ~MainListed /\ Len(ToMain) = joined /\ sending[t].next = 1
      \/ /\ senders = <<"main", "terminal">> /\ MainListed /\ sending[t].next = 2
         /\ Len(ToMain) = joined + Len(ToTerminal) + 1 /\ ToMain[Len(ToMain)] = e
    BY <1>1, <1>0, SenderLists, Zenon DEF SentBy, BusInv, OrderInv, TerminalListed, MainListed
<1>7. BusTypes'
  <2>1. delivered' \in [Subscriber -> Seq(Event)]
      BY <1>2, AppendElements, Zenon DEF Subscriber
  <2>2. received' = received
      BY <1>0, Zenon DEF SentBy
  <2>3. received'["main"] <= Len(ToMain') /\ received'["terminal"] <= Len(ToTerminal')
      BY <1>3, <1>4, <1>5, <2>2
  <2>4. QED
      BY <2>1, <2>3, <1>0, Zenon DEF SentBy, BusInv, BusTypes
<1>8. LockInv'
    BY <1>1, <1>0 DEF SentBy, BusInv, LockInv, Listens
<1>9. StartInv'
    BY <1>3, <1>5, <1>0, Zenon DEF SentBy, BusInv, StartInv
<1>10. OrderInv'
  <2>1. OneOrder'
    <3>1. \A n \in 1 .. Len(ToTerminal) :
             joined + n <= Len(ToMain) => ToTerminal[n] = ToMain[joined + n]
        BY Zenon DEF BusInv, OrderInv, OneOrder, ToMain, ToTerminal
    <3>2. \A n \in 1 .. Len(ToTerminal) + 1 :
             joined + n <= Len(ToMain) => ToTerminal'[n] = ToMain[joined + n]
      <4>1. TAKE n \in 1 .. Len(ToTerminal) + 1
      <4>2. CASE n = Len(ToTerminal) + 1
          BY <1>4, <1>5, <1>6, <4>2
      <4>3. CASE n \in 1 .. Len(ToTerminal)
          BY <1>4, <3>1, <4>3, Zenon
      <4>4. QED
          BY <1>4, <4>2, <4>3
    <3>3. joined' = joined
        BY <1>0, Zenon DEF SentBy
    <3>4. QED
        BY <1>3, <1>4, <3>2, <3>3, Zenon DEF OneOrder, ToMain, ToTerminal
  <2>2. /\ joined' = joined /\ senders' = senders /\ lock' = t /\ lock' # None
        /\ MainListed' <=> MainListed
        /\ sending'[t].next = sending[t].next + 1
      BY <1>0, Zenon DEF SentBy
  <2>3. CASE senders = <<"terminal">> /\ ~MainListed /\ Len(ToMain) = joined
    <3>1. senders # <<"main", "terminal">>
        BY <2>3, Zenon DEF MainListed
    <3>2. QED
        BY <1>3, <2>1, <2>2, <2>3, <3>1, Zenon DEF OrderInv
  <2>4. CASE /\ senders = <<"main", "terminal">> /\ sending[t].next = 2
             /\ Len(ToMain) = joined + Len(ToTerminal) + 1
    <3>1. senders # <<"terminal">> /\ sending'[t].next # 2
        BY <2>2, <2>4
    <3>2. Len(ToMain') = joined' + Len(ToTerminal') /\ Len(ToMain') >= joined' + Len(ToTerminal')
        BY <1>3, <1>4, <1>5, <2>2, <2>4
    <3>3. QED
        BY <2>1, <2>2, <3>1, <3>2, Zenon DEF OrderInv
  <2>5. QED
      BY <1>6, <2>3, <2>4, Zenon
<1>11. StayInv'
  <2>1. \E k \in 1 .. Len(ToTerminal') : ToTerminal'[k] = e
      BY <1>4
  <2>2. ShutdownSent("main") => ShutdownSent("main")'
      BY <1>3, Zenon DEF ShutdownSent, ToMain
  <2>3. ShutdownSent("terminal") => ShutdownSent("terminal")'
      BY <1>4 DEF ShutdownSent, ToTerminal
  <2>4. MainListed => \E k \in 1 .. Len(ToMain') : ToMain'[k] = e
      BY <1>3, <1>6, <1>0 DEF SentBy, BusInv, StayInv
  <2>5. MainListed \/ ShutdownSent("main")
      BY Zenon DEF BusInv, StayInv
  <2>6. QED
      BY <1>1, <2>1, <2>2, <2>4, <2>5, <1>0, Zenon DEF SentBy, StayInv
<1>12. BucketInv'
  <2>1. \A u \in Thread : sending'[u].event = sending[u].event
      BY <1>0, Zenon DEF SentBy
  <2>2. e.what = "Category" => LoadAnnounced(ToTerminal, Len(ToTerminal), e.kind)
    <3>1. HAVE e.what = "Category"
    <3>2. PICK i \in 1 .. received["main"] : ToMain[i].what = "LoadStarted" /\ ToMain[i].kind = e.kind
        BY <3>1, Zenon DEF BusInv, BucketInv, LoadAnnounced
    <3>3. i > joined
        BY <1>5, <3>2 DEF BusInv, StartInv
    <3>4. senders = <<"main", "terminal">> /\ i # Len(ToMain)
        BY <1>4, <1>5, <1>6, <3>1, <3>2, <3>3
    <3>5. i - joined \in 1 .. Len(ToTerminal) /\ joined + (i - joined) = i /\ i <= Len(ToMain)
      <4>1. Len(ToMain) = joined + Len(ToTerminal) + 1
          BY <1>6, <3>4, Zenon
      <4>2. QED
          BY <1>4, <1>5, <3>3, <3>4, <4>1
    <3>6. ToTerminal[i - joined] = ToMain[i]
        BY <1>4, <1>5, <3>5, Zenon DEF BusInv, OrderInv, OneOrder, ToMain, ToTerminal
    <3>7. QED
        BY <3>2, <3>5, <3>6, Zenon DEF LoadAnnounced
  <2>3. \A n \in 1 .. Len(ToTerminal') : ToTerminal'[n].what = "Category" =>
           LoadAnnounced(ToTerminal', n - 1, ToTerminal'[n].kind)
    <3>1. TAKE n \in 1 .. Len(ToTerminal')
    <3>2. HAVE ToTerminal'[n].what = "Category"
    <3>3. LoadAnnounced(ToTerminal, n - 1, ToTerminal'[n].kind)
      <4>1. CASE n = Len(ToTerminal) + 1
          BY <1>4, <2>2, <3>2, <4>1
      <4>2. CASE n \in 1 .. Len(ToTerminal)
          BY <1>4, <3>2, <4>2, Zenon DEF BusInv, BucketInv
      <4>3. QED
          BY <1>4, <4>1, <4>2
    <3>4. n - 1 \in Nat /\ \A i \in 1 .. n - 1 : ToTerminal'[i] = ToTerminal[i]
        BY <1>4
    <3>5. QED
        BY <3>3, <3>4, AnnouncedStays
  <2>4. \A n \in 1 .. received["terminal"] : ToTerminal'[n] = ToTerminal[n]
      BY <1>4, <1>5
  <2>5. QED
      BY <1>3, <2>1, <2>3, <2>4, <1>0, Zenon DEF SentBy, BusInv, BucketInv
<1>13. QED
    BY <1>7, <1>8, <1>9, <1>10, <1>11, <1>12, Zenon DEF BusInv

(* The terminal listens no more: its index is remembered.                   *)
LEMMA SendFails ==
    ASSUME BusInv, NEW t \in Thread, SendNext(t), senders[sending[t].next] = "terminal",
           terminal # "running"
    PROVE  BusInv'
<1>0. SentBy(t)
    BY SendFacts, Zenon
<1>1. sending[t].next = Len(senders) /\ TerminalListed /\ Len(senders) \in 1 .. 2
    BY <1>0, SenderLists DEF SentBy, BusInv
<1>2. ~Listens(senders[sending[t].next])
    BY Zenon DEF Listens
<1>3. delivered' = delivered /\ ToMain' = ToMain /\ ToTerminal' = ToTerminal
    BY <1>2, Zenon DEF SendNext, ToMain, ToTerminal
<1>4. BusTypes'
    BY <1>3, <1>0, Zenon DEF SentBy, BusInv, BusTypes
<1>5. LockInv'
    BY <1>1, <1>2, <1>0 DEF SentBy, BusInv, LockInv
<1>6. StartInv'
    BY <1>3, <1>0, Zenon DEF SentBy, BusInv, StartInv
<1>7. OrderInv'
    BY <1>3, <1>0, Zenon DEF SentBy, BusInv, OrderInv, OneOrder
<1>8. StayInv'
  <2>1. MainListed => sending[t].next > 1
      BY <1>1, SenderLists DEF BusInv
  <2>2. MainListed => \E k \in 1 .. Len(ToMain') : ToMain'[k] = sending'[t].event
      BY <1>3, <2>1, <1>0, Zenon DEF SentBy, BusInv, StayInv
  <2>3. MainListed \/ ShutdownSent("main")'
      BY <1>3, Zenon DEF BusInv, StayInv, ShutdownSent
  <2>4. QED
      BY <2>2, <2>3, <1>0, Zenon DEF SentBy, StayInv
<1>9. BucketInv'
  <2>1. \A u \in Thread : sending'[u].event = sending[u].event
      BY <1>0, Zenon DEF SentBy
  <2>2. QED
      BY <1>3, <2>1, <1>0, Zenon DEF SentBy, BusInv, BucketInv
<1>10. QED
    BY <1>4, <1>5, <1>6, <1>7, <1>8, <1>9, Zenon DEF BusInv

(* The list after a broadcast.                                              *)
EndedBy(t) ==
    /\ lock = t /\ lock # None
    /\ senders' \in {<<>>, <<"main">>, <<"terminal">>, <<"main", "terminal">>}
    /\ MainListed' <=> MainListed /\ sending[t].event.what # "Shutdown"
    /\ terminal = "running" =>
          (TerminalListed' <=> TerminalListed /\ sending[t].event.what # "Shutdown")
    /\ TerminalListed' => senders' = senders

\* The end of a broadcast: the inboxes that failed are dropped from the list.
LEMMA EndFacts ==
    ASSUME BusInv, NEW t \in Thread, BroadcastEnds(t)
    PROVE  EndedBy(t)
<1> DEFINE rest == WithoutFailed(senders, sending[t].failed)
<1>1. sending[t].next > 0
    BY SenderLists DEF BroadcastEnds, BusInv, BusTypes
<1>2. lock = t /\ lock # None
    BY <1>1, SenderHolds, Zenon
<1>3. senders' = IF sending[t].event.what = "Shutdown" THEN <<>> ELSE rest
    BY Zenon DEF BroadcastEnds, AfterEvent
<1>4. \/ rest = senders
      \/ terminal # "running" /\ rest = IF MainListed THEN <<"main">> ELSE <<>>
  <2>1. CASE sending[t].failed = 0
      BY <2>1, Zenon DEF WithoutFailed
  <2>2. CASE sending[t].failed # 0
    <3>1. /\ terminal # "running" /\ sending[t].failed \in 1 .. Len(senders)
          /\ senders[sending[t].failed] = "terminal"
        BY <1>2, <2>2, Zenon DEF BusInv, LockInv
    <3>2. QED
        BY <3>1, TerminalRemoved, Zenon DEF BusInv
  <2>3. QED
      BY <2>1, <2>2, Zenon
<1> HIDE DEF rest
<1>5. /\ <<>> # <<"main">> /\ <<>> # <<"terminal">> /\ <<>> # <<"main", "terminal">>
      /\ <<"main">> # <<"terminal">> /\ <<"main">> # <<"main", "terminal">>
    BY Zenon
<1>6. QED
    BY <1>2, <1>3, <1>4, <1>5, Zenon DEF EndedBy, MainListed, TerminalListed, BusInv, BusTypes

(* A broadcast ends, and the mutex is free.                                 *)
LEMMA EndKeeps ==
    ASSUME BusInv, NEW t \in Thread, BroadcastEnds(t)
    PROVE  BusInv'
<1>0. EndedBy(t)
    BY EndFacts, Zenon
<1>1. /\ UNCHANGED <<delivered, received, mainAt, todo, terminal, screen, joined>>
      /\ ToMain' = ToMain /\ ToTerminal' = ToTerminal
      /\ lock' = None
    BY Zenon DEF BroadcastEnds, terminalVars, ToMain, ToTerminal
<1>2. NotSending \in [event : Event, next : Nat, failed : Nat]
    BY Zenon DEF NotSending, Plain, Event, What
<1>3. /\ sending' \in [Thread -> [event : Event, next : Nat, failed : Nat]]
      /\ \A u \in Thread : sending'[u] = NotSending
    BY <1>2, <1>0, Zenon DEF EndedBy, BroadcastEnds, BusInv, BusTypes, LockInv
<1>4. BusTypes'
    BY <1>1, <1>3, <1>0, Zenon DEF EndedBy, BusInv, BusTypes
<1>5. LockInv'
    BY <1>1, <1>3, Zenon DEF LockInv
<1>6. StartInv'
  <2>1. senders \in {<<>>, <<"main">>} => senders' \in {<<>>, <<"main">>}
      BY <1>0, Zenon DEF EndedBy, TerminalListed
  <2>2. QED
      BY <1>1, <2>1, Zenon DEF BusInv, StartInv
<1>7. sending[t].next > Len(senders) /\ sending[t].next \in Nat
    BY Zenon DEF BroadcastEnds, BusInv, BusTypes
<1>8. OrderInv'
  <2>1. OneOrder'
      BY <1>1, Zenon DEF BusInv, OrderInv, OneOrder
  <2>2. senders' = <<"terminal">> => senders = <<"terminal">>
      BY <1>0, Zenon DEF EndedBy, TerminalListed
  <2>3. senders' = <<"main", "terminal">> => senders = <<"main", "terminal">> /\ sending[t].next > 2
      BY <1>7, <1>0, SenderLists, Zenon DEF EndedBy, TerminalListed, BusInv
  <2>4. sending[t].next > 2 => sending[t].next # 2
      BY <1>7
  <2>5. MainListed' => MainListed
      BY <1>0, Zenon DEF EndedBy
  <2>6. senders = <<"main", "terminal">> /\ terminal = "running" /\ sending[t].next # 2 =>
           Len(ToMain) = joined + Len(ToTerminal)
      BY <1>0, Zenon DEF EndedBy, BusInv, OrderInv
  <2>7. QED
      BY <1>1, <2>1, <2>2, <2>3, <2>4, <2>5, <2>6, Zenon DEF BusInv, OrderInv
<1>9. StayInv'
  <2>1. MainListed => \E k \in 1 .. Len(ToMain) : ToMain[k] = sending[t].event
      BY <1>7, <1>0, SenderLists DEF EndedBy, BusInv, StayInv
  <2>2. TerminalListed /\ terminal = "running" =>
           \E k \in 1 .. Len(ToTerminal) : ToTerminal[k] = sending[t].event
      BY <1>7, <1>0, Zenon DEF EndedBy, BusInv, StayInv
  <2>3. MainListed' \/ ShutdownSent("main")'
      BY <1>1, <2>1, <1>0, Zenon DEF EndedBy, BusInv, StayInv, ShutdownSent, ToMain
  <2>4. terminal' = "running" => TerminalListed' \/ ShutdownSent("terminal")'
      BY <1>1, <2>2, <1>0, Zenon DEF EndedBy, BusInv, StayInv, ShutdownSent, ToTerminal
  <2>5. QED
      BY <1>1, <2>3, <2>4, Zenon DEF StayInv
<1>10. BucketInv'
  <2>1. \A u \in Thread : sending'[u].event.what # "Category"
      BY <1>3, NotSendingFields, Zenon
  <2>2. QED
      BY <1>1, <2>1, Zenon DEF BusInv, BucketInv
<1>11. QED
    BY <1>4, <1>5, <1>6, <1>8, <1>9, <1>10, Zenon DEF BusInv

(* The terminal subscribes.                                                 *)
LEMMA TerminalStartsKeeps ==
    ASSUME BusInv, TerminalStarts
    PROVE  BusInv'
<1>1. /\ UNCHANGED <<lock, sending, delivered, received, todo, screen>>
      /\ ToMain' = ToMain /\ ToTerminal' = ToTerminal /\ lock = None
      /\ mainAt = "subscribe" /\ mainAt' = "list" /\ terminal' = "running"
      /\ joined' = Len(ToMain) /\ senders' = Append(senders, "terminal")
    BY Zenon DEF TerminalStarts, ToMain, ToTerminal
<1>2. /\ senders \in {<<>>, <<"main">>} /\ ToTerminal = <<>> /\ Len(ToTerminal) = 0
      /\ \A n \in 1 .. Len(ToMain) : ToMain[n].what = "Shutdown"
      /\ Len(ToMain) \in Nat
    BY <1>1 DEF BusInv, BusTypes, StartInv, ToMain, Subscriber
<1>3. \/ senders = <<>> /\ senders' = <<"terminal">>
      \/ senders = <<"main">> /\ senders' = <<"main", "terminal">>
  <2> DEFINE both == Append(<<"main">>, "terminal")
  <2>1. Append(<<>>, "terminal") = <<"terminal">>
      OBVIOUS
  <2>2. both \in Seq({"main", "terminal"}) /\ Len(both) = 2 /\ both[1] = "main" /\ both[2] = "terminal"
      OBVIOUS
  <2>3. both = <<"main", "terminal">>
    <3> HIDE DEF both
    <3>1. QED
        BY <2>2
  <2>4. QED
      BY <1>1, <1>2, <2>1, <2>3, Zenon
<1>4. (MainListed' <=> MainListed) /\ TerminalListed'
  <2>1. <<"terminal">> # <<"main">> /\ <<"terminal">> # <<"main", "terminal">> /\ <<>> # <<"main">>
        /\ <<>> # <<"main", "terminal">>
      BY Zenon
  <2>2. QED
      BY <1>3, <2>1, Zenon DEF MainListed, TerminalListed
<1>5. BusTypes'
    BY <1>1, <1>2, <1>3, Zenon DEF BusInv, BusTypes
<1>6. LockInv'
    BY <1>1, Zenon DEF BusInv, LockInv
<1>7. StartInv'
    BY <1>1, <1>2 DEF StartInv
<1>8. OrderInv'
    BY <1>1, <1>2 DEF OrderInv, OneOrder, ToTerminal
<1>9. StayInv'
    BY <1>1, <1>4, Zenon DEF BusInv, StayInv, ShutdownSent
<1>10. BucketInv'
    BY <1>1, <1>2 DEF BusInv, BucketInv
<1>11. QED
    BY <1>5, <1>6, <1>7, <1>8, <1>9, <1>10, Zenon DEF BusInv

(* Main goes on, with new things to broadcast or none.                      *)
LEMMA MainGoesOn ==
    ASSUME BusInv, UNCHANGED <<senders, lock, sending, delivered, terminal, screen, joined>>,
           mainAt # "subscribe", mainAt' \in {"list", "loop", "ended"},
           todo' \in Seq(Event), NEW n \in Nat, received["main"] <= n, n <= Len(ToMain),
           received' = [received EXCEPT !["main"] = n],
           \A k \in 1 .. Len(todo') :
              todo'[k].what = "Category" => LoadAnnounced(ToMain, n, todo'[k].kind)
    PROVE  BusInv'
<1>1. /\ ToMain' = ToMain /\ ToTerminal' = ToTerminal
      /\ MainListed' <=> MainListed
      /\ TerminalListed' <=> TerminalListed
    BY Zenon DEF ToMain, ToTerminal, MainListed, TerminalListed
<1>2. /\ received["main"] \in Nat /\ received' \in [Subscriber -> Nat]
      /\ received'["main"] = n /\ received'["terminal"] = received["terminal"]
    BY Zenon DEF BusInv, BusTypes, Subscriber
<1>3. BusTypes'
    BY <1>1, <1>2, Zenon DEF BusInv, BusTypes
<1>4. LockInv'
    BY Zenon DEF BusInv, LockInv
<1>5. StartInv'
    BY <1>1, Zenon DEF BusInv, StartInv
<1>6. OrderInv'
    BY <1>1, Zenon DEF BusInv, OrderInv, OneOrder
<1>7. StayInv'
    BY <1>1, Zenon DEF BusInv, StayInv, ShutdownSent
<1>8. BucketInv'
  <2>1. \A k : LoadAnnounced(ToMain, received["main"], k) => LoadAnnounced(ToMain, n, k)
      BY <1>2, AnnouncedStays, Zenon
  <2>2. QED
      BY <1>1, <1>2, <2>1, Zenon DEF BusInv, BucketInv
<1>9. QED
    BY <1>3, <1>4, <1>5, <1>6, <1>7, <1>8, Zenon DEF BusInv

(* The handlers on the main thread answer an event.                         *)
LEMMA MainReceivesKeeps ==
    ASSUME BusInv, MainReceives
    PROVE  BusInv'
<1> DEFINE n == received["main"] + 1
           e == ToMain[n]
<1>1. /\ mainAt = "loop" /\ todo' \in Answers(e) /\ received["main"] < Len(ToMain)
      /\ UNCHANGED <<senders, lock, sending, delivered, terminal, screen, joined, mainAt>>
      /\ received' = [received EXCEPT !["main"] = @ + 1]
    BY Zenon DEF MainReceives, busVars, terminalVars, ToMain
<1>2. /\ n \in Nat /\ received["main"] <= n /\ n <= Len(ToMain) /\ n \in 1 .. n
      /\ received' = [received EXCEPT !["main"] = n] /\ e \in Event
    BY <1>1 DEF BusInv, BusTypes, Subscriber, ToMain
<1> HIDE DEF n
<1>3. /\ todo' \in Seq(Event)
      /\ \A k \in 1 .. Len(todo') : todo'[k].what = "Category" =>
            e.what = "LoadStarted" /\ todo'[k].kind = e.kind
    BY <1>1, <1>2, AnswerEvents, Zenon
<1>4. \A k \in 1 .. Len(todo') : todo'[k].what = "Category" => LoadAnnounced(ToMain, n, todo'[k].kind)
    BY <1>2, <1>3, Zenon DEF LoadAnnounced
<1>5. mainAt # "subscribe" /\ mainAt' \in {"list", "loop", "ended"}
    BY <1>1, Zenon
<1>6. QED
    BY <1>1, <1>2, <1>3, <1>4, <1>5, MainGoesOn, Zenon

(* The terminal enters an event and draws the screen.                       *)
LEMMA TerminalReceivesKeeps ==
    ASSUME BusInv, TerminalReceives
    PROVE  BusInv'
<1> DEFINE n == received["terminal"] + 1
           e == ToTerminal[n]
<1>1. /\ UNCHANGED <<senders, lock, sending, delivered, joined, mainAt, todo>>
      /\ ToMain' = ToMain /\ ToTerminal' = ToTerminal
      /\ terminal = "running" /\ terminal' = Redraw(e) /\ screen' = Updated(e)
      /\ received["terminal"] < Len(ToTerminal)
      /\ received' = [received EXCEPT !["terminal"] = @ + 1]
    BY Zenon DEF TerminalReceives, busVars, ToMain, ToTerminal
<1>2. /\ received["terminal"] \in Nat /\ n \in 1 .. Len(ToTerminal) /\ n - 1 = received["terminal"]
      /\ received' \in [Subscriber -> Nat] /\ received'["terminal"] = n /\ received'["main"] = received["main"]
      /\ e \in Event /\ e.kind \in Kind \cup {None}
  <2>1. /\ received["terminal"] \in Nat /\ ToTerminal \in Seq(Event)
        /\ received' \in [Subscriber -> Nat]
        /\ received'["terminal"] = n /\ received'["main"] = received["main"]
      BY <1>1 DEF BusInv, BusTypes, Subscriber, ToTerminal
  <2>2. n \in 1 .. Len(ToTerminal) /\ n - 1 = received["terminal"]
      BY <1>1, <2>1
  <2>3. e \in Event
      BY <2>1, <2>2
  <2>4. QED
      BY <2>1, <2>2, <2>3, Zenon DEF Event
<1>3. terminal' = terminal
    BY <1>1, Zenon DEF Redraw, BusInv, BucketInv
<1>4. /\ MainListed' <=> MainListed
      /\ TerminalListed' <=> TerminalListed
    BY <1>1, Zenon DEF MainListed, TerminalListed
<1>5. /\ screen' \in [categories : SUBSET (Kind \cup {None}), buckets : SUBSET (Kind \cup {None})]
      /\ screen.buckets \subseteq screen'.buckets
      /\ e.what = "LoadStarted" => e.kind \in screen'.buckets
      /\ screen'.categories \subseteq screen'.buckets
  <2> HIDE DEF n
  <2>1. /\ screen \in [categories : SUBSET (Kind \cup {None}), buckets : SUBSET (Kind \cup {None})]
        /\ screen.categories \subseteq screen.buckets
      BY Zenon DEF BusInv, BusTypes, BucketInv
  <2>2. CASE e.what = "Category"
    <3>1. LoadAnnounced(ToTerminal, n - 1, e.kind)
        BY <1>1, <1>2, <2>2, Zenon DEF BusInv, BucketInv
    <3>2. e.kind \in screen.buckets
        BY <1>2, <3>1, Zenon DEF BusInv, BucketInv, LoadAnnounced
    <3>3. screen' = [screen EXCEPT !.categories = @ \cup {e.kind}]
        BY <1>1, <2>2, Zenon DEF Updated
    <3>4. QED
        BY <1>2, <2>1, <2>2, <3>2, <3>3, Zenon
  <2>3. CASE e.what \in {"Added", "LoadStarted", "LoadFailed"}
    <3>1. screen' = [categories |-> screen.categories \cup {e.kind},
                     buckets |-> screen.buckets \cup {e.kind}]
        BY <1>1, <2>3, Zenon DEF Updated
    <3>2. QED
        BY <1>2, <2>1, <3>1, Zenon
  <2>4. CASE e.what \notin {"Added", "LoadStarted", "LoadFailed", "Category"}
    <3>1. screen' = screen
        BY <1>1, <2>4, Zenon DEF Updated
    <3>2. QED
        BY <2>1, <2>4, <3>1, Zenon
  <2>5. QED
      BY <2>2, <2>3, <2>4, Zenon
<1>6. BusTypes'
  <2>1. received'["terminal"] <= Len(ToTerminal')
    <3>1. n <= Len(ToTerminal)
        BY <1>2
    <3>2. QED
        BY <1>1, <1>2, <3>1, Zenon
  <2>2. received'["main"] <= Len(ToMain')
      BY <1>1, <1>2, Zenon DEF BusInv, BusTypes
  <2>3. QED
      BY <1>1, <1>2, <1>3, <1>5, <2>1, <2>2, Zenon DEF BusInv, BusTypes
<1>7. LockInv'
    BY <1>1, <1>3, Zenon DEF BusInv, LockInv
<1>8. StartInv'
    BY <1>1, <1>3, Zenon DEF BusInv, StartInv
<1>9. OrderInv'
    BY <1>1, <1>3, <1>4, Zenon DEF BusInv, OrderInv, OneOrder
<1>10. StayInv'
    BY <1>1, <1>3, <1>4, Zenon DEF BusInv, StayInv, ShutdownSent
<1>11. BucketInv'
  <2>1. \A i \in 1 .. n : ToTerminal[i].what = "LoadStarted" => ToTerminal[i].kind \in screen'.buckets
    <3>1. \A i \in 1 .. received["terminal"] :
             ToTerminal[i].what = "LoadStarted" => ToTerminal[i].kind \in screen.buckets
        BY Zenon DEF BusInv, BucketInv
    <3>2. \A i \in 1 .. n : i = n \/ i \in 1 .. received["terminal"]
        BY <1>2
    <3> HIDE DEF n
    <3>3. QED
        BY <1>5, <3>1, <3>2, Zenon
  <2> HIDE DEF n
  <2>2. QED
      BY <1>1, <1>2, <1>3, <1>5, <2>1, Zenon DEF BusInv, BucketInv
<1>12. QED
    BY <1>6, <1>7, <1>8, <1>9, <1>10, <1>11, Zenon DEF BusInv

(* The terminal's thread ends.                                              *)
LEMMA TerminalGoesKeeps ==
    ASSUME BusInv, TerminalGoes
    PROVE  BusInv'
<1>1. /\ UNCHANGED <<senders, lock, sending, delivered, received, joined, mainAt, todo, screen>>
      /\ ToMain' = ToMain /\ ToTerminal' = ToTerminal
      /\ terminal = "running" /\ terminal' = "gone"
    BY Zenon DEF TerminalGoes, busVars, ToMain, ToTerminal
<1>2. /\ MainListed' <=> MainListed
      /\ TerminalListed' <=> TerminalListed
    BY <1>1, Zenon DEF MainListed, TerminalListed
<1>3. BusTypes'
    BY <1>1, Zenon DEF BusInv, BusTypes
<1>4. LockInv'
    BY <1>1, Zenon DEF BusInv, LockInv
<1>5. StartInv'
    BY <1>1, Zenon DEF BusInv, StartInv
<1>6. OrderInv'
    BY <1>1, <1>2, Zenon DEF BusInv, OrderInv, OneOrder
<1>7. StayInv'
    BY <1>1, <1>2, Zenon DEF BusInv, StayInv, ShutdownSent
<1>8. BucketInv'
    BY <1>1, Zenon DEF BusInv, BucketInv
<1>9. QED
    BY <1>3, <1>4, <1>5, <1>6, <1>7, <1>8, Zenon DEF BusInv

(* Init establishes the inductive invariant.                                *)
LEMMA BusInvInit == BusInit => BusInv
<1> SUFFICES ASSUME BusInit PROVE BusInv
    BY Zenon
<1>1. /\ ToMain = <<>> /\ ToTerminal = <<>> /\ Len(ToMain) = 0 /\ Len(ToTerminal) = 0
      /\ received["main"] = 0 /\ received["terminal"] = 0
    BY Zenon DEF BusInit, ToMain, ToTerminal, Subscriber
<1>2. NotSending \in [event : Event, next : Nat, failed : Nat] /\ NotSending.event.what = "Log"
    BY Zenon DEF NotSending, Plain, Event, What
<1>3. BusTypes
  <2>1. /\ sending \in [Thread -> [event : Event, next : Nat, failed : Nat]]
        /\ received \in [Subscriber -> Nat]
      BY <1>2, Zenon DEF BusInit
  <2>2. /\ delivered \in [Subscriber -> Seq(Event)] /\ todo \in Seq(Event)
        /\ screen \in [categories : SUBSET (Kind \cup {None}), buckets : SUBSET (Kind \cup {None})]
      BY DEF BusInit
  <2>3. QED
      BY <1>1, <2>1, <2>2 DEF BusInit, BusTypes
<1>4. LockInv
    BY Zenon DEF BusInit, LockInv
<1>5. StartInv
    BY <1>1 DEF BusInit, StartInv
<1>6. OrderInv
  <2>1. senders # <<"terminal">> /\ senders # <<"main", "terminal">>
      BY Zenon DEF BusInit
  <2>2. QED
      BY <1>1, <2>1 DEF BusInit, OrderInv, OneOrder, ToTerminal
<1>7. StayInv
    BY Zenon DEF BusInit, StayInv, MainListed
<1>8. BucketInv
    BY <1>1, <1>2 DEF BusInit, BucketInv
<1>9. QED
    BY <1>3, <1>4, <1>5, <1>6, <1>7, <1>8, Zenon DEF BusInv

(* Every step preserves the inductive invariant.                            *)
LEMMA BusInvStep == BusInv /\ [BusNext]_broadcasterVars => BusInv'
<1> SUFFICES ASSUME BusInv, [BusNext]_broadcasterVars PROVE BusInv'
    BY Zenon
<1>1. ASSUME NEW t \in Thread, SendNext(t) PROVE BusInv'
  <2>1. senders[sending[t].next] \in {"main", "terminal"}
      BY <1>1, SendFacts, SenderLists, Zenon DEF SentBy, BusInv
  <2>2. QED
      BY <1>1, <2>1, SendToMain, SendToTerminal, SendFails, Zenon
<1>2. ASSUME NEW t \in Thread, BroadcastEnds(t) PROVE BusInv'
    BY <1>2, EndKeeps, Zenon
<1>3. ASSUME NEW t \in Thread \ {"main"}, NEW e \in EventsOf[t], ThreadBroadcasts(t, e)
      PROVE  BusInv'
  <2>1. /\ Locked(t, e)
        /\ mainAt = "subscribe" => t = "signal"
        /\ UNCHANGED <<received, mainAt, todo, terminal, screen, joined>>
      BY <1>3, Zenon DEF ThreadBroadcasts, terminalVars
  <2>2. e \in Event /\ e.what # "Category" /\ (mainAt = "subscribe" => e.what = "Shutdown")
      BY <2>1, ThreadEvents, Zenon
  <2>3. /\ todo' \in Seq(Event)
        /\ \A n \in 1 .. Len(todo') : todo'[n].what = "Category" =>
              LoadAnnounced(ToMain, received["main"], todo'[n].kind)
      BY <2>1, Zenon DEF BusInv, BusTypes, BucketInv
  <2>4. QED
      BY <2>1, <2>2, <2>3, LockedKeeps, Zenon
<1>4. CASE TerminalStarts
    BY <1>4, TerminalStartsKeeps, Zenon
<1>5. ASSUME NEW k \in Kind, AddPath(k) PROVE BusInv'
  <2>1. /\ Locked("main", Added(k)) /\ mainAt = "list"
        /\ UNCHANGED <<received, mainAt, todo, terminal, screen, joined>>
      BY <1>5, Zenon DEF AddPath, terminalVars
  <2>2. Added(k) \in Event /\ Added(k).what # "Category" /\ "main" \in Thread
      BY Zenon DEF Added, Event, What, Thread
  <2>3. /\ todo' \in Seq(Event)
        /\ \A n \in 1 .. Len(todo') : todo'[n].what = "Category" =>
              LoadAnnounced(ToMain, received["main"], todo'[n].kind)
      BY <2>1, Zenon DEF BusInv, BusTypes, BucketInv
  <2>4. QED
      BY <2>1, <2>2, <2>3, LockedKeeps, Zenon
<1>6. CASE LoopBegins
  <2>1. /\ mainAt = "list" /\ mainAt' = "loop" /\ todo' = <<Plain("Log")>>
        /\ UNCHANGED <<senders, lock, sending, delivered, received, terminal, screen, joined>>
      BY <1>6, Zenon DEF LoopBegins, busVars, terminalVars
  <2>2. Plain("Log") \in Event /\ Plain("Log").what # "Category"
      BY Zenon DEF Plain, Event, What
  <2>3. /\ received["main"] \in Nat /\ received["main"] <= Len(ToMain)
        /\ received' = [received EXCEPT !["main"] = received["main"]]
      BY <2>1, Zenon DEF BusInv, BusTypes, Subscriber
  <2>4. /\ todo' \in Seq(Event)
        /\ \A n \in 1 .. Len(todo') : todo'[n].what = "Category" =>
              LoadAnnounced(ToMain, received["main"], todo'[n].kind)
      BY <2>1, <2>2
  <2>5. /\ mainAt # "subscribe" /\ mainAt' \in {"list", "loop", "ended"}
        /\ received["main"] <= received["main"]
      BY <2>1, <2>3
  <2>6. QED
      BY <2>1, <2>3, <2>4, <2>5, MainGoesOn, Zenon
<1>7. CASE MainReceives
    BY <1>7, MainReceivesKeeps, Zenon
<1>8. CASE MainBroadcasts
  <2>1. /\ Locked("main", Head(todo)) /\ mainAt = "loop" /\ todo # <<>> /\ todo' = Tail(todo)
        /\ UNCHANGED <<received, mainAt, terminal, screen, joined>>
      BY <1>8, Zenon DEF MainBroadcasts, terminalVars
  <2>2. /\ todo \in Seq(Event)
        /\ \A n \in 1 .. Len(todo) : todo[n].what = "Category" =>
              LoadAnnounced(ToMain, received["main"], todo[n].kind)
      BY Zenon DEF BusInv, BusTypes, BucketInv
  <2>3. /\ Head(todo) \in Event /\ Head(todo) = todo[1] /\ 1 \in 1 .. Len(todo)
        /\ todo' \in Seq(Event)
        /\ \A n \in 1 .. Len(todo') : n + 1 \in 1 .. Len(todo) /\ todo'[n] = todo[n + 1]
      BY <2>1, <2>2
  <2>4. "main" \in Thread
      BY Zenon DEF Thread
  <2>5. \A n \in 1 .. Len(todo') : todo'[n].what = "Category" =>
           LoadAnnounced(ToMain, received["main"], todo'[n].kind)
      BY <2>2, <2>3, Zenon
  <2>6. Head(todo).what = "Category" => LoadAnnounced(ToMain, received["main"], Head(todo).kind)
      BY <2>2, <2>3, Zenon
  <2>7. QED
      BY <2>1, <2>3, <2>4, <2>5, <2>6, LockedKeeps, Zenon
<1>9. CASE MainEnds
  <2>1. /\ mainAt = "loop" /\ mainAt' = "ended"
        /\ UNCHANGED <<senders, lock, sending, delivered, received, todo, terminal, screen, joined>>
      BY <1>9, Zenon DEF MainEnds, busVars, terminalVars
  <2>2. /\ received["main"] \in Nat /\ received["main"] <= Len(ToMain)
        /\ received' = [received EXCEPT !["main"] = received["main"]]
      BY <2>1, Zenon DEF BusInv, BusTypes, Subscriber
  <2>3. /\ todo' \in Seq(Event)
        /\ \A n \in 1 .. Len(todo') : todo'[n].what = "Category" =>
              LoadAnnounced(ToMain, received["main"], todo'[n].kind)
      BY <2>1, Zenon DEF BusInv, BusTypes, BucketInv
  <2>4. /\ mainAt # "subscribe" /\ mainAt' \in {"list", "loop", "ended"}
        /\ received["main"] <= received["main"]
      BY <2>1, <2>2
  <2>5. QED
      BY <2>1, <2>2, <2>3, <2>4, MainGoesOn, Zenon
<1>10. CASE TerminalReceives
    BY <1>10, TerminalReceivesKeeps, Zenon
<1>11. CASE TerminalGoes
    BY <1>11, TerminalGoesKeeps, Zenon
<1>12. CASE UNCHANGED broadcasterVars
  <2>1. UNCHANGED <<senders, lock, sending, delivered, received, mainAt, todo, terminal, screen, joined>>
      BY <1>12, Zenon DEF broadcasterVars, busVars, terminalVars
  <2>2. UNCHANGED <<ToMain, ToTerminal, MainListed, TerminalListed>>
      BY <2>1, Zenon DEF ToMain, ToTerminal, MainListed, TerminalListed
  <2>3. BusTypes'
      BY <2>1, <2>2, Zenon DEF BusInv, BusTypes
  <2>4. LockInv' /\ StartInv'
      BY <2>1, <2>2, Zenon DEF BusInv, LockInv, StartInv
  <2>5. OrderInv'
      BY <2>1, <2>2, Zenon DEF BusInv, OrderInv, OneOrder
  <2>6. StayInv'
      BY <2>1, <2>2, Zenon DEF BusInv, StayInv, ShutdownSent
  <2>7. BucketInv'
      BY <2>1, <2>2, Zenon DEF BusInv, BucketInv
  <2>8. QED
      BY <2>3, <2>4, <2>5, <2>6, <2>7, Zenon DEF BusInv
<1>13. "main" \in Thread
    BY Zenon DEF Thread
<1>14. QED
    BY <1>1, <1>2, <1>3, <1>4, <1>5, <1>6, <1>7, <1>8, <1>9, <1>10, <1>11, <1>12, <1>13, Zenon
    DEF BusNext, MainSteps
-----------------------------------------------------------------------------
(* The mutex, the list of senders and the queues of both subscribers are    *)
(* always as broadcast_core leaves them between two of its steps.           *)
THEOREM BusStaysConsistent == BusSpec => []BusInv
<1>1. QED
    BY BusInvInit, BusInvStep, PTL DEF BusSpec

(* Two subscribers are sent one sequence of events: whichever threads       *)
(* broadcast at once, the terminal's copy agrees with main's, from the      *)
(* place where the terminal subscribed.                                     *)
THEOREM AlwaysOneOrder == BusSpec => []OneOrder
<1>1. BusInv => OneOrder
    BY Zenon DEF BusInv, OrderInv
<1>2. QED
    BY <1>1, BusStaysConsistent, PTL

(* broadcast_core takes off the list only a sender that failed: a listener  *)
(* that was not sent Shutdown stays, and has all that the other has.        *)
THEOREM ListenersAlwaysStay == BusSpec => []ListenersStay
<1>1. BusInv => ListenersStay
  <2> SUFFICES ASSUME BusInv, lock = None PROVE
        /\ "main" \in Range(senders) \/ ShutdownSent("main")
        /\ terminal = "running" => "terminal" \in Range(senders) \/ ShutdownSent("terminal")
        /\ Range(senders) = Subscriber /\ terminal = "running" =>
              Len(delivered["main"]) = joined + Len(delivered["terminal"])
      BY Zenon DEF ListenersStay
  <2>1. /\ MainListed => "main" \in Range(senders)
        /\ TerminalListed => "terminal" \in Range(senders)
        /\ Range(senders) = Subscriber => senders = <<"main", "terminal">>
    <3>1. \A s : s \in Range(senders) <=> \E n \in 1 .. Len(senders) : senders[n] = s
        BY DEF Range, BusInv, BusTypes
    <3>2. QED
        BY <3>1, SenderLists DEF BusInv, Subscriber
  <2>2. QED
      BY <2>1, Zenon DEF BusInv, StayInv, OrderInv, ToMain, ToTerminal
<1>2. QED
    BY <1>1, BusStaysConsistent, PTL

(* redraw_screen finds a bucket for every category it has a count of.       *)
THEOREM BucketsAlwaysExist == BusSpec => []BucketsExist
<1>1. BusInv => BucketsExist
    BY Zenon DEF BusInv, BusTypes, BucketsExist
<1>2. QED
    BY <1>1, BusStaysConsistent, PTL
=============================================================================
