--------------------------- MODULE UnitBroadcaster ---------------------------
(***************************************************************************)
(* The bus (unitbroadcaster.rs) with its two subscribers, the loop of the  *)
(* main thread (main.rs) and the terminal (terminal.rs), from start-up to  *)
(* Shutdown.                                                               *)
(*                                                                         *)
(* Any thread may broadcast: it locks the list of senders, sends a copy to *)
(* each, takes the sender that failed off the list, and, if the event is   *)
(* Shutdown, empties the list.  A subscriber whose sender is gone receives *)
(* what was sent to it before, and then an error, which ends its loop.     *)
(*                                                                         *)
(* Of the handlers only what they broadcast is kept; what they do is in    *)
(* UnitLibrary and ScenarioRun.                                            *)
(***************************************************************************)
EXTENDS Naturals, Sequences, Functions

CONSTANTS Kind,        \* the kinds of units
          None,
          MaxListed,   \* bound: files found by add_path
          MaxEvents    \* bound: broadcasts of the threads other than main

Subscriber == {"main", "terminal"}
Thread == {"main", "watcher", "timer", "monitor", "signal"}

Added(k) == [what |-> "Added", kind |-> k]
LoadStarted(k) == [what |-> "LoadStarted", kind |-> k]
LoadFailed(k) == [what |-> "LoadFailed", kind |-> k]
Category(k) == [what |-> "Category", kind |-> k]
Plain(w) == [what |-> w, kind |-> None]

\* The events that each thread broadcasts on its own.
EventsOf ==
    [watcher |-> {Added(k) : k \in Kind}, timer |-> {Plain("RescanRequest")},
     monitor |-> {Plain("ManagerRequest")}, signal |-> {Plain("Shutdown")}]

ASSUME BroadcasterAssumption ==
    /\ None \notin Kind /\ None \notin Thread
    /\ MaxListed \in Nat /\ MaxEvents \in Nat

VARIABLES
    senders,     \* UnitBroadcaster.senders: whom the list reaches, in order
    lock,        \* the thread that holds the mutex, or None
    sending,     \* the broadcast each thread is in: event, next index, failed index
    delivered,   \* all that was ever sent to a subscriber
    received,    \* how many of them it has received
    mainAt,      \* where main() is
    todo,        \* what the handler on the main thread has still to broadcast
    terminal,    \* absent, running, panicked or gone
    screen,      \* category_status and unit_status: the kinds they know
    joined,      \* how many events had been delivered to main when terminal subscribed
    listed,      \* how many files add_path has announced
    events       \* how many broadcasts the other threads have begun

busVars == <<senders, lock, sending, delivered>>
terminalVars == <<terminal, screen>>
broadcasterVars == <<busVars, received, mainAt, todo, terminalVars, joined, listed, events>>

NotSending == [event |-> Plain("Log"), next |-> 0, failed |-> 0]

\* main() has subscribed and set the Ctrl-C handler.
BusInit ==
    /\ senders = <<"main">>
    /\ lock = None
    /\ sending = [t \in Thread |-> NotSending]
    /\ delivered = [s \in Subscriber |-> <<>>]
    /\ received = [s \in Subscriber |-> 0]
    /\ mainAt = "subscribe"
    /\ todo = <<>>
    /\ terminal = "absent"
    /\ screen = [categories |-> {}, buckets |-> {}]
    /\ joined = 0
    /\ listed = 0
    /\ events = 0

Alive == mainAt # "ended"

-----------------------------------------------------------------------------
(* broadcast_core                                                          *)

(* Seeded mistake: the list is not locked.                                  *)
LockedByAnyone(t, e) ==
    /\ sending[t].next = 0
    /\ lock' = t
    /\ sending' = [sending EXCEPT ![t] = [event |-> e, next |-> 1, failed |-> 0]]
    /\ UNCHANGED <<senders, delivered>>

Locked(t, e) ==
    /\ lock = None
    /\ sending[t].next = 0
    /\ lock' = t
    /\ sending' = [sending EXCEPT ![t] = [event |-> e, next |-> 1, failed |-> 0]]
    /\ UNCHANGED <<senders, delivered>>

\* The receiver of s has not been dropped.
Listens(s) == s = "main" \/ terminal = "running"

SendNext(t) ==
    /\ Alive
    /\ sending[t].next \in 1 .. Len(senders)
    /\ LET s == senders[sending[t].next]
       IN /\ delivered' = IF Listens(s)
                          THEN [delivered EXCEPT ![s] = Append(@, sending[t].event)]
                          ELSE delivered
          /\ sending' = [sending EXCEPT
                ![t].next = @ + 1,
                ![t].failed = IF Listens(s) THEN @ ELSE sending[t].next]
    /\ UNCHANGED <<senders, lock, received, mainAt, todo, terminalVars, joined, listed, events>>

(* Seeded mistake: the first sender is removed.                             *)
WithoutFailedFirst(list, failed) == IF failed = 0 THEN list ELSE Tail(list)

(* Only the last index that failed is remembered, and removed.              *)
WithoutFailed(list, failed) ==
    IF failed = 0 THEN list
    ELSE SubSeq(list, 1, failed - 1) \o SubSeq(list, failed + 1, Len(list))

(* Seeded mistake: the senders are kept.                                    *)
AfterEventKept(list, e) == list

AfterEvent(list, e) == IF e.what = "Shutdown" THEN <<>> ELSE list

BroadcastEnds(t) ==
    /\ Alive
    /\ sending[t].next > Len(senders)
    /\ senders' = AfterEvent(WithoutFailed(senders, sending[t].failed), sending[t].event)
    /\ lock' = None
    /\ sending' = [sending EXCEPT ![t] = NotSending]
    /\ UNCHANGED <<delivered, received, mainAt, todo, terminalVars, joined, listed, events>>

(* The watcher, the timer, the monitor of the control channel and the       *)
(* signal handler broadcast.  The monitor stands also for the thread that   *)
(* reads the keyboard.  The watcher may report on one directory while the   *)
(* next is listed; the timer is made when all are.                          *)
ThreadBroadcasts(t, e) ==
    /\ Alive
    /\ events < MaxEvents
    /\ mainAt = "subscribe" => t = "signal"
    /\ t = "timer" => mainAt = "loop"
    /\ Locked(t, e)
    /\ events' = events + 1
    /\ UNCHANGED <<received, mainAt, todo, terminalVars, joined, listed>>

-----------------------------------------------------------------------------
(* The main thread                                                         *)

(* TerminalInterface::start                                                 *)
TerminalStarts ==
    /\ mainAt = "subscribe"
    /\ lock = None
    /\ senders' = Append(senders, "terminal")
    /\ terminal' = "running"
    /\ joined' = Len(delivered["main"])
    /\ mainAt' = "list"
    /\ UNCHANGED <<lock, sending, delivered, received, todo, screen, listed, events>>

(* add_path announces each file it finds.                                   *)
AddPath(k) ==
    /\ mainAt = "list"
    /\ listed < MaxListed
    /\ todo = <<>>
    /\ Locked("main", Added(k))
    /\ listed' = listed + 1
    /\ UNCHANGED <<received, mainAt, todo, terminalVars, joined, events>>

(* The directories are watched, and main logs that it is initializing.      *)
LoopBegins ==
    /\ mainAt = "list"
    /\ sending["main"].next = 0
    /\ mainAt' = "loop"
    /\ todo' = <<Plain("Log")>>
    /\ UNCHANGED <<busVars, received, terminalVars, joined, listed, events>>

(* What the loader, the library and the manager broadcast for an event.     *)
Answers(e) ==
    CASE e.what = "Added" -> {<<LoadStarted(e.kind)>>}
      [] e.what = "LoadStarted" -> {<<Category(e.kind)>>, <<LoadFailed(e.kind)>>}
      [] e.what = "RescanRequest" -> {<<Plain("RescanStart"), Plain("RescanFinish")>>}
      [] e.what = "ManagerRequest" -> {<<Plain("Log"), Plain("Shutdown")>>, <<Plain("Log")>>}
      [] OTHER -> {<<>>}

MainReceives ==
    /\ mainAt = "loop"
    /\ sending["main"].next = 0
    /\ todo = <<>>
    /\ received["main"] < Len(delivered["main"])
    /\ todo' \in Answers(delivered["main"][received["main"] + 1])
    /\ received' = [received EXCEPT !["main"] = @ + 1]
    /\ UNCHANGED <<busVars, mainAt, terminalVars, joined, listed, events>>

MainBroadcasts ==
    /\ mainAt = "loop"
    /\ todo # <<>>
    /\ Locked("main", Head(todo))
    /\ todo' = Tail(todo)
    /\ UNCHANGED <<received, mainAt, terminalVars, joined, listed, events>>

(* Nothing is left to receive and the sender is gone: recv returns an       *)
(* error, the loop ends, and with main() the program.                       *)
MainEnds ==
    /\ mainAt = "loop"
    /\ sending["main"].next = 0
    /\ todo = <<>>
    /\ received["main"] = Len(delivered["main"])
    /\ "main" \notin Range(senders)
    /\ mainAt' = "ended"
    /\ UNCHANGED <<busVars, received, todo, terminalVars, joined, listed, events>>

-----------------------------------------------------------------------------
(* The terminal's thread: update_unit and redraw_screen.                   *)

(* Seeded mistake: a new unit is entered without a bucket for its kind.     *)
UpdatedWithoutBucket(e) ==
    CASE e.what \in {"Added", "LoadStarted", "LoadFailed", "Category"} ->
           [screen EXCEPT !.categories = @ \cup {e.kind}]
      [] OTHER -> screen

Updated(e) ==
    CASE e.what = "Category" -> [screen EXCEPT !.categories = @ \cup {e.kind}]
      [] e.what \in {"Added", "LoadStarted", "LoadFailed"} ->
           [categories |-> screen.categories \cup {e.kind},
            buckets |-> screen.buckets \cup {e.kind}]
      [] OTHER -> screen

(* A redraw looks up the bucket of every category and expects to find it.   *)
Redraw(e) ==
    IF e.what = "RescanFinish" /\ ~(screen.categories \subseteq screen.buckets)
    THEN "panicked" ELSE "running"

TerminalReceives ==
    /\ Alive
    /\ terminal = "running"
    /\ received["terminal"] < Len(delivered["terminal"])
    /\ LET e == delivered["terminal"][received["terminal"] + 1]
       IN screen' = Updated(e) /\ terminal' = Redraw(e)
    /\ received' = [received EXCEPT !["terminal"] = @ + 1]
    /\ UNCHANGED <<busVars, mainAt, todo, joined, listed, events>>

(* The terminal cannot be written to, and its thread dies; or its sender is *)
(* gone and its loop ends.                                                  *)
TerminalGoes ==
    /\ Alive
    /\ terminal = "running"
    /\ terminal' = "gone"
    /\ UNCHANGED <<busVars, received, mainAt, todo, screen, joined, listed, events>>

-----------------------------------------------------------------------------
MainSteps ==
    \/ TerminalStarts \/ LoopBegins \/ MainReceives \/ MainBroadcasts \/ MainEnds
    \/ SendNext("main") \/ BroadcastEnds("main")
    \/ \E k \in Kind : AddPath(k)

BusNext ==
    \/ MainSteps
    \/ \E t \in Thread \ {"main"} : SendNext(t) \/ BroadcastEnds(t)
    \/ \E t \in Thread \ {"main"} : \E e \in EventsOf[t] : ThreadBroadcasts(t, e)
    \/ TerminalReceives
    \/ TerminalGoes

(* Threads run: main, and any other that is in a broadcast.                 *)
BusFairness ==
    /\ WF_broadcasterVars(MainSteps)
    /\ \A t \in Thread \ {"main"} : WF_broadcasterVars(SendNext(t) \/ BroadcastEnds(t))

BusSpec == BusInit /\ [][BusNext]_broadcasterVars
FairBusSpec == BusSpec /\ BusFairness

-----------------------------------------------------------------------------
(* The mutex makes one order of all broadcasts: what two subscribers are    *)
(* sent is the same sequence, from where the later one subscribed, although *)
(* several threads broadcast at once.                                       *)
OneOrder ==
    \A n \in 1 .. Len(delivered["terminal"]) :
       joined + n <= Len(delivered["main"]) =>
          delivered["terminal"][n] = delivered["main"][joined + n]

ShutdownSent(s) == \E n \in 1 .. Len(delivered[s]) : delivered[s][n].what = "Shutdown"

(* A failing subscriber takes only itself off the list: one that listens    *)
(* and was not sent Shutdown is still on it, and is behind no other one     *)
(* when no broadcast is under way.                                          *)
ListenersStay ==
    lock = None =>
       /\ "main" \in Range(senders) \/ ShutdownSent("main")
       /\ terminal = "running" => "terminal" \in Range(senders) \/ ShutdownSent("terminal")
       /\ Range(senders) = Subscriber /\ terminal = "running" =>
             Len(delivered["main"]) = joined + Len(delivered["terminal"])

(* redraw_screen finds a bucket for every category ("Couldn't find any      *)
(* category bucket"), because an event about a unit reaches the terminal    *)
(* before the count of units that it leads to.                              *)
BucketsExist == terminal # "panicked"

(* After a Shutdown, from Ctrl-C or from a client, the program ends.        *)
ShutdownEnds == (lock = None /\ ShutdownSent("main")) ~> ~Alive
=============================================================================
