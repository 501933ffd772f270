------------------------------ MODULE Debounce -------------------------------
(***************************************************************************)
(* From a written file to the rescan that takes it in: the watcher         *)
(* (unitwatcher.rs), the main loop with the loader and the library         *)
(* (main.rs, unitloader.rs, unitlibrary.rs), and the timer of Quiesce.     *)
(*                                                                         *)
(* Every message that is not about a rescan restarts the timer, those that *)
(* a rescan itself causes included; the timer asks for the next rescan.    *)
(* Whether the last change is taken in, and whether the rescans ever cease,*)
(* depends on all of these parts.                                          *)
(*                                                                         *)
(* One unit file, which is written again and again: its contents are       *)
(* numbered, 0 being a file that does not exist.  What a rescan does with  *)
(* several units, with wrong and with removed files, is in UnitLibrary.    *)
(***************************************************************************)
EXTENDS Quiesce

CONSTANTS
    MaxWrites,    \* bound: how often the file is written
    MaxChatter    \* bound: messages of other threads, a log entry for one

(* The timers suffice for what one write leads to: a report, a request, a   *)
(* count of units and a message of the rescan; and for the first log entry. *)
ASSUME DebounceAssumption ==
    /\ MaxWrites \in Nat
    /\ MaxChatter \in Nat
    /\ MaxMessages >= 1 + MaxChatter + 4 * MaxWrites

VARIABLES
    startup,     \* where main is before its loop
    file,        \* the number of the contents on disk
    parsed,      \* the contents the library has a description of
    taken,       \* the contents the last rescan loaded, or failed to load
    dirty,       \* the unit is in the library's dirty table
    bus,         \* the messages main has not received
    missed,      \* the file was last written when nobody looked
    chatter      \* number of messages of other threads

fileVars == <<startup, file, missed, chatter>>
libraryVars == <<parsed, taken, dirty>>
allVars == <<vars, fileVars, libraryVars, bus>>

AboutRescan == {"RescanRequest", "RescanStart", "RescanFinish"}
BusMessage == AboutRescan \cup {"Added", "LoadStarted", "Category", "Loaded", "Log"}

(* Start-up finds the file, or does not.                                    *)
DebounceInit ==
    /\ Init
    /\ startup = "list"
    /\ file \in {0, 1} \cap 0 .. MaxWrites
    /\ parsed = 0
    /\ taken = 0
    /\ dirty = FALSE
    /\ bus = <<>>
    /\ missed = FALSE
    /\ chatter = 0

-----------------------------------------------------------------------------
(* Start-up: add_path reports what the directory holds, and watches it only *)
(* then; the first log entry follows.                                       *)

ListDirectory ==
    /\ startup = "list"
    /\ startup' = "watch"
    /\ bus' = IF file > 0 THEN Append(bus, "Added") ELSE bus
    /\ UNCHANGED <<vars, file, missed, chatter, libraryVars>>

WatchBegins ==
    /\ startup = "watch"
    /\ startup' = "loop"
    /\ bus' = Append(bus, "Log")
    /\ UNCHANGED <<vars, file, missed, chatter, libraryVars>>

(* The file is written.  The watcher thread reports it once it watches; a   *)
(* file that was listed is read later in any case.                          *)
FileWritten ==
    /\ file < MaxWrites
    /\ file' = file + 1
    /\ bus' = IF startup = "loop" THEN Append(bus, "Added") ELSE bus
    /\ missed' = (startup = "watch" /\ bus = <<>>)
    /\ UNCHANGED <<vars, startup, chatter, libraryVars>>

(* A message of another thread that does not concern the file.              *)
OtherMessage ==
    /\ startup = "loop"
    /\ chatter < MaxChatter
    /\ chatter' = chatter + 1
    /\ bus' = Append(bus, "Log")
    /\ UNCHANGED <<vars, startup, file, missed, libraryVars>>

-----------------------------------------------------------------------------
(* The main loop                                                            *)

(* Seeded mistake: the end of a rescan restarts the timer as well.          *)
RestartsAlsoFinish(msg) == msg \notin AboutRescan \ {"RescanFinish"}

(* process_message of Quiesce: rescans do not restart the timer.            *)
Restarts(msg) == msg \notin AboutRescan

(* What the loader and the library broadcast, behind what is queued.        *)
Answer(msg) ==
    CASE msg = "Added" -> <<"LoadStarted">>
      [] msg = "LoadStarted" -> <<"Category">>
      [] OTHER -> <<>>

(* Seeded mistake: the library does not mark the unit.                      *)
MarkedNever(msg) == dirty

(* mark_dirty                                                               *)
Marked(msg) == dirty \/ msg = "LoadStarted"

MainTakes ==
    /\ startup = "loop"
    /\ bus # <<>>
    /\ Restarts(Head(bus))
    /\ bus' = Tail(bus) \o Answer(Head(bus))
    /\ parsed' = IF Head(bus) = "LoadStarted" THEN file ELSE parsed
    /\ dirty' = Marked(Head(bus))
    /\ SendIgnore
    /\ UNCHANGED <<fileVars, taken>>

(* A rescan tells of the units it loaded, if any; what it unloads it tells  *)
(* of only if it was selected.                                              *)
News == IF dirty THEN {<<>>, <<"Loaded">>} ELSE {<<>>}

MainRescans ==
    /\ startup = "loop"
    /\ main = "idle"
    /\ bus # <<>>
    /\ Head(bus) = "RescanRequest"
    /\ \E news \in News :
          bus' = Tail(bus) \o <<"RescanStart">> \o news \o <<"RescanFinish">>
    /\ taken' = IF dirty THEN parsed ELSE taken
    /\ dirty' = FALSE
    /\ UNCHANGED <<vars, fileVars, parsed>>

MainPasses ==
    /\ startup = "loop"
    /\ main = "idle"
    /\ bus # <<>>
    /\ ~Restarts(Head(bus))
    /\ Head(bus) # "RescanRequest"
    /\ bus' = Tail(bus)
    /\ UNCHANGED <<vars, fileVars, libraryVars>>

(* The main thread completes the restart it has begun.                      *)
MainRestarts ==
    /\ SendSchedule \/ Notify
    /\ UNCHANGED <<fileVars, libraryVars, bus>>

-----------------------------------------------------------------------------
(* The worker of the timer: firing is a broadcast.                          *)

(* Seeded mistake: the request is not broadcast.                            *)
WorkerFiresSilently ==
    /\ startup = "loop"
    /\ Fire
    /\ UNCHANGED <<fileVars, libraryVars, bus>>

WorkerFires ==
    /\ startup = "loop"
    /\ Fire
    /\ bus' = IF fired' = fired THEN bus ELSE Append(bus, "RescanRequest")
    /\ UNCHANGED <<fileVars, libraryVars>>

WorkerGoesOn ==
    /\ startup = "loop"
    /\ DrainOne \/ DrainEnds \/ FireEnds \/ Sleep \/ TimedOut
    /\ UNCHANGED <<fileVars, libraryVars, bus>>

TimePasses == Tick /\ UNCHANGED <<fileVars, libraryVars, bus>>

WakesUp == SpuriousWakeup /\ UNCHANGED <<fileVars, libraryVars, bus>>

-----------------------------------------------------------------------------
MainThread ==
    \/ ListDirectory
    \/ WatchBegins
    \/ MainTakes
    \/ MainRescans
    \/ MainPasses
    \/ MainRestarts

DebounceNext ==
    \/ MainThread
    \/ FileWritten
    \/ OtherMessage
    \/ WorkerFires
    \/ WorkerGoesOn
    \/ TimePasses
    \/ WakesUp

DebounceSpec == DebounceInit /\ [][DebounceNext]_allVars

(* The two threads run and time passes.  Nobody need write, no other        *)
(* message need come, and there need be no spurious wake-up.                *)
DebounceFairSpec ==
    /\ DebounceSpec
    /\ WF_allVars(MainThread)
    /\ WF_allVars(WorkerFires \/ WorkerGoesOn)
    /\ WF_allVars(TimePasses)

-----------------------------------------------------------------------------
(* The one way a started timer fails to fire: its notification came in the  *)
(* gap before the worker's wait, and the worker waits without a time-out    *)
(* (timer.rs:121-125) while the request is in its channel.                  *)
Stranded == worker = "asleep" /\ wake = 0 /\ channel # <<>>

(* The last contents of the file are loaded in the end, whenever they were  *)
(* written: while a rescan is on its way, while the timer fires, before the *)
(* directory is watched.  Excepted are a file written first between the     *)
(* listing and the watch (unitwatcher.rs:69-75), and a lost notification    *)
(* that no later message makes good.                                        *)
LastWriteIsTaken == <>[](taken = file \/ missed \/ Stranded)

(* Rescans cease once nothing happens any more, although what a rescan      *)
(* broadcasts restarts the timer that asks for the next one.                *)
RescansCease == <>[](bus = <<>>)

(* A dirty unit is never forgotten: as long as one waits for a rescan, a    *)
(* message that restarts the timer or the request itself is on its way to   *)
(* main, or the newest timer has yet to fire, or is being started.          *)
DirtyIsFollowed ==
    dirty => \/ main # "idle"
             \/ \E n \in 1 .. Len(bus) : bus[n] # "RescanStart" /\ bus[n] # "RescanFinish"
             \/ counter > 0 /\ counter \notin fired
=============================================================================
