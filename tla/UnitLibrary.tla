----------------------------- MODULE UnitLibrary -----------------------------
(***************************************************************************)
(* How unit files become loaded, selected and active units.                *)
(*                                                                         *)
(* The watcher reports file changes (unitwatcher.rs), the loader turns     *)
(* each report into a request to load, update or unload (unitloader.rs),   *)
(* the library parses the file and remembers the unit as dirty             *)
(* (unitlibrary.rs), and a rescan, asked for by the quiesce timer, brings  *)
(* the units of the manager up to date (unitlibrary.rs, unitmanager.rs).   *)
(* All of that except the file changes happens on the main thread, one     *)
(* message at a time.                                                      *)
(*                                                                         *)
(* What a scenario does while it runs is in ScenarioRun.  Here it is only  *)
(* known which scenarios were started: such a one may be running, and may  *)
(* ask for its tests to be started and stopped, at any time.  (Its end     *)
(* leaves the tables alone: ScenarioFinished panics before it changes them.) *)
(***************************************************************************)
EXTENDS UnitManager

CONSTANTS
    Listings,      \* the directory listings that start-up may find
    MaxReports     \* bound: how many reports of files are considered

FileState == {"absent", "good", "bad"}   \* bad: from_path returns an error
Report == {"Added", "Updated", "Removed"}
Request == {"LoadStarted", "UpdateStarted", "UnloadStarted"}
Status == Request \cup {"LoadFailed", "Unknown"}  \* Unknown: not in unit_status

ASSUME LibraryAssumption ==
    /\ MaxReports \in Nat
    /\ Listings \subseteq Seq(Unit)
    /\ \A listing \in Listings : Len(listing) <= MaxReports

VARIABLES
    disk,        \* the unit files
    queue,       \* messages of the main loop that concern unit files
    status,      \* UnitLibrary.unit_status
    described,   \* the units in the *_descriptions tables
    dirty,       \* the units in the dirty_* tables
    loaded,      \* the units in the manager's tables
    asked,       \* interfaces and triggers with a request in the control channel
    started,     \* the scenarios and tests that a START was accepted for
    stale,       \* loaded scenarios built from a test object since replaced
    reports,     \* number of reports so far, those of the listing included
    panicked     \* the main thread panicked, at which expect

libraryVars == <<status, described, dirty>>
managerVars == <<loaded, manager, stale>>
vars == <<disk, queue, libraryVars, managerVars, asked, started, reports, panicked>>

TypeOK ==
    /\ disk \in [Unit -> FileState]
    /\ queue \in Seq([unit : Unit, kind : Report \cup Request])
    /\ status \in [Unit -> Status]
    /\ described \subseteq Unit
    /\ dirty \subseteq Unit
    /\ loaded \subseteq Unit
    /\ manager \in ManagerTables
    /\ asked \subseteq Interface \cup Trigger
    /\ started \subseteq Scenario \cup Test
    /\ stale \subseteq Scenario
    /\ reports \in 0 .. MaxReports
    /\ panicked \in {"no", "status", "client"}

(* A new library, and the directory listing of add_path in the queue.       *)
Init ==
    /\ \E listing \in Listings :
          /\ disk = [u \in Unit |-> IF u \in Range(listing) THEN "good" ELSE "absent"]
          /\ queue = [n \in 1 .. Len(listing) |-> [unit |-> listing[n], kind |-> "Added"]]
          /\ reports = Len(listing)
    /\ status = [u \in Unit |-> "Unknown"]
    /\ described = {}
    /\ dirty = {}
    /\ loaded = {}
    /\ manager = NewManager
    /\ asked = {}
    /\ started = {}
    /\ stale = {}
    /\ panicked = "no"

-----------------------------------------------------------------------------
(* Files change, and the watcher thread reports it.                        *)

ReportOf(before, after) ==
    IF after = "absent" THEN "Removed"
    ELSE IF before = "absent" THEN "Added" ELSE "Updated"

FileChanges(u) ==
    /\ panicked = "no"
    /\ reports < MaxReports
    /\ \E after \in FileState :
          /\ disk[u] # "absent" \/ after # "absent"
          /\ disk' = [disk EXCEPT ![u] = after]
          /\ queue' = Append(queue, [unit |-> u, kind |-> ReportOf(disk[u], after)])
    /\ reports' = reports + 1
    /\ UNCHANGED <<libraryVars, managerVars, asked, started, panicked>>

-----------------------------------------------------------------------------
(* The loader answers a report with a request, behind what is queued.      *)

RequestFor == [Added |-> "LoadStarted", Updated |-> "UpdateStarted",
               Removed |-> "UnloadStarted"]

LoaderHandles ==
    /\ panicked = "no"
    /\ queue # <<>>
    /\ Head(queue).kind \in Report
    /\ queue' = Append(Tail(queue),
                       [unit |-> Head(queue).unit, kind |-> RequestFor[Head(queue).kind]])
    /\ UNCHANGED <<disk, libraryVars, managerVars, asked, started, reports, panicked>>

(* Seeded mistake: updates of scenarios are ignored as well.                *)
HandledButScenarios == [LoadStarted |-> Unit, UpdateStarted |-> Unit \ (Test \cup Scenario)]

(* The library parses the file, as it is by now.  Updates of tests have no  *)
(* process_if! line, and change nothing.                                    *)
HandledKinds == [LoadStarted |-> Unit, UpdateStarted |-> Unit \ Test]

(* Seeded mistake: a unit that does not parse is forgotten at once.         *)
DescriptionsWithout(u) ==
    IF disk[u] = "good" THEN described \cup {u} ELSE described \ {u}

(* Only a file that parses replaces the description.                        *)
Descriptions(u) == IF disk[u] = "good" THEN described \cup {u} ELSE described

LibraryParses ==
    /\ panicked = "no"
    /\ queue # <<>>
    /\ LET u == Head(queue).unit
           request == Head(queue).kind
       IN /\ request \in {"LoadStarted", "UpdateStarted"}
          /\ IF u \in HandledKinds[request]
             THEN /\ dirty' = dirty \cup {u}
                  /\ status' = [status EXCEPT ![u] =
                        IF disk[u] = "good" THEN request ELSE "LoadFailed"]
                  /\ described' = Descriptions(u)
             ELSE UNCHANGED libraryVars
    /\ queue' = Tail(queue)
    /\ UNCHANGED <<disk, managerVars, asked, started, reports, panicked>>

(* Seeded mistake: the status is left as it was.                            *)
LibraryUnloadsWithoutStatus ==
    /\ panicked = "no"
    /\ queue # <<>>
    /\ Head(queue).kind = "UnloadStarted"
    /\ dirty' = dirty \cup {Head(queue).unit}
    /\ queue' = Tail(queue)
    /\ UNCHANGED <<disk, status, described, managerVars, asked, started, reports, panicked>>

LibraryUnloads ==
    /\ panicked = "no"
    /\ queue # <<>>
    /\ Head(queue).kind = "UnloadStarted"
    /\ status' = [status EXCEPT ![Head(queue).unit] = "UnloadStarted"]
    /\ dirty' = dirty \cup {Head(queue).unit}
    /\ queue' = Tail(queue)
    /\ UNCHANGED <<disk, described, managerVars, asked, started, reports, panicked>>

-----------------------------------------------------------------------------
(* rescan                                                                  *)

(* Seeded mistake: units are not marked for their jigs.                     *)
NoJigDependents == {}

(* 1. and 2.: what depends on a dirty jig or test is dirty as well.         *)
JigDependents == {u \in described : Jigs[u] \cap dirty # {}}

(* Seeded mistake: scenarios are not marked for their tests.                *)
NoTestDependents(tests) == {}

TestDependents(tests) == {s \in loaded \cap Scenario : TestsOf[s] \cap tests # {}}

Affected ==
    LET byJig == dirty \cup JigDependents
    IN byJig \cup TestDependents(byJig \cap Test)

(* 3.: what is deleted, its description and its status included.            *)
Deleted == {u \in Affected : status[u] \in {"UnloadStarted", "LoadFailed"}}

Reloaded == (Affected \ Deleted) \cap described

(* Where rescan would not find what it expects in the status table.         *)
Unexpected ==
    {u \in Affected : status[u] = "Unknown"} \cup
    {u \in Reloaded : status[u] \notin {"LoadStarted", "UpdateStarted"}}

(* 4. to 9.: jigs first, then what needs a jig, then what needs tests.      *)
(* refused: jigs whose TestFile or TestProgram does not accept this system. *)
LoadedBy(refused) ==
    LET kept == loaded \ (Deleted \cup Reloaded)
        jigs == (kept \cup (Reloaded \ refused)) \cap Jig
        clients == kept \cup {c \in Reloaded : Fits(c, jigs)}
        tests == (kept \cup Reloaded) \cap Test
        scenarios == kept \cup {s \in Reloaded \cap Scenario :
                                   Fits(s, jigs) /\ TestsOf[s] \subseteq tests}
    IN jigs \cup (clients \cap Client) \cup tests \cup (scenarios \cap Scenario)

Rescan ==
    /\ panicked = "no"
    /\ UNCHANGED <<disk, queue, asked, started, reports>>
    /\ IF Unexpected # {}
       THEN panicked' = "status" /\ UNCHANGED <<libraryVars, managerVars>>
       ELSE \E refused \in SUBSET (Reloaded \cap Jig),
               failing \in SUBSET (manager.process \cap (Deleted \cup Reloaded)) :
            /\ described' = described \ Deleted
            /\ loaded' = LoadedBy(refused)
            /\ status' = [u \in Unit |->
                  IF u \in Deleted THEN "Unknown"
                  ELSE IF u \in Reloaded \ LoadedBy(refused) THEN "LoadFailed"
                  ELSE status[u]]
            /\ dirty' = {}
            /\ Settle(Unload(manager, Deleted \cup Reloaded, failing),
                      Reloaded \cap LoadedBy(refused), LoadedBy(refused))
            /\ stale' = {s \in (loaded' \cap Scenario) \ Reloaded :
                  s \in stale \/ TestsOf[s] \cap (Deleted \cup Reloaded) # {}}
            /\ UNCHANGED panicked

-----------------------------------------------------------------------------
(* Clients: what they ask, and what happens when they cannot be told.      *)

(* A client writes a line; a thread of its own puts the request into the    *)
(* control channel.                                                         *)
ClientAsks(c) ==
    /\ panicked = "no"
    /\ c \in manager.process \ asked
    /\ asked' = asked \cup {c}
    /\ UNCHANGED <<disk, queue, libraryVars, managerVars, started, reports, panicked>>

(* The main thread takes the request of c.                                  *)
Takes(c) ==
    /\ panicked = "no"
    /\ c \in asked
    /\ asked' = asked \ {c}
    /\ UNCHANGED <<disk, queue, libraryVars, loaded, stale, reports>>

(* send_messages_to, for each listener: one that cannot be told, because it *)
(* has no process or cannot be written to, is deactivated.                  *)
Tells(m, listeners) ==
    \E broken \in SUBSET listeners :
       /\ listeners \ m.process \subseteq broken
       /\ \E failing \in SUBSET broken : manager' = Deactivate(m, broken, failing)

Interfaces == loaded \cap Interface

(* A request that is answered to its sender, which send_messages_to expects *)
(* to find.                                                                 *)
AnswerRequest(i) ==
    /\ Takes(i)
    /\ IF i \in loaded
       THEN Tells(manager, {i}) /\ UNCHANGED panicked
       ELSE panicked' = "client" /\ UNCHANGED manager
    /\ UNCHANGED started

(* A request to select scenario s, of which all interfaces are told.        *)
ScenarioRequest(i, s) ==
    /\ Takes(i)
    /\ IF s \in loaded THEN Tells(SelectScenario(manager, s, loaded), Interfaces)
       ELSE UNCHANGED manager
    /\ UNCHANGED <<started, panicked>>

(* StartScenario: unless a scenario is running, the unit of that name, of   *)
(* whatever kind, or else the current scenario, is selected and activated,  *)
(* and all interfaces are told.                                             *)
Start(name) ==
    LET u == IF name = None THEN manager.scenario ELSE name
    IN \/ /\ u = None \/ manager.scenario \in started
          /\ UNCHANGED <<manager, started>>
       \/ /\ u # None
          /\ \E up \in BOOLEAN : Tells(ActivateUnit(manager, u, loaded, up), Interfaces)
          /\ started' = started \cup ({u} \cap (Scenario \cup Test))

StartRequest(c, name) == Takes(c) /\ Start(name) /\ UNCHANGED panicked

(* The enter key of the terminal.                                           *)
EnterKey ==
    /\ panicked = "no"
    /\ Start(None)
    /\ UNCHANGED <<disk, queue, libraryVars, loaded, stale, asked, reports, panicked>>

TestsStarted == UNION {TestsOf[s] : s \in started \cap Scenario}

(* StartTest and StopTest, of a scenario that runs or ran: the messages may *)
(* be handled when it is no longer the current one.                         *)
StartTest(t) ==
    /\ panicked = "no"
    /\ t \in TestsStarted
    /\ \E up \in BOOLEAN : manager' = ActivateUnit(manager, t, loaded, up)
    /\ UNCHANGED <<disk, queue, libraryVars, loaded, stale, asked, started, reports, panicked>>

StopTest(u) ==
    /\ panicked = "no"
    /\ u \in TestsStarted \cup (started \cap Scenario)
    /\ manager' = Deactivate(manager, {u}, {})
    /\ UNCHANGED <<disk, queue, libraryVars, loaded, stale, asked, started, reports, panicked>>

(* A log entry goes to all interfaces and loggers.                          *)
LogEntry ==
    /\ panicked = "no"
    /\ Tells(manager, loaded \cap (Interface \cup Logger))
    /\ UNCHANGED <<disk, queue, libraryVars, loaded, stale, asked, started, reports, panicked>>

-----------------------------------------------------------------------------
Next ==
    \/ \E u \in Unit : FileChanges(u)
    \/ LoaderHandles
    \/ LibraryParses
    \/ LibraryUnloads
    \/ Rescan
    \/ \E c \in Interface \cup Trigger : ClientAsks(c)
    \/ \E i \in Interface : AnswerRequest(i)
    \/ \E i \in Interface, s \in Scenario : ScenarioRequest(i, s)
    \/ \E c \in Interface \cup Trigger, name \in Unit \cup {None} : StartRequest(c, name)
    \/ EnterKey
    \/ \E t \in Test : StartTest(t)
    \/ \E u \in Test \cup Scenario : StopTest(u)
    \/ LogEntry

Spec == Init /\ [][Next]_vars

-----------------------------------------------------------------------------
(* Safety                                                                   *)

(* rescan finds every dirty unit in the status table, and loads only units  *)
(* whose status says so: none of its expects and panics is reached.         *)
NoStatusPanic == panicked # "status"

(* A unit the manager has loaded still has a description in the library,    *)
(* so that a dirty jig finds every loaded unit that depends on it.          *)
LoadedAreDescribed == loaded \subseteq described

(* A client with a process is active, an active unit is selected, and a     *)
(* selected unit is loaded, although unloading a unit may fail to stop it.  *)
ProcessesBelongToLoaded ==
    /\ manager.process \subseteq manager.active
    /\ manager.active \subseteq manager.selected
    /\ manager.selected \subseteq loaded

(* However jigs, defaults, requests and late messages of a scenario follow  *)
(* each other, one jig and one scenario are selected ("There Can Only Be    *)
(* One"), all tests of that scenario that suit the loaded jigs, and no test *)
(* that does not suit them.  Any other test that is selected was named by a *)
(* START, or is one of a scenario that was: a scenario that is only chosen  *)
(* leaves no test behind.                                                   *)
SelectionIsCurrent ==
    LET chosen == IF manager.scenario = None THEN {} ELSE TestsOf[manager.scenario]
    IN /\ manager.selected \cap Jig = {manager.jig} \ {None}
       /\ manager.selected \cap Scenario = {manager.scenario} \ {None}
       /\ {t \in chosen : Fits(t, loaded)} \subseteq manager.selected
       /\ \A t \in manager.selected \cap Test :
             Fits(t, loaded) /\ t \in chosen \cup started \cup TestsStarted

(* Every loaded client and scenario can still be used: a jig it lists is    *)
(* loaded, and so is every test of a scenario, after any sequence of        *)
(* deletions.  (A test is loaded whatever the jigs; it is selected only if  *)
(* one it lists is loaded, see SelectionIsCurrent.)                         *)
LoadedUnitsFit ==
    \A u \in loaded :
       /\ u \in Client \cup Scenario => Fits(u, loaded)
       /\ u \in Scenario => TestsOf[u] \subseteq loaded

(* No scenario keeps the test objects of an earlier load of its tests.      *)
ScenariosAreFresh == stale = {}

JigChosen == manager.jig = None => loaded \cap Jig = {}
ScenarioChosen == manager.scenario = None => loaded \cap Scenario = {}

(* As long as a jig is loaded, one is the current one.  A rescan that had   *)
(* something to do ends with a current scenario if any is loaded, and from  *)
(* then on there is one until the jig changes: a START that names a jig     *)
(* takes the default scenario of the old jig away, and does not             *)
(* refresh_defaults.                                                        *)
DefaultsChosen ==
    [][/\ JigChosen'
       /\ dirty # {} /\ dirty' = {} => ScenarioChosen'
       /\ ScenarioChosen /\ manager'.jig = manager.jig => ScenarioChosen']_vars

Settled == queue = <<>> /\ dirty = {}

(* Once the changes have been taken in, whatever happened to the files in   *)
(* between: what is loaded is on disk, and is correct there unless it is a  *)
(* test; and a client or scenario that needs no jig and no test is loaded   *)
(* if its file is correct.                                                  *)
LibraryFollowsDisk ==
    Settled =>
       /\ \A u \in loaded : disk[u] # "absent" /\ (u \in Test \/ disk[u] = "good")
       /\ \A u \in Client \cup {s \in Scenario : TestsOf[s] = {}} :
             Jigs[u] = {} /\ disk[u] = "good" => u \in loaded

(* A client that a rescan loads again has a new process, or is not active:  *)
(* the active table does not keep it from being started.                    *)
ReloadRestarts ==
    [][\A c \in Client : c \in dirty /\ c \notin dirty' /\ c \in manager'.active
          => c \in manager'.process]_vars

(* What comments and assertions of the code say, and the code does not do.  *)

(* "Mark every Interface, Scenario or Test that depends on a dirty jig as   *)
(* dirty.  That way, they will be rescanned."                               *)
JigDependentsLoad ==
    Settled => \A i \in Interface : disk[i] = "good" /\ Fits(i, loaded) => i \in loaded

(* send_messages_to: "Unable to find Interface in the library".             *)
RequestersAreLoaded == panicked # "client"
=============================================================================
