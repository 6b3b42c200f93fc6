------------------------------- MODULE Updater -------------------------------
(***************************************************************************)
(* The update of a running installation. A request to the dashboard        *)
(* launches a process of its own that backs the code tree up, fetches the  *)
(* target build (or, to roll back, the newest backup), points the virtual  *)
(* environment at the staged copy, moves the tree away child by child and  *)
(* the staged one in, points the environment back, tries the result and    *)
(* restarts the dashboard; what goes wrong after the switch is undone.     *)
(* Nothing keeps a second updater from running beside the first.           *)
(*                                                                         *)
(* A tree maps each child of the repository to the build it is of. The     *)
(* children that updates preserve (.venv, data, secrets) are left out.     *)
(***************************************************************************)
EXTENDS Naturals, Sequences, FiniteSets, SequencesExt

CONSTANTS
    Src, Scripts, Project,  \* children of the tree: src/, which tells the
                            \* build, scripts/ and pyproject.toml
    Modes,          \* managed by systemd or not
    Updaters,       \* the updater processes, numbered as they are launched
    MaxUpdaters,    \* bound on their number, for each mode
    MaxBuild,       \* bound on the builds that are published; two are there at first
    MaxFaults       \* bound on failures and crashes

Children == {Src, Scripts, Project}

ASSUME UpdaterAssumption ==
    /\ Src \notin {Scripts, Project}
    /\ Modes \subseteq BOOLEAN
    /\ Updaters \subseteq Nat \ {0}
    /\ \A mode \in Modes : 1..MaxUpdaters[mode] \subseteq Updaters
    /\ MaxBuild \in Nat \ {0, 1} /\ MaxFaults \in Nat

VARIABLES
    managed,    \* systemd runs the dashboard
    remote,     \* the newest build of the update source
    tree,       \* the tree of the installation
    venv,       \* whose tree the environment imports, 0 for the installation
    dash,       \* the build the dashboard runs, or Down
    updater,    \* the updaters, see Idle
    backups,    \* the archives, oldest first, see Archive
    status,     \* last_action of the state file
    faults,
    disturbed,  \* history, see Undisturbed
    strayed     \* history, see BuildsAreKept

vars == <<managed, remote, tree, venv, dash, updater, backups, status, faults, disturbed,
          strayed>>

Gone == 0
Down == 0
Of(build) == [c \in Children |-> build]

Builds == 1..MaxBuild
Trees == [Children -> Builds \cup {Gone}]

Whole(t) == \A c \in Children : t[c] # Gone
Present(t) == {c \in Children : t[c] # Gone}
Label(t) == t[Src]

Empty == [c \in Children |-> Gone]

\* at: the place in main. from: 0 for the update source, or the archive to
\* roll back to. current, target: the builds it was told of, 0 for unknown.
\* fetched, staged, original: the trees of its work directory.
Idle == [at |-> "none", from |-> 0, current |-> 0, target |-> 0,
         fetched |-> Empty, staged |-> Empty, original |-> Empty]

Running(u) == updater[u].at \notin {"none", "done", "dead"}
Launched == {u \in Updaters : updater[u].at # "none"}

NoStatus == [by |-> 0, is |-> "none"]

\* An archive is whole once the zip file is closed; its label is in a second
\* file.
Archive(u, content) == [by |-> u, content |-> content, whole |-> FALSE, label |-> 0]

-----------------------------------------------------------------------------
(* The dashboard.                                                          *)

\* What an interpreter of the environment imports.
Importable == IF venv = 0 THEN tree ELSE updater[venv].staged

\* It starts with what can be imported; by hand or by an updater it is started
\* with a script of the tree.
Startable ==
    /\ dash = Down
    /\ Importable[Src] # Gone
    /\ ~managed => tree[Scripts] # Gone

\* Started by systemd, or by the operator.
StartDashboard ==
    /\ Startable
    /\ dash' = Label(Importable)
    /\ strayed' = (strayed \/ venv # 0)
    /\ UNCHANGED <<managed, remote, tree, venv, updater, backups, status, faults, disturbed>>

\* Another one is running when an updater is launched: from here on they work
\* on the same tree. (The request notes the launch just after it has started
\* the process; here it does both at once.)
Alongside == \E u \in Updaters : Running(u)

Launch(from, target) ==
    \E u \in Updaters :
        /\ u = Cardinality(Launched) + 1
        /\ u <= MaxUpdaters[managed]
        /\ updater' = [updater EXCEPT ![u] =
               [Idle EXCEPT !.at = "launched", !.from = from, !.current = dash, !.target = target]]
        /\ status' = [by |-> u, is |-> "scheduled"]
        /\ disturbed' = (disturbed \/ Alongside)

\* schedule_update: the remote build must be newer than the one that runs.
ScheduleUpdate ==
    /\ dash # Down
    /\ tree[Scripts] # Gone
    /\ remote > dash
    /\ Launch(0, remote)
    /\ UNCHANGED <<managed, remote, tree, venv, dash, backups, faults, strayed>>

\* schedule_rollback: to the newest archive, be it finished or not.
ScheduleRollback ==
    /\ dash # Down
    /\ tree[Scripts] # Gone
    /\ backups # <<>>
    /\ Launch(Len(backups), Last(backups).label)
    /\ UNCHANGED <<managed, remote, tree, venv, dash, backups, faults, strayed>>

Publish ==
    /\ remote < MaxBuild
    /\ remote' = remote + 1
    /\ UNCHANGED <<managed, tree, venv, dash, updater, backups, status, faults, disturbed,
                   strayed>>

-----------------------------------------------------------------------------
(* The updater, up to the switch.                                          *)

Goes(u, place) == updater' = [updater EXCEPT ![u].at = place]

\* Place in the code and the one after it, for the steps that change nothing
\* else.
UnchangedOutside == UNCHANGED <<managed, remote, faults, disturbed, strayed>>

\* Broken variants: no archive is made, as the tree is only moved aside; the
\* label of an archive is written with the archive still open.
NoBackUp(u) ==
    /\ updater[u].at = "launched"
    /\ status' = [by |-> u, is |-> "running"]
    /\ Goes(u, "fetch")
    /\ UNCHANGED <<tree, venv, dash, backups>> /\ UnchangedOutside
BackUpLabelled(u) ==
    /\ updater[u].at = "launched"
    /\ status' = [by |-> u, is |-> "running"]
    /\ backups' = Append(backups, [Archive(u, tree) EXCEPT !.label = updater[u].current])
    /\ Goes(u, "zip")
    /\ UNCHANGED <<tree, venv, dash>> /\ UnchangedOutside

\* The tree is copied and the archive opened...
BackUp(u) ==
    /\ updater[u].at = "launched"
    /\ status' = [by |-> u, is |-> "running"]
    /\ backups' = Append(backups, Archive(u, tree))
    /\ Goes(u, "zip")
    /\ UNCHANGED <<tree, venv, dash>> /\ UnchangedOutside

Mine(u) == CHOOSE i \in DOMAIN backups : backups[i].by = u

\* ... and closed and labelled. (Without a label it is as good as torn: no
\* source passes for the unknown build.)
CloseBackup(u) ==
    /\ updater[u].at = "zip"
    /\ backups' = [backups EXCEPT ![Mine(u)].whole = TRUE, ![Mine(u)].label = updater[u].current]
    /\ Goes(u, "fetch")
    /\ UNCHANGED <<tree, venv, dash, status>> /\ UnchangedOutside

\* The archive of the source is that of the newest build, which need not be
\* the one that was asked for any more; an unfinished zip cannot be opened.
Fetch(u) ==
    /\ updater[u].at = "fetch"
    /\ updater[u].from # 0 => backups[updater[u].from].whole
    /\ updater' = [updater EXCEPT ![u].at = "validate", ![u].fetched =
           IF updater[u].from = 0 THEN Of(remote) ELSE backups[updater[u].from].content]
    /\ status' = [by |-> u, is |-> "running"]
    /\ UNCHANGED <<tree, venv, dash, backups>> /\ UnchangedOutside

\* Broken variant: whatever repository has been fetched is staged.
AnyRepository(u) == {Src, Project} \subseteq Present(updater[u].fetched)

\* It is a repository, and its build is the target.
AsExpected(u) ==
    /\ {Src, Project} \subseteq Present(updater[u].fetched)
    /\ Label(updater[u].fetched) = updater[u].target

Stage(u) ==
    /\ updater[u].at = "validate"
    /\ AsExpected(u)
    /\ updater' = [updater EXCEPT ![u].at = "sync", ![u].staged = updater[u].fetched,
                                 ![u].fetched = Empty]
    /\ UNCHANGED <<tree, venv, dash, backups, status>> /\ UnchangedOutside

\* pip install -e: the environment imports the staged tree from now on.
SyncStaged(u) ==
    /\ updater[u].at = "sync"
    /\ venv' = u
    /\ Goes(u, "assets")
    /\ UNCHANGED <<tree, dash, backups, status>> /\ UnchangedOutside

BuildAssets(u) ==
    /\ updater[u].at = "assets"
    /\ status' = [by |-> u, is |-> "running"]
    /\ Goes(u, "move out")
    /\ UNCHANGED <<tree, venv, dash, backups>> /\ UnchangedOutside

-----------------------------------------------------------------------------
(* The switch.                                                             *)

MoveOut(u) ==
    /\ updater[u].at = "move out"
    /\ IF Present(tree) = {}
       THEN Goes(u, "move in") /\ UNCHANGED tree
       ELSE \E c \in Present(tree) :
            /\ tree' = [tree EXCEPT ![c] = Gone]
            /\ updater' = [updater EXCEPT ![u].original[c] = tree[c],
                   ![u].at = IF Present(tree) = {c} THEN "move in" ELSE @]
    /\ UNCHANGED <<venv, dash, backups, status>> /\ UnchangedOutside

MoveIn(u) ==
    /\ updater[u].at = "move in"
    /\ \E c \in Present(updater[u].staged) :
        /\ tree' = [tree EXCEPT ![c] = updater[u].staged[c]]
        /\ updater' = [updater EXCEPT ![u].staged[c] = Gone,
               ![u].at = IF Present(updater[u].staged) = {c} THEN "sync repo" ELSE @]
    /\ UNCHANGED <<venv, dash, backups, status>> /\ UnchangedOutside

SyncRepo(u) ==
    /\ updater[u].at = "sync repo"
    /\ venv' = 0
    /\ Goes(u, "smoke")
    /\ UNCHANGED <<tree, dash, backups, status>> /\ UnchangedOutside

\* create_app is tried with the code of the tree.
Complete(u) ==
    /\ updater[u].at = "smoke"
    /\ tree[Src] # Gone
    /\ status' = [by |-> u, is |-> "completed"]
    /\ Goes(u, IF managed THEN "kill" ELSE "stop")
    /\ UNCHANGED <<tree, venv, dash, backups>> /\ UnchangedOutside

\* Broken variant: the dashboard is left to be started by systemd in any case.
StopForGood(u) ==
    /\ updater[u].at \in {"kill", "stop"}
    /\ dash' = Down
    /\ Goes(u, "done")
    /\ UNCHANGED <<managed, remote, tree, venv, backups, status, faults, disturbed, strayed>>

\* The dashboard is killed, for systemd to start it again, and with it its
\* control group; or it is stopped and started.
Stop(u) ==
    /\ updater[u].at \in {"kill", "stop"}
    /\ dash' = Down
    /\ updater' = [v \in Updaters |->
           IF v = u THEN [updater[u] EXCEPT !.at = IF managed THEN "done" ELSE "start"]
           ELSE IF managed /\ Running(v) THEN [updater[v] EXCEPT !.at = "dead"]
           ELSE updater[v]]
    /\ UNCHANGED <<managed, remote, tree, venv, backups, status, faults, disturbed, strayed>>

Start(u) ==
    /\ updater[u].at = "start"
    /\ tree[Scripts] # Gone
    /\ IF Startable
       THEN dash' = Label(Importable)
       ELSE UNCHANGED dash      \* the new process dies, or finds the port taken
    /\ Goes(u, "done")
    /\ UNCHANGED <<tree, venv, backups, status>> /\ UnchangedOutside

-----------------------------------------------------------------------------
(* Failures.                                                               *)

\* Broken variant: only what fails while it is moved in is restored.
HandlerOfSwitch(u) == IF updater[u].at = "move in" THEN "remove" ELSE "report"

\* Where an exception raised at a place is handled: what has been switched, or
\* half moved in, is restored.
Handler(u) ==
    IF updater[u].at \in {"move in", "sync repo", "smoke", "start"}
    THEN "remove" ELSE "report"

\* Steps that fail by themselves.
Refused(u) ==
    \/ updater[u].at = "fetch" /\ updater[u].from # 0 /\ ~backups[updater[u].from].whole
    \/ updater[u].at = "validate" /\ ~AsExpected(u)
    \/ updater[u].at = "smoke" /\ tree[Src] = Gone
    \/ updater[u].at = "start" /\ tree[Scripts] = Gone

\* The exceptions that leave more behind than the handler undoes: the tree is
\* moved out outside the try block, a restoration is abandoned, a dashboard
\* that was stopped stays down.
LeavesBehind(u) == updater[u].at \in {"move out", "remove", "move back", "start"}

\* A restoration that fails is given up.
Fail(u) ==
    /\ Running(u)
    /\ \/ Refused(u) /\ UNCHANGED faults
       \/ /\ updater[u].at \notin {"report", "kill", "stop"}
          /\ faults < MaxFaults
          /\ faults' = faults + 1
    /\ disturbed' = (disturbed \/ LeavesBehind(u))
    /\ Goes(u, IF updater[u].at \in {"remove", "move back"} THEN "report" ELSE Handler(u))
    /\ UNCHANGED <<managed, remote, tree, venv, dash, backups, status, strayed>>

ClearTree(u) ==
    /\ updater[u].at = "remove"
    /\ IF Present(tree) = {}
       THEN Goes(u, "move back") /\ UNCHANGED tree
       ELSE /\ \E c \in Present(tree) : tree' = [tree EXCEPT ![c] = Gone]
            /\ UNCHANGED updater
    /\ UNCHANGED <<venv, dash, backups, status>> /\ UnchangedOutside

MoveBack(u) ==
    /\ updater[u].at = "move back"
    /\ IF Present(updater[u].original) = {}
       THEN Goes(u, "report") /\ UNCHANGED tree
       ELSE \E c \in Present(updater[u].original) :
            /\ tree' = [tree EXCEPT ![c] = updater[u].original[c]]
            /\ updater' = [updater EXCEPT ![u].original[c] = Gone,
                   ![u].at = IF Present(updater[u].original) = {c} THEN "report" ELSE @]
    /\ UNCHANGED <<venv, dash, backups, status>> /\ UnchangedOutside

Report(u) ==
    /\ updater[u].at = "report"
    /\ status' = [by |-> u, is |-> "failed"]
    /\ Goes(u, "done")
    /\ UNCHANGED <<tree, venv, dash, backups>> /\ UnchangedOutside

\* The machine, or the service with everything in its control group, goes down.
Crash ==
    /\ faults < MaxFaults
    /\ faults' = faults + 1
    /\ dash' = Down
    /\ updater' = [u \in Updaters |->
           IF Running(u) THEN [updater[u] EXCEPT !.at = "dead"] ELSE updater[u]]
    /\ disturbed' = (disturbed \/ \E u \in Updaters :
           updater[u].at \in {"move out", "move in", "remove", "move back"})
    /\ UNCHANGED <<managed, remote, tree, venv, backups, status, strayed>>

-----------------------------------------------------------------------------

Init ==
    /\ managed \in Modes
    /\ remote = 2
    /\ tree = Of(1)
    /\ venv = 0
    /\ dash = 1
    /\ updater = [u \in Updaters |-> Idle]
    /\ backups = <<>>
    /\ status = NoStatus
    /\ faults = 0
    /\ disturbed = FALSE
    /\ strayed = FALSE

Work(u) ==
    \/ BackUp(u) \/ CloseBackup(u)
    \/ Fetch(u) \/ Stage(u) \/ SyncStaged(u) \/ BuildAssets(u)
    \/ MoveOut(u) \/ MoveIn(u) \/ SyncRepo(u) \/ Complete(u)
    \/ Stop(u) \/ Start(u)
    \/ ClearTree(u) \/ MoveBack(u) \/ Report(u)

Next ==
    \/ ScheduleUpdate \/ ScheduleRollback \/ Publish
    \/ \E u \in Updaters : Work(u) \/ Fail(u)
    \/ StartDashboard \/ Crash

Fairness ==
    /\ \A u \in Updaters : WF_vars(Work(u) \/ (Refused(u) /\ Fail(u)))
    /\ WF_vars(managed /\ StartDashboard)

Spec == Init /\ [][Next]_vars /\ Fairness
-----------------------------------------------------------------------------
(* Properties.                                                             *)

Places == {"none", "launched", "zip", "fetch", "validate", "sync", "assets",
           "move out", "move in", "sync repo", "smoke", "kill", "stop", "start",
           "remove", "move back", "report", "done", "dead"}

\* Types; and no archive tells its build before it is whole, for a rollback
\* would take it for a good one.
TypeOK ==
    /\ {managed, disturbed, strayed} \subseteq BOOLEAN
    /\ remote \in Builds /\ dash \in Builds \cup {Down}
    /\ tree \in Trees
    /\ {venv, status.by} \subseteq Updaters \cup {0}
    /\ \A u \in Updaters : /\ updater[u].at \in Places
                         /\ {updater[u].fetched, updater[u].staged, updater[u].original} \subseteq Trees
    /\ \A i \in DOMAIN backups : /\ backups[i].content \in Trees
                               /\ backups[i].label # 0 => backups[i].whole
    /\ faults \in 0..MaxFaults

\* Updaters ran one after the other and none was cut off, or failed, while it
\* moved the tree out or back, or in starting the dashboard it had stopped.
Undisturbed == ~disturbed

\* An update or rollback that is reported as completed has put in place all of
\* the build it was to install, and the environment imports that tree.
CompletedIsWhole ==
    Undisturbed /\ status.is = "completed" =>
        tree = Of(updater[status.by].target) /\ venv = 0

\* One that is reported as failed has left, or put back, the whole tree it
\* found, wherever it failed.
FailedIsHarmless ==
    Undisturbed /\ status.is = "failed" =>
        /\ Whole(tree)
        /\ \A i \in DOMAIN backups : backups[i].by = status.by => tree = backups[i].content

Kept(build, c) ==
    \/ tree[c] = build
    \/ \E u \in Updaters : build \in {updater[u].original[c], updater[u].staged[c]}
    \/ \E i \in DOMAIN backups : backups[i].whole /\ backups[i].content[c] = build

\* The build that the first updater found, and while updaters are undisturbed
\* the build that any of them found, is on the disk, every child of it, whatever
\* is going on: two updaters at once, failures, and a crash between any two moves.
\* A dashboard that was started from what is left of a work directory may tell an
\* updater of a build that was never installed.
BuildsAreKept ==
    \A u \in Launched : u = 1 \/ (Undisturbed /\ ~strayed) =>
        \A c \in Children : Kept(updater[u].current, c)

\* After every undisturbed update the dashboard runs again; the exceptions are
\* a failure between the two times the environment is pointed elsewhere (venv)
\* and a crash without systemd.
DashboardReturns ==
    []<>(dash # Down \/ disturbed \/ venv # 0 \/ (~managed /\ faults > 0))
=============================================================================
