--------------------------- MODULE UpdaterProofs ---------------------------
(***************************************************************************)
(* The safety of updates, for any number of updaters, builds and faults.   *)
(*                                                                         *)
(* What an updater leaves behind depends on what it met at its start and   *)
(* on all that it has moved since. The invariant says for each place of an *)
(* updater where the build it found and the one it installs are (Knows),   *)
(* as long as updaters run one at a time (AloneInv); and, for the builds   *)
(* that are kept whatever happens, that a closed archive holds the build   *)
(* before anything of the tree is moved (Safe).                            *)
(***************************************************************************)
EXTENDS Updater, FiniteSetTheorems, TLAPS

Progress == [at : Places, from : Nat, current : Builds \cup {Down}, target : Builds \cup {Gone},
             fetched : Trees, staged : Trees, original : Trees]
Archives == [by : Updaters, content : Trees, whole : BOOLEAN, label : Builds \cup {Gone}]
Statuses == [by : Updaters \cup {0},
             is : {"none", "scheduled", "running", "completed", "failed"}]

TypeInv ==
  /\ managed \in BOOLEAN /\ disturbed \in BOOLEAN /\ strayed \in BOOLEAN
  /\ remote \in Builds /\ dash \in Builds \cup {Down} /\ venv \in Updaters \cup {0}
  /\ tree \in Trees
  /\ updater \in [Updaters -> Progress]
  /\ backups \in Seq(Archives)
  /\ status \in Statuses
  /\ faults \in 0..MaxFaults
  /\ \A u \in Updaters : updater[u].from \in 0..Len(backups)
  /\ \A i \in DOMAIN backups : backups[i].label # 0 => backups[i].whole

By(u) == {i \in DOMAIN backups : backups[i].by = u}

\* Updaters are launched in the order of their numbers, and each makes its
\* archive after that.
OrderInv ==
  /\ \E k \in Nat : Launched = 1..k
  /\ \A u \in Updaters : /\ updater[u].at \in {"none", "launched"} => By(u) = {}
                         /\ updater[u].at = "zip" => By(u) # {}

\* The places at which an updater has moved nothing, unless its archive is closed.
Early == {"none", "launched", "zip", "report", "done", "dead"}

Archived(b) == \E i \in DOMAIN backups : backups[i].whole /\ backups[i].content = Of(b)
Untouched(b) == tree = Of(b) /\ \A u \in Updaters : updater[u].at \in Early
Safe(b) == Archived(b) \/ Untouched(b)

\* The build that the first updater found, with any updaters beside it.
First(b) == Safe(b) /\ (Archived(b) \/ \A i \in DOMAIN backups : backups[i].content = Of(b))

FirstInv ==
  /\ Launched = {} => tree = Of(1) /\ venv = 0 /\ dash \in {Down, 1} /\ backups = <<>>
  /\ 1 \in Launched => First(updater[1].current)

\* Child by child a build b goes from s to t.
Halves(s, t, b) == \A c \in Children : (s[c] = b /\ t[c] = Gone) \/ (s[c] = Gone /\ t[c] = b)

Before == {"launched", "zip", "fetch", "validate", "sync", "assets"}
Ending == {"kill", "stop", "start"}

Found(u, b) == \A i \in By(u) : backups[i].content = Of(b)

\* What an updater that found build b, and runs alone, has done so far.
Knows(u, b) ==
  LET me == updater[u]
  IN  /\ Found(u, b)
      /\ me.at \in Before \cup {"report"} => tree = Of(b)
      /\ me.at \in Before => me.original = Empty
      /\ me.at = "validate" => \E f \in Builds : me.fetched = Of(f)
      /\ me.at \in {"sync", "assets", "move out"} => me.staged = Of(me.target)
      /\ me.at = "move out" => Halves(tree, me.original, b)
      /\ me.at = "move in" => Halves(me.staged, tree, me.target)
      /\ me.at = "move back" => Halves(me.original, tree, b)
      /\ me.at \in {"sync repo", "smoke"} \cup Ending => tree = Of(me.target)
      /\ me.at \in {"smoke"} \cup Ending => venv = 0
      /\ me.at \in {"move in", "sync repo", "smoke", "remove"} => me.original = Of(b)
      /\ me.at \notin (Before \ {"sync", "assets"}) \cup {"remove", "move back", "report"} =>
           me.target \in Builds
      /\ status.by = u /\ status.is # "failed"
      /\ status.is = "completed" <=> me.at \in Ending
      /\ ~strayed => b = me.current
      /\ ~strayed => IF me.at = "start" THEN dash \in {Down, me.target} ELSE dash = b

\* The installation between two updates.
Calm ==
  /\ \E b \in Builds : tree = Of(b)
  /\ status.is = "completed" => /\ status.by \in Updaters
                               /\ tree = Of(updater[status.by].target) /\ venv = 0
  /\ status.is = "failed" => \A i \in By(status.by) : backups[i].content = tree
  /\ ~strayed => dash \in {Down, Label(tree)}

AloneInv ==
  Undisturbed =>
    /\ \A u, v \in Updaters : Running(u) /\ Running(v) => u = v
    /\ \A i \in DOMAIN backups : \E b \in Builds : backups[i].content = Of(b)
    /\ \A u \in Updaters : Running(u) => \E b \in Builds : Knows(u, b)
    /\ (\A u \in Updaters : ~Running(u)) => Calm
    /\ ~strayed => \A u \in Launched : Safe(updater[u].current)

-----------------------------------------------------------------------------
(* What the steps of an updater do.                                        *)

LEMMA TreesMade ==
  /\ Empty \in Trees
  /\ \A b \in Builds : Of(b) \in Trees
  /\ \A t \in Trees, c \in Children : t[c] \in Builds \cup {Gone}
  /\ \A t \in Trees, c \in Children, b \in Builds \cup {Gone} : [t EXCEPT ![c] = b] \in Trees
  /\ Src \in Children /\ Scripts \in Children /\ Project \in Children
  BY DEF Empty, Trees, Of, Children

LEMMA Bounds == MaxBuild \in Nat /\ MaxFaults \in Nat
  BY UpdaterAssumption

\* A child is moved from one tree to another.
LEMMA TreeMoved ==
  ASSUME NEW s \in Trees, NEW t \in Trees, NEW c \in Present(s)
  PROVE  /\ c \in Children
         /\ [t EXCEPT ![c] = s[c]] \in Trees /\ [s EXCEPT ![c] = Gone] \in Trees
  BY DEF Trees, Present

\* Updater u is at place p now, and the others are where they were.
Turn(u, p) ==
  /\ updater' \in [Updaters -> Progress]
  /\ \A v \in Updaters \ {u} : updater'[v] = updater[v]
  /\ updater'[u].at = p
  /\ updater'[u].from = updater[u].from
  /\ updater'[u].current = updater[u].current
  /\ updater'[u].target = updater[u].target

\* Its work directory is as it was.
Holds(u) ==
  /\ updater'[u].fetched = updater[u].fetched
  /\ updater'[u].staged = updater[u].staged
  /\ updater'[u].original = updater[u].original

LEMMA GoesDoes ==
  ASSUME TypeInv, NEW u \in Updaters, NEW p \in Places, Goes(u, p)
  PROVE  Turn(u, p) /\ Holds(u)
  BY DEF TypeInv, Goes, Turn, Holds, Progress

\* The place an updater goes to when a step fails.
LEMMA FailPlace ==
  ASSUME NEW u \in Updaters
  PROVE  Handler(u) \in {"remove", "report"}
  BY DEF Handler

-----------------------------------------------------------------------------
(* Types.                                                                  *)

LEMMA InitType == Init => TypeInv
  <1>. SUFFICES ASSUME Init PROVE TypeInv
    OBVIOUS
  <1>1. 1 \in Builds /\ 2 \in Builds
    BY UpdaterAssumption DEF Builds
  <1>2. Idle \in Progress
    BY TreesMade DEF Idle, Progress, Places, Down, Gone
  <1>3. managed \in BOOLEAN
    BY UpdaterAssumption DEF Init
  <1>4. 0 \in 0..MaxFaults
    BY UpdaterAssumption
  <1>5. status \in Statuses
    BY DEF Init, NoStatus, Statuses
  <1>6. updater \in [Updaters -> Progress] /\ \A u \in Updaters : updater[u].from = 0
    BY <1>2 DEF Init, Idle
  <1>7. backups \in Seq(Archives) /\ Len(backups) = 0 /\ DOMAIN backups = {}
    BY DEF Init
  <1>8. /\ remote \in Builds /\ dash \in Builds \cup {Down} /\ venv \in Updaters \cup {0}
        /\ tree \in Trees /\ disturbed \in BOOLEAN /\ strayed \in BOOLEAN
        /\ faults \in 0..MaxFaults
    BY <1>1, <1>4, TreesMade DEF Init
  <1>9. \A u \in Updaters : updater[u].from \in 0..Len(backups)
    BY <1>6, <1>7
  <1>. QED
    BY <1>3, <1>5, <1>6, <1>7, <1>8, <1>9 DEF TypeInv

\* What holds of the archives when one more has been opened.
LEMMA Opened ==
  ASSUME TypeInv, NEW u \in Updaters, backups' = Append(backups, Archive(u, tree))
  PROVE  /\ backups' \in Seq(Archives)
         /\ Len(backups') = Len(backups) + 1
         /\ DOMAIN backups' = DOMAIN backups \cup {Len(backups) + 1}
         /\ \A i \in DOMAIN backups : backups'[i] = backups[i] /\ i # Len(backups) + 1
         /\ backups'[Len(backups) + 1] = Archive(u, tree)
         /\ \A i \in DOMAIN backups' : backups'[i].label # 0 => backups'[i].whole
  <1>1. Archive(u, tree) \in Archives /\ Archive(u, tree).label = 0
    BY DEF TypeInv, Archive, Archives, Gone
  <1>2. backups \in Seq(Archives)
    BY DEF TypeInv
  <1>3. /\ backups' \in Seq(Archives)
        /\ Len(backups') = Len(backups) + 1
        /\ \A i \in 1..Len(backups) : backups'[i] = backups[i]
        /\ backups'[Len(backups) + 1] = Archive(u, tree)
    BY <1>1, <1>2
  <1>4. DOMAIN backups = 1..Len(backups) /\ DOMAIN backups' = 1..Len(backups')
        /\ Len(backups) \in Nat
    BY <1>2, <1>3
  <1>5. /\ DOMAIN backups' = DOMAIN backups \cup {Len(backups) + 1}
        /\ \A i \in DOMAIN backups : i # Len(backups) + 1
    BY <1>3, <1>4
  <1>. QED
    BY <1>1, <1>3, <1>4, <1>5 DEF TypeInv

\* What holds of them when u has closed its own.
LEMMA Closed ==
  ASSUME TypeInv, OrderInv, NEW u \in Updaters, CloseBackup(u)
  PROVE  /\ backups' \in Seq(Archives)
         /\ Len(backups') = Len(backups)
         /\ DOMAIN backups' = DOMAIN backups
         /\ \A i \in DOMAIN backups : /\ backups'[i].by = backups[i].by
                                      /\ backups'[i].content = backups[i].content
                                      /\ backups[i].whole => backups'[i].whole
         /\ \A i \in DOMAIN backups : backups'[i].label # 0 => backups'[i].whole
         /\ Mine(u) \in By(u)
         /\ backups'[Mine(u)].whole
  <1>1. Mine(u) \in By(u)
    <2>1. By(u) # {}
      BY DEF OrderInv, CloseBackup
    <2>2. \E i \in DOMAIN backups : backups[i].by = u
      BY <2>1 DEF By
    <2>. QED
      BY <2>2 DEF Mine, By
  <1>2. PICK m \in DOMAIN backups : m = Mine(u)
    BY <1>1 DEF By
  <1>3. backups \in Seq(Archives) /\ updater[u].current \in Builds \cup {Gone}
    BY DEF TypeInv, Progress, Down, Gone
  <1>4. PICK x : x = [backups[m] EXCEPT !.whole = TRUE, !.label = updater[u].current]
    OBVIOUS
  <1>9. backups[m] \in Archives
    BY <1>3
  <1>5. /\ x \in Archives /\ x.whole
        /\ x.by = backups[m].by /\ x.content = backups[m].content
    BY <1>3, <1>4, <1>9 DEF Archives, Gone, Builds
  <1>6. backups' = [backups EXCEPT ![m] = x]
    BY <1>2, <1>4 DEF CloseBackup
  <1>7. /\ backups' \in Seq(Archives) /\ Len(backups') = Len(backups)
        /\ DOMAIN backups' = DOMAIN backups
        /\ backups'[m] = x /\ \A i \in DOMAIN backups : i # m => backups'[i] = backups[i]
    BY <1>3, <1>5, <1>6
  <1>. QED
    BY <1>1, <1>2, <1>5, <1>7 DEF TypeInv

\* A record of an updater of which only the place and trees are changed.
LEMMA ProgressMade ==
  ASSUME NEW x \in Progress, NEW p \in Places, NEW t \in Trees
  PROVE  /\ [x EXCEPT !.at = p] \in Progress
         /\ [x EXCEPT !.at = p, !.fetched = t] \in Progress
         /\ [x EXCEPT !.at = p, !.staged = t] \in Progress
         /\ [x EXCEPT !.at = p, !.original = t] \in Progress
         /\ [x EXCEPT !.at = p, !.staged = t, !.fetched = Empty] \in Progress
  BY TreesMade DEF Progress

\* What a rollback or update can fetch is a tree.
LEMMA FetchDoes ==
  ASSUME TypeInv, NEW u \in Updaters, Fetch(u)
  PROVE  \E t \in Trees :
           /\ t = IF updater[u].from = 0 THEN Of(remote) ELSE backups[updater[u].from].content
           /\ updater[u].from # 0 => updater[u].from \in DOMAIN backups
           /\ Turn(u, "validate")
           /\ updater'[u].fetched = t
           /\ updater'[u].staged = updater[u].staged
           /\ updater'[u].original = updater[u].original
  <1>1. updater[u].from # 0 => /\ updater[u].from \in DOMAIN backups
                               /\ backups[updater[u].from].content \in Trees
    <2>1. updater[u].from \in 0..Len(backups) /\ backups \in Seq(Archives)
      BY DEF TypeInv
    <2>4. \A i \in 1..Len(backups) : backups[i] \in Archives
      BY <2>1
    <2>2. \A i \in 1..Len(backups) : backups[i].content \in Trees
      BY <2>4 DEF Archives
    <2>3. DOMAIN backups = 1..Len(backups) /\ Len(backups) \in Nat
      BY <2>1
    <2>. QED
      BY <2>1, <2>2, <2>3
  <1>2. PICK t \in Trees :
          t = IF updater[u].from = 0 THEN Of(remote) ELSE backups[updater[u].from].content
    BY <1>1, TreesMade DEF TypeInv
  <1>3. updater' = [updater EXCEPT ![u] = [updater[u] EXCEPT !.at = "validate", !.fetched = t]]
    BY <1>2 DEF Fetch, TypeInv
  <1>4. updater[u] \in Progress /\ "validate" \in Places
    BY DEF TypeInv, Places
  <1>5. [updater[u] EXCEPT !.at = "validate", !.fetched = t] \in Progress
    BY <1>4, ProgressMade
  <1>. QED
    BY <1>1, <1>2, <1>3, <1>4, <1>5 DEF TypeInv, Turn, Progress

LEMMA StageDoes ==
  ASSUME TypeInv, NEW u \in Updaters, Stage(u)
  PROVE  /\ Turn(u, "sync")
         /\ updater'[u].staged = updater[u].fetched
         /\ updater'[u].original = updater[u].original
  <1>1. updater[u] \in Progress /\ "sync" \in Places /\ updater[u].fetched \in Trees
    BY DEF TypeInv, Places, Progress
  <1>2. PICK x : x = [updater[u] EXCEPT !.at = "sync", !.staged = updater[u].fetched,
                                       !.fetched = Empty]
    OBVIOUS
  <1>3. x \in Progress
    BY <1>1, <1>2, ProgressMade
  <1>4. updater' = [updater EXCEPT ![u] = x]
    BY <1>2 DEF Stage
  <1>. QED
    BY <1>1, <1>2, <1>3, <1>4 DEF TypeInv, Turn, Progress

\* A child goes from the installation to the original, ...
LEMMA MoveOutDoes ==
  ASSUME TypeInv, NEW u \in Updaters, MoveOut(u)
  PROVE  \/ Present(tree) = {} /\ tree' = tree /\ Turn(u, "move in") /\ Holds(u)
         \/ \E c \in Present(tree) :
              /\ tree' = [tree EXCEPT ![c] = Gone]
              /\ Turn(u, IF Present(tree) = {c} THEN "move in" ELSE "move out")
              /\ updater'[u].staged = updater[u].staged
              /\ updater'[u].original = [updater[u].original EXCEPT ![c] = tree[c]]
  <1>1. CASE Present(tree) = {}
    BY <1>1, GoesDoes DEF MoveOut, Places
  <1>2. CASE Present(tree) # {}
    <2>1. PICK c \in Present(tree) :
            /\ tree' = [tree EXCEPT ![c] = Gone]
            /\ updater' = [updater EXCEPT ![u].original[c] = tree[c],
                   ![u].at = IF Present(tree) = {c} THEN "move in" ELSE @]
      BY <1>2 DEF MoveOut
    <2>2. PICK p \in Places : p = IF Present(tree) = {c} THEN "move in" ELSE "move out"
      BY DEF Places
    <2>3. PICK t \in Trees : t = [updater[u].original EXCEPT ![c] = tree[c]]
      BY TreesMade DEF TypeInv, Progress, Present
    <2>4. updater[u].at = "move out" /\ updater[u] \in Progress
      BY DEF MoveOut, TypeInv
    <2>5. PICK x : x = [updater[u] EXCEPT !.at = p, !.original = t]
      OBVIOUS
    <2>6. x \in Progress
      BY <2>4, <2>5, ProgressMade
    <2>7. updater' = [updater EXCEPT ![u] = x]
      BY <2>1, <2>2, <2>3, <2>4, <2>5 DEF TypeInv, Progress
    <2>8. Turn(u, p) /\ x.original = t /\ x.staged = updater[u].staged
      BY <2>4, <2>5, <2>6, <2>7 DEF TypeInv, Turn, Progress
    <2>. QED
      BY <2>1, <2>2, <2>3, <2>7, <2>8 DEF TypeInv
  <1>. QED
    BY <1>1, <1>2

\* ... one from the staged tree to the installation, ...
LEMMA MoveInDoes ==
  ASSUME TypeInv, NEW u \in Updaters, MoveIn(u)
  PROVE  \E c \in Present(updater[u].staged) :
           /\ tree' = [tree EXCEPT ![c] = updater[u].staged[c]]
           /\ Turn(u, IF Present(updater[u].staged) = {c} THEN "sync repo" ELSE "move in")
           /\ updater'[u].staged = [updater[u].staged EXCEPT ![c] = Gone]
           /\ updater'[u].original = updater[u].original
  <2>1. PICK c \in Present(updater[u].staged) :
          /\ tree' = [tree EXCEPT ![c] = updater[u].staged[c]]
          /\ updater' = [updater EXCEPT ![u].staged[c] = Gone,
                 ![u].at = IF Present(updater[u].staged) = {c} THEN "sync repo" ELSE @]
    BY DEF MoveIn
  <2>2. PICK p \in Places :
          p = IF Present(updater[u].staged) = {c} THEN "sync repo" ELSE "move in"
    BY DEF Places
  <2>3. PICK t \in Trees : t = [updater[u].staged EXCEPT ![c] = Gone]
    BY TreesMade DEF TypeInv, Progress, Present
  <2>4. updater[u].at = "move in" /\ updater[u] \in Progress
    BY DEF MoveIn, TypeInv
  <2>5. PICK x : x = [updater[u] EXCEPT !.at = p, !.staged = t]
    OBVIOUS
  <2>6. x \in Progress
    BY <2>4, <2>5, ProgressMade
  <2>7. updater' = [updater EXCEPT ![u] = x]
    BY <2>1, <2>2, <2>3, <2>4, <2>5 DEF TypeInv, Progress
  <2>8. Turn(u, p) /\ x.staged = t /\ x.original = updater[u].original
    BY <2>4, <2>5, <2>6, <2>7 DEF TypeInv, Turn, Progress
  <2>. QED
    BY <2>1, <2>2, <2>3, <2>7, <2>8 DEF TypeInv

\* ... and one from the original back.
LEMMA MoveBackDoes ==
  ASSUME TypeInv, NEW u \in Updaters, MoveBack(u)
  PROVE  \/ /\ Present(updater[u].original) = {}
            /\ tree' = tree /\ Turn(u, "report") /\ Holds(u)
         \/ \E c \in Present(updater[u].original) :
              /\ tree' = [tree EXCEPT ![c] = updater[u].original[c]]
              /\ Turn(u, IF Present(updater[u].original) = {c} THEN "report" ELSE "move back")
              /\ updater'[u].original = [updater[u].original EXCEPT ![c] = Gone]
  <1>1. CASE Present(updater[u].original) = {}
    BY <1>1, GoesDoes DEF MoveBack, Places
  <1>2. CASE Present(updater[u].original) # {}
    <2>1. PICK c \in Present(updater[u].original) :
            /\ tree' = [tree EXCEPT ![c] = updater[u].original[c]]
            /\ updater' = [updater EXCEPT ![u].original[c] = Gone,
                   ![u].at = IF Present(updater[u].original) = {c} THEN "report" ELSE @]
      BY <1>2 DEF MoveBack
    <2>2. PICK p \in Places :
            p = IF Present(updater[u].original) = {c} THEN "report" ELSE "move back"
      BY DEF Places
    <2>3. PICK t \in Trees : t = [updater[u].original EXCEPT ![c] = Gone]
      BY TreesMade DEF TypeInv, Progress, Present
    <2>4. updater[u].at = "move back" /\ updater[u] \in Progress
      BY DEF MoveBack, TypeInv
    <2>5. PICK x : x = [updater[u] EXCEPT !.at = p, !.original = t]
      OBVIOUS
    <2>6. x \in Progress
      BY <2>4, <2>5, ProgressMade
    <2>7. updater' = [updater EXCEPT ![u] = x]
      BY <2>1, <2>2, <2>3, <2>4, <2>5 DEF TypeInv, Progress
    <2>8. Turn(u, p) /\ x.original = t
      BY <2>4, <2>5, <2>6, <2>7 DEF TypeInv, Turn, Progress
    <2>. QED
      BY <2>1, <2>2, <2>3, <2>7, <2>8 DEF TypeInv
  <1>. QED
    BY <1>1, <1>2

\* The updater goes on, or ends; under systemd the others end with it.
LEMMA StopDoes ==
  ASSUME TypeInv, NEW u \in Updaters, Stop(u)
  PROVE  /\ updater' \in [Updaters -> Progress]
         /\ updater'[u].at = IF managed THEN "done" ELSE "start"
         /\ \A v \in Updaters \ {u} : \/ updater'[v] = updater[v]
                                      \/ Running(v) /\ updater'[v].at = "dead"
         /\ \A v \in Updaters : /\ updater'[v].from = updater[v].from
                                /\ updater'[v].current = updater[v].current
                                /\ updater'[v].target = updater[v].target
                                /\ updater'[v].original = updater[v].original
                                /\ updater'[v].staged = updater[v].staged
  <1>1. \A v \in Updaters : /\ updater[v] \in Progress
                            /\ [updater[v] EXCEPT !.at = "dead"] \in Progress
                            /\ [updater[v] EXCEPT !.at = "done"] \in Progress
                            /\ [updater[v] EXCEPT !.at = "start"] \in Progress
    BY ProgressMade, TreesMade DEF TypeInv, Places
  <1>2. updater' = [v \in Updaters |->
           IF v = u THEN [updater[u] EXCEPT !.at = IF managed THEN "done" ELSE "start"]
           ELSE IF managed /\ Running(v) THEN [updater[v] EXCEPT !.at = "dead"]
           ELSE updater[v]]
    BY DEF Stop
  <1>3. updater' \in [Updaters -> Progress]
    BY <1>1, <1>2
  <1>. QED
    BY <1>1, <1>2, <1>3 DEF Progress

LEMMA CrashDoes ==
  ASSUME TypeInv, Crash
  PROVE  /\ updater' \in [Updaters -> Progress]
         /\ \A v \in Updaters : /\ updater'[v].at = IF Running(v) THEN "dead" ELSE updater[v].at
                                /\ updater'[v].from = updater[v].from
                                /\ updater'[v].current = updater[v].current
                                /\ updater'[v].target = updater[v].target
                                /\ updater'[v].original = updater[v].original
                                /\ updater'[v].staged = updater[v].staged
  <1>1. \A v \in Updaters : updater[v] \in Progress /\ [updater[v] EXCEPT !.at = "dead"] \in Progress
    BY ProgressMade, TreesMade DEF TypeInv, Places
  <1>2. updater' = [v \in Updaters |->
           IF Running(v) THEN [updater[v] EXCEPT !.at = "dead"] ELSE updater[v]]
    BY DEF Crash
  <1>3. updater' \in [Updaters -> Progress]
    BY <1>1, <1>2
  <1>. QED
    BY <1>1, <1>2, <1>3 DEF Progress

\* An updater is launched.
LEMMA LaunchDoes ==
  ASSUME TypeInv, OrderInv, NEW from \in Nat, NEW target \in Builds \cup {Gone},
         Launch(from, target)
  PROVE  \E u \in Updaters :
           /\ updater' \in [Updaters -> Progress]
           /\ \A v \in Updaters \ {u} : updater'[v] = updater[v]
           /\ updater[u].at = "none" /\ updater'[u].at = "launched"
           /\ updater'[u].from = from
           /\ updater'[u].current = dash /\ updater'[u].target = target
           /\ updater'[u].original = Empty
           /\ status' = [by |-> u, is |-> "scheduled"]
           /\ disturbed' = (disturbed \/ Alongside)
           /\ \E k \in Nat : /\ Launched = 1..k /\ Launched' = 1..(k + 1) /\ u = k + 1
  <1>1. PICK u \in Updaters :
          /\ u = Cardinality(Launched) + 1
          /\ updater' = [updater EXCEPT ![u] =
               [Idle EXCEPT !.at = "launched", !.from = from, !.current = dash, !.target = target]]
          /\ status' = [by |-> u, is |-> "scheduled"]
          /\ disturbed' = (disturbed \/ Alongside)
    BY DEF Launch
  <1>2. PICK x : x = [Idle EXCEPT !.at = "launched", !.from = from, !.current = dash,
                                  !.target = target]
    OBVIOUS
  <1>3. /\ x \in Progress /\ x.at = "launched" /\ x.from = from
        /\ x.current = dash /\ x.target = target /\ x.original = Empty
    BY <1>2, TreesMade DEF TypeInv, Idle, Progress, Places, Down, Gone
  <1>4. updater' = [updater EXCEPT ![u] = x]
    BY <1>1, <1>2
  <1>5. PICK k \in Nat : Launched = 1..k
    BY DEF OrderInv
  <1>6. u = k + 1
    <2>1. Cardinality(1..k) = IF 1 > k THEN 0 ELSE k - 1 + 1
      BY FS_Interval
    <2>. QED
      BY <1>1, <1>5, <2>1
  <1>7. updater[u].at = "none"
    <2>1. u \notin Launched
      BY <1>5, <1>6
    <2>. QED
      BY <2>1 DEF Launched
  <1>8. /\ updater' \in [Updaters -> Progress]
        /\ updater'[u] = x
        /\ \A v \in Updaters \ {u} : updater'[v] = updater[v]
    BY <1>3, <1>4 DEF TypeInv
  <1>9. Launched' = Launched \cup {u}
    BY <1>3, <1>8 DEF Launched
  <1>10. Launched' = 1..(k + 1)
    BY <1>5, <1>6, <1>9
  <1>. QED
    BY <1>1, <1>3, <1>5, <1>6, <1>7, <1>8, <1>10

\* What stays of every updater, whatever one of them or a crash does.
Lasting ==
  /\ updater' \in [Updaters -> Progress]
  /\ \A v \in Updaters : /\ updater'[v].from = updater[v].from
                         /\ updater'[v].current = updater[v].current
                         /\ updater'[v].target = updater[v].target
                         /\ updater'[v].at = "none" <=> updater[v].at = "none"

LEMMA TurnLasts ==
  ASSUME NEW u \in Updaters, NEW p \in Places \ {"none"}, Turn(u, p), updater[u].at # "none"
  PROVE  Lasting
  BY DEF Turn, Lasting

LEMMA WorkLasts ==
  ASSUME TypeInv, NEW u \in Updaters, Work(u)
  PROVE  Lasting
  <1>1. CASE BackUp(u)
    BY <1>1, GoesDoes, TurnLasts DEF BackUp, Places
  <1>2. CASE CloseBackup(u)
    BY <1>2, GoesDoes, TurnLasts DEF CloseBackup, Places
  <1>3. CASE Fetch(u)
    BY <1>3, FetchDoes, TurnLasts DEF Fetch, Places
  <1>4. CASE Stage(u)
    BY <1>4, StageDoes, TurnLasts DEF Stage, Places
  <1>5. CASE SyncStaged(u)
    BY <1>5, GoesDoes, TurnLasts DEF SyncStaged, Places
  <1>6. CASE BuildAssets(u)
    BY <1>6, GoesDoes, TurnLasts DEF BuildAssets, Places
  <1>7. CASE MoveOut(u)
    <2>1. Turn(u, "move in") \/ Turn(u, "move out")
      BY <1>7, MoveOutDoes
    <2>. QED
      BY <1>7, <2>1, TurnLasts DEF MoveOut, Places
  <1>8. CASE MoveIn(u)
    <2>1. Turn(u, "move in") \/ Turn(u, "sync repo")
      BY <1>8, MoveInDoes
    <2>. QED
      BY <1>8, <2>1, TurnLasts DEF MoveIn, Places
  <1>9. CASE SyncRepo(u)
    BY <1>9, GoesDoes, TurnLasts DEF SyncRepo, Places
  <1>10. CASE Complete(u)
    <2>1. Turn(u, "kill") \/ Turn(u, "stop")
      BY <1>10, GoesDoes DEF Complete, Places
    <2>. QED
      BY <1>10, <2>1, TurnLasts DEF Complete, Places
  <1>11. CASE Stop(u)
    BY <1>11, StopDoes DEF Stop, Lasting, Running
  <1>12. CASE Start(u)
    BY <1>12, GoesDoes, TurnLasts DEF Start, Places
  <1>13. CASE ClearTree(u)
    <2>1. Turn(u, "move back") \/ updater' = updater
      BY <1>13, GoesDoes DEF ClearTree, Places
    <2>. QED
      BY <1>13, <2>1, TurnLasts DEF ClearTree, Places, Lasting, TypeInv
  <1>14. CASE MoveBack(u)
    <2>1. Turn(u, "move back") \/ Turn(u, "report")
      BY <1>14, MoveBackDoes
    <2>. QED
      BY <1>14, <2>1, TurnLasts DEF MoveBack, Places
  <1>15. CASE Report(u)
    BY <1>15, GoesDoes, TurnLasts DEF Report, Places
  <1>. QED
    BY <1>1, <1>2, <1>3, <1>4, <1>5, <1>6, <1>7, <1>8, <1>9, <1>10, <1>11, <1>12, <1>13,
       <1>14, <1>15 DEF Work

\* A failing updater undoes what it has moved, or reports.
LEMMA FailDoes ==
  ASSUME TypeInv, NEW u \in Updaters, Fail(u)
  PROVE  /\ Holds(u) /\ Running(u) /\ Lasting
         /\ \/ updater[u].at \in {"remove", "move back"} /\ Turn(u, "report")
            \/ updater[u].at \notin {"remove", "move back"} /\ Turn(u, Handler(u))
  <1>1. Handler(u) \in Places \ {"none"} /\ "report" \in Places \ {"none"}
    BY FailPlace DEF Places
  <1>2. PICK p \in Places \ {"none"} :
          /\ p = IF updater[u].at \in {"remove", "move back"} THEN "report" ELSE Handler(u)
          /\ Goes(u, p)
    BY <1>1 DEF Fail
  <1>3. Turn(u, p) /\ Holds(u)
    BY <1>2, GoesDoes
  <1>4. Running(u) /\ updater[u].at # "none"
    BY DEF Fail, Running
  <1>5. Lasting
    BY <1>2, <1>3, <1>4, TurnLasts
  <1>. QED
    BY <1>2, <1>3, <1>4, <1>5

LEMMA CrashLasts ==
  ASSUME TypeInv, Crash
  PROVE  Lasting
  BY CrashDoes DEF Lasting, Running

LEMMA LastingLaunched ==
  ASSUME Lasting
  PROVE  Launched' = Launched
  BY DEF Lasting, Launched

\* The types but for the updaters and the archives.
LEMMA TypeRest ==
  ASSUME TypeInv, updater' \in [Updaters -> Progress],
         \A u \in Updaters : updater'[u].from \in 0..Len(backups'),
         backups' \in Seq(Archives),
         \A i \in DOMAIN backups' : backups'[i].label # 0 => backups'[i].whole,
         managed' = managed, remote' \in Builds, dash' \in Builds \cup {Down},
         venv' \in Updaters \cup {0}, tree' \in Trees, status' \in Statuses,
         faults' \in 0..MaxFaults, disturbed' \in BOOLEAN, strayed' \in BOOLEAN
  PROVE  TypeInv'
  BY DEF TypeInv

\* The tree an updater leaves is a tree.
LEMMA TreeTyped ==
  ASSUME TypeInv, NEW u \in Updaters, Work(u)
  PROVE  tree' \in Trees
  <1>1. tree \in Trees /\ updater[u].staged \in Trees /\ updater[u].original \in Trees
    BY DEF TypeInv, Progress
  <1>2. CASE MoveOut(u) \/ ClearTree(u)
    <2>1. tree' = tree \/ \E c \in Present(tree) : tree' = [tree EXCEPT ![c] = Gone]
      BY <1>2 DEF MoveOut, ClearTree
    <2>. QED
      BY <1>1, <2>1, TreeMoved
  <1>3. CASE MoveIn(u)
    <2>1. PICK c \in Present(updater[u].staged) : tree' = [tree EXCEPT ![c] = updater[u].staged[c]]
      BY <1>3 DEF MoveIn
    <2>2. [tree EXCEPT ![c] = updater[u].staged[c]] \in Trees
      BY <1>1, TreeMoved
    <2>. QED
      BY <2>1, <2>2
  <1>4. CASE MoveBack(u)
    <2>1. ASSUME NEW c \in Present(updater[u].original)
          PROVE  [tree EXCEPT ![c] = updater[u].original[c]] \in Trees
      BY <1>1, <2>1, TreeMoved
    <2>. QED
      BY <1>1, <1>4, <2>1 DEF MoveBack
  <1>6. CASE ~(MoveOut(u) \/ MoveIn(u) \/ MoveBack(u) \/ ClearTree(u))
    BY <1>1, <1>6 DEF Work, BackUp, CloseBackup, Fetch, Stage, SyncStaged, BuildAssets,
       SyncRepo, Complete, Stop, Start, Report
  <1>. QED
    BY <1>2, <1>3, <1>4, <1>6

\* Archives are only opened and closed.
LEMMA ArchivesTyped ==
  ASSUME TypeInv, OrderInv, NEW u \in Updaters, Work(u)
  PROVE  /\ backups' \in Seq(Archives)
         /\ Len(backups') \in {Len(backups), Len(backups) + 1}
         /\ \A i \in DOMAIN backups' : backups'[i].label # 0 => backups'[i].whole
  <1>1. CASE BackUp(u)
    BY <1>1, Opened DEF BackUp
  <1>2. CASE CloseBackup(u)
    BY <1>2, Closed
  <1>3. CASE ~(BackUp(u) \/ CloseBackup(u))
    <2>1. backups' = backups
      BY <1>3 DEF Work, MoveOut, MoveIn, MoveBack, ClearTree, Fetch, Stage, SyncStaged,
         BuildAssets, SyncRepo, Complete, Stop, Start, Report
    <2>. QED
      BY <2>1 DEF TypeInv
  <1>. QED
    BY <1>1, <1>2, <1>3

\* A build that can be imported has its Src.
LEMMA StartsBuild ==
  ASSUME TypeInv, Startable
  PROVE  Label(Importable) \in Builds
  <1>1. Importable \in Trees
    BY DEF Importable, TypeInv, Progress
  <1>. QED
    BY <1>1, TreesMade DEF Startable, Label, Gone

LEMMA WorkType ==
  ASSUME TypeInv, OrderInv, NEW u \in Updaters, Work(u)
  PROVE  TypeInv'
  <1>1. updater' \in [Updaters -> Progress] /\ \A v \in Updaters : updater'[v].from = updater[v].from
    BY WorkLasts DEF Lasting
  <1>2. \A v \in Updaters : updater'[v].from \in 0..Len(backups')
    <2>1. \A v \in Updaters : updater[v].from \in 0..Len(backups) /\ Len(backups) \in Nat
      BY DEF TypeInv
    <2>. QED
      BY <1>1, <2>1, ArchivesTyped
  <1>3. /\ managed' = managed /\ remote' = remote /\ faults' = faults
        /\ disturbed' = disturbed /\ strayed' = strayed
    BY DEF Work, UnchangedOutside, BackUp, CloseBackup, MoveOut, MoveIn, MoveBack, ClearTree,
       Fetch, Stage, SyncStaged, BuildAssets, SyncRepo, Complete, Stop, Start, Report
  <1>4. dash' \in Builds \cup {Down}
    <2>1. CASE Start(u)
      BY <2>1, StartsBuild DEF Start, TypeInv
    <2>2. CASE ~Start(u)
      BY <2>2 DEF TypeInv, Work, BackUp, CloseBackup, MoveOut, MoveIn, MoveBack, ClearTree,
         Fetch, Stage, SyncStaged, BuildAssets, SyncRepo, Complete, Stop, Report
    <2>. QED
      BY <2>1, <2>2
  <1>5. venv' \in Updaters \cup {0}
    BY DEF TypeInv, Work, BackUp, CloseBackup, MoveOut, MoveIn, MoveBack, ClearTree,
       Fetch, Stage, SyncStaged, BuildAssets, SyncRepo, Complete, Stop, Start, Report
  <1>6. status' \in Statuses
    <2>1. \/ status' = status
          \/ \E is \in {"running", "completed", "failed"} : status' = [by |-> u, is |-> is]
      BY DEF Work, BackUp, CloseBackup, MoveOut, MoveIn, MoveBack, ClearTree,
         Fetch, Stage, SyncStaged, BuildAssets, SyncRepo, Complete, Stop, Start, Report
    <2>. QED
      BY <2>1 DEF TypeInv, Statuses
  <1>7. /\ remote' \in Builds /\ faults' \in 0..MaxFaults
        /\ disturbed' \in BOOLEAN /\ strayed' \in BOOLEAN
    BY <1>3 DEF TypeInv
  <1>. QED
    BY <1>1, <1>2, <1>3, <1>4, <1>5, <1>6, <1>7, TreeTyped, ArchivesTyped, TypeRest

LEMMA LaunchType ==
  ASSUME TypeInv, OrderInv, NEW from \in Nat, NEW target \in Builds \cup {Gone},
         from \in 0..Len(backups), Launch(from, target),
         UNCHANGED <<managed, remote, tree, venv, dash, backups, faults, strayed>>
  PROVE  TypeInv'
  <1>2. PICK u \in Updaters :
          /\ updater' \in [Updaters -> Progress]
          /\ \A v \in Updaters \ {u} : updater'[v] = updater[v]
          /\ updater'[u].from = from
          /\ status' = [by |-> u, is |-> "scheduled"]
    BY LaunchDoes
  <1>3. \A v \in Updaters : updater'[v].from \in 0..Len(backups')
    BY <1>2 DEF TypeInv
  <1>5. disturbed' \in BOOLEAN
    BY DEF Launch
  <1>4. status' \in Statuses
    BY <1>2 DEF Statuses
  <1>. QED
    BY <1>2, <1>3, <1>4, <1>5, TypeRest DEF TypeInv

\* An archive that can be rolled back to.
LEMMA LastArchive ==
  ASSUME TypeInv, backups # <<>>
  PROVE  Len(backups) \in Nat /\ Len(backups) \in 0..Len(backups) /\ Last(backups).label \in Builds \cup {Gone}
  <1>1. backups \in Seq(Archives) /\ Len(backups) \in Nat /\ Len(backups) # 0
    BY DEF TypeInv
  <1>2. Last(backups) \in Archives
    BY <1>1 DEF Last
  <1>. QED
    BY <1>1, <1>2 DEF Archives

LEMMA TypeStep ==
  ASSUME TypeInv, OrderInv, [Next]_vars
  PROVE  TypeInv'
  <1>1. CASE ScheduleUpdate
    <2>1. 0 \in 0..Len(backups) /\ 0 \in Nat /\ remote \in Builds \cup {Gone}
      BY DEF TypeInv
    <2>. QED
      BY <1>1, <2>1, LaunchType DEF ScheduleUpdate
  <1>2. CASE ScheduleRollback
    BY <1>2, LastArchive, LaunchType DEF ScheduleRollback
  <1>3. CASE Publish
    <2>1. remote' \in Builds
      BY <1>3, Bounds DEF Publish, TypeInv, Builds
    <2>. QED
      BY <1>3, <2>1, TypeRest DEF Publish, TypeInv
  <1>4. CASE StartDashboard
    <2>1. dash' \in Builds \cup {Down} /\ strayed' \in BOOLEAN
      BY <1>4, StartsBuild DEF StartDashboard, TypeInv
    <2>. QED
      BY <1>4, <2>1, TypeRest DEF StartDashboard, TypeInv
  <1>5. CASE Crash
    <2>1. updater' \in [Updaters -> Progress] /\ \A u \in Updaters : updater'[u].from = updater[u].from
      BY <1>5, CrashDoes
    <2>4. faults \in 0..MaxFaults
      BY DEF TypeInv
    <2>5. faults' = faults \/ (faults < MaxFaults /\ faults' = faults + 1)
      BY <1>5 DEF Crash
    <2>2. faults' \in 0..MaxFaults
      BY <2>4, <2>5, Bounds
    <2>3. disturbed' \in BOOLEAN
      BY <1>5 DEF Crash, TypeInv
    <2>. QED
      BY <1>5, <2>1, <2>2, <2>3, TypeRest DEF Crash, TypeInv
  <1>6. ASSUME NEW u \in Updaters, Work(u) PROVE TypeInv'
    BY <1>6, WorkType
  <1>7. ASSUME NEW u \in Updaters, Fail(u) PROVE TypeInv'
    <2>1. updater' \in [Updaters -> Progress] /\ \A v \in Updaters : updater'[v].from = updater[v].from
      BY <1>7, FailDoes DEF Lasting
    <2>4. faults \in 0..MaxFaults
      BY DEF TypeInv
    <2>5. faults' = faults \/ (faults < MaxFaults /\ faults' = faults + 1)
      BY <1>7 DEF Fail
    <2>2. faults' \in 0..MaxFaults
      BY <2>4, <2>5, Bounds
    <2>3. disturbed' \in BOOLEAN
      BY <1>7 DEF Fail, LeavesBehind, TypeInv
    <2>. QED
      BY <1>7, <2>1, <2>2, <2>3, TypeRest DEF Fail, TypeInv
  <1>8. CASE UNCHANGED vars
    BY <1>8 DEF vars, TypeInv
  <1>. QED
    BY <1>1, <1>2, <1>3, <1>4, <1>5, <1>6, <1>7, <1>8 DEF Next

-----------------------------------------------------------------------------
(* The order of launches and archives.                                     *)

LEMMA InitOrder == Init => OrderInv
  <1>1. Init => Launched = 1..0
    BY DEF Init, Launched, Idle
  <1>2. Init => \A u \in Updaters : updater[u].at = "none" /\ By(u) = {}
    BY DEF Init, By, Idle
  <1>. QED
    BY <1>1, <1>2 DEF OrderInv

\* Archives keep their makers.
LEMMA ByStays ==
  ASSUME DOMAIN backups' = DOMAIN backups, \A i \in DOMAIN backups : backups'[i].by = backups[i].by
  PROVE  \A u : By(u)' = By(u)
  BY DEF By

LEMMA WorkOrder ==
  ASSUME TypeInv, OrderInv, NEW u \in Updaters, Work(u)
  PROVE  OrderInv'
  <1>1. Launched' = Launched
    BY WorkLasts, LastingLaunched
  <1>2. SUFFICES \A v \in Updaters : /\ updater'[v].at \in {"none", "launched"} => By(v)' = {}
                                     /\ updater'[v].at = "zip" => By(v)' # {}
    BY <1>1 DEF OrderInv
  <1>3. CASE BackUp(u)
    <2>1. Turn(u, "zip")
      BY <1>3, GoesDoes DEF BackUp, Places
    <2>2. \A v \in Updaters \ {u} : By(v)' = By(v)
      BY <1>3, Opened DEF By, BackUp, Archive
    <2>3. Len(backups) + 1 \in By(u)'
      BY <1>3, Opened DEF By, BackUp, Archive
    <2>. QED
      BY <2>1, <2>2, <2>3 DEF Turn, OrderInv
  <1>4. CASE CloseBackup(u)
    <2>1. Turn(u, "fetch")
      BY <1>4, GoesDoes DEF CloseBackup, Places
    <2>. QED
      BY <1>4, <2>1, Closed, ByStays DEF Turn, OrderInv
  <1>5. CASE ~(BackUp(u) \/ CloseBackup(u))
    <2>1. backups' = backups /\ updater[u].at \notin {"none", "launched"}
      BY <1>5 DEF Work, MoveOut, MoveIn, MoveBack, ClearTree, Fetch, Stage, SyncStaged,
         BuildAssets, SyncRepo, Complete, Stop, Start, Report
    <2>2. \A v \in Updaters : By(v)' = By(v)
      BY <2>1, ByStays
    <2>3. \A v \in Updaters : \/ updater'[v].at = updater[v].at
                              \/ updater'[v].at \notin {"none", "launched", "zip"}
      <3>1. CASE Stop(u)
        BY <3>1, StopDoes
      <3>2. CASE MoveOut(u) \/ MoveIn(u) \/ MoveBack(u) \/ Fetch(u) \/ Stage(u)
        <4>1. CASE MoveOut(u)
          BY <4>1, MoveOutDoes DEF Turn
        <4>2. CASE MoveIn(u)
          BY <4>2, MoveInDoes DEF Turn
        <4>3. CASE MoveBack(u)
          BY <4>3, MoveBackDoes DEF Turn
        <4>4. CASE Fetch(u) \/ Stage(u)
          BY <4>4, FetchDoes, StageDoes DEF Turn
        <4>. QED
          BY <3>2, <4>1, <4>2, <4>3, <4>4
      <3>3. CASE ClearTree(u)
        BY <3>3, GoesDoes DEF ClearTree, Turn, Places
      <3>4. CASE SyncStaged(u) \/ BuildAssets(u) \/ SyncRepo(u) \/ Start(u) \/ Report(u)
        BY <3>4, GoesDoes DEF SyncStaged, BuildAssets, SyncRepo, Start, Report, Turn, Places
      <3>5. CASE Complete(u)
        BY <3>5, GoesDoes DEF Complete, Turn, Places
      <3>. QED
        BY <1>5, <3>1, <3>2, <3>3, <3>4, <3>5 DEF Work
    <2>. QED
      BY <2>2, <2>3 DEF OrderInv
  <1>. QED
    BY <1>3, <1>4, <1>5

LEMMA OrderStep ==
  ASSUME TypeInv, OrderInv, [Next]_vars
  PROVE  OrderInv'
  <1>1. ASSUME NEW from \in Nat, NEW target \in Builds \cup {Gone}, Launch(from, target),
               backups' = backups
        PROVE  OrderInv'
    <2>1. PICK u \in Updaters :
            /\ \A v \in Updaters \ {u} : updater'[v] = updater[v]
            /\ updater[u].at = "none" /\ updater'[u].at = "launched"
            /\ \E k \in Nat : Launched' = 1..(k + 1)
      BY <1>1, LaunchDoes
    <2>2. \A v \in Updaters : By(v)' = By(v)
      BY <1>1, ByStays
    <2>3. \E k \in Nat : Launched' = 1..k
      BY <2>1
    <2>. QED
      BY <2>1, <2>2, <2>3 DEF OrderInv
  <1>2. CASE ScheduleUpdate
    BY <1>1, <1>2 DEF ScheduleUpdate, TypeInv
  <1>3. CASE ScheduleRollback
    <2>1. Len(backups) \in Nat
      BY DEF TypeInv
    <2>. QED
      BY <1>1, <1>3, <2>1, LastArchive DEF ScheduleRollback
  <1>4. ASSUME NEW u \in Updaters, Work(u) PROVE OrderInv'
    BY <1>4, WorkOrder
  <1>5. ASSUME NEW u \in Updaters, Fail(u) PROVE OrderInv'
    <2>1. backups' = backups /\ Launched' = Launched
      BY <1>5, FailDoes, LastingLaunched DEF Fail
    <2>2. \A v \in Updaters : By(v)' = By(v)
      BY <2>1, ByStays
    <2>3. \A v \in Updaters : \/ updater'[v].at = updater[v].at
                              \/ updater'[v].at \notin {"none", "launched", "zip"}
      BY <1>5, FailDoes, FailPlace DEF Turn
    <2>. QED
      BY <2>1, <2>2, <2>3 DEF OrderInv
  <1>6. CASE Crash
    <2>1. backups' = backups /\ Launched' = Launched
      BY <1>6, CrashLasts, LastingLaunched DEF Crash
    <2>2. \A v \in Updaters : By(v)' = By(v)
      BY <2>1, ByStays
    <2>3. \A v \in Updaters : \/ updater'[v].at = updater[v].at
                              \/ updater'[v].at \notin {"none", "launched", "zip"}
      BY <1>6, CrashDoes
    <2>. QED
      BY <2>1, <2>2, <2>3 DEF OrderInv
  <1>7. CASE Publish \/ StartDashboard \/ UNCHANGED vars
    <2>1. updater' = updater /\ backups' = backups
      BY <1>7 DEF Publish, StartDashboard, vars
    <2>. QED
      BY <2>1 DEF OrderInv, Launched, By
  <1>. QED
    BY <1>2, <1>3, <1>4, <1>5, <1>6, <1>7 DEF Next

-----------------------------------------------------------------------------
(* The builds in closed archives, and those nothing has touched.           *)

\* Archives stay, and stay closed.
ArchivesStay ==
  \A i \in DOMAIN backups : /\ i \in DOMAIN backups'
                            /\ backups'[i].by = backups[i].by
                            /\ backups'[i].content = backups[i].content
                            /\ backups[i].whole => backups'[i].whole

LEMMA WorkArchives ==
  ASSUME TypeInv, OrderInv, NEW u \in Updaters, Work(u)
  PROVE  ArchivesStay
  <1>1. CASE BackUp(u)
    BY <1>1, Opened DEF BackUp, ArchivesStay
  <1>2. CASE CloseBackup(u)
    BY <1>2, Closed DEF ArchivesStay
  <1>3. CASE ~(BackUp(u) \/ CloseBackup(u))
    <2>1. backups' = backups
      BY <1>3 DEF Work, MoveOut, MoveIn, MoveBack, ClearTree, Fetch, Stage, SyncStaged,
         BuildAssets, SyncRepo, Complete, Stop, Start, Report
    <2>. QED
      BY <2>1 DEF ArchivesStay
  <1>. QED
    BY <1>1, <1>2, <1>3

LEMMA ArchivedStays ==
  ASSUME ArchivesStay, NEW b, Archived(b)
  PROVE  Archived(b)'
  BY DEF ArchivesStay, Archived

\* The steps of an updater that has moved nothing, and whose archive is open.
LEMMA EarlyWork ==
  ASSUME NEW u \in Updaters, Work(u), updater[u].at \in Early
  PROVE  BackUp(u) \/ CloseBackup(u) \/ Report(u)
  BY DEF Early, Work, MoveOut, MoveIn, MoveBack, ClearTree, Fetch, Stage, SyncStaged,
     BuildAssets, SyncRepo, Complete, Stop, Start

LEMMA SafeWork ==
  ASSUME TypeInv, OrderInv, NEW u \in Updaters, Work(u), NEW b, Safe(b),
         Untouched(b) => \A i \in By(u) : backups[i].content = Of(b)
  PROVE  Safe(b)'
  <1>1. CASE Archived(b)
    BY <1>1, WorkArchives, ArchivedStays DEF Safe
  <1>2. CASE Untouched(b)
    <2>1. updater[u].at \in Early
      BY <1>2 DEF Untouched
    <2>2. CASE BackUp(u)
      <3>1. Turn(u, "zip") /\ tree' = tree
        BY <2>2, GoesDoes DEF BackUp, Places
      <3>. QED
        BY <1>2, <3>1 DEF Turn, Untouched, Safe, Early
    <2>3. CASE CloseBackup(u)
      <3>1. /\ Mine(u) \in DOMAIN backups /\ backups[Mine(u)].content = Of(b)
            /\ DOMAIN backups' = DOMAIN backups
            /\ backups'[Mine(u)].content = backups[Mine(u)].content
            /\ backups'[Mine(u)].whole
        BY <1>2, <2>3, Closed DEF By
      <3>2. PICK m : m = Mine(u)
        OBVIOUS
      <3>. QED
        BY <3>1, <3>2 DEF Archived, Safe
    <2>4. CASE Report(u)
      <3>1. Turn(u, "done") /\ tree' = tree
        BY <2>4, GoesDoes DEF Report, Places
      <3>. QED
        BY <1>2, <3>1 DEF Turn, Untouched, Safe, Early
    <2>. QED
      BY <2>1, <2>2, <2>3, <2>4, EarlyWork
  <1>. QED
    BY <1>1, <1>2 DEF Safe

\* A step that moves nothing and closes nothing.
LEMMA SafeStays ==
  ASSUME NEW b, Safe(b), backups' = backups, tree' = tree,
         \A u \in Updaters : updater[u].at \in Early => updater'[u].at \in Early
  PROVE  Safe(b)'
  BY DEF Safe, Archived, Untouched

LEMMA FailEarly ==
  ASSUME TypeInv, NEW u \in Updaters, Fail(u)
  PROVE  /\ backups' = backups /\ tree' = tree
         /\ \A v \in Updaters : updater[v].at \in Early => updater'[v].at \in Early
  <1>1. updater[u].at \in Early => Handler(u) = "report"
    BY DEF Early, Handler
  <1>. QED
    BY <1>1, FailDoes DEF Fail, Turn, Early

LEMMA CrashEarly ==
  ASSUME TypeInv, Crash
  PROVE  /\ backups' = backups /\ tree' = tree
         /\ \A v \in Updaters : updater[v].at \in Early => updater'[v].at \in Early
  BY CrashDoes DEF Crash, Early

-----------------------------------------------------------------------------
(* The build the first updater found.                                      *)

LEMMA FirstStays ==
  ASSUME NEW b, First(b), backups' = backups, tree' = tree,
         \A u \in Updaters : updater[u].at \in Early => updater'[u].at \in Early
  PROVE  First(b)'
  <1>1. Safe(b)'
    BY SafeStays DEF First
  <1>. QED
    BY <1>1 DEF First, Archived

LEMMA FirstWork ==
  ASSUME TypeInv, OrderInv, NEW u \in Updaters, Work(u), NEW b, First(b)
  PROVE  First(b)'
  <1>1. CASE Archived(b)
    BY <1>1, WorkArchives, ArchivedStays DEF First, Safe
  <1>2. CASE ~Archived(b)
    <2>1. Untouched(b) /\ \A i \in DOMAIN backups : backups[i].content = Of(b)
      BY <1>2 DEF First, Safe
    <2>2. Safe(b)'
      BY <2>1, SafeWork DEF First, By
    <2>3. \A i \in DOMAIN backups' : backups'[i].content = Of(b)
      <3>1. updater[u].at \in Early /\ tree = Of(b)
        BY <2>1 DEF Untouched
      <3>2. CASE BackUp(u)
        BY <2>1, <3>1, <3>2, Opened DEF BackUp, Archive
      <3>3. CASE CloseBackup(u)
        BY <2>1, <3>3, Closed
      <3>4. CASE Report(u)
        BY <2>1, <3>4 DEF Report
      <3>. QED
        BY <3>1, <3>2, <3>3, <3>4, EarlyWork
    <2>. QED
      BY <2>2, <2>3 DEF First
  <1>. QED
    BY <1>1, <1>2

\* What was known of the first updater still is if it is still there.
LEMMA FirstGoesOn ==
  ASSUME FirstInv, OrderInv, Lasting, Launched # {},
         \A b : First(b) => First(b)'
  PROVE  FirstInv'
  <1>1. Launched' = Launched
    BY LastingLaunched
  <1>2. PICK b : b = updater[1].current
    OBVIOUS
  <1>3. 1 \in Launched => updater'[1].current = b
    BY <1>2 DEF Lasting, Launched
  <1>4. 1 \in Launched => First(b)'
    BY <1>2 DEF FirstInv
  <1>5. 1 \in Launched' => First(updater[1].current)'
    BY <1>1, <1>3, <1>4 DEF First, Safe, Archived, Untouched
  <1>. QED
    BY <1>1, <1>5 DEF FirstInv

LEMMA InitFirst == Init => FirstInv
  <1>1. Init => Launched = {}
    BY DEF Init, Launched, Idle
  <1>. QED
    BY <1>1 DEF Init, FirstInv

LEMMA FirstLaunch ==
  ASSUME TypeInv, OrderInv, FirstInv, NEW from \in Nat, NEW target \in Builds \cup {Gone},
         Launch(from, target), dash # Down, UNCHANGED <<tree, venv, dash, backups>>
  PROVE  FirstInv'
  <1>1. PICK u \in Updaters :
          /\ \A v \in Updaters \ {u} : updater'[v] = updater[v]
          /\ updater[u].at = "none" /\ updater'[u].at = "launched"
          /\ updater'[u].current = dash
          /\ \E k \in Nat : Launched = 1..k /\ Launched' = 1..(k + 1) /\ u = k + 1
    BY LaunchDoes
  <1>2. PICK k \in Nat : Launched = 1..k /\ Launched' = 1..(k + 1) /\ u = k + 1
    BY <1>1
  <1>3. Launched' # {}
    BY <1>1 DEF Launched
  <1>4. \A v \in Updaters : updater[v].at \in Early => updater'[v].at \in Early
    BY <1>1 DEF Early
  <1>5. CASE k = 0
    <2>1. Launched = {} /\ u = 1
      BY <1>2, <1>5
    <2>2. tree = Of(1) /\ dash = 1 /\ backups = <<>>
      BY <2>1 DEF FirstInv
    <2>3. \A v \in Updaters : updater'[v].at \in Early
      BY <1>1, <2>1 DEF Early, Launched
    <2>4. First(1)'
      BY <2>2, <2>3 DEF First, Safe, Untouched
    <2>5. updater'[1].current = 1
      BY <1>1, <2>1, <2>2
    <2>6. First(updater[1].current)'
      BY <2>4, <2>5 DEF First, Safe, Archived, Untouched
    <2>. QED
      BY <1>3, <2>6 DEF FirstInv
  <1>6. CASE k # 0
    <2>1. 1 \in Launched /\ u # 1
      BY <1>2, <1>6
    <2>2. PICK b : b = updater[1].current
      OBVIOUS
    <2>3. First(b)'
      BY <1>4, <2>1, <2>2, FirstStays DEF FirstInv
    <2>4. updater'[1].current = b
      BY <1>1, <2>1, <2>2 DEF Launched
    <2>5. First(updater[1].current)'
      BY <2>3, <2>4 DEF First, Safe, Archived, Untouched
    <2>. QED
      BY <1>3, <2>5 DEF FirstInv
  <1>. QED
    BY <1>5, <1>6

LEMMA FirstStep ==
  ASSUME TypeInv, OrderInv, FirstInv, [Next]_vars
  PROVE  FirstInv'
  <1>1. CASE ScheduleUpdate
    <2>1. 0 \in Nat /\ remote \in Builds \cup {Gone}
      BY DEF TypeInv
    <2>. QED
      BY <1>1, <2>1, FirstLaunch DEF ScheduleUpdate
  <1>2. CASE ScheduleRollback
    BY <1>2, LastArchive, FirstLaunch DEF ScheduleRollback
  <1>3. ASSUME NEW u \in Updaters, Work(u) PROVE FirstInv'
    <2>1. Lasting
      BY <1>3, WorkLasts
    <2>2. Launched # {}
      BY <1>3 DEF Launched, Work, BackUp, CloseBackup, MoveOut, MoveIn, MoveBack, ClearTree,
         Fetch, Stage, SyncStaged, BuildAssets, SyncRepo, Complete, Stop, Start, Report
    <2>. QED
      BY <1>3, <2>1, <2>2, FirstWork, FirstGoesOn
  <1>4. ASSUME NEW u \in Updaters, Fail(u) PROVE FirstInv'
    <2>1. Lasting /\ Launched # {}
      BY <1>4, FailDoes DEF Running, Launched
    <2>. QED
      BY <1>4, <2>1, FailEarly, FirstStays, FirstGoesOn
  <1>5. CASE Crash
    <2>1. CASE Launched # {}
      BY <1>5, <2>1, CrashLasts, CrashEarly, FirstStays, FirstGoesOn
    <2>2. CASE Launched = {}
      <3>1. Launched' = {}
        BY <1>5, <2>2, CrashLasts, LastingLaunched
      <3>. QED
        BY <1>5, <2>2, <3>1 DEF Crash, FirstInv
    <2>. QED
      BY <2>1, <2>2
  <1>6. CASE Publish \/ UNCHANGED vars
    <2>1. UNCHANGED <<updater, backups, tree, venv, dash>>
      BY <1>6 DEF Publish, vars
    <2>. QED
      BY <2>1 DEF FirstInv, Launched, First, Safe, Archived, Untouched
  <1>7. CASE StartDashboard
    <2>1. UNCHANGED <<updater, backups, tree, venv>>
      BY <1>7 DEF StartDashboard
    <2>2. Launched = {} => dash' = 1
      BY <1>7, TreesMade DEF StartDashboard, FirstInv, Importable, Label, Of
    <2>. QED
      BY <2>1, <2>2 DEF FirstInv, Launched, First, Safe, Archived, Untouched
  <1>. QED
    BY <1>1, <1>2, <1>3, <1>4, <1>5, <1>6, <1>7 DEF Next

-----------------------------------------------------------------------------
(* An updater that runs alone.                                             *)

\* A tree that has nothing of a build, or all of it.
LEMMA WholeTree ==
  ASSUME NEW t \in Trees, NEW b
  PROVE  /\ (\A c \in Children : t[c] = b) => t = Of(b)
         /\ t = Of(b) => \A c \in Children : t[c] = b
         /\ t = Of(b) => Label(t) = b
  BY TreesMade DEF Trees, Of, Label

\* A child is moved on.
LEMMA HalvesMove ==
  ASSUME NEW s \in Trees, NEW t \in Trees, NEW b \in Builds, Halves(s, t, b),
         NEW c \in Present(s)
  PROVE  /\ Halves([s EXCEPT ![c] = Gone], [t EXCEPT ![c] = s[c]], b)
         /\ Present(s) = {c} => /\ [t EXCEPT ![c] = s[c]] = Of(b)
                                /\ \A d \in Children : [s EXCEPT ![c] = Gone][d] = Gone
  <1>1. c \in Children /\ s[c] = b
    BY DEF Halves, Present
  <1>2. Halves([s EXCEPT ![c] = Gone], [t EXCEPT ![c] = s[c]], b)
    BY <1>1 DEF Halves, Trees
  <1>3. ASSUME Present(s) = {c}
        PROVE  \A d \in Children : [s EXCEPT ![c] = Gone][d] = Gone /\ [t EXCEPT ![c] = s[c]][d] = b
    BY <1>1, <1>3 DEF Halves, Trees, Present
  <1>4. ASSUME Present(s) = {c} PROVE [t EXCEPT ![c] = s[c]] = Of(b)
    BY <1>3, <1>4 DEF Of, Trees
  <1>. QED
    BY <1>2, <1>3, <1>4

LEMMA HalvesDone ==
  ASSUME NEW s \in Trees, NEW t \in Trees, NEW b \in Builds
  PROVE  /\ Halves(s, t, b) /\ Present(s) = {} => t = Of(b)
         /\ s = Of(b) /\ Present(t) = {} => Halves(s, t, b)
         /\ s = Of(b) /\ (\A d \in Children : t[d] = Gone) => Halves(s, t, b)
         /\ s = Of(b) /\ t = Empty => Halves(s, t, b)
  <1>1. Halves(s, t, b) /\ Present(s) = {} => \A d \in Children : t[d] = b
    BY DEF Halves, Present
  <1>2. ASSUME s = Of(b) PROVE \A d \in Children : s[d] = b
    BY <1>2, WholeTree
  <1>3. ASSUME s = Of(b), \A d \in Children : t[d] = Gone PROVE Halves(s, t, b)
    BY <1>2, <1>3 DEF Halves
  <1>4. Present(t) = {} => \A d \in Children : t[d] = Gone
    BY DEF Present
  <1>5. t = Empty => \A d \in Children : t[d] = Gone
    BY DEF Empty
  <1>. QED
    BY <1>1, <1>3, <1>4, <1>5, WholeTree

LEMMA FoundStays ==
  ASSUME TypeInv, OrderInv, NEW u \in Updaters, Work(u), NEW b, Found(u, b),
         BackUp(u) => tree = Of(b)
  PROVE  Found(u, b)'
  <1>1. CASE BackUp(u)
    BY <1>1, Opened DEF Found, By, Archive, BackUp
  <1>2. CASE CloseBackup(u)
    BY <1>2, Closed DEF Found, By
  <1>3. CASE ~(BackUp(u) \/ CloseBackup(u))
    <2>1. backups' = backups
      BY <1>3 DEF Work, MoveOut, MoveIn, MoveBack, ClearTree, Fetch, Stage, SyncStaged,
         BuildAssets, SyncRepo, Complete, Stop, Start, Report
    <2>. QED
      BY <2>1 DEF Found, By
  <1>. QED
    BY <1>1, <1>2, <1>3

\* What a step of an updater must leave.
Further(u, b) == (Running(u)' => Knows(u, b)') /\ (~Running(u)' => Calm')

LEMMA PrepareFurther ==
  ASSUME TypeInv, OrderInv, NEW u \in Updaters, NEW b \in Builds, Knows(u, b), Found(u, b)',
         BackUp(u) \/ CloseBackup(u) \/ SyncStaged(u) \/ BuildAssets(u)
  PROVE  Further(u, b)
  <1>1. CASE BackUp(u)
    <2>1. Turn(u, "zip") /\ Holds(u)
      BY <1>1, GoesDoes DEF BackUp, Places
    <2>. QED
      BY <1>1, <2>1 DEF BackUp, UnchangedOutside, Turn, Holds, Further, Knows, Before, Ending, Running
  <1>2. CASE CloseBackup(u)
    <2>1. Turn(u, "fetch") /\ Holds(u)
      BY <1>2, GoesDoes DEF CloseBackup, Places
    <2>. QED
      BY <1>2, <2>1 DEF CloseBackup, UnchangedOutside, Turn, Holds, Further, Knows, Before, Ending, Running
  <1>3. CASE SyncStaged(u)
    <2>1. Turn(u, "assets") /\ Holds(u)
      BY <1>3, GoesDoes DEF SyncStaged, Places
    <2>. QED
      BY <1>3, <2>1 DEF SyncStaged, UnchangedOutside, Turn, Holds, Further, Knows, Before, Ending, Running
  <1>4. CASE BuildAssets(u)
    <2>1. Turn(u, "move out") /\ Holds(u)
      BY <1>4, GoesDoes DEF BuildAssets, Places
    <2>2. updater[u].original \in Trees /\ tree \in Trees
      BY DEF TypeInv, Progress
    <2>3. Halves(tree, updater[u].original, b)
      BY <1>4, <2>2, HalvesDone DEF Knows, Before, BuildAssets
    <2>. QED
      BY <1>4, <2>1, <2>3 DEF BuildAssets, UnchangedOutside, Turn, Holds, Further, Knows, Before, Ending, Running,
         Halves
  <1>. QED
    BY <1>1, <1>2, <1>3, <1>4

LEMMA FetchFurther ==
  ASSUME TypeInv, OrderInv, NEW u \in Updaters, NEW b \in Builds, Knows(u, b), Found(u, b)',
         \A i \in DOMAIN backups : \E f \in Builds : backups[i].content = Of(f),
         Fetch(u) \/ Stage(u)
  PROVE  Further(u, b)
  <1>1. CASE Fetch(u)
    <2>1. /\ Turn(u, "validate") /\ updater'[u].original = updater[u].original
          /\ \E f \in Builds : updater'[u].fetched = Of(f)
      BY <1>1, FetchDoes DEF TypeInv
    <2>. QED
      BY <1>1, <2>1 DEF Fetch, UnchangedOutside, Turn, Further, Knows, Before, Ending, Running
  <1>2. CASE Stage(u)
    <2>1. /\ Turn(u, "sync") /\ updater'[u].original = updater[u].original
          /\ updater'[u].staged = updater[u].fetched
      BY <1>2, StageDoes
    <2>2. PICK f \in Builds : updater[u].fetched = Of(f)
      BY <1>2 DEF Stage, Knows
    <2>3. updater[u].target = f
      BY <1>2, <2>2, TreesMade, WholeTree DEF Stage, AsExpected
    <2>. QED
      BY <1>2, <2>1, <2>2, <2>3 DEF Stage, UnchangedOutside, Turn, Further, Knows, Before, Ending, Running
  <1>. QED
    BY <1>1, <1>2

LEMMA MoveOutFurther ==
  ASSUME TypeInv, OrderInv, NEW u \in Updaters, NEW b \in Builds, Knows(u, b), Found(u, b)',
         MoveOut(u), tree' \in Trees
  PROVE  Further(u, b)
  <1>1. /\ updater[u].at = "move out" /\ Halves(tree, updater[u].original, b)
        /\ updater[u].staged = Of(updater[u].target) /\ updater[u].target \in Builds
        /\ status.by = u /\ status.is \notin {"failed", "completed"}
        /\ ~strayed => b = updater[u].current /\ dash = b
    BY DEF MoveOut, Knows, Before, Ending
  <1>2. /\ UNCHANGED <<venv, dash, backups, status, strayed>>
        /\ updater[u].original \in Trees /\ tree \in Trees /\ updater[u].staged \in Trees
    BY DEF MoveOut, UnchangedOutside, TypeInv, Progress
  <1>3. CASE Present(tree) = {} /\ tree' = tree /\ Turn(u, "move in") /\ Holds(u)
    <2>1. updater[u].original = Of(b) /\ Halves(updater[u].staged, tree, updater[u].target)
      BY <1>1, <1>2, <1>3, HalvesDone
    <2>. QED
      BY <1>1, <1>2, <1>3, <2>1 DEF Turn, Holds, Further, Knows, Before, Ending, Running, Halves
  <1>4. ASSUME NEW c \in Present(tree),
               tree' = [tree EXCEPT ![c] = Gone],
               Turn(u, IF Present(tree) = {c} THEN "move in" ELSE "move out"),
               updater'[u].staged = updater[u].staged,
               updater'[u].original = [updater[u].original EXCEPT ![c] = tree[c]]
        PROVE  Further(u, b)
    <2>1. PICK s \in Trees, t \in Trees, s2 \in Trees, t2 \in Trees :
            s = tree /\ t = updater[u].original /\ s2 = tree' /\ t2 = updater'[u].original
      BY <1>2, <1>4 DEF Turn, Progress
    <2>5. /\ Halves(s2, t2, b)
          /\ Present(s) = {c} => t2 = Of(b) /\ \A d \in Children : s2[d] = Gone
      <3>1. c \in Present(s) /\ s2 = [s EXCEPT ![c] = Gone] /\ t2 = [t EXCEPT ![c] = s[c]]
        BY <1>4, <2>1
      <3>2. Halves(s, t, b)
        BY <1>1, <2>1
      <3>3. /\ Halves([s EXCEPT ![c] = Gone], [t EXCEPT ![c] = s[c]], b)
            /\ Present(s) = {c} => /\ [t EXCEPT ![c] = s[c]] = Of(b)
                                   /\ \A e \in Children : [s EXCEPT ![c] = Gone][e] = Gone
        BY <3>1, <3>2, HalvesMove, Zenon
      <3>. QED
        BY <3>1, <3>3
    <2>2. /\ Halves(tree', updater'[u].original, b)
          /\ Present(tree) = {c} => updater'[u].original = Of(b)
      BY <2>1, <2>5
    <2>3. CASE Present(tree) = {c}
      <3>2. PICK g \in Trees, d \in Builds : g = updater[u].staged /\ d = updater[u].target
        BY <1>1, <1>2
      <3>4. g = Of(d) /\ \A e \in Children : s2[e] = Gone
        BY <1>1, <2>1, <2>3, <2>5, <3>2
      <3>3. Halves(g, s2, d)
        BY <3>4 DEF Halves, Of
      <3>1. Halves(updater'[u].staged, tree', updater'[u].target)
        BY <1>4, <2>1, <3>2, <3>3 DEF Turn
      <3>. QED
        BY <1>1, <1>2, <1>4, <2>2, <2>3, <3>1
        DEF Turn, Further, Knows, Before, Ending, Running, Halves
    <2>4. CASE Present(tree) # {c}
      BY <1>1, <1>2, <1>4, <2>2, <2>4
      DEF Turn, Further, Knows, Before, Ending, Running, Halves
    <2>. QED
      BY <2>3, <2>4
  <1>. QED
    BY <1>3, <1>4, MoveOutDoes

LEMMA MoveInFurther ==
  ASSUME TypeInv, OrderInv, NEW u \in Updaters, NEW b \in Builds, Knows(u, b), Found(u, b)',
         MoveIn(u), tree' \in Trees
  PROVE  Further(u, b)
  <1>1. /\ updater[u].at = "move in" /\ Halves(updater[u].staged, tree, updater[u].target)
        /\ updater[u].original = Of(b) /\ updater[u].target \in Builds
        /\ status.by = u /\ status.is \notin {"failed", "completed"}
        /\ ~strayed => b = updater[u].current /\ dash = b
    BY DEF MoveIn, Knows, Before, Ending
  <1>2. /\ UNCHANGED <<venv, dash, backups, status, strayed>>
        /\ tree \in Trees /\ updater[u].staged \in Trees
    BY DEF MoveIn, UnchangedOutside, TypeInv, Progress
  <1>3. PICK c \in Present(updater[u].staged) :
           /\ tree' = [tree EXCEPT ![c] = updater[u].staged[c]]
           /\ Turn(u, IF Present(updater[u].staged) = {c} THEN "sync repo" ELSE "move in")
           /\ updater'[u].staged = [updater[u].staged EXCEPT ![c] = Gone]
           /\ updater'[u].original = updater[u].original
    BY MoveInDoes
  <1>4. PICK s \in Trees, t \in Trees, s2 \in Trees, t2 \in Trees, d \in Builds :
           /\ s = updater[u].staged /\ t = tree /\ s2 = updater'[u].staged /\ t2 = tree'
           /\ d = updater[u].target
    BY <1>1, <1>2, <1>3 DEF Turn, Progress
  <1>8. Halves(s2, t2, d) /\ (Present(s) = {c} => t2 = Of(d))
    <2>1. c \in Present(s) /\ s2 = [s EXCEPT ![c] = Gone] /\ t2 = [t EXCEPT ![c] = s[c]]
      BY <1>3, <1>4
    <2>2. Halves(s, t, d)
      BY <1>1, <1>4
    <2>3. /\ Halves([s EXCEPT ![c] = Gone], [t EXCEPT ![c] = s[c]], d)
          /\ Present(s) = {c} => /\ [t EXCEPT ![c] = s[c]] = Of(d)
                                 /\ \A e \in Children : [s EXCEPT ![c] = Gone][e] = Gone
      BY <2>1, <2>2, HalvesMove, Zenon
    <2>. QED
      BY <2>1, <2>3
  <1>5. /\ Halves(updater'[u].staged, tree', updater[u].target)
        /\ Present(updater[u].staged) = {c} => tree' = Of(updater[u].target)
    BY <1>4, <1>8
  <1>6. CASE Present(updater[u].staged) = {c}
    BY <1>1, <1>2, <1>3, <1>5, <1>6 DEF Turn, Further, Knows, Before, Ending, Running
  <1>7. CASE Present(updater[u].staged) # {c}
    BY <1>1, <1>2, <1>3, <1>5, <1>7 DEF Turn, Further, Knows, Before, Ending, Running, Halves
  <1>. QED
    BY <1>6, <1>7

LEMMA MoveBackFurther ==
  ASSUME TypeInv, OrderInv, NEW u \in Updaters, NEW b \in Builds, Knows(u, b), Found(u, b)',
         MoveBack(u), tree' \in Trees
  PROVE  Further(u, b)
  <1>1. /\ updater[u].at = "move back" /\ Halves(updater[u].original, tree, b)
        /\ status.by = u /\ status.is \notin {"failed", "completed"}
        /\ ~strayed => b = updater[u].current /\ dash = b
    BY DEF MoveBack, Knows, Before, Ending
  <1>2. /\ UNCHANGED <<venv, dash, backups, status, strayed>>
        /\ tree \in Trees /\ updater[u].original \in Trees
    BY DEF MoveBack, UnchangedOutside, TypeInv, Progress
  <1>3. CASE /\ Present(updater[u].original) = {}
             /\ tree' = tree /\ Turn(u, "report") /\ Holds(u)
    <2>1. tree = Of(b)
      BY <1>1, <1>2, <1>3, HalvesDone
    <2>. QED
      BY <1>1, <1>2, <1>3, <2>1 DEF Turn, Further, Knows, Before, Ending, Running
  <1>4. ASSUME NEW c \in Present(updater[u].original),
               tree' = [tree EXCEPT ![c] = updater[u].original[c]],
               Turn(u, IF Present(updater[u].original) = {c} THEN "report" ELSE "move back"),
               updater'[u].original = [updater[u].original EXCEPT ![c] = Gone]
        PROVE  Further(u, b)
    <2>1. PICK s \in Trees, t \in Trees, s2 \in Trees, t2 \in Trees :
            s = updater[u].original /\ t = tree /\ s2 = updater'[u].original /\ t2 = tree'
      BY <1>2, <1>4 DEF Turn, Progress
    <2>5. Halves(s2, t2, b) /\ (Present(s) = {c} => t2 = Of(b))
      <3>1. c \in Present(s) /\ s2 = [s EXCEPT ![c] = Gone] /\ t2 = [t EXCEPT ![c] = s[c]]
        BY <1>4, <2>1
      <3>2. Halves(s, t, b)
        BY <1>1, <2>1
      <3>3. /\ Halves([s EXCEPT ![c] = Gone], [t EXCEPT ![c] = s[c]], b)
            /\ Present(s) = {c} => /\ [t EXCEPT ![c] = s[c]] = Of(b)
                                   /\ \A e \in Children : [s EXCEPT ![c] = Gone][e] = Gone
        BY <3>1, <3>2, HalvesMove, Zenon
      <3>. QED
        BY <3>1, <3>3
    <2>2. /\ Halves(updater'[u].original, tree', b)
          /\ Present(updater[u].original) = {c} => tree' = Of(b)
      BY <2>1, <2>5
    <2>3. CASE Present(updater[u].original) = {c}
      BY <1>1, <1>2, <1>4, <2>2, <2>3 DEF Turn, Further, Knows, Before, Ending, Running
    <2>4. CASE Present(updater[u].original) # {c}
      BY <1>1, <1>2, <1>4, <2>2, <2>4 DEF Turn, Further, Knows, Before, Ending, Running, Halves
    <2>. QED
      BY <2>3, <2>4
  <1>. QED
    BY <1>3, <1>4, MoveBackDoes

LEMMA SwitchFurther ==
  ASSUME TypeInv, OrderInv, NEW u \in Updaters, NEW b \in Builds, Knows(u, b), Found(u, b)',
         SyncRepo(u) \/ Complete(u) \/ ClearTree(u), tree' \in Trees
  PROVE  Further(u, b)
  <1>1. CASE SyncRepo(u)
    <2>1. Turn(u, "smoke") /\ Holds(u)
      BY <1>1, GoesDoes DEF SyncRepo, Places
    <2>. QED
      BY <1>1, <2>1
      DEF SyncRepo, UnchangedOutside, Turn, Holds, Further, Knows, Before, Ending, Running
  <1>2. CASE Complete(u)
    <2>1. Turn(u, "kill") \/ Turn(u, "stop")
      BY <1>2, GoesDoes DEF Complete, Places
    <2>2. /\ updater[u].at = "smoke" /\ tree = Of(updater[u].target) /\ venv = 0
          /\ updater[u].target \in Builds
          /\ ~strayed => b = updater[u].current /\ dash = b
      BY <1>2 DEF Complete, Knows, Before, Ending
    <2>3. /\ UNCHANGED <<tree, venv, dash, strayed>>
          /\ status'.by = u /\ status'.is = "completed"
      BY <1>2 DEF Complete, UnchangedOutside
    <2>. QED
      BY <2>1, <2>2, <2>3 DEF Turn, Further, Knows, Before, Ending, Running
  <1>3. CASE ClearTree(u)
    <2>1. /\ updater[u].at = "remove" /\ updater[u].original = Of(b)
          /\ status.by = u /\ status.is \notin {"failed", "completed"}
          /\ ~strayed => b = updater[u].current /\ dash = b
      BY <1>3 DEF ClearTree, Knows, Before, Ending
    <2>2. UNCHANGED <<venv, dash, backups, status, strayed>>
      BY <1>3 DEF ClearTree, UnchangedOutside
    <2>3. CASE Present(tree) = {}
      <3>1. Turn(u, "move back") /\ Holds(u) /\ tree' = tree
        BY <1>3, <2>3, GoesDoes DEF ClearTree, Places
      <3>2. PICK g \in Trees : g = updater[u].original
        BY DEF TypeInv, Progress
      <3>3. Halves(g, tree, b)
        BY <2>1, <2>3, <3>2, HalvesDone DEF TypeInv
      <3>4. Halves(updater'[u].original, tree', b)
        BY <3>1, <3>2, <3>3 DEF Holds
      <3>. QED
        BY <2>1, <2>2, <3>1, <3>4 DEF Turn, Holds, Further, Knows, Before, Ending, Running, Halves
    <2>4. CASE Present(tree) # {}
      <3>1. updater' = updater
        BY <1>3, <2>4 DEF ClearTree
      <3>. QED
        BY <2>1, <2>2, <3>1 DEF Further, Knows, Before, Ending, Running
    <2>. QED
      BY <2>3, <2>4
  <1>. QED
    BY <1>1, <1>2, <1>3

LEMMA EndFurther ==
  ASSUME TypeInv, OrderInv, NEW u \in Updaters, NEW b \in Builds, Knows(u, b), Found(u, b)',
         Stop(u) \/ Start(u) \/ Report(u)
  PROVE  Further(u, b)
  <1>1. CASE Stop(u)
    <2>1. /\ tree = Of(updater[u].target) /\ venv = 0 /\ updater[u].target \in Builds
          /\ status.by = u /\ status.is = "completed"
          /\ ~strayed => b = updater[u].current
      BY <1>1 DEF Stop, Knows, Before, Ending
    <2>2. UNCHANGED <<tree, venv, status, strayed>> /\ dash' = Down
      BY <1>1 DEF Stop
    <2>3. /\ updater'[u].at \in {"done", "start"}
          /\ updater'[u].target = updater[u].target /\ updater'[u].current = updater[u].current
      BY <1>1, StopDoes
    <2>4. CASE updater'[u].at = "done"
      BY <2>1, <2>2, <2>3, <2>4 DEF Further, Calm, Running
    <2>5. CASE updater'[u].at = "start"
      BY <2>1, <2>2, <2>3, <2>5 DEF Further, Knows, Before, Ending, Running
    <2>. QED
      BY <2>3, <2>4, <2>5
  <1>2. CASE Start(u)
    <2>1. /\ tree = Of(updater[u].target) /\ venv = 0 /\ updater[u].target \in Builds
          /\ status.by = u /\ status.is = "completed"
          /\ ~strayed => dash \in {Down, updater[u].target}
      BY <1>2 DEF Start, Knows, Before, Ending
    <2>2. Label(tree) = updater[u].target
      BY <2>1, TreesMade, WholeTree
    <2>3. /\ UNCHANGED <<tree, venv, status, strayed>>
          /\ dash' = dash \/ dash' = Label(tree)
      BY <1>2, <2>1 DEF Start, UnchangedOutside, Importable
    <2>4. Turn(u, "done")
      BY <1>2, GoesDoes DEF Start, Places
    <2>. QED
      BY <2>1, <2>2, <2>3, <2>4 DEF Turn, Further, Calm, Running, Label
  <1>3. CASE Report(u)
    <2>1. tree = Of(b) /\ Label(tree) = b /\ (~strayed => dash = b)
      BY <1>3, TreesMade, WholeTree DEF Report, Knows
    <2>2. /\ UNCHANGED <<tree, venv, dash, strayed>>
          /\ status'.by = u /\ status'.is = "failed"
      BY <1>3 DEF Report, UnchangedOutside
    <2>3. Turn(u, "done")
      BY <1>3, GoesDoes DEF Report, Places
    <2>4. \A i \in By(u)' : backups'[i].content = Of(b)
      BY DEF Found
    <2>5. By(status.by)' = By(u)'
      BY <2>2 DEF By
    <2>6. Calm'
      BY <2>1, <2>2, <2>4, <2>5 DEF Calm, Label
    <2>. QED
      BY <2>3, <2>6 DEF Turn, Further, Running
  <1>. QED
    BY <1>1, <1>2, <1>3

LEMMA WorkFurther ==
  ASSUME TypeInv, OrderInv, NEW u \in Updaters, NEW b \in Builds, Knows(u, b), Work(u),
         \A i \in DOMAIN backups : \E f \in Builds : backups[i].content = Of(f)
  PROVE  Further(u, b)
  <1>1. BackUp(u) => tree = Of(b)
    BY DEF Knows, BackUp, Before
  <1>2. Found(u, b)'
    BY <1>1, FoundStays DEF Knows
  <1>3. tree' \in Trees
    BY TreeTyped
  <1>. QED
    BY <1>2, <1>3, PrepareFurther, FetchFurther, MoveOutFurther, MoveInFurther,
       MoveBackFurther, SwitchFurther, EndFurther DEF Work

-----------------------------------------------------------------------------
(* Updaters one after the other.                                           *)

\* What the places before the archive is closed have in common.
LEMMA EarlyTree ==
  ASSUME NEW u \in Updaters, NEW b, Knows(u, b), Running(u), updater[u].at \in Early
  PROVE  tree = Of(b)
  BY DEF Knows, Running, Early, Before

LEMMA InitAlone == Init => AloneInv
  <1>. SUFFICES ASSUME Init PROVE AloneInv
    OBVIOUS
  <1>1. \A u \in Updaters : ~Running(u) /\ u \notin Launched
    BY DEF Init, Running, Launched, Idle
  <1>2. 1 \in Builds
    BY UpdaterAssumption DEF Builds
  <1>3. tree = Of(1) /\ dash = Label(tree) /\ status.is = "none"
    BY TreesMade DEF Init, Label, Of, NoStatus
  <1>4. Calm
    BY <1>2, <1>3 DEF Calm
  <1>5. DOMAIN backups = {}
    BY DEF Init
  <1>. QED
    BY <1>1, <1>4, <1>5 DEF AloneInv, Launched

LEMMA AloneWork ==
  ASSUME TypeInv, OrderInv, AloneInv, NEW u \in Updaters, Work(u)
  PROVE  AloneInv'
  <1>1. disturbed' = disturbed /\ strayed' = strayed
    BY DEF Work, UnchangedOutside, BackUp, CloseBackup, MoveOut, MoveIn, MoveBack, ClearTree,
       Fetch, Stage, SyncStaged, BuildAssets, SyncRepo, Complete, Stop, Start, Report
  <1>2. SUFFICES ASSUME Undisturbed PROVE AloneInv'
    BY <1>1 DEF AloneInv, Undisturbed
  <1>3. Running(u)
    BY DEF Work, Running, BackUp, CloseBackup, MoveOut, MoveIn, MoveBack, ClearTree,
       Fetch, Stage, SyncStaged, BuildAssets, SyncRepo, Complete, Stop, Start, Report
  <1>4. \A v \in Updaters \ {u} : ~Running(v)
    BY <1>2, <1>3 DEF AloneInv
  <1>5. PICK b \in Builds : Knows(u, b)
    BY <1>2, <1>3 DEF AloneInv
  <1>6. \A i \in DOMAIN backups : \E f \in Builds : backups[i].content = Of(f)
    BY <1>2 DEF AloneInv
  <1>7. Further(u, b)
    BY <1>5, <1>6, WorkFurther
  <1>8. \A v \in Updaters \ {u} : updater'[v] = updater[v]
    <2>1. CASE Stop(u)
      BY <1>4, <2>1, StopDoes
    <2>2. CASE ~Stop(u)
      <3>1. \/ updater' = updater
            \/ \E x : updater' = [updater EXCEPT ![u] = x]
        BY <2>2 DEF Work, Goes, BackUp, CloseBackup, MoveOut, MoveIn, MoveBack, ClearTree,
           Fetch, Stage, SyncStaged, BuildAssets, SyncRepo, Complete, Start, Report
      <3>. QED
        BY <3>1 DEF TypeInv
    <2>. QED
      BY <2>1, <2>2
  <1>9. \A v \in Updaters \ {u} : ~Running(v)'
    BY <1>4, <1>8 DEF Running
  <1>10. \A i \in DOMAIN backups' : \E f \in Builds : backups'[i].content = Of(f)
    <2>1. CASE BackUp(u)
      <3>1. tree = Of(b)
        BY <1>5, <2>1 DEF Knows, BackUp, Before
      <3>. QED
        BY <1>6, <2>1, <3>1, Opened DEF BackUp, Archive
    <2>2. CASE CloseBackup(u)
      BY <1>6, <2>2, Closed
    <2>3. CASE ~(BackUp(u) \/ CloseBackup(u))
      <3>1. backups' = backups
        BY <2>3 DEF Work, MoveOut, MoveIn, MoveBack, ClearTree, Fetch, Stage, SyncStaged,
           BuildAssets, SyncRepo, Complete, Stop, Start, Report
      <3>. QED
        BY <1>6, <3>1
    <2>. QED
      BY <2>1, <2>2, <2>3
  <1>11. ASSUME ~strayed, NEW v \in Launched' PROVE Safe(updater[v].current)'
    <2>1. v \in Launched /\ updater'[v].current = updater[v].current
      BY WorkLasts, LastingLaunched DEF Lasting, Launched
    <2>2. PICK c : c = updater[v].current
      OBVIOUS
    <2>3. Safe(c)
      BY <1>2, <1>11, <2>1, <2>2 DEF AloneInv
    <2>4. Untouched(c) => \A i \in By(u) : backups[i].content = Of(c)
      <3>1. ASSUME Untouched(c) PROVE tree = Of(c) /\ tree = Of(b)
        BY <1>3, <1>5, <3>1, EarlyTree DEF Untouched
      <3>. QED
        BY <1>5, <3>1 DEF Knows, Found
    <2>5. Safe(c)'
      BY <2>3, <2>4, SafeWork
    <2>. QED
      BY <2>1, <2>2, <2>5 DEF Safe, Archived, Untouched
  <1>12. Running(u)' => \A v \in Updaters : Running(v)' => v = u
    BY <1>9
  <1>. QED
    BY <1>1, <1>7, <1>9, <1>10, <1>11 DEF AloneInv, Further

LEMMA AloneFail ==
  ASSUME TypeInv, OrderInv, AloneInv, NEW u \in Updaters, Fail(u)
  PROVE  AloneInv'
  <1>1. /\ disturbed' = (disturbed \/ LeavesBehind(u)) /\ strayed' = strayed
        /\ UNCHANGED <<tree, venv, dash, backups, status>>
        /\ updater[u].at \in {"kill", "stop", "report"} => Refused(u)
    BY DEF Fail
  <1>2. SUFFICES ASSUME Undisturbed, ~LeavesBehind(u) PROVE AloneInv'
    BY <1>1 DEF AloneInv, Undisturbed
  <1>3. Running(u) /\ Holds(u) /\ Lasting /\ Turn(u, Handler(u))
    BY <1>2, FailDoes DEF LeavesBehind
  <1>4. \A v \in Updaters \ {u} : ~Running(v) /\ ~Running(v)'
    BY <1>2, <1>3 DEF AloneInv, Turn, Running
  <1>5. PICK b \in Builds : Knows(u, b)
    BY <1>2, <1>3 DEF AloneInv
  <1>6. updater[u].at \in Before \cup {"move in", "sync repo", "smoke"}
    BY <1>1, <1>2, <1>3 DEF LeavesBehind, Refused, Running, Before, TypeInv, Progress, Places
  <1>7. Knows(u, b)'
    <2>1. By(u)' = By(u) /\ Found(u, b)'
      BY <1>1, <1>5 DEF By, Found, Knows
    <2>2. CASE updater[u].at \in Before
      <3>1. updater'[u].at = "report" /\ tree = Of(b)
        BY <1>3, <1>5, <2>2 DEF Turn, Handler, Before, Knows
      <3>2. /\ status.by = u /\ status.is \notin {"failed", "completed"}
            /\ ~strayed => b = updater[u].current /\ dash = b
        BY <1>5, <2>2 DEF Knows, Before, Ending
      <3>. QED
        BY <1>1, <1>3, <2>1, <3>1, <3>2 DEF Knows, Turn, Before, Ending
    <2>3. CASE updater[u].at \in {"move in", "sync repo", "smoke"}
      <3>1. updater'[u].at = "remove" /\ updater[u].original = Of(b)
        BY <1>3, <1>5, <2>3 DEF Turn, Handler, Knows
      <3>2. /\ status.by = u /\ status.is \notin {"failed", "completed"}
            /\ ~strayed => b = updater[u].current /\ dash = b
        BY <1>5, <2>3 DEF Knows, Before, Ending
      <3>. QED
        BY <1>1, <1>3, <2>1, <3>1, <3>2 DEF Knows, Turn, Holds, Before, Ending
    <2>. QED
      BY <1>6, <2>2, <2>3
  <1>8. Running(u)'
    BY <1>3, FailPlace DEF Turn, Running
  <1>9. \A i \in DOMAIN backups' : \E f \in Builds : backups'[i].content = Of(f)
    BY <1>1, <1>2 DEF AloneInv
  <1>10. ASSUME ~strayed, NEW v \in Launched' PROVE Safe(updater[v].current)'
    <2>1. v \in Launched /\ updater'[v].current = updater[v].current
      BY <1>3, LastingLaunched DEF Lasting, Launched
    <2>2. PICK c : c = updater[v].current
      OBVIOUS
    <2>3. Safe(c)
      BY <1>2, <1>10, <2>1, <2>2 DEF AloneInv
    <2>4. Safe(c)'
      BY <2>3, FailEarly, SafeStays
    <2>. QED
      BY <2>1, <2>2, <2>4 DEF Safe, Archived, Untouched
  <1>. QED
    BY <1>1, <1>4, <1>7, <1>8, <1>9, <1>10 DEF AloneInv

LEMMA AloneCrash ==
  ASSUME TypeInv, OrderInv, AloneInv, Crash
  PROVE  AloneInv'
  <1>1. /\ dash' = Down /\ UNCHANGED <<tree, venv, backups, status, strayed>>
        /\ disturbed' = (disturbed \/ \E u \in Updaters :
             updater[u].at \in {"move out", "move in", "remove", "move back"})
    BY DEF Crash
  <1>2. SUFFICES ASSUME Undisturbed,
                        \A u \in Updaters :
                          updater[u].at \notin {"move out", "move in", "remove", "move back"}
                 PROVE  AloneInv'
    BY <1>1 DEF AloneInv, Undisturbed
  <1>3. \A u \in Updaters : ~Running(u)' /\ updater'[u].target = updater[u].target
    BY CrashDoes DEF Running
  <1>4. Calm'
    <2>1. CASE \A u \in Updaters : ~Running(u)
      <3>1. Calm
        BY <1>2, <2>1 DEF AloneInv
      <3>2. By(status.by)' = By(status.by)
        BY <1>1 DEF By
      <3>. QED
        BY <1>1, <1>3, <3>1, <3>2 DEF Calm
    <2>2. ASSUME NEW u \in Updaters, Running(u) PROVE Calm'
      <3>1. PICK b \in Builds : Knows(u, b)
        BY <1>2, <2>2 DEF AloneInv
      <3>2. updater[u].at \in Before \cup {"report", "sync repo", "smoke"} \cup Ending
        BY <1>2, <2>2 DEF Running, Before, Ending, TypeInv, Progress, Places
      <3>3. \E f \in Builds : tree = Of(f)
        BY <3>1, <3>2 DEF Knows, Before, Ending
      <3>4. /\ status.by = u /\ status.is # "failed"
            /\ status.is = "completed" => tree = Of(updater[u].target) /\ venv = 0
        BY <3>1 DEF Knows
      <3>. QED
        BY <1>1, <1>3, <3>3, <3>4 DEF Calm
    <2>. QED
      BY <2>1, <2>2
  <1>5. \A i \in DOMAIN backups' : \E f \in Builds : backups'[i].content = Of(f)
    BY <1>1, <1>2 DEF AloneInv
  <1>6. ASSUME ~strayed, NEW v \in Launched' PROVE Safe(updater[v].current)'
    <2>1. v \in Launched /\ updater'[v].current = updater[v].current
      BY CrashLasts, LastingLaunched DEF Lasting, Launched
    <2>2. PICK c : c = updater[v].current
      OBVIOUS
    <2>3. Safe(c)
      BY <1>2, <1>6, <2>1, <2>2 DEF AloneInv
    <2>4. Safe(c)'
      BY <2>3, CrashEarly, SafeStays
    <2>. QED
      BY <2>1, <2>2, <2>4 DEF Safe, Archived, Untouched
  <1>. QED
    BY <1>1, <1>3, <1>4, <1>5, <1>6 DEF AloneInv

LEMMA AloneLaunch ==
  ASSUME TypeInv, OrderInv, AloneInv, NEW from \in Nat, NEW target \in Builds \cup {Gone},
         Launch(from, target), dash # Down, UNCHANGED <<tree, venv, dash, backups, strayed>>
  PROVE  AloneInv'
  <1>1. PICK u \in Updaters :
          /\ \A v \in Updaters \ {u} : updater'[v] = updater[v]
          /\ updater[u].at = "none" /\ updater'[u].at = "launched"
          /\ updater'[u].current = dash /\ updater'[u].original = Empty
          /\ status' = [by |-> u, is |-> "scheduled"]
    BY LaunchDoes
  <1>2. disturbed' = (disturbed \/ Alongside)
    BY DEF Launch
  <1>3. SUFFICES ASSUME Undisturbed, \A v \in Updaters : ~Running(v) PROVE AloneInv'
    BY <1>2 DEF AloneInv, Undisturbed, Alongside
  <1>4. Calm
    BY <1>3 DEF AloneInv
  <1>5. PICK b \in Builds : tree = Of(b)
    BY <1>4 DEF Calm
  <1>6. ~strayed => dash = b
    <2>1. Label(tree) = b
      BY <1>5, TreesMade, WholeTree
    <2>. QED
      BY <1>4, <2>1 DEF Calm
  <1>7. By(u) = {} /\ By(u)' = By(u)
    BY <1>1 DEF OrderInv, By
  <1>8. Knows(u, b)'
    BY <1>1, <1>5, <1>6, <1>7 DEF Knows, Found, Before, Ending
  <1>9. \A v \in Updaters \ {u} : ~Running(v)'
    BY <1>1, <1>3 DEF Running
  <1>10. \A v \in Updaters : updater[v].at \in Early => updater'[v].at \in Early
    BY <1>1 DEF Early
  <1>11. ASSUME ~strayed, NEW v \in Launched' PROVE Safe(updater[v].current)'
    <2>1. CASE v = u
      <3>1. \A w \in Updaters : updater'[w].at \in Early
        BY <1>1, <1>3, <1>10 DEF Running, Early
      <3>2. Safe(b)'
        BY <1>5, <3>1 DEF Safe, Untouched
      <3>3. updater'[v].current = b
        BY <1>1, <1>6, <1>11, <2>1
      <3>. QED
        BY <3>2, <3>3 DEF Safe, Archived, Untouched
    <2>2. CASE v # u
      <3>1. v \in Launched /\ updater'[v] = updater[v]
        BY <1>1, <2>2 DEF Launched
      <3>2. PICK c : c = updater[v].current
        OBVIOUS
      <3>3. Safe(c)
        BY <1>3, <1>11, <3>1, <3>2 DEF AloneInv
      <3>4. Safe(c)'
        BY <1>10, <3>3, SafeStays
      <3>. QED
        BY <3>1, <3>2, <3>4 DEF Safe, Archived, Untouched
    <2>. QED
      BY <2>1, <2>2
  <1>12. Running(u)'
    BY <1>1 DEF Running
  <1>13. \A i \in DOMAIN backups' : \E f \in Builds : backups'[i].content = Of(f)
    BY <1>3 DEF AloneInv
  <1>. QED
    BY <1>8, <1>9, <1>11, <1>12, <1>13 DEF AloneInv

LEMMA AloneStart ==
  ASSUME TypeInv, OrderInv, AloneInv, StartDashboard
  PROVE  AloneInv'
  <1>1. /\ dash = Down /\ dash' = Label(Importable) /\ strayed' = (strayed \/ venv # 0)
        /\ UNCHANGED <<tree, venv, updater, backups, status, disturbed>>
    BY DEF StartDashboard, Startable
  <1>2. SUFFICES ASSUME Undisturbed PROVE AloneInv'
    BY <1>1 DEF AloneInv, Undisturbed
  <1>3. ~strayed' => ~strayed /\ dash' = Label(tree)
    BY <1>1 DEF Importable
  <1>4. ASSUME NEW u \in Updaters, NEW b \in Builds, Running(u), Knows(u, b) PROVE Knows(u, b)'
    <2>1. By(u)' = By(u) /\ Found(u, b)'
      BY <1>1, <1>4 DEF By, Found, Knows
    <2>2. ~strayed' => updater[u].at = "start" /\ dash' = updater[u].target
      <3>1. ~strayed' => updater[u].at = "start"
        <4>1. b # Down
          BY Bounds DEF Builds, Down
        <4>2. ~strayed => updater[u].at = "start" \/ dash = b
          BY <1>4 DEF Knows
        <4>. QED
          BY <1>1, <1>3, <4>1, <4>2
      <3>2. updater[u].at = "start" => tree = Of(updater[u].target)
        BY <1>4 DEF Knows, Ending
      <3>3. tree = Of(updater[u].target) => Label(tree) = updater[u].target
        BY TreesMade DEF Label, Of
      <3>. QED
        BY <1>3, <3>1, <3>2, <3>3
    <2>3. ~strayed' => b = updater[u].current
      BY <1>3, <1>4 DEF Knows
    <2>. QED
      BY <1>1, <1>4, <2>1, <2>2, <2>3 DEF Knows, Before, Ending, Halves
  <1>5. Calm => Calm'
    <2>1. By(status.by)' = By(status.by)
      BY <1>1 DEF By
    <2>. QED
      BY <1>1, <1>3, <2>1 DEF Calm, Label
  <1>6. \A v \in Updaters : Running(v)' <=> Running(v)
    BY <1>1 DEF Running
  <1>7. ASSUME ~strayed', NEW v \in Launched' PROVE Safe(updater[v].current)'
    <2>1. v \in Launched /\ Safe(updater[v].current)
      BY <1>1, <1>2, <1>3, <1>7 DEF AloneInv, Launched
    <2>. QED
      BY <1>1, <2>1 DEF Safe, Archived, Untouched
  <1>. QED
    BY <1>1, <1>2, <1>4, <1>5, <1>6, <1>7 DEF AloneInv

LEMMA AloneStep ==
  ASSUME TypeInv, OrderInv, AloneInv, [Next]_vars
  PROVE  AloneInv'
  <1>1. CASE ScheduleUpdate
    <2>1. 0 \in Nat /\ remote \in Builds \cup {Gone}
      BY DEF TypeInv
    <2>. QED
      BY <1>1, <2>1, AloneLaunch DEF ScheduleUpdate
  <1>2. CASE ScheduleRollback
    BY <1>2, LastArchive, AloneLaunch DEF ScheduleRollback
  <1>3. CASE Publish \/ UNCHANGED vars
    <2>1. UNCHANGED <<tree, venv, dash, updater, backups, status, disturbed, strayed>>
      BY <1>3 DEF Publish, vars
    <2>6. ASSUME NEW u \in Updaters, NEW b \in Builds, Knows(u, b) PROVE Knows(u, b)'
      <3>1. Found(u, b)'
        BY <2>1, <2>6 DEF Knows, Found, By
      <3>2. /\ tree' = tree /\ venv' = venv /\ dash' = dash /\ updater' = updater
            /\ status' = status /\ strayed' = strayed
        BY <2>1
      <3>3. CASE updater[u].at = "start"
        BY <2>6, <3>1, <3>2, <3>3 DEF Knows, Before, Ending
      <3>4. CASE updater[u].at \in {"move out", "move in", "move back"}
        BY <2>6, <3>1, <3>2, <3>4 DEF Knows, Halves, Before, Ending
      <3>5. CASE updater[u].at \notin {"move out", "move in", "move back", "start"}
        BY <2>6, <3>1, <3>2, <3>5 DEF Knows, Before, Ending
      <3>. QED
        BY <3>3, <3>4, <3>5
    <2>2. \A u \in Updaters : (Running(u)' <=> Running(u)) /\ \A b \in Builds : Knows(u, b) => Knows(u, b)'
      BY <2>1, <2>6 DEF Running
    <2>3. Calm => Calm'
      BY <2>1 DEF Calm, By, Label
    <2>4. Launched' = Launched /\ \A b : Safe(b) => Safe(b)'
      BY <2>1 DEF Launched, Safe, Archived, Untouched
    <2>5. \A u \in Launched : Safe(updater[u].current) => Safe(updater[u].current)'
      BY <2>1 DEF Launched, Safe, Archived, Untouched
    <2>. QED
      BY <2>1, <2>2, <2>3, <2>4, <2>5 DEF AloneInv, Undisturbed
  <1>. QED
    BY <1>1, <1>2, <1>3, AloneWork, AloneFail, AloneCrash, AloneStart DEF Next

-----------------------------------------------------------------------------
(* The properties.                                                         *)

Inv == TypeInv /\ OrderInv /\ FirstInv /\ AloneInv

LEMMA InvHolds == Spec => []Inv
  <1>1. Init => Inv
    BY InitType, InitOrder, InitFirst, InitAlone DEF Inv
  <1>2. Inv /\ [Next]_vars => Inv'
    BY TypeStep, OrderStep, FirstStep, AloneStep DEF Inv
  <1>. QED
    BY <1>1, <1>2, PTL DEF Spec

\* Every variable has its type, and no archive tells its build before it is
\* whole (update_manager.py, update_from_github.py).
THEOREM TypesHold == Spec => []TypeOK
  <1>1. Inv => TypeOK
    <2>. SUFFICES ASSUME Inv PROVE TypeOK
      OBVIOUS
    <2>1. \A u \in Updaters : /\ updater[u].at \in Places /\ updater[u].fetched \in Trees
                              /\ updater[u].staged \in Trees /\ updater[u].original \in Trees
      BY DEF Inv, TypeInv, Progress
    <2>2. \A i \in DOMAIN backups : backups[i] \in Archives
      BY DEF Inv, TypeInv
    <2>3. \A i \in DOMAIN backups : backups[i].content \in Trees
      BY <2>2 DEF Archives
    <2>4. status.by \in Updaters \cup {0}
      BY DEF Inv, TypeInv, Statuses
    <2>. QED
      BY <2>1, <2>3, <2>4 DEF Inv, TypeInv, TypeOK
  <1>. QED
    BY <1>1, InvHolds, PTL

\* An update or rollback that says it is completed has put all of its build in
\* place, and the environment imports it (main of update_from_github.py).
THEOREM CompletedMeansWhole == Spec => []CompletedIsWhole
  <1>1. Inv => CompletedIsWhole
    <2>. SUFFICES ASSUME Inv, Undisturbed, status.is = "completed"
                  PROVE  tree = Of(updater[status.by].target) /\ venv = 0
      BY DEF CompletedIsWhole
    <2>1. ASSUME NEW u \in Updaters, Running(u)
          PROVE  tree = Of(updater[status.by].target) /\ venv = 0
      BY <2>1 DEF Inv, AloneInv, Knows
    <2>2. CASE \A u \in Updaters : ~Running(u)
      BY <2>2 DEF Inv, AloneInv, Calm
    <2>. QED
      BY <2>1, <2>2
  <1>. QED
    BY <1>1, InvHolds, PTL

\* One that says it has failed has left, or put back, the whole tree it found
\* (the restoration in _switch_repo_contents and main).
THEOREM FailureDoesNoHarm == Spec => []FailedIsHarmless
  <1>1. Inv => FailedIsHarmless
    <2>. SUFFICES ASSUME Inv, Undisturbed, status.is = "failed"
                  PROVE  /\ Whole(tree)
                         /\ \A i \in DOMAIN backups :
                              backups[i].by = status.by => tree = backups[i].content
      BY DEF FailedIsHarmless
    <2>1. \A u \in Updaters : ~Running(u)
      BY DEF Inv, AloneInv, Knows
    <2>2. Calm
      BY <2>1 DEF Inv, AloneInv
    <2>3. Whole(tree)
      BY <2>2 DEF Calm, Whole, Of, Builds, Gone
    <2>. QED
      BY <2>2, <2>3 DEF Calm, By
  <1>. QED
    BY <1>1, InvHolds, PTL

\* The build that the first updater found, and undisturbed the build that any of
\* them found, is on the disk, whatever is going on (create_backup_archive comes
\* before anything is moved).
THEOREM NoBuildIsLost == Spec => []BuildsAreKept
  <1>1. ASSUME NEW b, Safe(b), NEW c \in Children PROVE Kept(b, c)
    BY <1>1 DEF Safe, Archived, Untouched, Kept, Of
  <1>2. Inv => BuildsAreKept
    <2>. SUFFICES ASSUME Inv, NEW u \in Launched, u = 1 \/ (Undisturbed /\ ~strayed)
                  PROVE  Safe(updater[u].current)
      BY <1>1 DEF BuildsAreKept
    <2>. QED
      BY DEF Inv, FirstInv, First, AloneInv
  <1>. QED
    BY <1>2, InvHolds, PTL

=============================================================================
