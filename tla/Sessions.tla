------------------------------- MODULE Sessions -------------------------------
(***************************************************************************)
(* The dashboard's sessions, its password and the policy both are judged   *)
(* by. Requests run in the threads of the API's pool. The service that     *)
(* authenticates is immutable: a new password or a new policy makes a new  *)
(* one out of the one that was read, and puts it in its place. The         *)
(* password is also written to the operator-state file, which other        *)
(* threads load and save as a whole. Nothing is locked.                    *)
(***************************************************************************)
EXTENDS Naturals, FiniteSets

CONSTANTS
    Threads,        \* the threads of the API's pool
    Passwords,      \* the passwords that are tried and chosen
    Default,        \* OMNIBOT_ADMIN_PASSWORD
    Agents,         \* user agents
    Policies,       \* records [idle, absolute]
    FirstPolicy,    \* the one of the configuration
    Ids,            \* session ids, in the order they are drawn
    MaxTime, MaxRequests, MaxCrashes    \* bounds

Policy == [idle : Nat \ {0}, absolute : Nat \ {0}]

ASSUME SessionsAssumption ==
    /\ Default \in Passwords
    /\ Policies \subseteq Policy
    /\ FirstPolicy \in Policies
    /\ Ids \subseteq Nat \ {0}
    /\ "none" \notin Agents
    /\ Passwords \cap {"unset", "torn"} = {}
    /\ {MaxTime, MaxRequests, MaxCrashes} \subseteq Nat

VARIABLES
    now,
    up,         \* the process runs
    sessions,   \* the session store
    service,    \* dependencies.auth_service: its password and policy
    settings,   \* the policy in the settings store
    file,       \* the password in the operator-state file, or Unset, or Torn
    thread,     \* the requests under way, see Resting
    drawn,      \* the sessions logged in so far
    requests, crashes,
    uses,       \* history: when each session was opened and last used
    ended,      \* history, see EndedStaysEnded
    raced       \* history, see PasswordIsKept

vars == <<now, up, sessions, service, settings, file, thread, drawn, requests, crashes,
          uses, ended, raced>>

None == [created |-> 0, seen |-> 0, agent |-> "none"]
Unset == "unset"
Torn == "torn"

Session == [created : Nat, seen : Nat, agent : Agents]

Live == {i \in Ids : sessions[i] # None}

\* at: the place in the code. want: the request. sid, agent: of its cookie and
\* header. copy: the session it has read. mine: the service it has read. time:
\* the timestamp it has taken. new: the password it is to set or to write. A
\* field that is not needed any more is reset.
Resting == [at |-> "rest", want |-> "none", sid |-> 0, agent |-> "none", copy |-> None,
            mine |-> [password |-> Default, policy |-> FirstPolicy], time |-> 0,
            new |-> Unset]

At(t, place) == up /\ thread[t].at = place

Moves(t, changes) == thread' = [thread EXCEPT ![t] = changes]
Ends(t) == Moves(t, Resting)

UnchangedAround == UNCHANGED <<now, up, requests, crashes>>

\* The request reads the service it calls and the time.
Receive(t, request) ==
    /\ At(t, "rest")
    /\ requests < MaxRequests
    /\ requests' = requests + 1
    /\ Moves(t, request)
    /\ UNCHANGED <<now, up, sessions, service, settings, file, drawn, crashes,
                  uses, ended, raced>>

-----------------------------------------------------------------------------
(* Login.                                                                  *)

\* The timestamp is taken before the password is hashed and compared.
Login(t) ==
    \E password \in Passwords, agent \in Agents :
        Receive(t, IF password = service.password
                   THEN [Resting EXCEPT !.at = "drop others", !.want = "login",
                                        !.agent = agent, !.time = now]
                   ELSE Resting)

Holds(t, id) == thread[t].sid = id /\ thread[t].copy # None

\* The sessions that t ends here and that no other request under way can save
\* again.
EndedBy(t, gone) == {i \in gone : ~\E u \in Threads \ {t} : Holds(u, i)}

DropOthers(t) ==
    /\ At(t, "drop others")
    /\ sessions' = [i \in Ids |-> None]
    /\ ended' = ended \cup EndedBy(t, Live)
    /\ Moves(t, [thread[t] EXCEPT !.at = "open"])
    /\ UNCHANGED <<service, settings, file, drawn, uses, raced>> /\ UnchangedAround

Open(t) ==
    /\ At(t, "open")
    /\ drawn + 1 \in Ids
    /\ drawn' = drawn + 1
    /\ sessions' = [sessions EXCEPT ![drawn + 1] =
           [created |-> thread[t].time, seen |-> thread[t].time, agent |-> thread[t].agent]]
    /\ uses' = [uses EXCEPT ![drawn + 1] = [first |-> thread[t].time, last |-> thread[t].time]]
    /\ Ends(t)
    /\ UNCHANGED <<service, settings, file, ended, raced>> /\ UnchangedAround

-----------------------------------------------------------------------------
(* require_session.                                                        *)

\* A request that only reads ends where one without the token ends.
Wants == {"logout", "update", "password", "settings"}

Request(t) ==
    \E want \in Wants, id \in 1..drawn, agent \in Agents :
        Receive(t, [Resting EXCEPT !.at = "get", !.want = want, !.sid = id, !.agent = agent,
                                   !.mine = service])

Get(t) ==
    /\ At(t, "get")
    /\ IF sessions[thread[t].sid] = None THEN Ends(t)
       ELSE Moves(t, [thread[t] EXCEPT !.at = "check", !.copy = sessions[thread[t].sid]])
    /\ UNCHANGED <<sessions, service, settings, file, drawn, uses, ended, raced>>
    /\ UnchangedAround

\* Broken variant: each use starts the session anew.
ExpiredByUse(session, policy) == now - session.seen > policy.idle

Expired(session, policy) ==
    \/ now - session.seen > policy.idle
    \/ now - session.created > policy.absolute

\* Expired, or used by another browser: the session is deleted.
Refuse(t) ==
    LET me == thread[t]
    IN  /\ At(t, "check")
        /\ Expired(me.copy, me.mine.policy) \/ me.copy.agent # me.agent
        /\ sessions' = [sessions EXCEPT ![me.sid] = None]
        /\ ended' = ended \cup EndedBy(t, {me.sid})
        /\ Ends(t)
        /\ UNCHANGED <<service, settings, file, drawn, uses, raced>> /\ UnchangedAround

\* The timestamp of the use; the session that was read is saved again.
Pass(t) ==
    LET me == thread[t]
    IN  /\ At(t, "check")
        /\ ~Expired(me.copy, me.mine.policy)
        /\ me.copy.agent = me.agent
        /\ Moves(t, [Resting EXCEPT !.at = "save", !.want = me.want, !.sid = me.sid,
                                    !.copy = me.copy, !.time = now])
        /\ uses' = [uses EXCEPT ![me.sid].last = now]
        /\ UNCHANGED <<sessions, service, settings, file, drawn, ended, raced>>
        /\ UnchangedAround

\* Without the token of the session it goes no further.
SaveSession(t) ==
    LET me == thread[t]
    IN  /\ At(t, "save")
        /\ sessions' = [sessions EXCEPT ![me.sid] = [me.copy EXCEPT !.seen = me.time]]
        /\ \/ Ends(t)
           \/ Moves(t, [Resting EXCEPT !.at = me.want, !.want = me.want, !.sid = me.sid])
        /\ UNCHANGED <<service, settings, file, drawn, uses, ended, raced>>
        /\ UnchangedAround

-----------------------------------------------------------------------------
(* The requests behind it.                                                 *)

\* Broken variant: the cookie is deleted in the browser only.
LogoutCookieOnly(t) ==
    /\ At(t, "logout")
    /\ ended' = ended \cup EndedBy(t, {thread[t].sid})
    /\ Ends(t)
    /\ UNCHANGED <<sessions, service, settings, file, drawn, uses, raced>>
    /\ UnchangedAround

Logout(t) ==
    /\ At(t, "logout")
    /\ sessions' = [sessions EXCEPT ![thread[t].sid] = None]
    /\ ended' = ended \cup EndedBy(t, {thread[t].sid})
    /\ Ends(t)
    /\ UNCHANGED <<service, settings, file, drawn, uses, raced>> /\ UnchangedAround

\* An update or a rollback has been scheduled: everyone is logged out.
Update(t) ==
    /\ At(t, "update")
    /\ sessions' = [i \in Ids |-> None]
    /\ ended' = ended \cup EndedBy(t, Live)
    /\ Ends(t)
    /\ UNCHANGED <<service, settings, file, drawn, uses, raced>> /\ UnchangedAround

\* Another request that makes a new service or writes the password.
Renewing(t) == thread[t].at \in {"assign", "persist", "save file"}

Alongside(t) == \E u \in Threads \ {t} : Renewing(u)

\* The current password was given right, the new one is another.
ChangePassword(t) ==
    /\ At(t, "password")
    /\ \/ Ends(t) /\ UNCHANGED raced
       \/ \E password \in Passwords \ {service.password} :
          /\ Moves(t, [Resting EXCEPT !.at = "assign", !.want = "password", !.mine = service,
                                   !.new = password])
          /\ raced' = (raced \/ Alongside(t))
    /\ UNCHANGED <<sessions, service, settings, file, drawn, uses, ended>>
    /\ UnchangedAround

\* The settings are checked and stored, then the service is read.
PutSettings(t) ==
    /\ At(t, "settings")
    /\ \E policy \in Policies :
        /\ policy.absolute >= policy.idle
        /\ settings' = policy
        /\ Moves(t, [Resting EXCEPT !.at = "assign", !.want = "settings", !.mine = service])
    /\ raced' = (raced \/ Alongside(t))
    /\ UNCHANGED <<sessions, service, file, drawn, uses, ended>> /\ UnchangedAround

\* Broken variant: one renewal for both, with whatever the request has set.
AssignWhole(t) ==
    LET me == thread[t]
    IN  /\ At(t, "assign")
        /\ service' = [password |-> me.new, policy |-> settings]
        /\ IF me.want = "password"
           THEN Moves(t, [Resting EXCEPT !.at = "persist", !.want = "password"])
           ELSE Ends(t)
        /\ UNCHANGED <<sessions, settings, file, drawn, uses, ended, raced>>
        /\ UnchangedAround

\* A service with the new password, or the policy of the settings, replaces the
\* one that is there.
Assign(t) ==
    LET me == thread[t]
    IN  /\ At(t, "assign")
        /\ IF me.want = "password"
           THEN /\ service' = [me.mine EXCEPT !.password = me.new]
                /\ Moves(t, [Resting EXCEPT !.at = "persist", !.want = "password"])
           ELSE /\ service' = [me.mine EXCEPT !.policy = settings]
                /\ Ends(t)
        /\ UNCHANGED <<sessions, settings, file, drawn, uses, ended, raced>>
        /\ UnchangedAround

\* The password of the service that is there by now is to be written into the
\* file as loaded.
LoadFile(t) ==
    /\ At(t, "persist")
    /\ IF file = Torn THEN Ends(t)
       ELSE Moves(t, [thread[t] EXCEPT !.at = "save file", !.new = service.password])
    /\ UNCHANGED <<sessions, service, settings, file, drawn, uses, ended, raced>>
    /\ UnchangedAround

SaveFile(t) ==
    /\ At(t, "save file")
    /\ file' = thread[t].new
    /\ Ends(t)
    /\ UNCHANGED <<sessions, service, settings, drawn, uses, ended, raced>>
    /\ UnchangedAround

\* A thread saves a thesis or a selection, in the copy of the file it loads:
\* what is written to the password in between is undone.
SaveThesis(t) ==
    /\ At(t, "rest")
    /\ requests < MaxRequests
    /\ requests' = requests + 1
    /\ file # Torn
    /\ Moves(t, [Resting EXCEPT !.at = "save file", !.want = "thesis", !.new = file])
    /\ raced' = (raced \/ Alongside(t))
    /\ UNCHANGED <<now, up, sessions, service, settings, file, drawn, crashes, uses, ended>>

-----------------------------------------------------------------------------
(* Time, crash and restart.                                                *)

Tick ==
    /\ now < MaxTime
    /\ now' = now + 1
    /\ UNCHANGED <<up, sessions, service, settings, file, thread, drawn, requests, crashes,
                  uses, ended, raced>>

\* The process ends. A file that was being written is left half a document.
Crash ==
    /\ up
    /\ crashes < MaxCrashes
    /\ crashes' = crashes + 1
    /\ up' = FALSE
    /\ thread' = [t \in Threads |-> Resting]
    /\ sessions' = [i \in Ids |-> None]
    /\ ended' = ended \cup Live
    /\ \/ UNCHANGED file
       \/ (\E t \in Threads : thread[t].at = "save file") /\ file' = Torn
    /\ raced' = (raced \/ \E t \in Threads : Renewing(t))
    /\ UNCHANGED <<now, service, settings, drawn, requests, uses>>

\* Broken variant: the password is that of the environment.
RestartByDefault ==
    /\ ~up
    /\ file # Torn
    /\ up' = TRUE
    /\ service' = [password |-> Default, policy |-> FirstPolicy]
    /\ settings' = FirstPolicy
    /\ UNCHANGED <<now, sessions, file, thread, drawn, requests, crashes,
                  uses, ended, raced>>

\* The settings start anew, the password is read from the file; half a document
\* cannot be read.
Restart ==
    /\ ~up
    /\ file # Torn
    /\ up' = TRUE
    /\ service' = [password |-> IF file = Unset THEN Default ELSE file, policy |-> FirstPolicy]
    /\ settings' = FirstPolicy
    /\ UNCHANGED <<now, sessions, file, thread, drawn, requests, crashes,
                  uses, ended, raced>>

-----------------------------------------------------------------------------

Init ==
    /\ now = 0
    /\ up = TRUE
    /\ sessions = [i \in Ids |-> None]
    /\ service = [password |-> Default, policy |-> FirstPolicy]
    /\ settings = FirstPolicy
    /\ file = Unset
    /\ thread = [t \in Threads |-> Resting]
    /\ drawn = 0
    /\ requests = 0
    /\ crashes = 0
    /\ uses = [i \in Ids |-> [first |-> 0, last |-> 0]]
    /\ ended = {}
    /\ raced = FALSE

Step(t) ==
    \/ DropOthers(t) \/ Open(t)
    \/ Get(t) \/ Refuse(t) \/ Pass(t) \/ SaveSession(t)
    \/ Logout(t) \/ Update(t)
    \/ ChangePassword(t) \/ PutSettings(t) \/ Assign(t) \/ LoadFile(t) \/ SaveFile(t)

Next ==
    \/ \E t \in Threads : Login(t) \/ Request(t) \/ SaveThesis(t) \/ Step(t)
    \/ Tick \/ Crash \/ Restart

Spec == Init /\ [][Next]_vars

-----------------------------------------------------------------------------
(* Properties.                                                             *)

Places == {"rest", "drop others", "open", "get", "check", "save", "assign",
           "persist", "save file"} \cup Wants

\* The type of every variable.
TypeOK ==
    /\ now \in 0..MaxTime /\ up \in BOOLEAN
    /\ sessions \in [Ids -> Session \cup {None}]
    /\ service \in [password : Passwords, policy : Policies] /\ settings \in Policies
    /\ file \in Passwords \cup {Unset, Torn}
    /\ \A t \in Threads :
        /\ thread[t].at \in Places
        /\ thread[t].copy \in Session \cup {None}
        /\ thread[t].mine \in [password : Passwords, policy : Policies]
        /\ thread[t].time \in 0..now
    /\ drawn \in Nat
    /\ uses \in [Ids -> [first : 0..now, last : 0..now]]
    /\ ended \subseteq Ids /\ raced \in BOOLEAN

\* A session that has ended, by a logout, a new login, an update, its age or a
\* crash, while no other request held the copy it had read of it, never comes back
\* (store.save in authenticate puts back whatever the request has read).
EndedStaysEnded == \A i \in ended : sessions[i] = None

\* A request passes only within the absolute timeout of the login and within
\* the idle timeout of the latest use of the session by any request, although
\* slow requests save older copies of it, with older uses, and bring deleted
\* ones back (authenticate and _is_expired).
PassesInTime ==
    [][\A t \in Threads :
        thread[t].at # "save" /\ thread'[t].at = "save" =>
            LET use == uses[thread[t].sid]
                policy == thread[t].mine.policy
            IN  now - use.first <= policy.absolute /\ now - use.last <= policy.idle]_vars

\* The password that opens the dashboard is the one in the operator-state file,
\* or the one of the environment while there is none, also after settings have
\* replaced the service, theses have been saved or the process has crashed:
\* unless a request raced another that renews the service or writes the file
\* (post_dashboard_password, put_settings, create_app).
PasswordIsKept ==
    up /\ ~raced /\ (\A t \in Threads : ~(Renewing(t) /\ thread[t].want = "password")) =>
        service.password = IF file = Unset THEN Default ELSE file
=============================================================================
