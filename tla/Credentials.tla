----------------------------- MODULE Credentials -----------------------------
(***************************************************************************)
(* Broker credentials: a file for each value, a registry (one JSON file)   *)
(* that says where the value of each secret is and what is known of it,    *)
(* and the workers, which are built anew from both after each change.      *)
(* Requests run in the threads of the API's pool; nothing is locked. The   *)
(* secrets are those of the brokers' scope, which are kept in files.       *)
(***************************************************************************)
EXTENDS Naturals, FiniteSets

CONSTANTS
    Threads,            \* the threads of the API's pool
    Secrets,            \* secret ids
    Paths,              \* the files a secret may be kept in
    Values,
    MaxRequests, MaxCrashes     \* bounds

\* Secrets share no file: their ids differ after normalisation, and so do the
\* references that are given.
ASSUME CredentialsAssumption ==
    {MaxRequests, MaxCrashes} \subseteq Nat

VARIABLES
    up,
    registry,       \* the entry of each secret: [path, state]
    values,         \* the content of each file
    workers,        \* what the workers were built from, or Cleared
    thread,         \* the requests under way, see Resting
    requests, crashes,
    promised,       \* history: what each secret may resolve to, see PromiseIsKept
    clashed,        \* history: the secrets whose requests clashed, see Clashes
    overlapped      \* history, see WorkersFollow

vars == <<up, registry, values, workers, thread, requests, crashes, promised, clashed,
          overlapped>>

Gone == "gone"
Torn == "torn"
Absent == [path |-> "none", state |-> "absent"]

States == {"pending", "active", "invalid", "revoked"}
Entry == [path : Paths, state : States]

Nothing == [s \in {} |-> Gone]
Cleared == Nothing

\* at: the place in the code. op, id, value, path, checks: the request. old: the
\* entry it has read. entry: the one it is to save. copy: the registry as it has
\* loaded it. seen: the values it has resolved for the workers. moves: see
\* Moves.
Resting == [at |-> "rest", op |-> "none", id |-> "none", value |-> Gone, path |-> "none",
            checks |-> FALSE, old |-> Absent, entry |-> Absent, copy |-> Nothing,
            seen |-> Nothing, moves |-> FALSE]

At(t, place) == up /\ thread[t].at = place

Becomes(t, request) == thread' = [thread EXCEPT ![t] = request]
Ends(t) == Becomes(t, Resting)

\* resolve_secret, as BrokerSecretResolver takes its errors.
ResolvedBy(id, entry) ==
    IF entry.state \in {"absent", "revoked"} THEN Gone ELSE values[id][entry.path]

Resolved(id) == ResolvedBy(id, registry[id])

\* What it may come to resolve to with no other change than a validation: a
\* revoked entry that has its file again, of a put that was cut short or that
\* clashed with the revocation, becomes invalid, and then resolves.
MayResolve(id) ==
    {Resolved(id)} \cup (IF registry[id] = Absent THEN {} ELSE {values[id][registry[id].path]})

\* SecretPolicyService: what becomes of an entry when its value is stored,
\* checked and deleted. An entry that is revoked does not resolve, and one that
\* does not resolve becomes invalid.
Stored(path) == [path |-> path, state |-> "pending"]
Validated(entry) == IF entry.state = "revoked" THEN entry ELSE [entry EXCEPT !.state = "active"]
Failed(entry) == [entry EXCEPT !.state = "invalid"]
Revoked(entry) == [entry EXCEPT !.state = "revoked"]

Checked(id, entry) == IF ResolvedBy(id, entry) = Gone THEN Failed(entry) ELSE Validated(entry)

History == <<promised, clashed, overlapped>>

-----------------------------------------------------------------------------
(* A request arrives.                                                      *)

\* The threads whose request may still write the registry or a value.
Places == {"get", "store", "delete old", "check", "delete", "load", "save"}
Writing(u) == thread[u].at \in Places

\* The entries that the registry has of a secret, or gets when another request
\* saves the copy it has loaded.
Views(id) ==
    {registry[id]} \cup {thread[u].copy[id] : u \in {u \in Threads : thread[u].at = "save"
                                                                /\ thread[u].id # id}}

\* A save that is undone by that of another request changes what the secret
\* resolves to.
Moves(op, id, path) ==
    /\ op \in {"put", "rotate"}
    /\ \E entry \in Views(id) : \/ entry = Absent
                               \/ entry.state = "revoked"
                               \/ entry.path # path

\* Two requests for the same secret clash, and so does one whose save matters
\* with any other. A put that has no company starts afresh, from what there is.
Clashes(t, op, id, path) ==
    LET others == {u \in Threads \ {t} : Writing(u)}
    IN  IF others = {} THEN IF op = "put" THEN clashed \ {id} ELSE clashed
        ELSE clashed \cup {thread[u].id : u \in {u \in others : thread[u].moves}}
                     \cup (IF Moves(op, id, path) \/ \E u \in others : thread[u].id = id
                           THEN {id} ELSE {})

Busy(u) == thread[u].at # "rest"

Receive(t) ==
    /\ At(t, "rest")
    /\ requests < MaxRequests
    /\ requests' = requests + 1
    /\ UNCHANGED <<up, registry, values, workers, crashes>>

\* put_secret, post_rotate_secret: a reference may be given, and the value need
\* not be read back.
Write(t) ==
    /\ Receive(t)
    /\ \E op \in {"put", "rotate"}, id \in Secrets, value \in Values, path \in Paths,
          checks \in BOOLEAN :
        /\ Becomes(t, [Resting EXCEPT !.at = "get", !.op = op, !.id = id, !.value = value,
                           !.path = path, !.checks = checks, !.moves = Moves(op, id, path)])
        /\ clashed' = Clashes(t, op, id, path)
        /\ promised' = IF id \in clashed \ clashed'
                       THEN [promised EXCEPT ![id] = MayResolve(id)] ELSE promised
        /\ overlapped' = \/ op # "put" /\ overlapped
                         \/ \E u \in Threads \ {t} : Busy(u)

\* post_validate_secret, delete_secret.
Visit(t) ==
    /\ Receive(t)
    /\ \E op \in {"validate", "revoke"}, id \in Secrets :
        /\ Becomes(t, [Resting EXCEPT !.at = "get", !.op = op, !.id = id,
                                      !.checks = (op = "validate")])
        /\ clashed' = Clashes(t, op, id, "none")
        /\ overlapped' = \/ overlapped
                         \/ \E u \in Threads \ {t} : Busy(u)
                         \/ op = "validate" /\ MayResolve(id) # {Resolved(id)}
    /\ UNCHANGED promised

\* put_settings ends with new workers too.
PutSettings(t) ==
    /\ Receive(t)
    /\ Becomes(t, [Resting EXCEPT !.at = "resolve", !.op = "settings"])
    /\ overlapped' = \E u \in Threads \ {t} : Busy(u)
    /\ UNCHANGED <<promised, clashed>>

-----------------------------------------------------------------------------
(* SecretApiService.                                                       *)

\* Broken variant: no secret is missing.
GetAny(t) ==
    LET me == thread[t]
        entry == registry[me.id]
    IN  /\ At(t, "get")
        /\ Becomes(t, [me EXCEPT !.old = entry, !.entry = entry,
               !.at = CASE me.op = "validate" -> "check"
                        [] me.op = "revoke" -> "delete"
                        [] OTHER -> "store"])
        /\ UNCHANGED <<up, registry, values, workers, requests, crashes>>
        /\ UNCHANGED History

\* Only a put may be the first that is heard of a secret.
Get(t) ==
    LET me == thread[t]
        entry == registry[me.id]
    IN  /\ At(t, "get")
        /\ IF entry = Absent /\ me.op # "put" THEN Ends(t)
           ELSE Becomes(t, [me EXCEPT !.old = entry, !.entry = entry,
                    !.at = CASE me.op = "validate" -> "check"
                             [] me.op = "revoke" -> "delete"
                             [] OTHER -> "store"])
        /\ UNCHANGED <<up, registry, values, workers, requests, crashes>>
        /\ UNCHANGED History

AfterStore(me) == IF me.checks THEN "check" ELSE "load"

Rewrite(id, path, value) == values' = [values EXCEPT ![id][path] = value]

\* A rotation to another file deletes the old one, a put leaves it where it is.
Store(t) ==
    LET me == thread[t]
    IN  /\ At(t, "store")
        /\ Rewrite(me.id, me.path, me.value)
        /\ Becomes(t, [me EXCEPT !.entry = Stored(me.path),
               !.at = IF me.op = "rotate" /\ me.old.path # me.path THEN "delete old"
                      ELSE AfterStore(me)])
        /\ UNCHANGED <<up, registry, workers, requests, crashes>>
        /\ UNCHANGED History

DeleteOld(t) ==
    LET me == thread[t]
    IN  /\ At(t, "delete old")
        /\ Rewrite(me.id, me.old.path, Gone)
        /\ Becomes(t, [me EXCEPT !.at = AfterStore(me)])
        /\ UNCHANGED <<up, registry, workers, requests, crashes>>
        /\ UNCHANGED History

Check(t) ==
    /\ At(t, "check")
    /\ Becomes(t, [thread[t] EXCEPT !.at = "load", !.entry = Checked(thread[t].id, @)])
    /\ UNCHANGED <<up, registry, values, workers, requests, crashes>>
    /\ UNCHANGED History

\* Broken variant: the entry is marked, the file is left.
DeleteMarkOnly(t) ==
    /\ At(t, "delete")
    /\ Becomes(t, [thread[t] EXCEPT !.at = "load", !.entry = Revoked(@)])
    /\ UNCHANGED <<up, registry, values, workers, requests, crashes>>
    /\ UNCHANGED History

Delete(t) ==
    LET me == thread[t]
    IN  /\ At(t, "delete")
        /\ Rewrite(me.id, me.entry.path, Gone)
        /\ Becomes(t, [me EXCEPT !.at = "load", !.entry = Revoked(@)])
        /\ UNCHANGED <<up, registry, workers, requests, crashes>>
        /\ UNCHANGED History

\* JsonFileSecretRegistry.save loads all entries and writes all of them into a
\* file that replaces the old one.
Load(t) ==
    /\ At(t, "load")
    /\ Becomes(t, [thread[t] EXCEPT !.at = "save", !.copy = registry])
    /\ UNCHANGED <<up, registry, values, workers, requests, crashes>>
    /\ UNCHANGED History

Kept(me) ==
    promised' = [promised EXCEPT ![me.id] = IF me.op = "revoke" THEN {Gone} ELSE {me.value}]

\* Broken variant: a revocation leaves the workers as they are.
SaveRevoked(t) ==
    LET me == thread[t]
    IN  /\ At(t, "save")
        /\ registry' = [me.copy EXCEPT ![me.id] = me.entry]
        /\ IF me.op = "validate" THEN UNCHANGED promised ELSE Kept(me)
        /\ IF me.op \in {"validate", "revoke"} THEN Ends(t)
           ELSE Becomes(t, [Resting EXCEPT !.at = "resolve", !.op = me.op])
        /\ UNCHANGED <<up, values, workers, requests, crashes, clashed, overlapped>>

Save(t) ==
    LET me == thread[t]
    IN  /\ At(t, "save")
        /\ registry' = [me.copy EXCEPT ![me.id] = me.entry]
        /\ IF me.op = "validate" THEN Ends(t) /\ UNCHANGED promised
           ELSE Becomes(t, [Resting EXCEPT !.at = "resolve", !.op = me.op]) /\ Kept(me)
        /\ UNCHANGED <<up, values, workers, requests, crashes, clashed, overlapped>>

-----------------------------------------------------------------------------
(* refresh_configured_workers.                                             *)

\* Each secret is resolved in its turn: its entry, then its value.
Resolve(t) ==
    LET me == thread[t]
    IN  /\ At(t, "resolve")
        /\ \E id \in Secrets \ DOMAIN me.seen :
            LET seen == [i \in DOMAIN me.seen \cup {id} |->
                             IF i = id THEN Resolved(id) ELSE me.seen[i]]
            IN  Becomes(t, [me EXCEPT !.seen = seen,
                               !.at = IF DOMAIN seen = Secrets THEN "clear" ELSE "resolve"])
        /\ UNCHANGED <<up, registry, values, workers, requests, crashes>>
        /\ UNCHANGED History

\* The dict that everyone shares is emptied, then filled. The code does it three
\* times, as three objects hold it.
Clear(t) ==
    /\ At(t, "clear")
    /\ workers' = Cleared
    /\ Becomes(t, [thread[t] EXCEPT !.at = "fill"])
    /\ UNCHANGED <<up, registry, values, requests, crashes>>
    /\ UNCHANGED History

Fill(t) ==
    /\ At(t, "fill")
    /\ workers' = thread[t].seen
    /\ Ends(t)
    /\ UNCHANGED <<up, registry, values, requests, crashes>>
    /\ UNCHANGED History

-----------------------------------------------------------------------------
(* Crash and restart.                                                      *)

\* What a request that is cut short may leave its secret to resolve to, besides
\* what it resolved to before.
Cut(t) ==
    LET me == thread[t]
    IN  CASE me.at = "store" -> {Torn}
          [] me.at = "delete old" -> {me.value}
          [] me.at \in {"check", "load", "save"} /\ me.op \in {"put", "rotate"} ->
                {me.value} \cup (IF me.op = "rotate" /\ me.old.path # me.path
                                 THEN {Gone} ELSE {})
          [] me.at \in {"load", "save"} /\ me.op = "revoke" -> {Gone}
          [] OTHER -> {}

\* A value that was being written may be left cut off.
Crash ==
    /\ up
    /\ crashes < MaxCrashes
    /\ crashes' = crashes + 1
    /\ up' = FALSE
    /\ thread' = [t \in Threads |-> Resting]
    /\ workers' = Cleared
    /\ \E torn \in SUBSET {t \in Threads : thread[t].at = "store"} :
        values' = [id \in Secrets |-> [path \in Paths |->
            IF \E t \in torn : thread[t].id = id /\ thread[t].path = path
            THEN Torn ELSE values[id][path]]]
    /\ promised' = [id \in Secrets |->
           promised[id] \cup UNION {Cut(t) : t \in {t \in Threads : thread[t].id = id}}]
    /\ UNCHANGED <<registry, requests, clashed, overlapped>>

\* create_app builds the workers before it serves.
Restart ==
    /\ ~up
    /\ up' = TRUE
    /\ workers' = [id \in Secrets |-> Resolved(id)]
    /\ overlapped' = FALSE
    /\ UNCHANGED <<registry, values, thread, requests, crashes, promised, clashed>>

-----------------------------------------------------------------------------

Init ==
    /\ up = TRUE
    /\ registry = [id \in Secrets |-> Absent]
    /\ values = [id \in Secrets |-> [path \in Paths |-> Gone]]
    /\ workers = [id \in Secrets |-> Gone]
    /\ thread = [t \in Threads |-> Resting]
    /\ requests = 0
    /\ crashes = 0
    /\ promised = [id \in Secrets |-> {Gone}]
    /\ clashed = {}
    /\ overlapped = FALSE

Step(t) ==
    \/ Get(t) \/ Store(t) \/ DeleteOld(t) \/ Check(t) \/ Delete(t) \/ Load(t) \/ Save(t)
    \/ Resolve(t) \/ Clear(t) \/ Fill(t)

Next ==
    \/ \E t \in Threads : Write(t) \/ Visit(t) \/ PutSettings(t) \/ Step(t)
    \/ Crash \/ Restart

Spec == Init /\ [][Next]_vars

-----------------------------------------------------------------------------
(* Properties.                                                             *)

Content == Values \cup {Gone, Torn}

\* The type of every variable.
TypeOK ==
    /\ up \in BOOLEAN
    /\ registry \in [Secrets -> Entry \cup {Absent}]
    /\ values \in [Secrets -> [Paths -> Content]]
    /\ workers \in [Secrets -> Content] \cup {Cleared}
    /\ \A t \in Threads :
        /\ thread[t].at \in Places \cup {"rest", "resolve", "clear", "fill"}
        /\ thread[t].at \in Places => thread[t].id \in Secrets
        /\ {thread[t].old, thread[t].entry} \subseteq Entry \cup {Absent}
        /\ DOMAIN thread[t].seen \subseteq Secrets
    /\ promised \in [Secrets -> SUBSET Content]
    /\ clashed \subseteq Secrets /\ overlapped \in BOOLEAN

\* A secret resolves to the value that was last put or rotated in, and to
\* nothing once it is revoked, whatever is validated later, whichever files it
\* has been through, and although requests for other secrets undo its entry; a
\* request that a crash cuts short leaves the value from before, or what it had
\* come to. Requests that clash promise nothing (SecretApiService,
\* SecretStoreService, JsonFileSecretRegistry).
PromiseIsKept ==
    \A id \in Secrets \ clashed :
        (\A t \in Threads : ~(Writing(t) /\ thread[t].id = id)) => Resolved(id) \in promised[id]

\* When no request is under way the workers hold what the secrets resolve to,
\* after puts, rotations, revocations, validations and restarts, unless requests
\* have overlapped, or a revoked secret with a file has been validated, since the
\* last lone put or change of settings (refresh_configured_workers).
WorkersFollow ==
    up /\ ~overlapped /\ (\A t \in Threads : ~Busy(t)) =>
        workers = [id \in Secrets |-> Resolved(id)]
=============================================================================
