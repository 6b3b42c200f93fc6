-------------------------- MODULE CredentialsProofs --------------------------
(***************************************************************************)
(* The safety of the broker credentials, for any threads, secrets, files   *)
(* and values.                                                             *)
(*                                                                         *)
(* What a secret resolves to hangs on its entry and on the file the entry  *)
(* names, which a request changes one after the other, and on the copies   *)
(* of the registry that requests for other secrets are about to save. The  *)
(* invariant of the promises follows all of these: every entry the secret  *)
(* has or may get back is of the same file (OnePlace), it resolves to what *)
(* is promised or to what a request under way will promise (Owed), and     *)
(* that request has its secret to itself (OneWriter, Writer).              *)
(***************************************************************************)
EXTENDS Credentials, TLAPS

Ops == {"put", "rotate", "validate", "revoke"}
Writes == {"put", "rotate"}

Entries == Entry \cup {Absent}
Seen == UNION {[S -> Content] : S \in SUBSET Secrets}

Doing == [at : Places \cup {"rest", "resolve", "clear", "fill"},
          op : Ops \cup {"none", "settings"}, id : Secrets \cup {"none"}, value : Content,
          path : Paths \cup {"none"}, checks : BOOLEAN, old : Entries, entry : Entries,
          copy : [Secrets -> Entries] \cup {Nothing}, seen : Seen, moves : BOOLEAN]

\* What a request x has in hand fits the place it is at.
Fits(x) ==
  /\ x \in Doing
  /\ x.at \in Places => x.id \in Secrets /\ x.op \in Ops
  /\ x.at \in Places /\ x.op \in Writes => x.path \in Paths /\ x.value \in Values
  /\ x.at \in {"store", "delete old"} => x.op \in Writes
  /\ x.at = "delete" => x.op = "revoke"
  /\ x.at = "check" => x.op # "revoke"
  /\ x.at = "store" /\ x.op = "rotate" => x.old \in Entry
  /\ x.at = "delete old" => x.old \in Entry /\ x.old.path # x.path /\ x.op = "rotate"
  /\ x.at \in {"check", "delete", "delete old", "load", "save"} => x.entry \in Entry
  /\ x.at = "save" => x.copy \in [Secrets -> Entries]
  /\ x.at \in {"clear", "fill"} => x.seen \in [Secrets -> Content]

TypeInv ==
  /\ up \in BOOLEAN
  /\ registry \in [Secrets -> Entries]
  /\ values \in [Secrets -> [Paths -> Content]]
  /\ workers \in [Secrets -> Content] \cup {Cleared}
  /\ promised \in [Secrets -> SUBSET Content]
  /\ clashed \subseteq Secrets /\ overlapped \in BOOLEAN
  /\ thread \in [Threads -> Doing] /\ \A t \in Threads : Fits(thread[t])
  /\ ~up => \A t \in Threads : ~Busy(t)

-----------------------------------------------------------------------------
(* Entries and what they resolve to.                                       *)

LEMMA Types ==
  /\ Entry \subseteq Entries /\ Absent \in Entries /\ Absent \notin Entry
  /\ {Gone, Torn} \subseteq Content /\ Values \subseteq Content
  /\ \A e \in Entry : /\ e.path \in Paths /\ e.state \in States /\ e # Absent
                      /\ e.state # "absent"
  /\ Absent.state = "absent"
  /\ \A e \in Entries : e # Absent => e \in Entry
  /\ Nothing \in Seen
  BY DEF Entry, Entries, Absent, Content, States, Seen, Nothing

LEMMA EntriesMade ==
  /\ \A p \in Paths : /\ Stored(p) \in Entry /\ Stored(p).path = p
                      /\ Stored(p).state # "revoked"
  /\ \A e \in Entry : /\ Validated(e) \in Entry /\ Validated(e).path = e.path
                      /\ (Validated(e).state = "revoked" <=> e.state = "revoked")
                      /\ Failed(e) \in Entry /\ Failed(e).path = e.path
                      /\ Failed(e).state # "revoked"
                      /\ Revoked(e) \in Entry /\ Revoked(e).path = e.path
                      /\ Revoked(e).state = "revoked"
  BY DEF Stored, Validated, Failed, Revoked, Entry, States

LEMMA CheckedEntries ==
  ASSUME NEW id \in Secrets, NEW e \in Entry
  PROVE  /\ Checked(id, e) \in Entry
         /\ Checked(id, e).path = e.path
         /\ Checked(id, e).state = "revoked" => e.state = "revoked" /\ ResolvedBy(id, e) # Gone
  BY EntriesMade DEF Checked

LEMMA ResolvedTypes ==
  ASSUME NEW id \in Secrets, NEW e \in Entries, values \in [Secrets -> [Paths -> Content]]
  PROVE  ResolvedBy(id, e) \in Content
  BY Types DEF ResolvedBy

LEMMA RestingFits == Fits(Resting) /\ Resting.at = "rest" /\ Resting.at \notin Places
  BY Types DEF Fits, Resting, Doing, Places, Ops, Writes, Gone, Content

-----------------------------------------------------------------------------
(* What each step of a request makes of it.                                *)

LEMMA BecomesGives ==
  ASSUME TypeInv, NEW t \in Threads, NEW x, Fits(x), Becomes(t, x)
  PROVE  /\ thread' \in [Threads -> Doing]
         /\ thread'[t] = x
         /\ \A u \in Threads \ {t} : thread'[u] = thread[u]
         /\ \A u \in Threads : Fits(thread'[u])
  <1>1. x \in Doing
    BY DEF Fits
  <1>. QED  BY <1>1 DEF TypeInv, Becomes

Same(x, y) ==
  /\ x.op = y.op /\ x.id = y.id /\ x.value = y.value /\ x.path = y.path
  /\ x.checks = y.checks /\ x.moves = y.moves /\ x.seen = y.seen

LEMMA Unmoved ==
  ASSUME NEW op, NEW id, NEW path
  PROVE  Moves(op, id, path) \in BOOLEAN
  BY DEF Moves

LEMMA WorkersRequest ==
  ASSUME NEW op \in Ops \cup {"settings"}, NEW x,
         x = [Resting EXCEPT !.at = "resolve", !.op = op]
  PROVE  Fits(x) /\ x.at = "resolve" /\ x.op = op /\ x.seen = Nothing
  BY Types DEF Fits, Resting, Doing, Places, Ops, Writes, Gone, Content, Cleared

LEMMA GetDoes ==
  ASSUME TypeInv, NEW t \in Threads, Get(t), NEW me, me = thread[t]
  PROVE  \E x : /\ Becomes(t, x) /\ Fits(x)
                /\ \/ x = Resting /\ registry[me.id] = Absent /\ me.op # "put"
                   \/ /\ Same(x, me) /\ me.op \in Ops /\ me.id \in Secrets
                      /\ x.old = registry[me.id] /\ x.entry = registry[me.id]
                      /\ me.op = "put" \/ registry[me.id] \in Entry
                      /\ x.at = CASE me.op = "validate" -> "check"
                                  [] me.op = "revoke" -> "delete"
                                  [] OTHER -> "store"
  <1>1. me \in Doing /\ Fits(me) /\ me.at = "get" /\ me.id \in Secrets /\ me.op \in Ops
    BY DEF TypeInv, Get, At, Places, Fits
  <1>2. registry[me.id] \in Entries
    BY <1>1 DEF TypeInv
  <1>3. CASE registry[me.id] = Absent /\ me.op # "put"
    BY <1>3, RestingFits DEF Get, Ends
  <1>4. CASE ~(registry[me.id] = Absent /\ me.op # "put")
    <2> DEFINE x == [me EXCEPT !.old = registry[me.id], !.entry = registry[me.id],
                       !.at = CASE me.op = "validate" -> "check"
                                [] me.op = "revoke" -> "delete"
                                [] OTHER -> "store"]
    <2>1. Becomes(t, x)
      BY <1>4 DEF Get
    <2>2. x.at = (CASE me.op = "validate" -> "check"
                    [] me.op = "revoke" -> "delete"
                    [] OTHER -> "store")
      BY <1>1 DEF Doing
    <2>3. x.at \in {"check", "delete", "store"} /\ x.at \in Places
      BY <2>2 DEF Places
    <2>4. Same(x, me) /\ x.old = registry[me.id] /\ x.entry = registry[me.id] /\ x \in Doing
      BY <1>1, <1>2, <2>3 DEF Doing, Same
    <2>5. me.op = "put" \/ registry[me.id] \in Entry
      BY <1>2, <1>4, Types
    <2>6. Fits(x)
      BY <1>1, <2>2, <2>3, <2>4, <2>5 DEF Fits, Same, Ops, Writes, Places
    <2>. QED  BY <1>1, <2>1, <2>2, <2>4, <2>5, <2>6
  <1>. QED  BY <1>3, <1>4

LEMMA StoreDoes ==
  ASSUME TypeInv, NEW t \in Threads, Store(t), NEW me, me = thread[t]
  PROVE  /\ me.op \in Writes /\ me.id \in Secrets /\ me.path \in Paths /\ me.value \in Values
         /\ \E x : /\ Becomes(t, x) /\ Fits(x) /\ Same(x, me)
                   /\ x.old = me.old /\ x.entry = Stored(me.path)
                   /\ \/ /\ me.op = "rotate" /\ me.old.path # me.path
                         /\ x.at = "delete old"
                      \/ /\ me.op = "rotate" => me.old.path = me.path
                         /\ x.at \in {"check", "load"}
  <1>1. /\ me \in Doing /\ Fits(me) /\ me.at = "store" /\ me.id \in Secrets
        /\ me.op \in Writes /\ me.path \in Paths /\ me.value \in Values
    BY DEF TypeInv, Store, At, Places, Fits
  <1> DEFINE place == IF me.op = "rotate" /\ me.old.path # me.path THEN "delete old"
                      ELSE AfterStore(me)
             x == [me EXCEPT !.entry = Stored(me.path), !.at = place]
  <1>2. place \in {"delete old", "check", "load"} /\ place \in Places
    BY DEF AfterStore, Places
  <1>3. Stored(me.path) \in Entry /\ Stored(me.path) \in Entries
    BY <1>1, EntriesMade, Types
  <1>4. Becomes(t, x)
    BY DEF Store
  <1>5. x \in Doing /\ Same(x, me) /\ x.old = me.old /\ x.entry = Stored(me.path) /\ x.at = place
    BY <1>1, <1>2, <1>3 DEF Doing, Same
  <1>6. Fits(x)
    BY <1>1, <1>2, <1>3, <1>5 DEF Fits, Same, Ops, Writes, Places, AfterStore
  <1>. QED  BY <1>1, <1>4, <1>5, <1>6 DEF AfterStore

LEMMA DeleteOldDoes ==
  ASSUME TypeInv, NEW t \in Threads, DeleteOld(t), NEW me, me = thread[t]
  PROVE  /\ me.op = "rotate" /\ me.id \in Secrets /\ me.path \in Paths /\ me.value \in Values
         /\ me.old.path \in Paths /\ me.old.path # me.path
         /\ \E x : /\ Becomes(t, x) /\ Fits(x) /\ Same(x, me)
                   /\ x.old = me.old /\ x.entry = me.entry /\ x.at \in {"check", "load"}
  <1>1. /\ me \in Doing /\ Fits(me) /\ me.at = "delete old" /\ me.id \in Secrets
        /\ me.op = "rotate" /\ me.path \in Paths /\ me.value \in Values
        /\ me.old \in Entry /\ me.old.path # me.path /\ me.entry \in Entry
    BY DEF TypeInv, DeleteOld, At, Places, Fits, Writes
  <1> DEFINE x == [me EXCEPT !.at = AfterStore(me)]
  <1>2. AfterStore(me) \in {"check", "load"} /\ AfterStore(me) \in Places
    BY DEF AfterStore, Places
  <1>3. Becomes(t, x)
    BY DEF DeleteOld
  <1>4. /\ x \in Doing /\ Same(x, me) /\ x.old = me.old /\ x.entry = me.entry
        /\ x.at = AfterStore(me)
    BY <1>1, <1>2 DEF Doing, Same
  <1>5. Fits(x)
    BY <1>1, <1>2, <1>4 DEF Fits, Same, Ops, Writes, Places
  <1>. QED  BY <1>1, <1>2, <1>3, <1>4, <1>5, Types

LEMMA CheckDoes ==
  ASSUME TypeInv, NEW t \in Threads, Check(t), NEW me, me = thread[t]
  PROVE  /\ me.op \in Ops /\ me.op # "revoke" /\ me.id \in Secrets /\ me.entry \in Entry
         /\ \E x : /\ Becomes(t, x) /\ Fits(x) /\ Same(x, me)
                   /\ x.old = me.old /\ x.entry = Checked(me.id, me.entry) /\ x.at = "load"
  <1>1. /\ me \in Doing /\ Fits(me) /\ me.at = "check" /\ me.id \in Secrets
        /\ me.op \in Ops /\ me.op # "revoke" /\ me.entry \in Entry
    BY DEF TypeInv, Check, At, Places, Fits
  <1> DEFINE x == [me EXCEPT !.at = "load", !.entry = Checked(me.id, me.entry)]
  <1>2. Checked(me.id, me.entry) \in Entry /\ Checked(me.id, me.entry) \in Entries
    BY <1>1, CheckedEntries, Types
  <1>3. x = [me EXCEPT !.at = "load", !.entry = Checked(me.id, @)]
    BY <1>1 DEF Doing
  <1>4. Becomes(t, x)
    BY <1>3 DEF Check
  <1>5. /\ x \in Doing /\ Same(x, me) /\ x.old = me.old
        /\ x.entry = Checked(me.id, me.entry) /\ x.at = "load"
    BY <1>1, <1>2 DEF Doing, Same, Places
  <1>6. Fits(x)
    BY <1>1, <1>2, <1>5 DEF Fits, Same, Ops, Writes, Places
  <1>. QED  BY <1>1, <1>4, <1>5, <1>6

LEMMA DeleteDoes ==
  ASSUME TypeInv, NEW t \in Threads, Delete(t), NEW me, me = thread[t]
  PROVE  /\ me.op = "revoke" /\ me.id \in Secrets /\ me.entry \in Entry
         /\ \E x : /\ Becomes(t, x) /\ Fits(x) /\ Same(x, me)
                   /\ x.old = me.old /\ x.entry = Revoked(me.entry) /\ x.at = "load"
  <1>1. /\ me \in Doing /\ Fits(me) /\ me.at = "delete" /\ me.id \in Secrets
        /\ me.op = "revoke" /\ me.entry \in Entry
    BY DEF TypeInv, Delete, At, Places, Fits
  <1> DEFINE x == [me EXCEPT !.at = "load", !.entry = Revoked(me.entry)]
  <1>2. Revoked(me.entry) \in Entry /\ Revoked(me.entry) \in Entries
    BY <1>1, EntriesMade, Types
  <1>3. x = [me EXCEPT !.at = "load", !.entry = Revoked(@)]
    BY <1>1 DEF Doing
  <1>4. Becomes(t, x)
    BY <1>3 DEF Delete
  <1>5. /\ x \in Doing /\ Same(x, me) /\ x.old = me.old
        /\ x.entry = Revoked(me.entry) /\ x.at = "load"
    BY <1>1, <1>2 DEF Doing, Same, Places
  <1>6. Fits(x)
    BY <1>1, <1>2, <1>5 DEF Fits, Same, Ops, Writes, Places
  <1>. QED  BY <1>1, <1>4, <1>5, <1>6

LEMMA LoadDoes ==
  ASSUME TypeInv, NEW t \in Threads, Load(t), NEW me, me = thread[t]
  PROVE  /\ me.op \in Ops /\ me.id \in Secrets /\ me.entry \in Entry
         /\ \E x : /\ Becomes(t, x) /\ Fits(x) /\ Same(x, me)
                   /\ x.old = me.old /\ x.entry = me.entry /\ x.copy = registry
                   /\ x.at = "save"
  <1>1. /\ me \in Doing /\ Fits(me) /\ me.at = "load" /\ me.id \in Secrets
        /\ me.op \in Ops /\ me.entry \in Entry
    BY DEF TypeInv, Load, At, Places, Fits
  <1> DEFINE x == [me EXCEPT !.at = "save", !.copy = registry]
  <1>2. registry \in [Secrets -> Entries]
    BY DEF TypeInv
  <1>3. Becomes(t, x)
    BY DEF Load
  <1>4. /\ x \in Doing /\ Same(x, me) /\ x.old = me.old /\ x.entry = me.entry
        /\ x.copy = registry /\ x.at = "save"
    BY <1>1, <1>2 DEF Doing, Same, Places
  <1>5. Fits(x)
    BY <1>1, <1>2, <1>4 DEF Fits, Same, Ops, Writes, Places
  <1>. QED  BY <1>1, <1>3, <1>4, <1>5

LEMMA SaveDoes ==
  ASSUME TypeInv, NEW t \in Threads, Save(t), NEW me, me = thread[t]
  PROVE  /\ me.op \in Ops /\ me.id \in Secrets /\ me.entry \in Entry
         /\ me.copy \in [Secrets -> Entries]
         /\ \E x : /\ Becomes(t, x) /\ Fits(x) /\ ~(x.at \in Places)
                   /\ \/ me.op = "validate" /\ x = Resting
                      \/ me.op # "validate" /\ x.at = "resolve" /\ x.seen = Nothing
  <1>1. /\ me \in Doing /\ Fits(me) /\ me.at = "save" /\ me.id \in Secrets
        /\ me.op \in Ops /\ me.entry \in Entry /\ me.copy \in [Secrets -> Entries]
    BY DEF TypeInv, Save, At, Places, Fits
  <1>2. CASE me.op = "validate"
    BY <1>1, <1>2, RestingFits DEF Save, Ends, Resting, Places
  <1>3. CASE me.op # "validate"
    <2> DEFINE x == [Resting EXCEPT !.at = "resolve", !.op = me.op]
    <2>1. Becomes(t, x)
      BY <1>3 DEF Save
    <2>2. Fits(x) /\ x.at = "resolve" /\ x.seen = Nothing
      BY <1>1, WorkersRequest
    <2>. QED  BY <1>1, <1>3, <2>1, <2>2 DEF Places
  <1>. QED  BY <1>2, <1>3

LEMMA ResolveDoes ==
  ASSUME TypeInv, NEW t \in Threads, Resolve(t), NEW me, me = thread[t]
  PROVE  \E id \in Secrets, x \in Doing :
           /\ Becomes(t, x) /\ Fits(x) /\ x.at \in {"resolve", "clear"}
           /\ \A i \in DOMAIN x.seen :
                \/ i = id /\ x.seen[i] = Resolved(id)
                \/ i \in DOMAIN me.seen /\ x.seen[i] = me.seen[i]
  <1>1. me \in Doing /\ Fits(me) /\ me.at = "resolve" /\ me.seen \in Seen
    BY DEF TypeInv, Resolve, At, Fits, Doing
  <1>2. PICK S \in SUBSET Secrets : me.seen \in [S -> Content]
    BY <1>1 DEF Seen
  <1> DEFINE seen(id) == [i \in DOMAIN me.seen \cup {id} |->
                              IF i = id THEN Resolved(id) ELSE me.seen[i]]
             place(id) == IF DOMAIN seen(id) = Secrets THEN "clear" ELSE "resolve"
             x(id) == [me EXCEPT !.seen = seen(id), !.at = place(id)]
  <1>3. PICK id \in Secrets \ DOMAIN me.seen : Becomes(t, x(id))
    BY DEF Resolve
  <1>4. Resolved(id) \in Content
    BY ResolvedTypes DEF Resolved, TypeInv
  <1>5. seen(id) \in [S \cup {id} -> Content]
    BY <1>2, <1>4
  <1>6. S \cup {id} \in SUBSET Secrets
    OBVIOUS
  <1>7. seen(id) \in Seen
    BY <1>5, <1>6 DEF Seen
  <1>8. DOMAIN seen(id) = S \cup {id} /\ DOMAIN me.seen = S
    BY <1>2, <1>5
  <1>9. \A i \in DOMAIN seen(id) :
          \/ i = id /\ seen(id)[i] = Resolved(id)
          \/ i \in DOMAIN me.seen /\ seen(id)[i] = me.seen[i]
    BY <1>2
  <1>10. place(id) \in {"clear", "resolve"}
    OBVIOUS
  <1>11. place(id) = "clear" => seen(id) \in [Secrets -> Content]
    BY <1>5, <1>8
  <1> HIDE DEF seen, place
  <1>12. x(id) \in Doing /\ x(id).seen = seen(id) /\ x(id).at = place(id)
    BY <1>1, <1>7, <1>10 DEF Doing
  <1>13. Fits(x(id))
    BY <1>10, <1>11, <1>12 DEF Fits, Places
  <1> HIDE DEF x
  <1>. QED  BY <1>3, <1>9, <1>10, <1>12, <1>13

LEMMA ClearDoes ==
  ASSUME TypeInv, NEW t \in Threads, Clear(t), NEW me, me = thread[t]
  PROVE  \E x : Becomes(t, x) /\ Fits(x) /\ x.at = "fill" /\ x.seen = me.seen
  <1>1. me \in Doing /\ Fits(me) /\ me.at = "clear" /\ me.seen \in [Secrets -> Content]
    BY DEF TypeInv, Clear, At, Fits
  <1> DEFINE x == [me EXCEPT !.at = "fill"]
  <1>2. Becomes(t, x)
    BY DEF Clear
  <1>3. x \in Doing /\ x.seen = me.seen /\ x.at = "fill"
    BY <1>1 DEF Doing
  <1>4. Fits(x)
    BY <1>1, <1>3 DEF Fits, Places
  <1>. QED  BY <1>2, <1>3, <1>4

LEMMA FillDoes ==
  ASSUME TypeInv, NEW t \in Threads, Fill(t), NEW me, me = thread[t]
  PROVE  Becomes(t, Resting) /\ me.seen \in [Secrets -> Content] /\ me.at = "fill"
  BY DEF TypeInv, Fill, At, Fits, Ends

LEMMA WriteDoes ==
  ASSUME TypeInv, NEW t \in Threads, Write(t)
  PROVE  \E op \in Writes, id \in Secrets, path \in Paths, x \in Doing :
           /\ Becomes(t, x) /\ Fits(x) /\ x.at = "get" /\ x.op = op /\ x.id = id
           /\ x.path = path /\ x.moves = Moves(op, id, path)
           /\ clashed' = Clashes(t, op, id, path)
           /\ promised' = IF id \in clashed \ clashed'
                          THEN [promised EXCEPT ![id] = MayResolve(id)] ELSE promised
           /\ overlapped' = \/ op # "put" /\ overlapped
                            \/ \E u \in Threads \ {t} : Busy(u)
  <1> DEFINE x(op, id, value, path, checks) ==
               [Resting EXCEPT !.at = "get", !.op = op, !.id = id, !.value = value,
                               !.path = path, !.checks = checks, !.moves = Moves(op, id, path)]
  <1>1. PICK op \in Writes, id \in Secrets, value \in Values, path \in Paths,
             checks \in BOOLEAN :
          /\ Becomes(t, x(op, id, value, path, checks))
          /\ clashed' = Clashes(t, op, id, path)
          /\ promised' = IF id \in clashed \ clashed'
                         THEN [promised EXCEPT ![id] = MayResolve(id)] ELSE promised
          /\ overlapped' = \/ op # "put" /\ overlapped
                           \/ \E u \in Threads \ {t} : Busy(u)
    BY DEF Write, Writes
  <1> PICK moves \in BOOLEAN : moves = Moves(op, id, path)
    BY Unmoved
  <1> PICK y : y = [Resting EXCEPT !.at = "get", !.op = op, !.id = id, !.value = value,
                        !.path = path, !.checks = checks, !.moves = moves]
    OBVIOUS
  <1>2. /\ Fits(y) /\ y.at = "get" /\ y.op = op /\ y.id = id /\ y.path = path
        /\ y.moves = Moves(op, id, path)
    BY Types DEF Fits, Resting, Doing, Places, Ops, Writes, Gone, Content
  <1>3. Becomes(t, y)
    BY <1>1
  <1>4. y \in Doing
    BY <1>2 DEF Fits
  <1> HIDE DEF x
  <1>. QED  BY <1>1, <1>2, <1>3, <1>4

LEMMA VisitDoes ==
  ASSUME TypeInv, NEW t \in Threads, Visit(t)
  PROVE  \E op \in {"validate", "revoke"}, id \in Secrets, x \in Doing :
           /\ Becomes(t, x) /\ Fits(x) /\ x.at = "get" /\ x.op = op /\ x.id = id
           /\ x.moves = FALSE
           /\ clashed' = Clashes(t, op, id, "none")
           /\ overlapped' = \/ overlapped
                            \/ \E u \in Threads \ {t} : Busy(u)
                            \/ op = "validate" /\ MayResolve(id) # {Resolved(id)}
  <1> DEFINE x(op, id) ==
        [Resting EXCEPT !.at = "get", !.op = op, !.id = id, !.checks = (op = "validate")]
  <1>1. PICK op \in {"validate", "revoke"}, id \in Secrets :
          /\ Becomes(t, x(op, id))
          /\ clashed' = Clashes(t, op, id, "none")
          /\ overlapped' = \/ overlapped
                           \/ \E u \in Threads \ {t} : Busy(u)
                           \/ op = "validate" /\ MayResolve(id) # {Resolved(id)}
    BY DEF Visit
  <1> PICK checks \in BOOLEAN : checks = (op = "validate")
    OBVIOUS
  <1> PICK y : y = [Resting EXCEPT !.at = "get", !.op = op, !.id = id, !.checks = checks]
    OBVIOUS
  <1>2. Fits(y) /\ y.at = "get" /\ y.op = op /\ y.id = id /\ y.moves = FALSE
    BY Types DEF Fits, Resting, Doing, Places, Ops, Writes, Gone, Content
  <1>3. Becomes(t, y)
    BY <1>1
  <1>4. y \in Doing
    BY <1>2 DEF Fits
  <1> HIDE DEF x
  <1>. QED  BY <1>1, <1>2, <1>3, <1>4

LEMMA PutSettingsDoes ==
  ASSUME TypeInv, NEW t \in Threads, PutSettings(t)
  PROVE  \E x : Becomes(t, x) /\ Fits(x) /\ x.at = "resolve" /\ x.seen = Nothing
  <1> DEFINE x == [Resting EXCEPT !.at = "resolve", !.op = "settings"]
  <1>1. Becomes(t, x)
    BY DEF PutSettings
  <1>2. Fits(x) /\ x.at = "resolve" /\ x.seen = Nothing
    BY WorkersRequest
  <1>. QED  BY <1>1, <1>2

-----------------------------------------------------------------------------
(* Types.                                                                  *)

\* The part of it that steps of a request leave alone one at a time.
LEMMA TypeOfThreads ==
  ASSUME TypeInv, NEW t \in Threads, NEW x, Fits(x), Becomes(t, x), up, UNCHANGED up
  PROVE  /\ thread' \in [Threads -> Doing] /\ \A u \in Threads : Fits(thread'[u])
         /\ (~up => \A u \in Threads : ~Busy(u))'
  BY BecomesGives

LEMMA RewriteType ==
  ASSUME TypeInv, NEW id \in Secrets, NEW path \in Paths, NEW value \in Content,
         Rewrite(id, path, value)
  PROVE  values' \in [Secrets -> [Paths -> Content]]
  BY DEF TypeInv, Rewrite

LEMMA ClashesType ==
  ASSUME TypeInv, NEW t \in Threads, NEW op, NEW id \in Secrets, NEW path
  PROVE  Clashes(t, op, id, path) \subseteq Secrets
  <1>1. \A u \in Threads : Writing(u) => thread[u].id \in Secrets
    BY DEF TypeInv, Fits, Writing
  <1>2. clashed \subseteq Secrets
    BY DEF TypeInv
  <1>. QED  BY <1>1, <1>2 DEF Clashes

LEMMA MayResolveType ==
  ASSUME TypeInv, NEW id \in Secrets
  PROVE  MayResolve(id) \in SUBSET Content
  <1>1. registry[id] \in Entries
    BY DEF TypeInv
  <1>2. Resolved(id) \in Content
    BY <1>1, ResolvedTypes DEF Resolved, TypeInv
  <1>3. registry[id] # Absent => values[id][registry[id].path] \in Content
    BY <1>1, Types DEF TypeInv
  <1>. QED  BY <1>2, <1>3 DEF MayResolve

LEMMA InitType == Init => TypeInv
  <1>1. \A t \in Threads : Fits(Resting)
    BY RestingFits
  <1>2. Resting \in Doing /\ Resting.at = "rest"
    BY RestingFits DEF Fits, Resting
  <1>3. SUFFICES ASSUME Init PROVE TypeInv
    OBVIOUS
  <1>4. thread \in [Threads -> Doing] /\ \A t \in Threads : Fits(thread[t])
    BY <1>1, <1>2, <1>3 DEF Init
  <1>5. \A t \in Threads : thread[t].at = "rest"
    BY <1>2, <1>3 DEF Init
  <1>6. Absent \in Entries /\ Gone \in Content
    BY Types
  <1>. QED  BY <1>3, <1>4, <1>5, <1>6 DEF Init, TypeInv, Busy

LEMMA TypeStep == TypeInv /\ [Next]_vars => TypeInv'
  <1> SUFFICES ASSUME TypeInv, [Next]_vars PROVE TypeInv'
    OBVIOUS
  <1> USE DEF History, At
  <1>1. ASSUME NEW t \in Threads, Write(t) PROVE TypeInv'
    <2>1. up /\ UNCHANGED <<up, registry, values, workers>>
      BY <1>1 DEF Write, Receive
    <2>2. PICK op \in Writes, id \in Secrets, path \in Paths, x \in Doing :
            /\ Becomes(t, x) /\ Fits(x)
            /\ clashed' = Clashes(t, op, id, path)
            /\ promised' = IF id \in clashed \ clashed'
                           THEN [promised EXCEPT ![id] = MayResolve(id)] ELSE promised
            /\ overlapped' = \/ op # "put" /\ overlapped
                             \/ \E u \in Threads \ {t} : Busy(u)
      BY <1>1, WriteDoes
    <2>3. clashed' \subseteq Secrets
      BY <2>2, ClashesType
    <2>4. promised' \in [Secrets -> SUBSET Content]
      BY <2>2, MayResolveType DEF TypeInv
    <2>5. overlapped' \in BOOLEAN
      BY <2>2
    <2>. QED  BY <2>1, <2>2, <2>3, <2>4, <2>5, TypeOfThreads DEF TypeInv
  <1>2. ASSUME NEW t \in Threads, Visit(t) PROVE TypeInv'
    <2>1. up /\ UNCHANGED <<up, registry, values, workers, promised>>
      BY <1>2 DEF Visit, Receive
    <2>2. PICK op \in {"validate", "revoke"}, id \in Secrets, x \in Doing :
            /\ Becomes(t, x) /\ Fits(x)
            /\ clashed' = Clashes(t, op, id, "none")
            /\ overlapped' = \/ overlapped
                             \/ \E u \in Threads \ {t} : Busy(u)
                             \/ op = "validate" /\ MayResolve(id) # {Resolved(id)}
      BY <1>2, VisitDoes
    <2>3. clashed' \subseteq Secrets
      BY <2>2, ClashesType
    <2>4. overlapped' \in BOOLEAN
      BY <2>2
    <2>. QED  BY <2>1, <2>2, <2>3, <2>4, TypeOfThreads DEF TypeInv
  <1>3. ASSUME NEW t \in Threads, PutSettings(t) PROVE TypeInv'
    <2>1. up /\ UNCHANGED <<up, registry, values, workers, promised, clashed>>
      BY <1>3 DEF PutSettings, Receive
    <2>2. overlapped' \in BOOLEAN
      BY <1>3 DEF PutSettings
    <2>. QED  BY <1>3, <2>1, <2>2, PutSettingsDoes, TypeOfThreads DEF TypeInv
  <1>4. ASSUME NEW t \in Threads, Get(t) PROVE TypeInv'
    <2>1. up /\ UNCHANGED <<up, registry, values, workers, promised, clashed, overlapped>>
      BY <1>4 DEF Get
    <2>2. PICK x : Becomes(t, x) /\ Fits(x)
      BY <1>4, GetDoes
    <2>. QED  BY <2>1, <2>2, TypeOfThreads DEF TypeInv
  <1>5. ASSUME NEW t \in Threads, Store(t) PROVE TypeInv'
    <2>1. up /\ UNCHANGED <<up, registry, workers, promised, clashed, overlapped>>
      BY <1>5 DEF Store
    <2>2. PICK x : Becomes(t, x) /\ Fits(x)
      BY <1>5, StoreDoes
    <2>3. values' \in [Secrets -> [Paths -> Content]]
      BY <1>5, StoreDoes, RewriteType, Types DEF Store
    <2>. QED  BY <2>1, <2>2, <2>3, TypeOfThreads DEF TypeInv
  <1>6. ASSUME NEW t \in Threads, DeleteOld(t) PROVE TypeInv'
    <2>1. up /\ UNCHANGED <<up, registry, workers, promised, clashed, overlapped>>
      BY <1>6 DEF DeleteOld
    <2>2. PICK x : Becomes(t, x) /\ Fits(x)
      BY <1>6, DeleteOldDoes
    <2>3. values' \in [Secrets -> [Paths -> Content]]
      BY <1>6, DeleteOldDoes, RewriteType, Types DEF DeleteOld
    <2>. QED  BY <2>1, <2>2, <2>3, TypeOfThreads DEF TypeInv
  <1>7. ASSUME NEW t \in Threads, Check(t) PROVE TypeInv'
    <2>1. up /\ UNCHANGED <<up, registry, values, workers, promised, clashed, overlapped>>
      BY <1>7 DEF Check
    <2>2. PICK x : Becomes(t, x) /\ Fits(x)
      BY <1>7, CheckDoes
    <2>. QED  BY <2>1, <2>2, TypeOfThreads DEF TypeInv
  <1>8. ASSUME NEW t \in Threads, Delete(t) PROVE TypeInv'
    <2>1. up /\ UNCHANGED <<up, registry, workers, promised, clashed, overlapped>>
      BY <1>8 DEF Delete
    <2>2. PICK x : Becomes(t, x) /\ Fits(x)
      BY <1>8, DeleteDoes
    <2>3. values' \in [Secrets -> [Paths -> Content]]
      BY <1>8, DeleteDoes, RewriteType, Types DEF Delete
    <2>. QED  BY <2>1, <2>2, <2>3, TypeOfThreads DEF TypeInv
  <1>9. ASSUME NEW t \in Threads, Load(t) PROVE TypeInv'
    <2>1. up /\ UNCHANGED <<up, registry, values, workers, promised, clashed, overlapped>>
      BY <1>9 DEF Load
    <2>2. PICK x : Becomes(t, x) /\ Fits(x)
      BY <1>9, LoadDoes
    <2>. QED  BY <2>1, <2>2, TypeOfThreads DEF TypeInv
  <1>10. ASSUME NEW t \in Threads, Save(t) PROVE TypeInv'
    <2>1. up /\ UNCHANGED <<up, values, workers, clashed, overlapped>>
      BY <1>10 DEF Save
    <2> DEFINE me == thread[t]
    <2>2. /\ me.op \in Ops /\ me.id \in Secrets /\ me.entry \in Entries
          /\ me.copy \in [Secrets -> Entries]
          /\ \E x : Becomes(t, x) /\ Fits(x)
      BY <1>10, SaveDoes, Types
    <2>3. me.value \in Content
      BY DEF TypeInv, Doing
    <2>4. registry' \in [Secrets -> Entries]
      BY <1>10, <2>2 DEF Save
    <2>5. promised' \in [Secrets -> SUBSET Content]
      BY <1>10, <2>3, Types DEF Save, Kept, TypeInv
    <2>. QED  BY <2>1, <2>2, <2>4, <2>5, TypeOfThreads DEF TypeInv
  <1>11. ASSUME NEW t \in Threads, Resolve(t) PROVE TypeInv'
    <2>1. up /\ UNCHANGED <<up, registry, values, workers, promised, clashed, overlapped>>
      BY <1>11 DEF Resolve
    <2>2. PICK x : Becomes(t, x) /\ Fits(x)
      BY <1>11, ResolveDoes
    <2>. QED  BY <2>1, <2>2, TypeOfThreads DEF TypeInv
  <1>12. ASSUME NEW t \in Threads, Clear(t) PROVE TypeInv'
    <2>1. up /\ workers' = Cleared /\ UNCHANGED <<up, registry, values, promised, clashed, overlapped>>
      BY <1>12 DEF Clear
    <2>2. PICK x : Becomes(t, x) /\ Fits(x)
      BY <1>12, ClearDoes
    <2>. QED  BY <2>1, <2>2, TypeOfThreads DEF TypeInv
  <1>13. ASSUME NEW t \in Threads, Fill(t) PROVE TypeInv'
    <2>1. up /\ workers' = thread[t].seen /\ UNCHANGED <<up, registry, values, promised, clashed, overlapped>>
      BY <1>13 DEF Fill
    <2>2. Becomes(t, Resting) /\ thread[t].seen \in [Secrets -> Content]
      BY <1>13, FillDoes
    <2>. QED  BY <2>1, <2>2, RestingFits, TypeOfThreads DEF TypeInv
  <1>14. CASE Crash
    <2>1. /\ up' = FALSE /\ thread' = [t \in Threads |-> Resting] /\ workers' = Cleared
          /\ UNCHANGED <<registry, clashed, overlapped>>
      BY <1>14 DEF Crash
    <2>2. values' \in [Secrets -> [Paths -> Content]]
      BY <1>14, Types DEF Crash, TypeInv
    <2>3. \A t \in Threads : thread[t] \in Doing /\ Cut(t) \subseteq Content
      BY Types DEF TypeInv, Doing, Cut
    <2>4. promised' \in [Secrets -> SUBSET Content]
      BY <1>14, <2>3 DEF Crash, TypeInv
    <2>5. Resting \in Doing /\ Resting.at = "rest"
      BY RestingFits DEF Fits, Resting
    <2>. QED  BY <2>1, <2>2, <2>4, <2>5, RestingFits DEF TypeInv, Busy
  <1>15. CASE Restart
    <2>1. /\ up' = TRUE /\ overlapped' = FALSE
          /\ workers' = [id \in Secrets |-> Resolved(id)]
          /\ UNCHANGED <<registry, values, thread, promised, clashed>>
      BY <1>15 DEF Restart
    <2>2. \A id \in Secrets : Resolved(id) \in Content
      BY ResolvedTypes DEF TypeInv, Resolved
    <2>. QED  BY <2>1, <2>2 DEF TypeInv
  <1>16. CASE UNCHANGED vars
    BY <1>16 DEF vars, TypeInv, Busy
  <1>. QED
    BY <1>1, <1>2, <1>3, <1>4, <1>5, <1>6, <1>7, <1>8, <1>9, <1>10, <1>11, <1>12, <1>13,
       <1>14, <1>15, <1>16 DEF Next, Step

LEMMA TypeImplies == TypeInv => TypeOK
  <1> SUFFICES ASSUME TypeInv PROVE TypeOK
    OBVIOUS
  <1>1. \A t \in Threads : DOMAIN thread[t].seen \subseteq Secrets
    BY DEF TypeInv, Doing, Seen
  <1>2. \A t \in Threads : /\ thread[t].at \in Places \cup {"rest", "resolve", "clear", "fill"}
                           /\ thread[t].at \in Places => thread[t].id \in Secrets
                           /\ {thread[t].old, thread[t].entry} \subseteq Entry \cup {Absent}
    BY DEF TypeInv, Doing, Entries, Fits
  <1>. QED  BY <1>1, <1>2 DEF TypeInv, TypeOK, Entries

\* Every variable has its type: a request that goes on has a secret, and an
\* entry where it is to save one (SecretApiService, JsonFileSecretRegistry).
THEOREM TypesHold == Spec => []TypeOK
  BY InitType, TypeStep, TypeImplies, PTL DEF Spec

-----------------------------------------------------------------------------
(* What is promised.                                                       *)

For(t, id) == Writing(t) /\ thread[t].id = id

\* What a secret may resolve to with this entry, see MayResolve.
MayBe(id, entry) ==
  {ResolvedBy(id, entry)} \cup (IF entry = Absent THEN {} ELSE {values[id][entry.path]})

\* What the steps that t has taken let its secret resolve to.
Left(t) == IF thread[t].at = "store" THEN {} ELSE Cut(t)

OneWriter(id) == \A t, u \in Threads : For(t, id) /\ For(u, id) => t = u

\* Whatever undoes a save of the secret leaves its value in the same file.
OnePlace(id) ==
  \A entry \in Views(id) : /\ entry.path = registry[id].path
                           /\ entry = Absent <=> registry[id] = Absent

\* What the secret may resolve to is promised, or its writer will promise it
\* or be cut short with it.
Owed(id) ==
  \A entry \in Views(id) : \A v \in MayBe(id, entry) :
    v \in promised[id] \/ \E t \in Threads : For(t, id) /\ v \in Left(t)

\* What the request of t knows of its secret, which is its alone.
Writer(t, id) ==
  LET x == thread[t]
  IN  /\ x.moves => \A u \in Threads : Writing(u) => u = t
      /\ x.op \in Writes /\ ~x.moves =>
           \A e \in Views(id) : e # Absent /\ e.state # "revoked" /\ e.path = x.path
      /\ x.op \in Writes /\ x.at \in {"delete old", "check", "load", "save"} =>
           /\ values[id][x.path] = x.value
           /\ x.entry.path = x.path /\ x.entry.state # "revoked"
      /\ x.op \notin Writes /\ x.at # "get" =>
           registry[id] # Absent /\ x.entry.path = registry[id].path
      /\ x.op = "validate" /\ x.at # "get" => MayBe(id, x.entry) \subseteq promised[id]
      /\ x.op = "revoke" /\ x.at \in {"load", "save"} => values[id][x.entry.path] = Gone

Good(id) ==
  OneWriter(id) /\ OnePlace(id) /\ Owed(id) /\ \A t \in Threads : For(t, id) => Writer(t, id)

PromiseInv == \A id \in Secrets \ clashed : Good(id)

LEMMA InView ==
  ASSUME NEW id
  PROVE  registry[id] \in Views(id)
  BY DEF Views

LEMMA MayBeSame ==
  ASSUME NEW id, NEW e, values'[id] = values[id]
  PROVE  MayBe(id, e)' = MayBe(id, e)
  BY DEF MayBe, ResolvedBy

LEMMA LeftSame ==
  ASSUME NEW t \in Threads, thread'[t] = thread[t]
  PROVE  Left(t)' = Left(t)
  BY DEF Left, Cut

\* A step that leaves what is known of a secret as it is.
LEMMA Frame ==
  ASSUME NEW id, Good(id),
         Views(id)' \subseteq Views(id), values'[id] = values[id], promised'[id] = promised[id],
         \A u \in Threads : /\ For(u, id)' <=> For(u, id)
                            /\ For(u, id) => thread'[u] = thread[u],
         \A u, w \in Threads : For(u, id) /\ thread[u].moves /\ Writing(w)' => Writing(w)
  PROVE  Good(id)'
  <1>1. OneWriter(id)'
    BY DEF Good, OneWriter
  <1>2. OnePlace(id)'
    <2>1. registry'[id] \in Views(id)
      BY DEF Views
    <2>. QED  BY <2>1 DEF Good, OnePlace
  <1>3. Owed(id)'
    <2>1. \A u \in Threads : For(u, id) => Left(u)' = Left(u)
      BY LeftSame
    <2>2. \A e : MayBe(id, e)' = MayBe(id, e)
      BY MayBeSame
    <2>. QED  BY <2>1, <2>2 DEF Good, Owed
  <1>4. ASSUME NEW t \in Threads, For(t, id)' PROVE Writer(t, id)'
    <2>1. For(t, id) /\ thread'[t] = thread[t] /\ thread[t].id = id /\ Writer(t, id)
      BY <1>4 DEF Good, For
    <2>3. thread[t].moves => \A u \in Threads : Writing(u)' => u = t
      BY <2>1 DEF Writer
    <2>4. registry'[id] \in Views(id)
      BY DEF Views
    <2>5. (registry'[id] = Absent <=> registry[id] = Absent) /\ registry'[id].path = registry[id].path
      BY <2>4 DEF Good, OnePlace
    <2>. QED  BY <2>1, <2>3, <2>5 DEF Writer, MayBe, ResolvedBy
  <1>. QED  BY <1>1, <1>2, <1>3, <1>4 DEF Good

LEMMA FewerViews ==
  ASSUME NEW t \in Threads, NEW id, \A u \in Threads \ {t} : thread'[u] = thread[u],
         registry'[id] \in Views(id),
         thread'[t].at = "save" /\ thread'[t].id # id => thread'[t].copy[id] \in Views(id)
  PROVE  Views(id)' \subseteq Views(id)
  BY DEF Views

\* A step of a request for another secret, or of one that writes nothing.
LEMMA StepOfAnother ==
  ASSUME TypeInv, NEW t \in Threads, NEW x, Fits(x), Becomes(t, x), NEW id, Good(id),
         ~For(t, id), ~(x.at \in Places /\ x.id = id),
         values'[id] = values[id], promised'[id] = promised[id], registry'[id] \in Views(id),
         x.at = "save" => x.copy[id] \in Views(id),
         x.at \in Places =>
           Writing(t) \/ \A u \in Threads : For(u, id) => ~thread[u].moves
  PROVE  Good(id)'
  <1>1. thread'[t] = x /\ \A u \in Threads \ {t} : thread'[u] = thread[u]
    BY BecomesGives
  <1>2. Views(id)' \subseteq Views(id)
    BY <1>1, FewerViews
  <1>3. \A u \in Threads : /\ For(u, id)' <=> For(u, id)
                           /\ For(u, id) => thread'[u] = thread[u]
    BY <1>1 DEF For, Writing
  <1>4. \A u, w \in Threads : For(u, id) /\ thread[u].moves /\ Writing(w)' => Writing(w)
    BY <1>1 DEF Writing
  <1>. QED  BY <1>2, <1>3, <1>4, Frame

\* A step of the request for the secret that leaves it under way.
LEMMA StepOfOwn ==
  ASSUME TypeInv, NEW t \in Threads, NEW x, Fits(x), Becomes(t, x), NEW id, Good(id),
         For(t, id), x.at \in Places, x.id = id, UNCHANGED registry,
         \A e \in Views(id) : \A v \in MayBe(id, e)' : v \in promised'[id] \/ v \in Left(t)',
         Views(id)' \subseteq Views(id) => Writer(t, id)'
  PROVE  Good(id)'
  <1>1. thread'[t] = x /\ \A u \in Threads \ {t} : thread'[u] = thread[u]
    BY BecomesGives
  <1>2. Views(id)' \subseteq Views(id)
    BY <1>1, FewerViews, InView
  <1>3. \A u \in Threads : For(u, id)' <=> u = t
    BY <1>1 DEF For, Writing, Good, OneWriter
  <1>4. OneWriter(id)'
    BY <1>3 DEF OneWriter
  <1>5. OnePlace(id)'
    BY <1>2 DEF Good, OnePlace
  <1>6. Owed(id)'
    BY <1>2, <1>3 DEF Owed
  <1>. QED  BY <1>2, <1>3, <1>4, <1>5, <1>6 DEF Good

\* What is owed when the only request for the secret is that of t.
LEMMA OwedBy ==
  ASSUME NEW t \in Threads, NEW id, Good(id), For(t, id)
  PROVE  /\ Writer(t, id)
         /\ \A e \in Views(id) : \A v \in MayBe(id, e) : v \in promised[id] \/ v \in Left(t)
  BY DEF Good, Owed, OneWriter

LEMMA RewriteChanges ==
  ASSUME TypeInv, NEW id \in Secrets, NEW path \in Paths, NEW value \in Content,
         Rewrite(id, path, value)
  PROVE  /\ \A i \in Secrets : i # id => values'[i] = values[i]
         /\ values'[id][path] = value
         /\ \A p \in Paths : p # path => values'[id][p] = values[id][p]
         /\ \A e \in Entries : \A v \in MayBe(id, e)' : v \in MayBe(id, e) \/ v = value
  <1>1. values \in [Secrets -> [Paths -> Content]]
    BY DEF TypeInv
  <1>2. /\ \A i \in Secrets : i # id => values'[i] = values[i]
        /\ values'[id][path] = value
        /\ \A p \in Paths : p # path => values'[id][p] = values[id][p]
    BY <1>1 DEF Rewrite
  <1>3. ASSUME NEW e \in Entries, NEW v \in MayBe(id, e)'
        PROVE  v \in MayBe(id, e) \/ v = value
    <2>1. CASE e = Absent
      BY <2>1, <1>3, Types DEF MayBe, ResolvedBy
    <2>2. CASE e # Absent
      <3>1. e.path \in Paths
        BY <2>2, Types
      <3>2. values'[id][e.path] = values[id][e.path] \/ values'[id][e.path] = value
        BY <1>2, <3>1
      <3>. QED  BY <2>2, <3>2, <1>3 DEF MayBe, ResolvedBy
    <2>. QED  BY <2>1, <2>2
  <1>. QED  BY <1>2, <1>3

LEMMA ViewTypes ==
  ASSUME TypeInv, NEW id \in Secrets
  PROVE  Views(id) \subseteq Entries
  <1>1. registry[id] \in Entries
    BY DEF TypeInv
  <1>2. \A u \in Threads : thread[u].at = "save" => thread[u].copy[id] \in Entries
    BY DEF TypeInv, Fits
  <1>. QED  BY <1>1, <1>2 DEF Views

-----------------------------------------------------------------------------
(* The steps of a request keep what is known of every secret.              *)

LEMMA GetKeeps ==
  ASSUME TypeInv, PromiseInv, NEW t \in Threads, Get(t), NEW id \in Secrets \ clashed
  PROVE  Good(id)'
  <1> DEFINE me == thread[t]
  <1>1. /\ Good(id) /\ registry[id] \in Views(id) /\ Writing(t) /\ Left(t) = {}
        /\ UNCHANGED <<registry, values, promised>>
    BY InView DEF PromiseInv, Get, At, Writing, Places, History, Left, Cut
  <1>2. PICK x : /\ Becomes(t, x) /\ Fits(x)
                 /\ \/ x = Resting
                    \/ /\ Same(x, me) /\ me.op \in Ops
                       /\ x.entry = registry[me.id]
                       /\ me.op = "put" \/ registry[me.id] \in Entry
                       /\ x.at = CASE me.op = "validate" -> "check"
                                   [] me.op = "revoke" -> "delete"
                                   [] OTHER -> "store"
    BY GetDoes
  <1>3. thread'[t] = x /\ \A u \in Threads \ {t} : thread'[u] = thread[u]
    BY <1>2, BecomesGives
  <1>4. x.at # "save" /\ (x.at \in Places => Same(x, me))
    <2>1. CASE x = Resting
      BY <2>1, RestingFits
    <2>2. CASE x # Resting
      BY <1>2, <2>2
    <2>. QED  BY <2>1, <2>2
  <1>5. CASE ~For(t, id)
    BY <1>1, <1>2, <1>4, <1>5, StepOfAnother DEF For, Same
  <1>6. CASE For(t, id) /\ x = Resting
    <2>1. \A u \in Threads : ~For(u, id)'
      BY <1>1, <1>3, <1>6, RestingFits DEF For, Writing, Good, OneWriter
    <2>2. Views(id)' \subseteq Views(id)
      BY <1>1, <1>3, <1>6, FewerViews, RestingFits
    <2>3. Owed(id)'
      BY <1>1, <1>6, <2>1, <2>2, OwedBy DEF Owed, MayBe, ResolvedBy
    <2>4. OnePlace(id)'
      BY <1>1, <2>2 DEF Good, OnePlace
    <2>. QED  BY <2>1, <2>3, <2>4 DEF Good, OneWriter
  <1>7. CASE For(t, id) /\ x # Resting
    <2>1. /\ Same(x, me) /\ me.op \in Ops /\ me.id = id /\ x.id = id
          /\ x.entry = registry[id]
          /\ me.op = "put" \/ registry[id] \in Entry
          /\ x.at = CASE me.op = "validate" -> "check"
                      [] me.op = "revoke" -> "delete"
                      [] OTHER -> "store"
      BY <1>2, <1>7 DEF For, Same
    <2>2. x.at \in {"check", "delete", "store"} /\ x.at \in Places
      BY <2>1 DEF Places
    <2>3. /\ Writer(t, id)
          /\ \A e \in Views(id) : \A v \in MayBe(id, e) : v \in promised[id]
      BY <1>1, <1>7, OwedBy
    <2>4. \A e \in Views(id) : \A v \in MayBe(id, e)' : v \in promised'[id]
      BY <1>1, <2>3 DEF MayBe, ResolvedBy
    <2>5. ASSUME Views(id)' \subseteq Views(id)
          PROVE  Writer(t, id)'
      <3>1. x.moves => \A u \in Threads : Writing(u)' => u = t
        BY <1>3, <2>1, <2>3 DEF Writer, Writing, Same
      <3>2. x.op \in Writes /\ ~x.moves =>
               \A e \in Views(id)' : e # Absent /\ e.state # "revoked" /\ e.path = x.path
        BY <2>1, <2>3, <2>5 DEF Writer, Same
      <3>3. ~(x.op \in Writes /\ x.at \in {"delete old", "check", "load", "save"})
        BY <2>1 DEF Same, Writes
      <3>4. x.op \notin Writes => registry'[id] # Absent /\ x.entry.path = registry'[id].path
        BY <1>1, <2>1, Types DEF Same, Writes
      <3>5. MayBe(id, x.entry)' \subseteq promised'[id]
        BY <1>1, <1>3, <2>1, <2>4 DEF MayBe, ResolvedBy
      <3>. QED
        BY <1>3, <2>2, <3>1, <3>2, <3>3, <3>4, <3>5 DEF Writer, MayBe, ResolvedBy
    <2>. QED  BY <1>1, <1>2, <1>7, <2>1, <2>2, <2>4, <2>5, StepOfOwn
  <1>. QED  BY <1>5, <1>6, <1>7

LEMMA StoreKeeps ==
  ASSUME TypeInv, PromiseInv, NEW t \in Threads, Store(t), NEW id \in Secrets \ clashed
  PROVE  Good(id)'
  <1> DEFINE me == thread[t]
  <1>1. /\ Good(id) /\ registry[id] \in Views(id) /\ Writing(t) /\ Left(t) = {}
        /\ Rewrite(me.id, me.path, me.value) /\ UNCHANGED <<registry, promised>>
    BY InView DEF PromiseInv, Store, At, Writing, Places, History, Left
  <1>2. me.op \in Writes /\ me.id \in Secrets /\ me.path \in Paths /\ me.value \in Content
    BY StoreDoes, Types
  <1>3. PICK x : /\ Becomes(t, x) /\ Fits(x) /\ Same(x, me)
                 /\ x.old = me.old /\ x.entry = Stored(me.path)
                 /\ x.at \in {"delete old", "check", "load"}
    BY StoreDoes
  <1>4. thread'[t] = x /\ \A u \in Threads \ {t} : thread'[u] = thread[u]
    BY <1>3, BecomesGives
  <1>5. x.at # "save" /\ x.at \in Places /\ x.at # "store"
    BY <1>3 DEF Places
  <1>6. /\ \A i \in Secrets : i # me.id => values'[i] = values[i]
        /\ me.id = id => /\ values'[id][me.path] = me.value
                         /\ \A e \in Entries : \A v \in MayBe(id, e)' :
                              v \in MayBe(id, e) \/ v = me.value
    BY <1>1, <1>2, RewriteChanges
  <1>7. CASE ~For(t, id)
    <2>1. me.id # id
      BY <1>1, <1>7 DEF For
    <2>2. values'[id] = values[id]
      BY <1>6, <2>1
    <2>. QED  BY <1>1, <1>3, <1>5, <1>7, <2>1, <2>2, StepOfAnother DEF Same
  <1>8. CASE For(t, id)
    <2>1. me.id = id /\ x.id = id /\ x.op = me.op /\ x.value = me.value /\ x.path = me.path
      BY <1>3, <1>8 DEF For, Same
    <2>2. /\ Writer(t, id)
          /\ \A e \in Views(id) : e \in Entries /\ \A v \in MayBe(id, e) : v \in promised[id]
      BY <1>1, <1>8, OwedBy, ViewTypes
    <2>3. me.value \in Left(t)'
      BY <1>2, <1>3, <1>4, <2>1 DEF Left, Cut, Writes
    <2>4. \A e \in Views(id) : \A v \in MayBe(id, e)' : v \in promised'[id] \/ v \in Left(t)'
      BY <1>1, <1>6, <2>1, <2>2, <2>3
    <2>5. ASSUME Views(id)' \subseteq Views(id)
          PROVE  Writer(t, id)'
      <3>1. x.moves => \A u \in Threads : Writing(u)' => u = t
        BY <1>3, <1>4, <2>2 DEF Writer, Writing, Same
      <3>2. x.op \in Writes /\ ~x.moves =>
               \A e \in Views(id)' : e # Absent /\ e.state # "revoked" /\ e.path = x.path
        BY <1>3, <2>2, <2>5 DEF Writer, Same
      <3>3. values'[id][x.path] = x.value /\ x.entry.path = x.path /\ x.entry.state # "revoked"
        <4>1. Stored(me.path).path = me.path /\ Stored(me.path).state # "revoked"
          BY <1>2, EntriesMade
        <4>. QED  BY <1>3, <1>6, <2>1, <4>1
      <3>4. x.op \in Writes /\ x.op # "validate" /\ x.op # "revoke"
        BY <1>2, <2>1 DEF Writes
      <3>. QED  BY <1>4, <3>1, <3>2, <3>3, <3>4 DEF Writer
    <2>. QED  BY <1>1, <1>3, <1>5, <1>8, <2>1, <2>4, <2>5, StepOfOwn
  <1>. QED  BY <1>7, <1>8

LEMMA DeleteOldKeeps ==
  ASSUME TypeInv, PromiseInv, NEW t \in Threads, DeleteOld(t), NEW id \in Secrets \ clashed
  PROVE  Good(id)'
  <1> DEFINE me == thread[t]
  <1>1. /\ Good(id) /\ registry[id] \in Views(id) /\ Writing(t) /\ me.at = "delete old"
        /\ Rewrite(me.id, me.old.path, Gone) /\ UNCHANGED <<registry, promised>>
    BY InView DEF PromiseInv, DeleteOld, At, Writing, Places, History
  <1>2. /\ me.op = "rotate" /\ me.id \in Secrets /\ me.path \in Paths
        /\ me.old.path \in Paths /\ me.old.path # me.path
    BY DeleteOldDoes
  <1>3. PICK x : /\ Becomes(t, x) /\ Fits(x) /\ Same(x, me)
                 /\ x.old = me.old /\ x.entry = me.entry /\ x.at \in {"check", "load"}
    BY DeleteOldDoes
  <1>4. thread'[t] = x /\ \A u \in Threads \ {t} : thread'[u] = thread[u]
    BY <1>3, BecomesGives
  <1>5. x.at # "save" /\ x.at \in Places /\ x.at # "store"
    BY <1>3 DEF Places
  <1>6. /\ \A i \in Secrets : i # me.id => values'[i] = values[i]
        /\ me.id = id => /\ values'[id][me.path] = values[id][me.path]
                         /\ \A e \in Entries : \A v \in MayBe(id, e)' :
                              v \in MayBe(id, e) \/ v = Gone
    <2>1. Gone \in Content
      BY Types
    <2>2. PICK key \in Secrets, old \in Paths : key = me.id /\ old = me.old.path
      BY <1>2
    <2>3. Rewrite(key, old, Gone)
      BY <1>1, <2>2
    <2>4. /\ \A i \in Secrets : i # key => values'[i] = values[i]
          /\ \A p \in Paths : p # old => values'[key][p] = values[key][p]
          /\ \A e \in Entries : \A v \in MayBe(key, e)' : v \in MayBe(key, e) \/ v = Gone
      BY <2>1, <2>3, RewriteChanges
    <2>. QED  BY <1>2, <2>2, <2>4
  <1>7. CASE ~For(t, id)
    <2>1. me.id # id
      BY <1>1, <1>7 DEF For
    <2>2. values'[id] = values[id]
      BY <1>6, <2>1
    <2>. QED  BY <1>1, <1>3, <1>5, <1>7, <2>1, <2>2, StepOfAnother DEF Same
  <1>8. CASE For(t, id)
    <2>1. /\ me.id = id /\ x.id = id /\ x.op = "rotate" /\ x.value = me.value
          /\ x.path = me.path /\ x.old.path # x.path
      BY <1>2, <1>3, <1>8 DEF For, Same
    <2>2. /\ Writer(t, id)
          /\ \A e \in Views(id) : e \in Entries /\ \A v \in MayBe(id, e) :
               v \in promised[id] \/ v \in Left(t)
      BY <1>1, <1>8, OwedBy, ViewTypes
    <2>3. Left(t) = {me.value} /\ Left(t)' = {me.value, Gone}
      BY <1>1, <1>3, <1>4, <2>1 DEF Left, Cut
    <2>4. \A e \in Views(id) : \A v \in MayBe(id, e)' : v \in promised'[id] \/ v \in Left(t)'
      BY <1>1, <1>6, <2>1, <2>2, <2>3
    <2>5. ASSUME Views(id)' \subseteq Views(id)
          PROVE  Writer(t, id)'
      <3>1. x.moves => \A u \in Threads : Writing(u)' => u = t
        BY <1>3, <1>4, <2>2 DEF Writer, Writing, Same
      <3>2. x.op \in Writes /\ ~x.moves =>
               \A e \in Views(id)' : e # Absent /\ e.state # "revoked" /\ e.path = x.path
        BY <1>3, <2>2, <2>5 DEF Writer, Same
      <3>3. values'[id][x.path] = x.value /\ x.entry.path = x.path /\ x.entry.state # "revoked"
        BY <1>1, <1>2, <1>3, <1>6, <2>1, <2>2 DEF Writer, Writes
      <3>4. x.op \in Writes /\ x.op # "validate" /\ x.op # "revoke"
        BY <2>1 DEF Writes
      <3>. QED  BY <1>4, <3>1, <3>2, <3>3, <3>4 DEF Writer
    <2>. QED  BY <1>1, <1>3, <1>5, <1>8, <2>1, <2>4, <2>5, StepOfOwn
  <1>. QED  BY <1>7, <1>8

LEMMA CheckKeeps ==
  ASSUME TypeInv, PromiseInv, NEW t \in Threads, Check(t), NEW id \in Secrets \ clashed
  PROVE  Good(id)'
  <1> DEFINE me == thread[t]
  <1>1. /\ Good(id) /\ registry[id] \in Views(id) /\ Writing(t) /\ me.at = "check"
        /\ UNCHANGED <<registry, values, promised>>
    BY InView DEF PromiseInv, Check, At, Writing, Places, History
  <1>2. /\ me.op \in Ops /\ me.op # "revoke" /\ me.id \in Secrets /\ me.entry \in Entry
    BY CheckDoes
  <1>3. PICK x : /\ Becomes(t, x) /\ Fits(x) /\ Same(x, me)
                 /\ x.old = me.old /\ x.entry = Checked(me.id, me.entry) /\ x.at = "load"
    BY CheckDoes
  <1>4. thread'[t] = x /\ \A u \in Threads \ {t} : thread'[u] = thread[u]
    BY <1>3, BecomesGives
  <1>5. x.at # "save" /\ x.at \in Places /\ x.at # "store"
    BY <1>3 DEF Places
  <1>6. CASE ~For(t, id)
    BY <1>1, <1>3, <1>5, <1>6, StepOfAnother DEF For, Same
  <1>7. CASE For(t, id)
    <2>1. /\ me.id = id /\ x.id = id /\ x.op = me.op /\ x.value = me.value /\ x.path = me.path
          /\ x.old = me.old
      BY <1>3, <1>7 DEF For, Same
    <2>2. /\ Writer(t, id)
          /\ \A e \in Views(id) : \A v \in MayBe(id, e) : v \in promised[id] \/ v \in Left(t)
      BY <1>1, <1>7, OwedBy
    <2>3. Left(t)' = Left(t)
      BY <1>1, <1>2, <1>3, <1>4, <2>1 DEF Left, Cut
    <2>4. \A e \in Views(id) : \A v \in MayBe(id, e)' : v \in promised'[id] \/ v \in Left(t)'
      BY <1>1, <2>2, <2>3 DEF MayBe, ResolvedBy
    <2>5. /\ x.entry \in Entry /\ x.entry.path = me.entry.path
          /\ x.entry.state = "revoked" => me.entry.state = "revoked"
          /\ MayBe(id, x.entry) \subseteq MayBe(id, me.entry)
      <3>1. /\ x.entry \in Entry /\ x.entry.path = me.entry.path
            /\ x.entry.state = "revoked" => me.entry.state = "revoked"
        BY <1>2, <1>3, <2>1, CheckedEntries
      <3>2. /\ me.entry # Absent /\ me.entry.state # "absent"
            /\ x.entry # Absent /\ x.entry.state # "absent"
        BY <1>2, <3>1, Types
      <3>. QED  BY <3>1, <3>2 DEF MayBe, ResolvedBy
    <2>6. ASSUME Views(id)' \subseteq Views(id)
          PROVE  Writer(t, id)'
      <3>1. x.moves => \A u \in Threads : Writing(u)' => u = t
        BY <1>3, <1>4, <2>2 DEF Writer, Writing, Same
      <3>2. x.op \in Writes /\ ~x.moves =>
               \A e \in Views(id)' : e # Absent /\ e.state # "revoked" /\ e.path = x.path
        BY <1>3, <2>2, <2>6 DEF Writer, Same
      <3>3. x.op \in Writes => values'[id][x.path] = x.value /\ x.entry.path = x.path
                               /\ x.entry.state # "revoked"
        BY <1>1, <2>1, <2>2, <2>5 DEF Writer
      <3>4. x.op \notin Writes => registry'[id] # Absent /\ x.entry.path = registry'[id].path
        BY <1>1, <2>1, <2>2, <2>5 DEF Writer
      <3>5. x.op = "validate" => MayBe(id, x.entry) \subseteq promised[id]
        BY <1>1, <2>1, <2>2, <2>5 DEF Writer
      <3>6. x.op # "revoke"
        BY <1>2, <2>1
      <3>. QED
        BY <1>1, <1>4, <3>1, <3>2, <3>3, <3>4, <3>5, <3>6 DEF Writer, MayBe, ResolvedBy
    <2>. QED  BY <1>1, <1>3, <1>5, <1>7, <2>1, <2>4, <2>6, StepOfOwn
  <1>. QED  BY <1>6, <1>7

LEMMA DeleteKeeps ==
  ASSUME TypeInv, PromiseInv, NEW t \in Threads, Delete(t), NEW id \in Secrets \ clashed
  PROVE  Good(id)'
  <1> DEFINE me == thread[t]
  <1>1. /\ Good(id) /\ registry[id] \in Views(id) /\ Writing(t) /\ me.at = "delete"
        /\ Rewrite(me.id, me.entry.path, Gone) /\ UNCHANGED <<registry, promised>>
    BY InView DEF PromiseInv, Delete, At, Writing, Places, History
  <1>2. me.op = "revoke" /\ me.id \in Secrets /\ me.entry \in Entry
    BY DeleteDoes
  <1>3. PICK x : /\ Becomes(t, x) /\ Fits(x) /\ Same(x, me)
                 /\ x.entry = Revoked(me.entry) /\ x.at = "load"
    BY DeleteDoes
  <1>4. thread'[t] = x /\ \A u \in Threads \ {t} : thread'[u] = thread[u]
    BY <1>3, BecomesGives
  <1>5. x.at # "save" /\ x.at \in Places /\ x.at # "store"
    BY <1>3 DEF Places
  <1>6. x.entry.path = me.entry.path
    BY <1>2, <1>3, EntriesMade
  <1>7. /\ \A i \in Secrets : i # me.id => values'[i] = values[i]
        /\ me.id = id => /\ values'[id][me.entry.path] = Gone
                         /\ \A e \in Entries : \A v \in MayBe(id, e)' :
                              v \in MayBe(id, e) \/ v = Gone
    <2>1. Gone \in Content /\ me.entry.path \in Paths
      BY <1>2, Types
    <2>2. PICK key \in Secrets, path \in Paths : key = me.id /\ path = me.entry.path
      BY <1>2, <2>1
    <2>3. Rewrite(key, path, Gone)
      BY <1>1, <2>2
    <2>4. /\ \A i \in Secrets : i # key => values'[i] = values[i]
          /\ values'[key][path] = Gone
          /\ \A e \in Entries : \A v \in MayBe(key, e)' : v \in MayBe(key, e) \/ v = Gone
      BY <2>1, <2>3, RewriteChanges
    <2>. QED  BY <2>2, <2>4
  <1>8. CASE ~For(t, id)
    <2>1. me.id # id
      BY <1>1, <1>8 DEF For
    <2>2. values'[id] = values[id]
      BY <1>7, <2>1
    <2>. QED  BY <1>1, <1>3, <1>5, <1>8, <2>1, <2>2, StepOfAnother DEF Same
  <1>9. CASE For(t, id)
    <2>1. me.id = id /\ x.id = id /\ x.op = "revoke"
      BY <1>2, <1>3, <1>9 DEF For, Same
    <2>2. /\ Writer(t, id)
          /\ \A e \in Views(id) : e \in Entries /\ \A v \in MayBe(id, e) :
               v \in promised[id] \/ v \in Left(t)
      BY <1>1, <1>9, OwedBy, ViewTypes
    <2>3. Left(t) = {} /\ Left(t)' = {Gone}
      BY <1>1, <1>3, <1>4, <2>1 DEF Left, Cut
    <2>4. \A e \in Views(id) : \A v \in MayBe(id, e)' : v \in promised'[id] \/ v \in Left(t)'
      BY <1>1, <1>7, <2>1, <2>2, <2>3
    <2>5. Writer(t, id)'
      <3>1. x.moves => \A u \in Threads : Writing(u)' => u = t
        BY <1>3, <1>4, <2>2 DEF Writer, Writing, Same
      <3>2. x.op \notin Writes /\ x.op # "validate"
        BY <2>1 DEF Writes
      <3>3. registry'[id] # Absent /\ x.entry.path = registry'[id].path
        BY <1>1, <1>2, <1>6, <2>2 DEF Writer, Writes
      <3>4. values'[id][x.entry.path] = Gone
        BY <1>6, <1>7, <2>1
      <3>. QED  BY <1>4, <3>1, <3>2, <3>3, <3>4 DEF Writer
    <2>. QED  BY <1>1, <1>3, <1>5, <1>9, <2>1, <2>4, <2>5, StepOfOwn
  <1>. QED  BY <1>8, <1>9

LEMMA LoadKeeps ==
  ASSUME TypeInv, PromiseInv, NEW t \in Threads, Load(t), NEW id \in Secrets \ clashed
  PROVE  Good(id)'
  <1> DEFINE me == thread[t]
  <1>1. /\ Good(id) /\ registry[id] \in Views(id) /\ Writing(t) /\ me.at = "load"
        /\ UNCHANGED <<registry, values, promised>>
    BY InView DEF PromiseInv, Load, At, Writing, Places, History
  <1>2. PICK x : /\ Becomes(t, x) /\ Fits(x) /\ Same(x, me)
                 /\ x.old = me.old /\ x.entry = me.entry /\ x.copy = registry /\ x.at = "save"
    BY LoadDoes
  <1>3. thread'[t] = x /\ \A u \in Threads \ {t} : thread'[u] = thread[u]
    BY <1>2, BecomesGives
  <1>4. x.at \in Places
    BY <1>2 DEF Places
  <1>5. CASE ~For(t, id)
    BY <1>1, <1>2, <1>4, <1>5, StepOfAnother DEF For, Same
  <1>6. CASE For(t, id)
    <2>1. /\ me.id = id /\ x.id = id /\ x.op = me.op /\ x.value = me.value /\ x.path = me.path
          /\ x.old = me.old
      BY <1>2, <1>6 DEF For, Same
    <2>2. /\ Writer(t, id)
          /\ \A e \in Views(id) : \A v \in MayBe(id, e) : v \in promised[id] \/ v \in Left(t)
      BY <1>1, <1>6, OwedBy
    <2>3. Left(t)' = Left(t)
      BY <1>1, <1>2, <1>3, <2>1 DEF Left, Cut
    <2>4. \A e \in Views(id) : \A v \in MayBe(id, e)' : v \in promised'[id] \/ v \in Left(t)'
      BY <1>1, <2>2, <2>3 DEF MayBe, ResolvedBy
    <2>5. ASSUME Views(id)' \subseteq Views(id)
          PROVE  Writer(t, id)'
      <3>1. x.moves => \A u \in Threads : Writing(u)' => u = t
        BY <1>2, <1>3, <2>2 DEF Writer, Writing, Same
      <3>2. x.op \in Writes /\ ~x.moves =>
               \A e \in Views(id)' : e # Absent /\ e.state # "revoked" /\ e.path = x.path
        BY <1>2, <2>2, <2>5 DEF Writer, Same
      <3>3. x.op \in Writes => values'[id][x.path] = x.value /\ x.entry.path = x.path
                               /\ x.entry.state # "revoked"
        BY <1>1, <1>2, <2>1, <2>2 DEF Writer
      <3>4. x.op \notin Writes => registry'[id] # Absent /\ x.entry.path = registry'[id].path
        BY <1>1, <1>2, <2>1, <2>2 DEF Writer
      <3>5. x.op = "validate" => MayBe(id, x.entry) \subseteq promised[id]
        BY <1>1, <1>2, <2>1, <2>2 DEF Writer
      <3>6. x.op = "revoke" => values'[id][x.entry.path] = Gone
        BY <1>1, <1>2, <2>1, <2>2 DEF Writer
      <3>. QED
        BY <1>1, <1>3, <3>1, <3>2, <3>3, <3>4, <3>5, <3>6 DEF Writer, MayBe, ResolvedBy
    <2>. QED  BY <1>1, <1>2, <1>4, <1>6, <2>1, <2>4, <2>5, StepOfOwn
  <1>. QED  BY <1>5, <1>6

\* What the entries come to when the request for the secret saves its own.
LEMMA SaveKeeps ==
  ASSUME TypeInv, PromiseInv, NEW t \in Threads, Save(t), NEW id \in Secrets \ clashed
  PROVE  Good(id)'
  <1> DEFINE me == thread[t]
  <1>1. /\ Good(id) /\ Writing(t) /\ me.at = "save" /\ UNCHANGED values
        /\ registry' = [me.copy EXCEPT ![me.id] = me.entry]
        /\ me.op = "validate" => UNCHANGED promised
        /\ me.op # "validate" => Kept(me)
    BY DEF PromiseInv, Save, At, Writing, Places
  <1>2. /\ me.op \in Ops /\ me.id \in Secrets /\ me.entry \in Entry
        /\ me.copy \in [Secrets -> Entries]
    BY SaveDoes
  <1>3. PICK x : Becomes(t, x) /\ Fits(x) /\ ~(x.at \in Places)
    BY SaveDoes
  <1>4. thread'[t] = x /\ \A u \in Threads \ {t} : thread'[u] = thread[u]
    BY <1>3, BecomesGives
  <1>5. x.at # "save"
    BY <1>3 DEF Places
  <1>6. promised \in [Secrets -> SUBSET Content]
    BY DEF TypeInv
  <1>7. CASE ~For(t, id)
    <2>1. me.id # id
      BY <1>1, <1>7 DEF For
    <2>2. registry'[id] = me.copy[id]
      BY <1>1, <1>2, <2>1
    <2>3. me.copy[id] \in Views(id)
      BY <1>1, <2>1 DEF Views
    <2>4. promised'[id] = promised[id]
      BY <1>1, <1>6, <2>1 DEF Kept
    <2>. QED  BY <1>1, <1>3, <1>5, <1>7, <2>2, <2>3, <2>4, StepOfAnother
  <1>8. CASE For(t, id)
    <2>1. me.id = id /\ registry'[id] = me.entry
      BY <1>1, <1>2, <1>8 DEF For
    <2>2. /\ Writer(t, id)
          /\ \A e \in Views(id) : e \in Entries /\ \A v \in MayBe(id, e) :
               v \in promised[id] \/ v \in Left(t)
      BY <1>1, <1>8, OwedBy, ViewTypes
    <2>3. \A u \in Threads : ~For(u, id)'
      BY <1>1, <1>3, <1>4, <1>8 DEF For, Writing, Good, OneWriter
    <2>4. \A e \in Views(id)' :
             \/ e = me.entry
             \/ e \in Views(id) /\ \E u \in Threads \ {t} : thread[u].at = "save"
      BY <1>4, <1>5, <2>1 DEF Views
    <2>5. \A e : MayBe(id, e)' = MayBe(id, e)
      BY <1>1, MayBeSame
    <2>6. me.entry # Absent /\ me.entry \in Entries /\ me.entry.state # "absent"
      BY <1>2, Types
    <2>7. \A e \in Entries : e # Absent => e.state # "absent"
      BY Types
    <2>8. \A e \in Views(id)' : /\ e.path = me.entry.path /\ e # Absent
                                /\ MayBe(id, e) \subseteq promised'[id]
      <3>1. CASE me.op \in Writes
        <4>1. promised'[id] = {me.value}
          BY <1>1, <1>6, <2>1, <3>1 DEF Kept, Writes
        <4>2. /\ values[id][me.path] = me.value
              /\ me.entry.path = me.path /\ me.entry.state # "revoked"
          BY <1>1, <2>2, <3>1 DEF Writer
        <4>3. \A e \in Views(id)' : e = me.entry \/
                 (e # Absent /\ e \in Entries /\ e.state # "revoked" /\ e.path = me.path)
          BY <2>2, <2>4, <3>1 DEF Writer, Writing, Places
        <4>. QED  BY <2>6, <2>7, <4>1, <4>2, <4>3 DEF MayBe, ResolvedBy
      <3>2. CASE me.op = "revoke"
        <4>1. promised'[id] = {Gone}
          BY <1>1, <1>6, <2>1, <3>2 DEF Kept
        <4>2. /\ registry[id] # Absent /\ me.entry.path = registry[id].path
              /\ values[id][me.entry.path] = Gone
          BY <1>1, <2>2, <3>2 DEF Writer, Writes
        <4>3. \A e \in Views(id)' : e # Absent /\ e.path = me.entry.path
          BY <1>1, <2>4, <2>6, <4>2 DEF Good, OnePlace
        <4>. QED  BY <4>1, <4>2, <4>3 DEF MayBe, ResolvedBy
      <3>3. CASE me.op = "validate"
        <4>1. promised'[id] = promised[id] /\ Left(t) = {}
          BY <1>1, <3>3 DEF Left, Cut
        <4>2. /\ registry[id] # Absent /\ me.entry.path = registry[id].path
              /\ MayBe(id, me.entry) \subseteq promised[id]
          BY <1>1, <2>2, <3>3 DEF Writer, Writes
        <4>3. \A e \in Views(id)' : e # Absent /\ e.path = me.entry.path
          BY <1>1, <2>4, <2>6, <4>2 DEF Good, OnePlace
        <4>. QED  BY <2>2, <2>4, <4>1, <4>2, <4>3
      <3>. QED  BY <1>2, <3>1, <3>2, <3>3 DEF Ops, Writes
    <2>9. OneWriter(id)'
      BY <2>3 DEF OneWriter
    <2>10. OnePlace(id)'
      BY <2>1, <2>6, <2>8 DEF OnePlace
    <2>11. Owed(id)'
      BY <2>5, <2>8 DEF Owed
    <2>. QED  BY <2>3, <2>9, <2>10, <2>11 DEF Good
  <1>. QED  BY <1>7, <1>8

\* Resolving secrets and giving workers write nothing.
LEMMA IdleStepKeeps ==
  ASSUME TypeInv, PromiseInv, NEW t \in Threads, NEW x, Becomes(t, x), Fits(x),
         ~Writing(t), x.at \notin Places, UNCHANGED <<registry, values, promised>>,
         NEW id \in Secrets \ clashed
  PROVE  Good(id)'
  <1>1. Good(id) /\ registry[id] \in Views(id) /\ ~For(t, id)
    BY InView DEF PromiseInv, For
  <1>2. x.at # "save"
    BY DEF Places
  <1>. QED  BY <1>1, <1>2, StepOfAnother

\* A request that arrives for the secret and does not clash.
LEMMA Arrival ==
  ASSUME TypeInv, NEW t \in Threads, NEW x, Becomes(t, x), Fits(x), x.at = "get",
         NEW id \in Secrets, x.id = id, ~Writing(t), UNCHANGED <<registry, values>>,
         \A u \in Threads : ~For(u, id),
         \A u \in Threads \ {t} : Writing(u) => ~x.moves,
         x.op \in Writes /\ ~x.moves =>
           \A e \in Views(id) : e # Absent /\ e.state # "revoked" /\ e.path = x.path,
         OnePlace(id), \A e \in Views(id) : MayBe(id, e) \subseteq promised'[id]
  PROVE  Good(id)'
  <1>1. thread'[t] = x /\ \A u \in Threads \ {t} : thread'[u] = thread[u]
    BY BecomesGives
  <1>2. Views(id)' \subseteq Views(id)
    BY <1>1, InView, FewerViews
  <1>3. \A u \in Threads : For(u, id)' => u = t
    BY <1>1 DEF For, Writing
  <1>4. OneWriter(id)'
    BY <1>3 DEF OneWriter
  <1>5. OnePlace(id)'
    BY <1>2 DEF OnePlace
  <1>6. Owed(id)'
    BY <1>2 DEF Owed, MayBe, ResolvedBy
  <1>7. Writer(t, id)'
    <2>1. x.moves => \A u \in Threads : Writing(u)' => u = t
      BY <1>1 DEF Writing
    <2>. QED  BY <1>1, <1>2, <2>1 DEF Writer
  <1>. QED  BY <1>3, <1>4, <1>5, <1>6, <1>7 DEF Good

LEMMA NoOneOwes ==
  ASSUME NEW id, Good(id), \A u \in Threads : ~For(u, id)
  PROVE  OnePlace(id) /\ \A e \in Views(id) : MayBe(id, e) \subseteq promised[id]
  BY DEF Good, Owed

LEMMA AloneIsInPlace ==
  ASSUME NEW id, \A u \in Threads : ~Writing(u)
  PROVE  Views(id) = {registry[id]} /\ OnePlace(id)
  BY DEF Views, OnePlace, Writing, Places

LEMMA WriteKeeps ==
  ASSUME TypeInv, PromiseInv, NEW t \in Threads, Write(t), NEW id \in Secrets \ clashed'
  PROVE  Good(id)'
  <1>1. ~Writing(t) /\ UNCHANGED <<registry, values>>
    BY DEF Write, Receive, At, Writing, Places
  <1>2. PICK op \in Writes, i \in Secrets, path \in Paths, x \in Doing :
          /\ Becomes(t, x) /\ Fits(x) /\ x.at = "get" /\ x.op = op /\ x.id = i
          /\ x.path = path /\ x.moves = Moves(op, i, path)
          /\ clashed' = Clashes(t, op, i, path)
          /\ promised' = IF i \in clashed \ clashed'
                         THEN [promised EXCEPT ![i] = MayResolve(i)] ELSE promised
    BY WriteDoes
  <1>3. promised \in [Secrets -> SUBSET Content]
    BY DEF TypeInv
  <1> DEFINE others == {u \in Threads \ {t} : Writing(u)}
  <1>4. others = {} => clashed' = IF op = "put" THEN clashed \ {i} ELSE clashed
    BY <1>2 DEF Clashes
  <1>5. others # {} => /\ clashed \subseteq clashed'
                       /\ \A u \in others : thread[u].moves => thread[u].id \in clashed'
                       /\ i \notin clashed' => /\ ~Moves(op, i, path)
                                             /\ \A u \in others : thread[u].id # i
    BY <1>2 DEF Clashes
  <1>6. CASE id # i
    <2>1. id \notin clashed
      BY <1>4, <1>5, <1>6
    <2>2. Good(id) /\ registry[id] \in Views(id)
      BY <2>1, InView DEF PromiseInv
    <2>3. promised'[id] = promised[id]
      BY <1>2, <1>3, <1>6
    <2>4. \A u \in Threads : For(u, id) => ~thread[u].moves
      BY <1>1, <1>5 DEF For
    <2>. QED  BY <1>1, <1>2, <1>6, <2>2, <2>3, <2>4, StepOfAnother DEF For
  <1>7. CASE id = i
    <2>1. \A u \in Threads : ~For(u, id)
      BY <1>1, <1>5, <1>7 DEF For
    <2>2. \A u \in Threads \ {t} : Writing(u) => ~Moves(op, i, path)
      BY <1>5, <1>7
    <2>3. OnePlace(id) /\ \A e \in Views(id) : MayBe(id, e) \subseteq promised'[id]
      <3>1. CASE id \notin clashed
        BY <1>2, <1>7, <2>1, <3>1, NoOneOwes DEF PromiseInv
      <3>2. CASE id \in clashed
        <4>1. others = {}
          BY <1>5, <3>2
        <4>2. \A u \in Threads : ~Writing(u)
          BY <1>1, <4>1
        <4>3. promised'[id] = MayResolve(id)
          BY <1>2, <1>3, <1>7, <3>2
        <4>4. Views(id) = {registry[id]} /\ OnePlace(id)
          BY <4>2, AloneIsInPlace
        <4>. QED  BY <4>3, <4>4 DEF MayResolve, MayBe, Resolved
      <3>. QED  BY <3>1, <3>2
    <2>4. ~Moves(op, i, path) =>
             \A e \in Views(id) : e # Absent /\ e.state # "revoked" /\ e.path = x.path
      BY <1>2, <1>7 DEF Moves, Writes
    <2>. QED  BY <1>1, <1>2, <1>7, <2>1, <2>2, <2>3, <2>4, Arrival
  <1>. QED  BY <1>6, <1>7

LEMMA VisitKeeps ==
  ASSUME TypeInv, PromiseInv, NEW t \in Threads, Visit(t), NEW id \in Secrets \ clashed'
  PROVE  Good(id)'
  <1>1. ~Writing(t) /\ UNCHANGED <<registry, values, promised>>
    BY DEF Visit, Receive, At, Writing, Places
  <1>2. PICK op \in {"validate", "revoke"}, i \in Secrets, x \in Doing :
          /\ Becomes(t, x) /\ Fits(x) /\ x.at = "get" /\ x.op = op /\ x.id = i
          /\ x.moves = FALSE /\ clashed' = Clashes(t, op, i, "none")
    BY VisitDoes
  <1> DEFINE others == {u \in Threads \ {t} : Writing(u)}
  <1>3. others = {} => clashed' = clashed
    BY <1>2 DEF Clashes
  <1>4. others # {} => /\ clashed \subseteq clashed'
                       /\ \A u \in others : thread[u].moves => thread[u].id \in clashed'
                       /\ i \notin clashed' => \A u \in others : thread[u].id # i
    BY <1>2 DEF Clashes
  <1>5. Good(id) /\ registry[id] \in Views(id)
    BY <1>3, <1>4, InView DEF PromiseInv
  <1>6. CASE id # i
    <2>1. \A u \in Threads : For(u, id) => ~thread[u].moves
      BY <1>1, <1>4 DEF For
    <2>. QED  BY <1>1, <1>2, <1>5, <1>6, <2>1, StepOfAnother DEF For
  <1>7. CASE id = i
    <2>1. \A u \in Threads : ~For(u, id)
      BY <1>1, <1>4, <1>7 DEF For
    <2>2. OnePlace(id) /\ \A e \in Views(id) : MayBe(id, e) \subseteq promised'[id]
      BY <1>1, <1>5, <2>1, NoOneOwes
    <2>. QED  BY <1>1, <1>2, <1>7, <2>1, <2>2, Arrival DEF Writes
  <1>. QED  BY <1>6, <1>7

LEMMA CrashKeeps ==
  ASSUME TypeInv, PromiseInv, Crash, NEW id \in Secrets \ clashed
  PROVE  Good(id)'
  <1>1. /\ Good(id) /\ registry[id] \in Views(id) /\ registry[id] \in Entries
        /\ thread' = [t \in Threads |-> Resting] /\ UNCHANGED registry
    BY InView DEF PromiseInv, Crash, TypeInv
  <1>2. PICK torn \in SUBSET {t \in Threads : thread[t].at = "store"} :
          values' = [i \in Secrets |-> [path \in Paths |->
              IF \E t \in torn : thread[t].id = i /\ thread[t].path = path
              THEN Torn ELSE values[i][path]]]
    BY DEF Crash
  <1>3. promised'[id] = promised[id] \cup UNION {Cut(t) : t \in {t \in Threads : thread[t].id = id}}
    BY DEF Crash
  <1>4. \A t \in Threads : thread'[t].at = "rest" /\ ~Writing(t)'
    BY <1>1, RestingFits DEF Writing
  <1>5. Views(id)' = {registry[id]}
    BY <1>1, <1>4 DEF Views
  <1>6. \A v \in MayBe(id, registry[id]) : v \in promised'[id]
    <2>1. \A t \in Threads : For(t, id) => Left(t) \subseteq promised'[id]
      BY <1>3 DEF For, Left
    <2>. QED  BY <1>1, <1>3, <2>1 DEF Good, Owed
  <1>7. \A p \in Paths : values'[id][p] \in promised'[id] \/ values'[id][p] = values[id][p]
    <2> SUFFICES ASSUME NEW p \in Paths, values'[id][p] # values[id][p]
                 PROVE  values'[id][p] \in promised'[id]
      OBVIOUS
    <2>1. values'[id][p] = Torn
      BY <1>2
    <2>2. PICK t \in torn : thread[t].id = id
      BY <1>2
    <2>3. Cut(t) = {Torn}
      BY <1>2, <2>2 DEF Cut
    <2>. QED  BY <1>2, <1>3, <2>1, <2>2, <2>3
  <1>8. \A v \in MayBe(id, registry[id])' : v \in promised'[id]
    <2>1. CASE registry[id] = Absent
      BY <1>1, <1>6, <2>1, Types DEF MayBe, ResolvedBy
    <2>2. CASE registry[id] # Absent
      <3>1. registry[id].path \in Paths
        BY <1>1, <2>2, Types
      <3>. QED  BY <1>1, <1>6, <1>7, <2>2, <3>1 DEF MayBe, ResolvedBy
    <2>. QED  BY <2>1, <2>2
  <1>9. OnePlace(id)' /\ OneWriter(id)'
    BY <1>1, <1>4, <1>5 DEF OnePlace, OneWriter, For
  <1>10. Owed(id)'
    BY <1>1, <1>5, <1>8 DEF Owed, MayBe, ResolvedBy
  <1>. QED  BY <1>4, <1>9, <1>10 DEF Good, For

LEMMA SamePromise ==
  ASSUME UNCHANGED <<registry, values, thread, promised>>, NEW id, Good(id)
  PROVE  Good(id)'
  <1>1. Views(id)' \subseteq Views(id)
    BY DEF Views
  <1>2. \A u \in Threads : (For(u, id)' <=> For(u, id)) /\ (Writing(u)' <=> Writing(u))
    BY DEF For, Writing
  <1>. QED  BY <1>1, <1>2, Frame

LEMMA InitPromise == Init => PromiseInv
  <1> SUFFICES ASSUME Init, NEW id \in Secrets PROVE Good(id)
    BY DEF PromiseInv
  <1>1. \A t \in Threads : ~Writing(t) /\ thread[t].at = "rest"
    BY RestingFits DEF Init, Writing
  <1>2. Views(id) = {Absent} /\ registry[id] = Absent /\ promised[id] = {Gone}
    BY <1>1 DEF Init, Views
  <1>3. Owed(id)
    BY <1>2, Types DEF Owed, MayBe, ResolvedBy
  <1>. QED  BY <1>1, <1>2, <1>3 DEF Good, For, OneWriter, OnePlace

LEMMA PromiseStep == TypeInv /\ PromiseInv /\ [Next]_vars => PromiseInv'
  <1> SUFFICES ASSUME TypeInv, PromiseInv, [Next]_vars, NEW id \in Secrets \ clashed'
               PROVE  Good(id)'
    BY DEF PromiseInv
  <1>1. ASSUME NEW t \in Threads, Write(t) PROVE Good(id)'
    BY <1>1, WriteKeeps
  <1>2. ASSUME NEW t \in Threads, Visit(t) PROVE Good(id)'
    BY <1>2, VisitKeeps
  <1>3. ASSUME NEW t \in Threads, PutSettings(t) PROVE Good(id)'
    <2>1. ~Writing(t) /\ UNCHANGED <<registry, values, promised, clashed>>
      BY <1>3 DEF PutSettings, Receive, At, Writing, Places
    <2>2. PICK x : Becomes(t, x) /\ Fits(x) /\ x.at = "resolve"
      BY <1>3, PutSettingsDoes
    <2>. QED  BY <2>1, <2>2, IdleStepKeeps DEF Places
  <1>4. ASSUME NEW t \in Threads,
               Get(t) \/ Store(t) \/ DeleteOld(t) \/ Check(t) \/ Delete(t) \/ Load(t) \/ Save(t)
        PROVE  Good(id)'
    <2>1. UNCHANGED clashed
      BY <1>4 DEF Get, Store, DeleteOld, Check, Delete, Load, Save, History
    <2>. QED
      BY <1>4, <2>1, GetKeeps, StoreKeeps, DeleteOldKeeps, CheckKeeps, DeleteKeeps, LoadKeeps,
         SaveKeeps
  <1>5. ASSUME NEW t \in Threads, Resolve(t) \/ Clear(t) \/ Fill(t) PROVE Good(id)'
    <2>1. ~Writing(t) /\ UNCHANGED <<registry, values, promised, clashed>>
      BY <1>5 DEF Resolve, Clear, Fill, History, At, Writing, Places
    <2>2. PICK x : Becomes(t, x) /\ Fits(x) /\ x.at \notin Places
      BY <1>5, ResolveDoes, ClearDoes, FillDoes, RestingFits DEF Places
    <2>. QED  BY <2>1, <2>2, IdleStepKeeps
  <1>6. CASE Crash
    BY <1>6, CrashKeeps DEF Crash
  <1>7. CASE Restart \/ UNCHANGED vars
    BY <1>7, SamePromise DEF Restart, vars, PromiseInv
  <1>. QED  BY <1>1, <1>2, <1>3, <1>4, <1>5, <1>6, <1>7 DEF Next, Step

LEMMA PromiseImplies == PromiseInv => PromiseIsKept
  <1> SUFFICES ASSUME PromiseInv, NEW id \in Secrets \ clashed,
                      \A t \in Threads : ~(Writing(t) /\ thread[t].id = id)
               PROVE  Resolved(id) \in promised[id]
    BY DEF PromiseIsKept
  <1>1. \A e \in Views(id) : MayBe(id, e) \subseteq promised[id]
    BY NoOneOwes DEF PromiseInv, For
  <1>. QED  BY <1>1, InView DEF MayBe, Resolved

\* A secret resolves to what was last put or rotated in, and to nothing once it
\* is revoked, whichever requests for other secrets undo its entry, and after a
\* crash to one of the two (SecretApiService, JsonFileSecretRegistry.save).
THEOREM PromisesHold == Spec => []PromiseIsKept
  <1>1. Init => TypeInv /\ PromiseInv
    BY InitType, InitPromise
  <1>2. TypeInv /\ PromiseInv /\ [Next]_vars => TypeInv' /\ PromiseInv'
    BY TypeStep, PromiseStep
  <1>. QED  BY <1>1, <1>2, PromiseImplies, PTL DEF Spec

-----------------------------------------------------------------------------
(* What the workers were built from.                                       *)

Follow == workers = [id \in Secrets |-> Resolved(id)]

\* What a request x knows that has had no company.
Lone(x) ==
  /\ x.at = "get" /\ x.op # "put" => Follow
  /\ x.op = "validate" /\ x.at \in Places =>
       /\ Follow
       /\ MayBe(x.id, registry[x.id]) \subseteq {Resolved(x.id)}
  /\ x.op = "validate" /\ x.at = "check" => x.entry = registry[x.id]
  /\ x.op = "validate" /\ x.at \in {"load", "save"} =>
       ResolvedBy(x.id, x.entry) = Resolved(x.id)
  /\ x.op = "validate" /\ x.at = "save" => x.copy = registry
  /\ x.at \in {"resolve", "clear", "fill"} => \A i \in DOMAIN x.seen : x.seen[i] = Resolved(i)

WorkersInv ==
  up /\ ~overlapped =>
    /\ \A t, u \in Threads : Busy(t) /\ Busy(u) => t = u
    /\ \A t \in Threads : Busy(t) => Lone(thread[t])
    /\ (\A t \in Threads : ~Busy(t)) => Follow

\* A step of the one request there is.
LEMMA LoneStep ==
  ASSUME TypeInv, NEW t \in Threads, NEW x, Becomes(t, x), Fits(x),
         \A u \in Threads \ {t} : ~Busy(u),
         x.at # "rest" => Lone(x)', x.at = "rest" => Follow'
  PROVE  WorkersInv'
  <1>1. thread'[t] = x /\ \A u \in Threads \ {t} : thread'[u] = thread[u]
    BY BecomesGives
  <1>2. \A u \in Threads \ {t} : ~Busy(u)'
    BY <1>1 DEF Busy
  <1>3. Busy(t)' <=> x.at # "rest"
    BY <1>1 DEF Busy
  <1>4. \A u \in Threads : Busy(u)' => Lone(thread[u])'
    <2> SUFFICES ASSUME Busy(t)' PROVE Lone(thread[t])'
      BY <1>2
    <2>1. Lone(x)'
      BY <1>3
    <2>. QED  BY <1>1, <2>1 DEF Lone, Follow, Resolved, ResolvedBy, MayBe
  <1>. QED  BY <1>2, <1>3, <1>4 DEF WorkersInv

\* Nothing is known once requests have overlapped.
LEMMA Company ==
  ASSUME WorkersInv, up, ~overlapped, NEW t \in Threads, Busy(t)
  PROVE  Lone(thread[t]) /\ \A u \in Threads \ {t} : ~Busy(u)
  BY DEF WorkersInv

LEMMA FollowSame ==
  ASSUME UNCHANGED <<registry, values>>
  PROVE  /\ UNCHANGED workers => (Follow' <=> Follow)
         /\ \A id : Resolved(id)' = Resolved(id)
         /\ \A id, e : ResolvedBy(id, e)' = ResolvedBy(id, e) /\ MayBe(id, e)' = MayBe(id, e)
  BY DEF Follow, Resolved, ResolvedBy, MayBe

LEMMA ArrivalFollows ==
  ASSUME TypeInv, WorkersInv, NEW t \in Threads, NEW x, Becomes(t, x), Fits(x),
         thread[t].at = "rest", up, UNCHANGED <<up, registry, values, workers>>,
         \A u \in Threads \ {t} : ~Busy(u),
         \/ x.at = "get" /\ x.op = "put"
         \/ /\ x.at = "get" /\ ~overlapped
            /\ x.op = "validate" => MayBe(x.id, registry[x.id]) \subseteq {Resolved(x.id)}
         \/ x.at = "resolve" /\ x.seen = Nothing
  PROVE  WorkersInv'
  <1>1. \A u \in Threads : ~Busy(u)
    BY DEF Busy
  <1>2. ~overlapped => Follow
    BY <1>1 DEF WorkersInv
  <1>3. CASE x.at = "get"
    <2>1. x.op = "put" \/ Follow'
      BY <1>2, <1>3, FollowSame
    <2>2. x.op = "validate" => /\ Follow'
                              /\ MayBe(x.id, registry[x.id])' \subseteq {Resolved(x.id)'}
      BY <1>2, <1>3, FollowSame DEF MayBe, ResolvedBy, Resolved
    <2>3. Lone(x)'
      BY <1>3, <2>1, <2>2 DEF Lone
    <2>. QED  BY <1>3, <2>3, LoneStep
  <1>4. CASE x.at = "resolve" /\ x.seen = Nothing
    <2>1. Lone(x)'
      BY <1>4 DEF Lone, Places, Nothing
    <2>. QED  BY <1>4, <2>1, LoneStep
  <1>. QED  BY <1>3, <1>4

LEMMA WorkersStep == TypeInv /\ WorkersInv /\ [Next]_vars => WorkersInv'
  <1> SUFFICES ASSUME TypeInv, WorkersInv, [Next]_vars, up', ~overlapped' PROVE WorkersInv'
    BY DEF WorkersInv
  <1>1. ASSUME NEW t \in Threads, Write(t) PROVE WorkersInv'
    <2>1. thread[t].at = "rest" /\ up /\ UNCHANGED <<up, registry, values, workers>>
      BY <1>1 DEF Write, Receive, At
    <2>2. PICK op \in Writes, x \in Doing :
            /\ Becomes(t, x) /\ Fits(x) /\ x.at = "get" /\ x.op = op
            /\ overlapped' = \/ op # "put" /\ overlapped
                             \/ \E u \in Threads \ {t} : Busy(u)
      BY <1>1, WriteDoes
    <2>. QED  BY <2>1, <2>2, ArrivalFollows DEF Writes
  <1>2. ASSUME NEW t \in Threads, Visit(t) PROVE WorkersInv'
    <2>1. thread[t].at = "rest" /\ up /\ UNCHANGED <<up, registry, values, workers>>
      BY <1>2 DEF Visit, Receive, At
    <2>2. PICK op \in {"validate", "revoke"}, id \in Secrets, x \in Doing :
            /\ Becomes(t, x) /\ Fits(x) /\ x.at = "get" /\ x.op = op /\ x.id = id
            /\ overlapped' = \/ overlapped
                             \/ \E u \in Threads \ {t} : Busy(u)
                             \/ op = "validate" /\ MayResolve(id) # {Resolved(id)}
      BY <1>2, VisitDoes
    <2>3. op = "validate" => MayBe(id, registry[id]) \subseteq {Resolved(id)}
      BY <2>2 DEF MayBe, MayResolve, Resolved
    <2>. QED  BY <2>1, <2>2, <2>3, ArrivalFollows
  <1>3. ASSUME NEW t \in Threads, PutSettings(t) PROVE WorkersInv'
    <2>1. /\ thread[t].at = "rest" /\ up /\ UNCHANGED <<up, registry, values, workers>>
          /\ \A u \in Threads \ {t} : ~Busy(u)
      BY <1>3 DEF PutSettings, Receive, At
    <2>2. PICK x : Becomes(t, x) /\ Fits(x) /\ x.at = "resolve" /\ x.seen = Nothing
      BY <1>3, PutSettingsDoes
    <2>. QED  BY <2>1, <2>2, ArrivalFollows
  <1>4. ASSUME NEW t \in Threads, Step(t) PROVE WorkersInv'
    <2> DEFINE me == thread[t]
    <2>1. up /\ UNCHANGED overlapped /\ Busy(t)
      BY <1>4 DEF Step, Get, Store, DeleteOld, Check, Delete, Load, Save, Resolve, Clear, Fill,
                  History, At, Busy
    <2>2. Lone(me) /\ \A u \in Threads \ {t} : ~Busy(u)
      BY <2>1, Company
    <2>3. me \in Doing /\ Fits(me)
      BY DEF TypeInv
    <2>4. CASE Get(t)
      <3>1. me.at = "get" /\ UNCHANGED <<registry, values, workers>>
        BY <2>4 DEF Get, At
      <3>2. PICK x : /\ Becomes(t, x) /\ Fits(x)
                     /\ \/ x = Resting /\ me.op # "put"
                        \/ /\ Same(x, me) /\ x.entry = registry[me.id]
                           /\ x.at = CASE me.op = "validate" -> "check"
                                       [] me.op = "revoke" -> "delete"
                                       [] OTHER -> "store"
        BY <2>4, GetDoes
      <3>3. CASE x = Resting /\ me.op # "put"
        <4>1. Follow'
          BY <2>2, <3>1, <3>3, FollowSame DEF Lone
        <4>. QED  BY <2>2, <3>2, <3>3, <4>1, RestingFits, LoneStep
      <3>4. CASE /\ Same(x, me) /\ x.entry = registry[me.id]
                 /\ x.at = CASE me.op = "validate" -> "check"
                             [] me.op = "revoke" -> "delete"
                             [] OTHER -> "store"
        <4>1. x.id = me.id /\ x.op = me.op
          BY <3>4 DEF Same
        <4>2. x.at \in {"check", "delete", "store"} /\ (x.at = "check" <=> x.op = "validate")
          BY <3>4, <4>1
        <4>3. x.op = "validate" => /\ Follow' /\ x.entry = registry'[x.id]
                                  /\ MayBe(x.id, registry[x.id])' \subseteq {Resolved(x.id)'}
          BY <2>2, <3>1, <3>4, <4>1, FollowSame DEF Lone, Places, MayBe, ResolvedBy, Resolved
        <4>4. Lone(x)'
          BY <4>2, <4>3 DEF Lone
        <4>. QED  BY <2>2, <3>2, <4>2, <4>4, LoneStep
      <3>. QED  BY <3>2, <3>3, <3>4
    <2>5. CASE Store(t)
      <3>1. PICK x : /\ Becomes(t, x) /\ Fits(x) /\ Same(x, me)
                     /\ x.at \in {"delete old", "check", "load"}
        BY <2>5, StoreDoes
      <3>2. me.op \in Writes
        BY <2>5, StoreDoes
      <3>3. x.op # "validate"
        BY <3>1, <3>2 DEF Same, Writes
      <3>4. Lone(x)'
        BY <3>1, <3>3 DEF Lone
      <3>. QED  BY <2>2, <3>1, <3>4, LoneStep
    <2>6. CASE DeleteOld(t)
      <3>1. PICK x : Becomes(t, x) /\ Fits(x) /\ Same(x, me) /\ x.at \in {"check", "load"}
        BY <2>6, DeleteOldDoes
      <3>2. me.op = "rotate"
        BY <2>6, DeleteOldDoes
      <3>3. Lone(x)'
        BY <3>1, <3>2 DEF Lone, Same
      <3>. QED  BY <2>2, <3>1, <3>3, LoneStep
    <2>7. CASE Check(t)
      <3>1. me.at = "check" /\ me.at \in Places /\ UNCHANGED <<registry, values, workers>>
        BY <2>7 DEF Check, At, Places
      <3>2. PICK x : /\ Becomes(t, x) /\ Fits(x) /\ Same(x, me)
                     /\ x.entry = Checked(me.id, me.entry) /\ x.at = "load"
        BY <2>7, CheckDoes
      <3>3. me.id \in Secrets /\ me.entry \in Entry
        BY <2>7, CheckDoes
      <3>4. CASE me.op = "validate"
        <4>1. /\ Follow /\ me.entry = registry[me.id]
              /\ MayBe(me.id, me.entry) \subseteq {Resolved(me.id)}
          BY <2>2, <3>1, <3>4 DEF Lone
        <4>2. /\ x.entry # Absent /\ x.entry.state # "absent"
              /\ x.entry.path = me.entry.path
              /\ x.entry.state = "revoked" => me.entry.state = "revoked"
              /\ me.entry # Absent /\ me.entry.state # "absent"
          BY <3>2, <3>3, CheckedEntries, Types
        <4>3. ResolvedBy(me.id, x.entry) = Resolved(me.id)
          BY <4>1, <4>2 DEF MayBe, ResolvedBy
        <4>4. x.op = me.op /\ x.id = me.id
          BY <3>2 DEF Same
        <4>5. /\ Follow'
              /\ MayBe(x.id, registry[x.id])' \subseteq {Resolved(x.id)'}
              /\ ResolvedBy(x.id, x.entry)' = Resolved(x.id)'
          BY <3>1, <4>1, <4>3, <4>4, FollowSame DEF MayBe, ResolvedBy, Resolved
        <4>6. Lone(x)'
          BY <3>2, <4>5 DEF Lone
        <4>. QED  BY <2>2, <3>2, <4>6, LoneStep
      <3>5. CASE me.op # "validate"
        <4>1. Lone(x)'
          BY <3>2, <3>5 DEF Lone, Same
        <4>. QED  BY <2>2, <3>2, <4>1, LoneStep
      <3>. QED  BY <3>4, <3>5
    <2>8. CASE Delete(t)
      <3>1. PICK x : Becomes(t, x) /\ Fits(x) /\ Same(x, me) /\ x.at = "load"
        BY <2>8, DeleteDoes
      <3>2. me.op = "revoke"
        BY <2>8, DeleteDoes
      <3>3. Lone(x)'
        BY <3>1, <3>2 DEF Lone, Same
      <3>. QED  BY <2>2, <3>1, <3>3, LoneStep
    <2>9. CASE Load(t)
      <3>1. me.at = "load" /\ me.at \in Places /\ UNCHANGED <<registry, values, workers>>
        BY <2>9 DEF Load, At, Places
      <3>2. PICK x : /\ Becomes(t, x) /\ Fits(x) /\ Same(x, me)
                     /\ x.entry = me.entry /\ x.copy = registry /\ x.at = "save"
        BY <2>9, LoadDoes
      <3>3. x.op = me.op /\ x.id = me.id
        BY <3>2 DEF Same
      <3>4. x.op = "validate" =>
              /\ Follow' /\ x.copy = registry'
              /\ MayBe(x.id, registry[x.id])' \subseteq {Resolved(x.id)'}
              /\ ResolvedBy(x.id, x.entry)' = Resolved(x.id)'
        <4> SUFFICES ASSUME x.op = "validate"
                     PROVE  /\ Follow' /\ x.copy = registry'
                            /\ MayBe(x.id, registry[x.id])' \subseteq {Resolved(x.id)'}
                            /\ ResolvedBy(x.id, x.entry)' = Resolved(x.id)'
          OBVIOUS
        <4>1. /\ Follow /\ MayBe(x.id, registry[x.id]) \subseteq {Resolved(x.id)}
              /\ ResolvedBy(x.id, x.entry) = Resolved(x.id)
          BY <2>2, <3>1, <3>2, <3>3 DEF Lone
        <4>2. Follow' /\ x.copy = registry'
          BY <3>1, <3>2, <4>1, FollowSame
        <4>. QED  BY <3>1, <4>1, <4>2 DEF MayBe, ResolvedBy, Resolved
      <3>5. Lone(x)'
        BY <3>2, <3>4 DEF Lone
      <3>. QED  BY <2>2, <3>2, <3>5, LoneStep
    <2>10. CASE Save(t)
      <3>1. /\ me.at = "save" /\ me.at \in Places /\ UNCHANGED <<values, workers>>
            /\ registry' = [me.copy EXCEPT ![me.id] = me.entry]
        BY <2>10 DEF Save, At, Places
      <3>2. me.id \in Secrets /\ registry \in [Secrets -> Entries]
        BY <2>10, SaveDoes DEF TypeInv
      <3>3. PICK x : /\ Becomes(t, x) /\ Fits(x)
                     /\ \/ me.op = "validate" /\ x = Resting
                        \/ x.at = "resolve" /\ x.seen = Nothing
        BY <2>10, SaveDoes
      <3>4. CASE me.op = "validate" /\ x = Resting
        <4>1. /\ Follow /\ me.copy = registry
              /\ ResolvedBy(me.id, me.entry) = Resolved(me.id)
          BY <2>2, <3>1, <3>4 DEF Lone
        <4>2. \A id \in Secrets : Resolved(id)' = Resolved(id)
          BY <3>1, <3>2, <4>1 DEF Resolved, ResolvedBy
        <4>3. Follow'
          BY <3>1, <4>1, <4>2 DEF Follow
        <4>. QED  BY <2>2, <3>3, <3>4, <4>3, RestingFits, LoneStep
      <3>5. CASE x.at = "resolve" /\ x.seen = Nothing
        <4>1. Lone(x)'
          BY <3>5 DEF Lone, Places, Nothing
        <4>. QED  BY <2>2, <3>3, <3>5, <4>1, LoneStep
      <3>. QED  BY <3>3, <3>4, <3>5
    <2>11. CASE Resolve(t)
      <3>1. me.at = "resolve" /\ UNCHANGED <<registry, values, workers>>
        BY <2>11 DEF Resolve, At
      <3>2. PICK id \in Secrets, x \in Doing :
              /\ Becomes(t, x) /\ Fits(x) /\ x.at \in {"resolve", "clear"}
              /\ \A i \in DOMAIN x.seen :
                   \/ i = id /\ x.seen[i] = Resolved(id)
                   \/ i \in DOMAIN me.seen /\ x.seen[i] = me.seen[i]
        BY <2>11, ResolveDoes
      <3>3. \A i \in DOMAIN x.seen : x.seen[i] = Resolved(i)
        BY <2>2, <3>1, <3>2 DEF Lone
      <3>4. \A i \in DOMAIN x.seen : x.seen[i] = Resolved(i)'
        BY <3>1, <3>3, FollowSame
      <3>5. Lone(x)'
        BY <3>2, <3>4 DEF Lone, Places
      <3>. QED  BY <2>2, <3>2, <3>5, LoneStep
    <2>12. CASE Clear(t)
      <3>1. me.at = "clear" /\ UNCHANGED <<registry, values>>
        BY <2>12 DEF Clear, At
      <3>2. PICK x : Becomes(t, x) /\ Fits(x) /\ x.at = "fill" /\ x.seen = me.seen
        BY <2>12, ClearDoes
      <3>3. \A i \in DOMAIN x.seen : x.seen[i] = Resolved(i)'
        BY <2>2, <3>1, <3>2, FollowSame DEF Lone
      <3>4. Lone(x)'
        BY <3>2, <3>3 DEF Lone, Places
      <3>. QED  BY <2>2, <3>2, <3>4, LoneStep
    <2>13. CASE Fill(t)
      <3>1. /\ me.at = "fill" /\ UNCHANGED <<registry, values>> /\ workers' = me.seen
            /\ me.seen \in [Secrets -> Content] /\ Becomes(t, Resting)
        BY <2>13, FillDoes DEF Fill
      <3>2. \A i \in Secrets : me.seen[i] = Resolved(i)'
        BY <2>2, <3>1, FollowSame DEF Lone
      <3>3. Follow'
        BY <3>1, <3>2 DEF Follow
      <3>. QED  BY <2>2, <3>1, <3>3, RestingFits, LoneStep
    <2>. QED
      BY <1>4, <2>4, <2>5, <2>6, <2>7, <2>8, <2>9, <2>10, <2>11, <2>12, <2>13 DEF Step
  <1>5. CASE Crash
    BY <1>5 DEF Crash
  <1>6. CASE Restart
    <2>1. /\ workers' = [id \in Secrets |-> Resolved(id)] /\ UNCHANGED <<registry, values, thread>>
          /\ \A t \in Threads : ~Busy(t)
      BY <1>6 DEF Restart, TypeInv
    <2>2. Follow' /\ \A t \in Threads : ~Busy(t)'
      BY <2>1 DEF Follow, Busy, Resolved, ResolvedBy
    <2>. QED  BY <2>2 DEF WorkersInv
  <1>7. CASE UNCHANGED vars
    BY <1>7 DEF vars, WorkersInv, Busy, Follow, Lone, Resolved, ResolvedBy, MayBe
  <1>. QED  BY <1>1, <1>2, <1>3, <1>4, <1>5, <1>6, <1>7 DEF Next

LEMMA InitWorkers == Init => WorkersInv
  BY RestingFits DEF Init, WorkersInv, Busy, Follow, Resolved, ResolvedBy, Absent

\* The workers are built from what the secrets resolve to whenever no request is
\* under way and none has overlapped another since they were last built alone
\* (refresh_configured_workers).
THEOREM WorkersAreRight == Spec => []WorkersFollow
  <1>1. Init => TypeInv /\ WorkersInv
    BY InitType, InitWorkers
  <1>2. TypeInv /\ WorkersInv /\ [Next]_vars => TypeInv' /\ WorkersInv'
    BY TypeStep, WorkersStep
  <1>3. WorkersInv => WorkersFollow
    BY DEF WorkersInv, WorkersFollow, Follow
  <1>. QED  BY <1>1, <1>2, <1>3, PTL DEF Spec
=============================================================================
