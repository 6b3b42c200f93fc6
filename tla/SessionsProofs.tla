---------------------------- MODULE SessionsProofs ----------------------------
(***************************************************************************)
(* The safety of the dashboard's sessions, for any threads, passwords,     *)
(* policies and session ids.                                               *)
(*                                                                         *)
(* What makes it hold is what a request under way knows of its session:    *)
(* the copy it has read was opened when the session was, and its last use  *)
(* is no newer than the latest one. Saving it again can therefore bring    *)
(* back an older use, never a younger session; and no request knows        *)
(* anything of a session that has ended for good.                          *)
(***************************************************************************)
EXTENDS Sessions, TLAPS

Services == [password : Passwords, policy : Policies]

Doing == [at : Places, want : Wants \cup {"none", "login", "thesis"}, sid : Nat,
          agent : Agents \cup {"none"}, copy : Session \cup {None}, mine : Services,
          time : Nat, new : Passwords \cup {Unset}]

Use == [first : Nat, last : Nat]

\* A copy of session i, when d have been drawn and used as u says.
Faithful(copy, i, d, u) ==
  /\ i \in Ids /\ i <= d
  /\ copy.created = u[i].first
  /\ copy.seen <= u[i].last

\* What a request x has in hand fits the place it is at.
Fits(x, d, u, n) ==
  /\ x \in Doing
  /\ x.time <= n
  /\ x.at \in {"drop others", "open"} => x.agent \in Agents
  /\ x.at \in {"get", "check", "save"} => x.want \in Wants
  /\ x.at \in {"get", "check", "save"} \cup Wants => x.sid \in Ids /\ x.sid <= d
  /\ x.at = "assign" /\ x.want = "password" => x.new \in Passwords
  /\ x.at \in {"check", "save"} <=> x.copy # None
  /\ x.copy # None => Faithful(x.copy, x.sid, d, u)
  /\ x.at = "save" => x.time <= u[x.sid].last

TypeInv ==
  /\ now \in Nat /\ now <= MaxTime /\ up \in BOOLEAN
  /\ sessions \in [Ids -> Session \cup {None}]
  /\ service \in Services /\ settings \in Policies
  /\ file \in Passwords \cup {Unset, Torn}
  /\ drawn \in Nat /\ 1..drawn \subseteq Ids
  /\ uses \in [Ids -> Use] /\ \A i \in Ids : uses[i].first <= now /\ uses[i].last <= now
  /\ ended \subseteq Ids /\ raced \in BOOLEAN

RequestsFit ==
  thread = [t \in Threads |-> thread[t]] /\ \A t \in Threads : Fits(thread[t], drawn, uses, now)

SessionsFit == \A i \in Live : Faithful(sessions[i], i, drawn, uses)

EndedForGood ==
  \A i \in ended : i <= drawn /\ sessions[i] = None /\ \A t \in Threads : ~Holds(t, i)

Inv == TypeInv /\ RequestsFit /\ SessionsFit /\ EndedForGood

-----------------------------------------------------------------------------
(* What requests may hold.                                                 *)

LEMMA Constants ==
  /\ Default \in Passwords /\ FirstPolicy \in Policies
  /\ Ids \subseteq Nat /\ 0 \notin Ids /\ MaxTime \in Nat
  /\ None \notin Session
  /\ None = [created |-> 0, seen |-> 0, agent |-> "none"]
  BY SessionsAssumption DEF Session, None

LEMMA RestingFits ==
  ASSUME NEW d \in Nat, NEW u \in [Ids -> Use], NEW n \in Nat
  PROVE  Fits(Resting, d, u, n)
  BY Constants DEF Fits, Resting, Doing, Places, Wants, Services, Unset

\* The parts a request is put together from.
LEMMA Parts ==
  /\ Resting \in Doing /\ Resting.copy = None /\ Resting.time = 0 /\ Resting.at = "rest"
  /\ Wants \subseteq Places /\ "none" \notin Wants /\ "login" \notin Wants
  /\ \A place \in {"rest", "drop others", "open", "get", "check", "save", "assign", "persist",
                   "save file"} : place \in Places /\ place \notin Wants
  /\ Wants = {"logout", "update", "password", "settings"}
  <1>1. Resting.mine \in Services
    BY Constants DEF Resting, Services
  <1>. QED  BY <1>1 DEF Resting, Doing, Places, Wants, Unset

\* What fits goes on fitting when more sessions are drawn, used or time passes.
LEMMA FitsLater ==
  ASSUME NEW x, NEW d \in Nat, NEW u \in [Ids -> Use], NEW n \in Nat, Fits(x, d, u, n),
         NEW e \in Nat, NEW v \in [Ids -> Use], NEW m \in Nat, d <= e, n <= m,
         \A i \in Ids : i <= d => v[i].first = u[i].first /\ u[i].last <= v[i].last
  PROVE  Fits(x, e, v, m)
  <1>1. x \in Doing /\ x.time \in Nat /\ x.sid \in Nat
    BY DEF Fits, Doing
  <1>2. \A i \in Ids : u[i].last \in Nat /\ v[i].last \in Nat /\ i \in Nat
    BY Constants DEF Use
  <1>3. x.copy # None => x.copy.seen \in Nat
    BY <1>1 DEF Doing, Session
  <1>4. x.copy # None => Faithful(x.copy, x.sid, e, v)
    <2>1. SUFFICES ASSUME x.copy # None PROVE Faithful(x.copy, x.sid, e, v)
      OBVIOUS
    <2>2. Faithful(x.copy, x.sid, d, u)
      BY <2>1 DEF Fits
    <2>3. x.sid \in Ids /\ x.sid <= d /\ x.copy.created = u[x.sid].first
          /\ x.copy.seen <= u[x.sid].last
      BY <2>2 DEF Faithful
    <2>. QED  BY <1>1, <1>2, <1>3, <2>1, <2>3 DEF Faithful
  <1>5. x.at = "save" => x.time <= v[x.sid].last
    <2>1. SUFFICES ASSUME x.at = "save" PROVE x.time <= v[x.sid].last
      OBVIOUS
    <2>2. x.sid \in Ids /\ x.sid <= d /\ x.time <= u[x.sid].last
      BY <2>1 DEF Fits
    <2>. QED  BY <1>1, <1>2, <2>2
  <1>6. x.time <= m
    <2>1. x.time <= n
      BY DEF Fits
    <2>. QED  BY <1>1, <2>1
  <1>7. x.at \in {"get", "check", "save"} \cup Wants => x.sid \in Ids /\ x.sid <= e
    <2>1. x.at \in {"get", "check", "save"} \cup Wants => x.sid \in Ids /\ x.sid <= d
      BY DEF Fits
    <2>. QED  BY <1>1, <2>1
  <1>. QED  BY <1>1, <1>4, <1>5, <1>6, <1>7 DEF Fits

\* One request moves on, to x, and nothing is drawn or used.
LEMMA OneMoves ==
  ASSUME Inv, NEW t \in Threads, NEW x, Moves(t, x), Fits(x, drawn, uses, now),
         UNCHANGED <<now, drawn, uses>>,
         x.copy = None \/ x.sid \notin ended
  PROVE  /\ RequestsFit'
         /\ \A i \in ended, u \in Threads : ~Holds(u, i)'
         /\ \A i \in Ids, u \in Threads : Holds(u, i)' => (u # t /\ Holds(u, i)) \/ x.copy # None
  <1>1. thread' = [u \in Threads |-> IF u = t THEN x ELSE thread[u]]
    BY DEF Inv, RequestsFit, Moves
  <1>2. RequestsFit'
    BY <1>1 DEF Inv, RequestsFit
  <1>3. \A i \in ended, u \in Threads : ~Holds(u, i)'
    BY <1>1 DEF Inv, EndedForGood, Holds
  <1>4. \A i \in Ids, u \in Threads : Holds(u, i)' => (u # t /\ Holds(u, i)) \/ x.copy # None
    BY <1>1 DEF Holds
  <1>. QED  BY <1>2, <1>3, <1>4

\* A request that touches no session changes nothing that is known of one.
LEMMA SessionsAside ==
  ASSUME Inv, NEW t \in Threads, NEW x, Moves(t, x), Fits(x, drawn, uses, now),
         UNCHANGED <<now, up, sessions, drawn, uses, ended>>,
         service' \in Services, settings' \in Policies,
         file' \in Passwords \cup {Unset, Torn}, raced' \in BOOLEAN,
         x.copy = None \/ x.sid \notin ended
  PROVE  Inv'
  <1>1. TypeInv'
    BY DEF Inv, TypeInv
  <1>2. RequestsFit' /\ \A i \in ended, u \in Threads : ~Holds(u, i)'
    BY OneMoves
  <1>3. SessionsFit'
    BY DEF Inv, SessionsFit, Live, Faithful
  <1>4. EndedForGood'
    BY <1>2 DEF Inv, EndedForGood, Holds
  <1>. QED  BY <1>1, <1>2, <1>3, <1>4 DEF Inv

\* A request that ends sessions, and does not hold on to one.
LEMMA SessionsEnd ==
  ASSUME Inv, NEW t \in Threads, NEW x, Moves(t, x), Fits(x, drawn, uses, now), x.copy = None,
         NEW gone \in SUBSET Ids, NEW past \in SUBSET gone, \A i \in past : i <= drawn,
         sessions' = [i \in Ids |-> IF i \in gone THEN None ELSE sessions[i]],
         ended' = ended \cup EndedBy(t, past),
         UNCHANGED <<now, up, service, settings, file, drawn, uses, raced>>
  PROVE  Inv'
  <1>1. TypeInv'
    BY DEF Inv, TypeInv, EndedBy
  <1>2. /\ RequestsFit'
        /\ \A i \in ended, u \in Threads : ~Holds(u, i)'
        /\ \A i \in Ids, u \in Threads : Holds(u, i)' => u # t /\ Holds(u, i)
    BY OneMoves
  <1>3. SessionsFit'
    BY DEF Inv, SessionsFit, Live, Faithful
  <1>4. EndedForGood'
    <2>1. SUFFICES ASSUME NEW i \in ended'
                   PROVE  i <= drawn /\ sessions'[i] = None /\ \A u \in Threads : ~Holds(u, i)'
      BY DEF EndedForGood, Holds
    <2>2. i \in Ids
      BY <1>1 DEF TypeInv
    <2>3. CASE i \in ended
      BY <1>2, <2>2, <2>3 DEF Inv, EndedForGood
    <2>4. CASE i \in EndedBy(t, past)
      BY <1>2, <2>2, <2>4 DEF EndedBy
    <2>. QED  BY <2>3, <2>4
  <1>. QED  BY <1>1, <1>2, <1>3, <1>4 DEF Inv

LEMMA RestingFitsHere ==
  ASSUME Inv
  PROVE  Fits(Resting, drawn, uses, now) /\ Resting.copy = None
  BY RestingFits DEF Inv, TypeInv, Resting

LEMMA MyRequestFits ==
  ASSUME Inv, NEW t \in Threads
  PROVE  Fits(thread[t], drawn, uses, now)
  BY DEF Inv, RequestsFit

-----------------------------------------------------------------------------
(* The steps, one by one.                                                  *)

LEMMA ReceiveStep ==
  ASSUME Inv, NEW t \in Threads, NEW x, Receive(t, x), Fits(x, drawn, uses, now), x.copy = None
  PROVE  Inv'
  <1>1. TypeInv
    BY DEF Inv
  <1>. QED  BY <1>1, SessionsAside DEF Receive, TypeInv

LEMMA LoginStep ==
  ASSUME Inv, NEW t \in Threads, Login(t)
  PROVE  Inv'
  <1>1. PICK agent \in Agents :
          \/ Receive(t, Resting)
          \/ Receive(t, [Resting EXCEPT !.at = "drop others", !.want = "login",
                                        !.agent = agent, !.time = now])
    BY DEF Login
  <1>. DEFINE x == [Resting EXCEPT !.at = "drop others", !.want = "login",
                                   !.agent = agent, !.time = now]
  <1>2. now \in Nat
    BY DEF Inv, TypeInv
  <1>3. x \in Doing
    BY <1>2, Parts DEF Doing
  <1>4. x.at = "drop others" /\ x.agent = agent /\ x.time = now /\ x.copy = None
    BY Parts DEF Doing
  <1>6. x.time \in Nat /\ x.time <= now
    BY <1>2, <1>3, <1>4 DEF Doing
  <1>5. Receive(t, Resting) \/ Receive(t, x)
    BY <1>1
  <1>. HIDE DEF x
  <1>7. Fits(x, drawn, uses, now)
    BY <1>2, <1>3, <1>4, <1>6, Parts DEF Fits
  <1>. QED  BY <1>4, <1>5, <1>7, RestingFitsHere, ReceiveStep

LEMMA RequestStep ==
  ASSUME Inv, NEW t \in Threads, Request(t)
  PROVE  Inv'
  <1>1. PICK want \in Wants, id \in 1..drawn, agent \in Agents :
          Receive(t, [Resting EXCEPT !.at = "get", !.want = want, !.sid = id, !.agent = agent,
                                     !.mine = service])
    BY DEF Request
  <1>. DEFINE x == [Resting EXCEPT !.at = "get", !.want = want, !.sid = id, !.agent = agent,
                                   !.mine = service]
  <1>2. id \in Nat /\ id \in Ids /\ id <= drawn /\ service \in Services /\ now \in Nat
    BY DEF Inv, TypeInv
  <1>3. x \in Doing
    BY <1>2, Parts DEF Doing
  <1>4. x.at = "get" /\ x.want = want /\ x.sid = id /\ x.copy = None /\ x.time = 0
    BY Parts DEF Doing
  <1>6. x.time \in Nat /\ x.time <= now
    BY <1>2, <1>3, <1>4 DEF Doing
  <1>5. Receive(t, x)
    BY <1>1
  <1>. HIDE DEF x
  <1>7. Fits(x, drawn, uses, now)
    BY <1>2, <1>3, <1>4, <1>6, Parts DEF Fits
  <1>. QED  BY <1>4, <1>5, <1>7, ReceiveStep

LEMMA SaveThesisStep ==
  ASSUME Inv, NEW t \in Threads, SaveThesis(t)
  PROVE  Inv'
  <1>. DEFINE x == [Resting EXCEPT !.at = "save file", !.want = "thesis", !.new = file]
  <1>1. file \in Passwords \cup {Unset} /\ now \in Nat /\ raced \in BOOLEAN
    BY DEF SaveThesis, Inv, TypeInv
  <1>2. x \in Doing
    BY <1>1, Parts DEF Doing
  <1>3. x.at = "save file" /\ x.copy = None /\ x.time = 0
    BY Parts DEF Doing
  <1>4. x.time \in Nat /\ x.time <= now
    BY <1>1, <1>3
  <1>5. Moves(t, x)
    BY DEF SaveThesis
  <1>. HIDE DEF x
  <1>6. Fits(x, drawn, uses, now)
    BY <1>2, <1>3, <1>4, Parts DEF Fits
  <1>7. raced' \in BOOLEAN
    BY DEF SaveThesis, Alongside
  <1>. QED  BY <1>3, <1>5, <1>6, <1>7, SessionsAside DEF SaveThesis, Inv, TypeInv

LEMMA DropOthersStep ==
  ASSUME Inv, NEW t \in Threads, DropOthers(t)
  PROVE  Inv'
  <1>. DEFINE x == [thread[t] EXCEPT !.at = "open"]
  <1>1. thread[t] \in Doing /\ thread[t].at = "drop others" /\ Fits(thread[t], drawn, uses, now)
    BY MyRequestFits DEF DropOthers, At, Fits
  <1>2. x \in Doing
    BY <1>1, Parts DEF Doing
  <1>3. x.at = "open" /\ x.copy = thread[t].copy /\ x.time = thread[t].time
        /\ x.agent = thread[t].agent
    BY <1>1 DEF Doing
  <1>4. thread[t].copy = None /\ thread[t].time <= now /\ thread[t].agent \in Agents
    BY <1>1 DEF Fits
  <1>5. Moves(t, x)
    BY DEF DropOthers
  <1>. HIDE DEF x
  <1>6. Fits(x, drawn, uses, now)
    BY <1>2, <1>3, <1>4, Parts DEF Fits
  <1>7. Live \in SUBSET Ids /\ \A i \in Live : i <= drawn
    BY DEF Live, Inv, SessionsFit, Faithful
  <1>8. sessions' = [i \in Ids |-> IF i \in Ids THEN None ELSE sessions[i]]
    BY DEF DropOthers
  <1>. QED  BY <1>3, <1>4, <1>5, <1>6, <1>7, <1>8, SessionsEnd DEF DropOthers, UnchangedAround

LEMMA GetStep ==
  ASSUME Inv, NEW t \in Threads, Get(t)
  PROVE  Inv'
  <1>. DEFINE id == thread[t].sid
              x == [thread[t] EXCEPT !.at = "check", !.copy = sessions[id]]
  <1>1. thread[t] \in Doing /\ thread[t].at = "get" /\ Fits(thread[t], drawn, uses, now)
    BY MyRequestFits DEF Get, At, Fits
  <1>2. CASE sessions[id] = None
    BY <1>2, SessionsAside, RestingFitsHere DEF Get, Ends, UnchangedAround, Inv, TypeInv
  <1>3. CASE sessions[id] # None
    <2>1. id \in Ids /\ id <= drawn /\ thread[t].want \in Wants /\ thread[t].time <= now
      BY <1>1 DEF Fits
    <2>2. sessions[id] \in Session
      BY <1>3, <2>1 DEF Inv, TypeInv
    <2>3. x \in Doing
      BY <1>1, <2>2, Parts DEF Doing
    <2>4. x.at = "check" /\ x.copy = sessions[id] /\ x.time = thread[t].time
          /\ x.sid = id /\ x.want = thread[t].want
      BY <1>1 DEF Doing
    <2>5. Moves(t, x)
      BY <1>3 DEF Get
    <2>6. Faithful(sessions[id], id, drawn, uses)
      BY <1>3, <2>1 DEF Inv, SessionsFit, Live
    <2>7. id \notin ended
      BY <1>3 DEF Inv, EndedForGood
    <2>. HIDE DEF x, id
    <2>8. Fits(x, drawn, uses, now)
      BY <1>3, <2>1, <2>3, <2>4, <2>6, Parts DEF Fits
    <2>. QED  BY <2>4, <2>5, <2>7, <2>8, SessionsAside DEF Get, UnchangedAround, Inv, TypeInv
  <1>. QED  BY <1>2, <1>3

LEMMA RefuseStep ==
  ASSUME Inv, NEW t \in Threads, Refuse(t)
  PROVE  Inv'
  <1>. DEFINE id == thread[t].sid
  <1>1. thread[t].at = "check" /\ Fits(thread[t], drawn, uses, now)
    BY MyRequestFits DEF Refuse, At
  <1>2. id \in Ids /\ id <= drawn
    BY <1>1 DEF Fits
  <1>3. sessions' = [i \in Ids |-> IF i \in {id} THEN None ELSE sessions[i]]
    BY DEF Refuse, Inv, TypeInv
  <1>. HIDE DEF id
  <1>4. ended' = ended \cup EndedBy(t, {id})
    BY DEF Refuse, id
  <1>5. {id} \in SUBSET Ids /\ {id} \in SUBSET {id} /\ \A i \in {id} : i <= drawn
    BY <1>2
  <1>. QED  BY <1>3, <1>4, <1>5, SessionsEnd, RestingFitsHere DEF Refuse, Ends, UnchangedAround

LEMMA LogoutStep ==
  ASSUME Inv, NEW t \in Threads, Logout(t)
  PROVE  Inv'
  <1>. DEFINE id == thread[t].sid
  <1>1. thread[t].at = "logout" /\ Fits(thread[t], drawn, uses, now)
    BY MyRequestFits DEF Logout, At
  <1>2. id \in Ids /\ id <= drawn
    BY <1>1 DEF Fits, Wants
  <1>3. sessions' = [i \in Ids |-> IF i \in {id} THEN None ELSE sessions[i]]
    BY DEF Logout, Inv, TypeInv
  <1>4. ended' = ended \cup EndedBy(t, {id})
    BY DEF Logout
  <1>. HIDE DEF id
  <1>5. {id} \in SUBSET Ids /\ {id} \in SUBSET {id} /\ \A i \in {id} : i <= drawn
    BY <1>2
  <1>. QED  BY <1>3, <1>4, <1>5, SessionsEnd, RestingFitsHere DEF Logout, Ends, UnchangedAround

LEMMA UpdateStep ==
  ASSUME Inv, NEW t \in Threads, Update(t)
  PROVE  Inv'
  <1>1. Live \in SUBSET Ids /\ \A i \in Live : i <= drawn
    BY DEF Live, Inv, SessionsFit, Faithful
  <1>2. sessions' = [i \in Ids |-> IF i \in Ids THEN None ELSE sessions[i]]
    BY DEF Update
  <1>. QED  BY <1>1, <1>2, SessionsEnd, RestingFitsHere DEF Update, Ends, UnchangedAround

\* The sessions drawn so far keep their first use, and their last only moves on.
UsesGoOn == \A i \in Ids : i <= drawn => uses'[i].first = uses[i].first /\ uses[i].last <= uses'[i].last

LEMMA UsesMove ==
  ASSUME Inv, NEW t \in Threads, NEW x, Moves(t, x), drawn' \in Nat, drawn <= drawn', now' = now,
         uses' \in [Ids -> Use], UsesGoOn, Fits(x, drawn', uses', now)
  PROVE  RequestsFit' /\ \A i \in Live : Faithful(sessions[i], i, drawn', uses')
  <1>1. drawn \in Nat /\ uses \in [Ids -> Use] /\ now \in Nat
    BY DEF Inv, TypeInv
  <1>2. \A u \in Threads : Fits(thread[u], drawn', uses', now)
    BY <1>1, MyRequestFits, FitsLater DEF UsesGoOn
  <1>3. RequestsFit'
    BY <1>2 DEF Inv, RequestsFit, Moves
  <1>4. ASSUME NEW i \in Live PROVE Faithful(sessions[i], i, drawn', uses')
    <2>1. i \in Ids /\ i \in Nat /\ i <= drawn /\ sessions[i].created = uses[i].first
          /\ sessions[i].seen <= uses[i].last
      BY <1>4, Constants DEF Inv, SessionsFit, Faithful
    <2>2. sessions[i].seen \in Nat /\ uses[i].last \in Nat /\ uses'[i].last \in Nat
      BY <2>1 DEF Live, Inv, TypeInv, Session, Use
    <2>. QED  BY <1>1, <2>1, <2>2 DEF UsesGoOn, Faithful
  <1>. QED  BY <1>3, <1>4

LEMMA OpenStep ==
  ASSUME Inv, NEW t \in Threads, Open(t)
  PROVE  Inv'
  <1>. DEFINE id == drawn + 1
              time == thread[t].time
              new == [created |-> time, seen |-> time, agent |-> thread[t].agent]
  <1>1. thread[t].at = "open" /\ Fits(thread[t], drawn, uses, now)
    BY MyRequestFits DEF Open, At
  <1>2. time \in Nat /\ time <= now /\ thread[t].agent \in Agents
    BY <1>1 DEF Fits, Doing
  <1>3. drawn \in Nat /\ id \in Ids /\ id \in Nat /\ drawn < id /\ uses \in [Ids -> Use] /\ now \in Nat
    BY DEF Open, Inv, TypeInv
  <1>4. drawn' = id /\ sessions' = [sessions EXCEPT ![id] = new]
        /\ uses' = [uses EXCEPT ![id] = [first |-> time, last |-> time]]
    BY DEF Open
  <1>5. new \in Session /\ new.created = time /\ new.seen = time
    BY <1>2 DEF Session
  <1>6. UNCHANGED <<now, up, service, settings, file, ended, raced>> /\ Moves(t, Resting)
    BY DEF Open, UnchangedAround, Ends
  <1>. HIDE DEF id, time, new
  <1>7. uses' \in [Ids -> Use] /\ uses'[id].first = time /\ uses'[id].last = time
        /\ \A i \in Ids \ {id} : uses'[i] = uses[i]
    BY <1>2, <1>3, <1>4 DEF Use
  <1>8. \A i \in Ids : i <= drawn => i # id
    BY <1>3, Constants
  <1>9. UsesGoOn
    <2>1. \A i \in Ids : uses[i].last \in Nat
      BY <1>3 DEF Use
    <2>. QED  BY <1>7, <1>8, <2>1 DEF UsesGoOn
  <1>10. RequestsFit' /\ \A i \in Live : Faithful(sessions[i], i, drawn', uses')
    <2>1. Fits(Resting, drawn', uses', now)
      BY <1>3, <1>4, <1>7, RestingFits
    <2>2. drawn' \in Nat /\ drawn <= drawn' /\ now' = now
      BY <1>3, <1>4, <1>6
    <2>. QED  BY <1>6, <1>7, <1>9, <2>1, <2>2, UsesMove
  <1>11. TypeInv'
    <2>1. sessions' \in [Ids -> Session \cup {None}]
      BY <1>3, <1>4, <1>5 DEF Inv, TypeInv
    <2>2. 1..id \subseteq Ids
      <3>1. \A i \in 1..id : i \in 1..drawn \/ i = id
        BY <1>3, <1>4 DEF id
      <3>. QED  BY <1>3, <3>1 DEF Inv, TypeInv
    <2>3. \A i \in Ids : uses'[i].first <= now /\ uses'[i].last <= now
      BY <1>2, <1>7 DEF Inv, TypeInv
    <2>. QED  BY <1>3, <1>4, <1>6, <1>7, <2>1, <2>2, <2>3 DEF Inv, TypeInv
  <1>12. SessionsFit'
    <2>1. SUFFICES ASSUME NEW i \in Ids, sessions'[i] # None
                   PROVE  Faithful(sessions'[i], i, drawn', uses')
      BY DEF SessionsFit, Live
    <2>2. CASE i = id
      <3>1. sessions'[i] = new
        BY <1>3, <1>4, <2>2 DEF Inv, TypeInv
      <3>2. id <= drawn' /\ time <= time
        BY <1>2, <1>3, <1>4
      <3>3. new.created = uses'[id].first /\ new.seen <= uses'[id].last
        BY <1>5, <1>7, <3>2
      <3>. QED  BY <1>3, <2>2, <3>1, <3>2, <3>3 DEF Faithful
    <2>3. CASE i # id
      BY <1>4, <1>10, <2>1, <2>3 DEF Inv, TypeInv, Live
    <2>. QED  BY <2>2, <2>3
  <1>13. EndedForGood'
    <2>1. SUFFICES ASSUME NEW i \in ended
                   PROVE  i <= drawn' /\ sessions'[i] = None /\ \A u \in Threads : ~Holds(u, i)'
      BY <1>6 DEF EndedForGood, Holds
    <2>2. i \in Ids /\ i <= drawn /\ sessions[i] = None /\ \A u \in Threads : ~Holds(u, i)
      BY DEF Inv, TypeInv, EndedForGood
    <2>3. sessions'[i] = None
      BY <1>4, <1>8, <2>2 DEF Inv, TypeInv
    <2>4. \A u \in Threads : ~Holds(u, i)'
      BY <1>6, <2>2, RestingFitsHere DEF Moves, Holds, Inv, RequestsFit
    <2>5. i <= drawn'
      BY <1>3, <1>4, <2>2, Constants
    <2>. QED  BY <2>3, <2>4, <2>5
  <1>. QED  BY <1>10, <1>11, <1>12, <1>13 DEF Inv

LEMMA PassStep ==
  ASSUME Inv, NEW t \in Threads, Pass(t)
  PROVE  Inv'
  <1>. DEFINE me == thread[t]
              id == me.sid
              x == [Resting EXCEPT !.at = "save", !.want = me.want, !.sid = me.sid,
                                   !.copy = me.copy, !.time = now]
  <1>1. me.at = "check" /\ me \in Doing /\ Fits(me, drawn, uses, now)
    BY MyRequestFits DEF Pass, At, Fits
  <1>2. id \in Ids /\ id <= drawn /\ me.want \in Wants /\ me.copy # None
        /\ Faithful(me.copy, id, drawn, uses)
    BY <1>1 DEF Fits
  <1>3. now \in Nat /\ drawn \in Nat /\ uses \in [Ids -> Use]
    BY DEF Inv, TypeInv
  <1>4. x \in Doing
    <2>1. me.want \in Wants \cup {"none", "login", "thesis"} /\ me.sid \in Nat
          /\ me.copy \in Session \cup {None}
      BY <1>1 DEF Doing
    <2>. HIDE DEF me
    <2>. QED  BY <1>3, <2>1, Parts DEF Doing
  <1>5. x.at = "save" /\ x.want = me.want /\ x.sid = id /\ x.copy = me.copy /\ x.time = now
    BY Parts DEF Doing
  <1>6. Moves(t, x) /\ uses' = [uses EXCEPT ![id].last = now]
    BY DEF Pass
  <1>7. UNCHANGED <<now, up, sessions, service, settings, file, drawn, ended, raced>>
    BY DEF Pass, UnchangedAround
  <1>8. id \notin ended
    BY <1>2 DEF Inv, EndedForGood, Holds
  <1>. HIDE DEF x, id, me
  <1>9. uses' \in [Ids -> Use] /\ uses'[id].first = uses[id].first /\ uses'[id].last = now
        /\ \A i \in Ids \ {id} : uses'[i] = uses[i]
    BY <1>2, <1>3, <1>6 DEF Use
  <1>10. \A i \in Ids : uses[i].last \in Nat /\ uses[i].last <= now /\ uses[i].first <= now
    BY <1>3 DEF Inv, TypeInv, Use
  <1>11. UsesGoOn
    BY <1>9, <1>10 DEF UsesGoOn
  <1>12. Fits(x, drawn, uses', now)
    <2>1. me.copy.seen <= now /\ me.copy.created = uses'[id].first /\ now <= now
      <3>1. me.copy.seen \in Nat
        BY <1>1, <1>2 DEF Doing, Session
      <3>. QED  BY <1>2, <1>3, <1>9, <1>10, <3>1 DEF Faithful
    <2>2. Faithful(me.copy, id, drawn, uses')
      BY <1>2, <1>9, <2>1 DEF Faithful
    <2>. QED  BY <1>2, <1>4, <1>5, <1>9, <2>1, <2>2, Parts DEF Fits
  <1>13. RequestsFit' /\ \A i \in Live : Faithful(sessions[i], i, drawn', uses')
    <2>1. drawn' \in Nat /\ drawn <= drawn' /\ now' = now
      BY <1>3, <1>7
    <2>2. Fits(x, drawn', uses', now)
      BY <1>7, <1>12
    <2>. QED  BY <1>6, <1>9, <1>11, <2>1, <2>2, UsesMove
  <1>14. TypeInv'
    <2>1. \A i \in Ids : uses'[i].first <= now /\ uses'[i].last <= now
      BY <1>3, <1>9, <1>10
    <2>. QED  BY <1>7, <1>9, <2>1 DEF Inv, TypeInv
  <1>15. SessionsFit'
    BY <1>7, <1>13 DEF SessionsFit, Live
  <1>16. EndedForGood'
    BY <1>5, <1>6, <1>7, <1>8 DEF Moves, Holds, Inv, RequestsFit, EndedForGood
  <1>. QED  BY <1>13, <1>14, <1>15, <1>16 DEF Inv

LEMMA SaveSessionStep ==
  ASSUME Inv, NEW t \in Threads, SaveSession(t)
  PROVE  Inv'
  <1>. DEFINE me == thread[t]
              id == me.sid
              new == [me.copy EXCEPT !.seen = me.time]
              y == [Resting EXCEPT !.at = me.want, !.want = me.want, !.sid = me.sid]
  <1>1. me.at = "save" /\ me \in Doing /\ Fits(me, drawn, uses, now)
    BY MyRequestFits DEF SaveSession, At, Fits
  <1>2. id \in Ids /\ id <= drawn /\ me.want \in Wants /\ me.copy # None
        /\ Faithful(me.copy, id, drawn, uses) /\ me.time <= uses[id].last
    BY <1>1 DEF Fits
  <1>3. me.copy \in Session /\ me.time \in Nat
    BY <1>1, <1>2 DEF Doing
  <1>4. new \in Session /\ new.created = me.copy.created /\ new.seen = me.time
    <2>. HIDE DEF me
    <2>. QED  BY <1>3 DEF Session
  <1>5. y \in Doing
    <2>1. me.want \in Places /\ me.want \in Wants \cup {"none", "login", "thesis"}
          /\ me.sid \in Nat
      BY <1>1, <1>2, Parts DEF Doing
    <2>. HIDE DEF me
    <2>. QED  BY <2>1, Parts DEF Doing
  <1>6. y.at = me.want /\ y.sid = id /\ y.copy = None /\ y.time = 0
    BY Parts DEF Doing
  <1>7. sessions' = [sessions EXCEPT ![id] = new] /\ (Moves(t, Resting) \/ Moves(t, y))
    BY DEF SaveSession, Ends
  <1>8. UNCHANGED <<now, up, service, settings, file, drawn, uses, ended, raced>>
    BY DEF SaveSession, UnchangedAround
  <1>9. id \notin ended
    BY <1>2 DEF Inv, EndedForGood, Holds
  <1>10. now \in Nat
    BY DEF Inv, TypeInv
  <1>. HIDE DEF me, id, new, y
  <1>11. Fits(y, drawn, uses, now)
    <2>1. y.time \in Nat /\ y.time <= now
      BY <1>6, <1>10
    <2>. QED  BY <1>2, <1>5, <1>6, <2>1, Parts DEF Fits
  <1>12. /\ RequestsFit'
         /\ \A i \in ended, u \in Threads : ~Holds(u, i)'
    BY <1>6, <1>7, <1>8, <1>11, OneMoves, RestingFitsHere
  <1>13. sessions' \in [Ids -> Session \cup {None}] /\ sessions'[id] = new
         /\ \A i \in Ids \ {id} : sessions'[i] = sessions[i]
    BY <1>2, <1>4, <1>7 DEF Inv, TypeInv
  <1>14. TypeInv'
    BY <1>8, <1>13 DEF Inv, TypeInv
  <1>15. SessionsFit'
    <2>1. Faithful(new, id, drawn, uses)
      BY <1>2, <1>4 DEF Faithful
    <2>. QED  BY <1>8, <1>13, <2>1 DEF Inv, SessionsFit, Live, Faithful
  <1>16. EndedForGood'
    BY <1>8, <1>9, <1>12, <1>13 DEF Inv, TypeInv, EndedForGood, Holds
  <1>. QED  BY <1>12, <1>14, <1>15, <1>16 DEF Inv

LEMMA TimesAreOrdered == \A n \in Nat : 0 <= n /\ n <= n
  OBVIOUS

\* A request that has no place among the sessions any more.
LEMMA RenewalFits ==
  ASSUME Inv, NEW x \in Doing, x.copy = None, x.time = 0,
         x.at \in {"assign", "persist", "save file"},
         x.at = "assign" /\ x.want = "password" => x.new \in Passwords
  PROVE  Fits(x, drawn, uses, now)
  <1>1. now \in Nat
    BY DEF Inv, TypeInv
  <1>2. x.time <= now
    <2>1. 0 <= now
      BY <1>1, TimesAreOrdered
    <2>. QED  BY <2>1
  <1>3. x.at \notin {"drop others", "open", "get", "check", "save"} \cup Wants
    BY DEF Wants
  <1>. QED  BY <1>2, <1>3 DEF Fits

LEMMA ChangePasswordStep ==
  ASSUME Inv, NEW t \in Threads, ChangePassword(t)
  PROVE  Inv'
  <1>1. service \in Services /\ service' = service /\ raced' \in BOOLEAN
    BY DEF ChangePassword, Alongside, Inv, TypeInv
  <1>2. CASE Ends(t)
    BY <1>1, <1>2, RestingFitsHere, SessionsAside
       DEF ChangePassword, Ends, UnchangedAround, Inv, TypeInv
  <1>3. CASE ~Ends(t)
    <2>1. PICK password \in Passwords :
            Moves(t, [Resting EXCEPT !.at = "assign", !.want = "password", !.mine = service,
                                     !.new = password])
      BY <1>3 DEF ChangePassword
    <2>. DEFINE x == [Resting EXCEPT !.at = "assign", !.want = "password", !.mine = service,
                                     !.new = password]
    <2>2. x \in Doing
      BY <1>1, Parts DEF Doing
    <2>3. x.at = "assign" /\ x.new = password /\ x.copy = None /\ x.time = 0
      BY Parts DEF Doing
    <2>4. Moves(t, x)
      BY <2>1
    <2>. HIDE DEF x
    <2>5. Fits(x, drawn, uses, now)
      BY <2>2, <2>3, RenewalFits
    <2>. QED  BY <1>1, <2>3, <2>4, <2>5, SessionsAside
              DEF ChangePassword, UnchangedAround, Inv, TypeInv
  <1>. QED  BY <1>2, <1>3

LEMMA PutSettingsStep ==
  ASSUME Inv, NEW t \in Threads, PutSettings(t)
  PROVE  Inv'
  <1>. DEFINE x == [Resting EXCEPT !.at = "assign", !.want = "settings", !.mine = service]
  <1>1. service \in Services /\ raced' \in BOOLEAN /\ settings' \in Policies
    BY DEF PutSettings, Alongside, Inv, TypeInv
  <1>2. x \in Doing
    BY <1>1, Parts DEF Doing
  <1>3. x.at = "assign" /\ x.want = "settings" /\ x.copy = None /\ x.time = 0
    BY Parts DEF Doing
  <1>4. Moves(t, x)
    BY DEF PutSettings
  <1>. HIDE DEF x
  <1>5. Fits(x, drawn, uses, now)
    BY <1>2, <1>3, RenewalFits
  <1>. QED  BY <1>1, <1>3, <1>4, <1>5, SessionsAside DEF PutSettings, UnchangedAround, Inv, TypeInv

LEMMA AssignStep ==
  ASSUME Inv, NEW t \in Threads, Assign(t)
  PROVE  Inv'
  <1>. DEFINE me == thread[t]
              x == [Resting EXCEPT !.at = "persist", !.want = "password"]
  <1>1. me.at = "assign" /\ me \in Doing /\ Fits(me, drawn, uses, now)
    BY MyRequestFits DEF Assign, At, Fits
  <1>2. me.mine \in Services /\ settings \in Policies
    BY <1>1 DEF Doing, Inv, TypeInv
  <1>3. service' \in Services
    <2>1. CASE me.want = "password"
      <3>1. me.new \in Passwords
        BY <1>1, <2>1 DEF Fits
      <3>. QED  BY <1>2, <2>1, <3>1 DEF Assign, Services
    <2>2. CASE me.want # "password"
      BY <1>2, <2>2 DEF Assign, Services
    <2>. QED  BY <2>1, <2>2
  <1>4. x \in Doing
    BY Parts DEF Doing
  <1>5. x.at = "persist" /\ x.copy = None /\ x.time = 0
    BY Parts DEF Doing
  <1>6. Moves(t, x) \/ Moves(t, Resting)
    BY DEF Assign, Ends
  <1>. HIDE DEF x, me
  <1>7. Fits(x, drawn, uses, now)
    BY <1>4, <1>5, RenewalFits
  <1>8. UNCHANGED <<now, up, sessions, settings, file, drawn, uses, ended, raced>>
    BY DEF Assign, UnchangedAround
  <1>. QED  BY <1>3, <1>5, <1>6, <1>7, <1>8, RestingFitsHere, SessionsAside DEF Inv, TypeInv

LEMMA LoadFileStep ==
  ASSUME Inv, NEW t \in Threads, LoadFile(t)
  PROVE  Inv'
  <1>. DEFINE x == [thread[t] EXCEPT !.at = "save file", !.new = service.password]
  <1>1. thread[t] \in Doing /\ thread[t].at = "persist" /\ Fits(thread[t], drawn, uses, now)
    BY MyRequestFits DEF LoadFile, At, Fits
  <1>2. service.password \in Passwords
    BY DEF Inv, TypeInv, Services
  <1>3. x \in Doing
    BY <1>1, <1>2, Parts DEF Doing
  <1>4. x.at = "save file" /\ x.copy = thread[t].copy /\ x.time = thread[t].time
    BY <1>1 DEF Doing
  <1>5. thread[t].copy = None /\ thread[t].time <= now
    BY <1>1 DEF Fits
  <1>6. Moves(t, x) \/ Moves(t, Resting)
    BY DEF LoadFile, Ends
  <1>. HIDE DEF x
  <1>7. Fits(x, drawn, uses, now)
    BY <1>3, <1>4, <1>5, Parts DEF Fits
  <1>8. UNCHANGED <<now, up, sessions, service, settings, file, drawn, uses, ended, raced>>
    BY DEF LoadFile, UnchangedAround
  <1>. QED  BY <1>4, <1>5, <1>6, <1>7, <1>8, RestingFitsHere, SessionsAside DEF Inv, TypeInv

LEMMA SaveFileStep ==
  ASSUME Inv, NEW t \in Threads, SaveFile(t)
  PROVE  Inv'
  <1>1. thread[t].new \in Passwords \cup {Unset}
    BY MyRequestFits DEF Fits, Doing
  <1>2. UNCHANGED <<now, up, sessions, service, settings, drawn, uses, ended, raced>>
        /\ file' = thread[t].new /\ Moves(t, Resting)
    BY DEF SaveFile, Ends, UnchangedAround
  <1>. QED  BY <1>1, <1>2, RestingFitsHere, SessionsAside DEF Inv, TypeInv

LEMMA TickStep ==
  ASSUME Inv, Tick
  PROVE  Inv'
  <1>1. now \in Nat /\ now' \in Nat /\ now <= now' /\ now' <= MaxTime /\ drawn \in Nat
        /\ uses \in [Ids -> Use]
    BY Constants DEF Tick, Inv, TypeInv
  <1>2. UNCHANGED <<up, sessions, service, settings, file, thread, drawn, uses, ended, raced>>
    BY DEF Tick
  <1>3. \A i \in Ids : uses[i].first \in Nat /\ uses[i].last \in Nat
    BY <1>1 DEF Use
  <1>4. TypeInv'
    BY <1>1, <1>2, <1>3 DEF Inv, TypeInv
  <1>5. RequestsFit'
    <2>1. \A i \in Ids : uses[i].last <= uses[i].last
      BY <1>3
    <2>2. drawn <= drawn
      BY <1>1
    <2>3. \A t \in Threads : Fits(thread[t], drawn, uses, now')
      BY <1>1, <2>1, <2>2, MyRequestFits, FitsLater
    <2>. QED  BY <1>2, <2>3 DEF Inv, RequestsFit
  <1>6. SessionsFit' /\ EndedForGood'
    BY <1>2 DEF Inv, SessionsFit, Live, Faithful, EndedForGood, Holds
  <1>. QED  BY <1>4, <1>5, <1>6 DEF Inv

LEMMA CrashStep ==
  ASSUME Inv, Crash
  PROVE  Inv'
  <1>1. UNCHANGED <<now, service, settings, drawn, uses>> /\ up' = FALSE
        /\ sessions' = [i \in Ids |-> None] /\ thread' = [t \in Threads |-> Resting]
        /\ ended' = ended \cup Live
    BY DEF Crash
  <1>2. raced' \in BOOLEAN /\ file' \in Passwords \cup {Unset, Torn}
    BY DEF Crash, Inv, TypeInv
  <1>3. TypeInv'
    BY <1>1, <1>2 DEF Inv, TypeInv, Live
  <1>4. RequestsFit' /\ SessionsFit'
    BY <1>1, RestingFitsHere DEF RequestsFit, SessionsFit, Live
  <1>5. EndedForGood'
    <2>1. \A i \in ended \cup Live : i \in Ids /\ i <= drawn
      BY DEF Inv, TypeInv, EndedForGood, SessionsFit, Faithful
    <2>. QED  BY <1>1, <2>1, RestingFitsHere DEF EndedForGood, Holds
  <1>. QED  BY <1>3, <1>4, <1>5 DEF Inv

LEMMA RestartStep ==
  ASSUME Inv, Restart
  PROVE  Inv'
  <1>1. UNCHANGED <<now, sessions, file, thread, drawn, uses, ended, raced>> /\ up' = TRUE
    BY DEF Restart
  <1>2. service' \in Services /\ settings' \in Policies
    BY Constants DEF Restart, Services, Inv, TypeInv
  <1>3. TypeInv'
    BY <1>1, <1>2 DEF Inv, TypeInv
  <1>4. RequestsFit' /\ SessionsFit' /\ EndedForGood'
    BY <1>1 DEF Inv, RequestsFit, SessionsFit, Live, EndedForGood, Holds
  <1>. QED  BY <1>3, <1>4 DEF Inv

-----------------------------------------------------------------------------
(* The theorems.                                                           *)

LEMMA InitInv == Init => Inv
  <1>. SUFFICES ASSUME Init PROVE Inv
    OBVIOUS
  <1>1. 0 <= MaxTime /\ 1..0 \subseteq Ids /\ 0 <= 0
    BY Constants
  <1>2. service \in Services /\ settings \in Policies /\ uses \in [Ids -> Use]
        /\ \A i \in Ids : uses[i].first = 0 /\ uses[i].last = 0
    BY Constants DEF Init, Services, Use
  <1>3. TypeInv
    BY <1>1, <1>2 DEF Init, TypeInv
  <1>4. RequestsFit
    BY <1>3, RestingFits DEF TypeInv, Init, RequestsFit
  <1>5. SessionsFit /\ EndedForGood
    BY DEF Init, SessionsFit, Live, EndedForGood
  <1>. QED  BY <1>3, <1>4, <1>5 DEF Inv

LEMMA StepInv == Inv /\ [Next]_vars => Inv'
  <1>. SUFFICES ASSUME Inv, [Next]_vars PROVE Inv'
    OBVIOUS
  <1>1. CASE UNCHANGED vars
    BY <1>1 DEF vars, Inv, TypeInv, RequestsFit, SessionsFit, Live, EndedForGood, Holds
  <1>2. CASE Tick \/ Crash \/ Restart
    BY <1>2, TickStep, CrashStep, RestartStep
  <1>3. ASSUME NEW t \in Threads, Login(t) \/ Request(t) \/ SaveThesis(t) \/ Step(t)
        PROVE  Inv'
    BY <1>3, LoginStep, RequestStep, SaveThesisStep, DropOthersStep, OpenStep, GetStep, RefuseStep,
       PassStep, SaveSessionStep, LogoutStep, UpdateStep, ChangePasswordStep, PutSettingsStep,
       AssignStep, LoadFileStep, SaveFileStep DEF Step
  <1>. QED  BY <1>1, <1>2, <1>3 DEF Next

\* What the requests under way and the sessions agree on at every step.
THEOREM InvHolds == Spec => []Inv
  BY InitInv, StepInv, PTL DEF Spec

\* Every variable keeps its type.
THEOREM SessionsTyped == Spec => []TypeOK
  <1>1. Inv => TypeOK
    <2>. SUFFICES ASSUME Inv PROVE TypeOK
      OBVIOUS
    <2>1. uses \in [Ids -> [first : 0..now, last : 0..now]]
      BY DEF Inv, TypeInv, Use
    <2>2. ASSUME NEW t \in Threads
          PROVE  /\ thread[t].at \in Places
                 /\ thread[t].copy \in Session \cup {None}
                 /\ thread[t].mine \in [password : Passwords, policy : Policies]
                 /\ thread[t].time \in 0..now
      <3>1. thread[t] \in Doing /\ thread[t].time <= now
        BY MyRequestFits DEF Fits
      <3>2. now \in Nat /\ thread[t].time \in Nat
        BY <3>1 DEF Doing, Inv, TypeInv
      <3>. QED  BY <3>1, <3>2 DEF Doing, Services
    <2>3. now \in 0..MaxTime
      BY Constants DEF Inv, TypeInv
    <2>. QED  BY <2>1, <2>2, <2>3 DEF Inv, TypeInv, TypeOK, Services
  <1>. QED  BY <1>1, InvHolds, PTL

\* A session that has ended while no other request held a copy of it never comes
\* back, however many threads the API has and whatever they do
\* (SessionAuthService.authenticate saves what it has read).
THEOREM NoSessionReturns == Spec => []EndedStaysEnded
  <1>1. Inv => EndedStaysEnded
    BY DEF Inv, EndedForGood, EndedStaysEnded
  <1>. QED  BY <1>1, InvHolds, PTL

-----------------------------------------------------------------------------
(* The steps by which a request is let through.                            *)

\* t goes elsewhere.
MovesElsewhere(t) == \E x : Moves(t, x) /\ x.at # "save"

LEMMA Elsewhere ==
  ASSUME Inv, NEW t \in Threads, MovesElsewhere(t),
         NEW u \in Threads, thread'[u].at = "save"
  PROVE  thread[u].at = "save"
  <1>1. PICK x : Moves(t, x) /\ x.at # "save"
    BY DEF MovesElsewhere
  <1>2. thread' = [v \in Threads |-> IF v = t THEN x ELSE thread[v]]
    BY <1>1 DEF Inv, RequestsFit, Moves
  <1>. QED  BY <1>1, <1>2

LEMMA RequestsMoveElsewhere ==
  ASSUME Inv, NEW t \in Threads, Login(t) \/ Request(t) \/ SaveThesis(t)
  PROVE  MovesElsewhere(t)
  <1>1. Resting.at = "rest" /\ \A place : [Resting EXCEPT !.at = place].at = place
    BY DEF Resting
  <1>2. CASE Login(t)
    <2>1. PICK agent : \/ Receive(t, Resting)
                       \/ Receive(t, [Resting EXCEPT !.at = "drop others", !.want = "login",
                                                     !.agent = agent, !.time = now])
      BY <1>2 DEF Login
    <2>. DEFINE x == [Resting EXCEPT !.at = "drop others", !.want = "login",
                                     !.agent = agent, !.time = now]
    <2>2. x.at = "drop others"
      BY DEF Resting
    <2>. HIDE DEF x
    <2>3. Moves(t, Resting) \/ Moves(t, x)
      BY <2>1 DEF Receive, x
    <2>. QED  BY <1>1, <2>2, <2>3 DEF MovesElsewhere
  <1>3. CASE Request(t)
    <2>1. PICK want, id, agent :
            Receive(t, [Resting EXCEPT !.at = "get", !.want = want, !.sid = id, !.agent = agent,
                                       !.mine = service])
      BY <1>3 DEF Request
    <2>. DEFINE x == [Resting EXCEPT !.at = "get", !.want = want, !.sid = id, !.agent = agent,
                                     !.mine = service]
    <2>2. x.at = "get"
      BY DEF Resting
    <2>3. Moves(t, x)
      BY <2>1 DEF Receive
    <2>. HIDE DEF x
    <2>. QED  BY <2>2, <2>3 DEF MovesElsewhere
  <1>4. CASE SaveThesis(t)
    <2>. DEFINE x == [Resting EXCEPT !.at = "save file", !.want = "thesis", !.new = file]
    <2>1. x.at = "save file"
      BY DEF Resting
    <2>2. Moves(t, x)
      BY <1>4 DEF SaveThesis
    <2>. HIDE DEF x
    <2>. QED  BY <2>1, <2>2 DEF MovesElsewhere
  <1>. QED  BY <1>2, <1>3, <1>4

LEMMA StepsMoveElsewhere ==
  ASSUME Inv, NEW t \in Threads, Step(t), ~Pass(t)
  PROVE  MovesElsewhere(t)
  <1>1. Ends(t) => MovesElsewhere(t)
    <2>1. Resting.at # "save"
      BY DEF Resting
    <2>. QED  BY <2>1 DEF Ends, MovesElsewhere
  <1>2. thread[t] \in Doing /\ Fits(thread[t], drawn, uses, now)
    BY MyRequestFits DEF Fits
  <1>3. CASE Open(t) \/ Refuse(t) \/ Logout(t) \/ Update(t) \/ SaveFile(t)
    BY <1>1, <1>3 DEF Open, Refuse, Logout, Update, SaveFile
  <1>4. CASE DropOthers(t)
    <2>. DEFINE x == [thread[t] EXCEPT !.at = "open"]
    <2>1. x.at = "open"
      BY <1>2 DEF Doing
    <2>2. Moves(t, x)
      BY <1>4 DEF DropOthers
    <2>. HIDE DEF x
    <2>. QED  BY <2>1, <2>2 DEF MovesElsewhere
  <1>5. CASE Get(t)
    <2>. DEFINE x == [thread[t] EXCEPT !.at = "check", !.copy = sessions[thread[t].sid]]
    <2>1. x.at = "check"
      BY <1>2 DEF Doing
    <2>2. Ends(t) \/ Moves(t, x)
      BY <1>5 DEF Get
    <2>. HIDE DEF x
    <2>. QED  BY <1>1, <2>1, <2>2 DEF MovesElsewhere
  <1>6. CASE SaveSession(t)
    <2>. DEFINE want == thread[t].want
                x == [Resting EXCEPT !.at = want, !.want = want, !.sid = thread[t].sid]
    <2>1. want \in Wants
      BY <1>2, <1>6 DEF SaveSession, At, Fits
    <2>2. x.at = want
      BY DEF Resting
    <2>3. Ends(t) \/ Moves(t, x)
      BY <1>6 DEF SaveSession
    <2>. HIDE DEF x, want
    <2>4. want # "save"
      BY <2>1 DEF Wants
    <2>. QED  BY <1>1, <2>2, <2>3, <2>4 DEF MovesElsewhere
  <1>7. CASE ChangePassword(t)
    <2>1. PICK password :
            \/ Ends(t)
            \/ Moves(t, [Resting EXCEPT !.at = "assign", !.want = "password", !.mine = service,
                                        !.new = password])
      BY <1>7 DEF ChangePassword
    <2>. DEFINE x == [Resting EXCEPT !.at = "assign", !.want = "password", !.mine = service,
                                     !.new = password]
    <2>2. x.at = "assign"
      BY DEF Resting
    <2>3. Ends(t) \/ Moves(t, x)
      BY <2>1
    <2>. HIDE DEF x
    <2>. QED  BY <1>1, <2>2, <2>3 DEF MovesElsewhere
  <1>8. CASE PutSettings(t)
    <2>. DEFINE x == [Resting EXCEPT !.at = "assign", !.want = "settings", !.mine = service]
    <2>1. x.at = "assign"
      BY DEF Resting
    <2>2. Moves(t, x)
      BY <1>8 DEF PutSettings
    <2>. HIDE DEF x
    <2>. QED  BY <2>1, <2>2 DEF MovesElsewhere
  <1>9. CASE Assign(t)
    <2>. DEFINE x == [Resting EXCEPT !.at = "persist", !.want = "password"]
    <2>1. x.at = "persist"
      BY DEF Resting
    <2>2. Ends(t) \/ Moves(t, x)
      BY <1>9 DEF Assign
    <2>. HIDE DEF x
    <2>. QED  BY <1>1, <2>1, <2>2 DEF MovesElsewhere
  <1>10. CASE LoadFile(t)
    <2>. DEFINE x == [thread[t] EXCEPT !.at = "save file", !.new = service.password]
    <2>1. x.at = "save file"
      BY <1>2 DEF Doing
    <2>2. Ends(t) \/ Moves(t, x)
      BY <1>10 DEF LoadFile
    <2>. HIDE DEF x
    <2>. QED  BY <1>1, <2>1, <2>2 DEF MovesElsewhere
  <1>. QED  BY <1>3, <1>4, <1>5, <1>6, <1>7, <1>8, <1>9, <1>10 DEF Step

\* What a request that passes has checked: the copy it has read, which was opened
\* when the session was and used no later.
LEMMA PassingIsInTime ==
  ASSUME Inv, NEW t \in Threads, Pass(t)
  PROVE  LET use == uses[thread[t].sid]
             policy == thread[t].mine.policy
         IN  now - use.first <= policy.absolute /\ now - use.last <= policy.idle
  <1>. DEFINE me == thread[t]
              policy == me.mine.policy
              use == uses[me.sid]
  <1>1. me.at = "check" /\ me \in Doing /\ Fits(me, drawn, uses, now)
    BY MyRequestFits DEF Pass, At, Fits
  <1>2. me.copy # None /\ me.sid \in Ids /\ me.copy.created = use.first /\ me.copy.seen <= use.last
    BY <1>1 DEF Fits, Faithful
  <1>3. me.copy \in Session /\ policy \in Policies
    BY <1>1, <1>2 DEF Doing, Services
  <1>4. me.copy.created \in Nat /\ me.copy.seen \in Nat
    BY <1>3 DEF Session
  <1>5. policy.idle \in Nat /\ policy.absolute \in Nat
    BY <1>3, SessionsAssumption DEF Policy
  <1>6. now \in Nat /\ use.first \in Nat /\ use.last \in Nat
    BY <1>2 DEF Inv, TypeInv, Use
  <1>7. ~(now - me.copy.seen > policy.idle) /\ ~(now - me.copy.created > policy.absolute)
    BY DEF Pass, Expired
  <1>. HIDE DEF me, policy, use
  <1>8. now - use.first <= policy.absolute /\ now - use.last <= policy.idle
    BY <1>2, <1>4, <1>5, <1>6, <1>7
  <1>. QED  BY <1>8 DEF me, policy, use

\* No request passes after the absolute timeout of its login or the idle timeout
\* of the latest use, whichever older copy of the session it has read
\* (_is_expired on a session that slower requests keep saving).
THEOREM NobodyPassesLate == Spec => PassesInTime
  <1>1. ASSUME Inv, [Next]_vars, NEW u \in Threads, thread[u].at # "save", thread'[u].at = "save"
        PROVE  Pass(u)
    <2>1. CASE UNCHANGED vars \/ Tick \/ Restart
      BY <1>1, <2>1 DEF vars, Tick, Restart
    <2>2. CASE Crash
      BY <1>1, <2>2, Parts DEF Crash
    <2>3. ASSUME NEW t \in Threads, Login(t) \/ Request(t) \/ SaveThesis(t) \/ Step(t)
          PROVE  Pass(u)
      <3>1. CASE MovesElsewhere(t)
        BY <1>1, <3>1, Elsewhere
      <3>2. CASE Pass(t)
        <4>1. thread'[u] = thread[u] \/ u = t
          BY <1>1, <3>2 DEF Pass, Moves, Inv, RequestsFit
        <4>. QED  BY <1>1, <3>2, <4>1
      <3>. QED  BY <1>1, <2>3, <3>1, <3>2, RequestsMoveElsewhere, StepsMoveElsewhere
    <2>. QED  BY <1>1, <2>1, <2>2, <2>3 DEF Next
  <1>2. Inv /\ [Next]_vars =>
          [\A t \in Threads :
            thread[t].at # "save" /\ thread'[t].at = "save" =>
              LET use == uses[thread[t].sid]
                  policy == thread[t].mine.policy
              IN  now - use.first <= policy.absolute /\ now - use.last <= policy.idle]_vars
    BY <1>1, PassingIsInTime
  <1>. QED  BY <1>2, InvHolds, PTL DEF Spec, PassesInTime

-----------------------------------------------------------------------------
(* The password.                                                           *)

\* Where a request renews the service or writes the file.
Renewals == {"assign", "persist", "save file"}

\* The password a restart would begin with.
Kept == IF file = Unset THEN Default ELSE file

\* What is true of the one request that renews the service or writes the file,
\* while it is the only one.
AloneInv ==
  /\ \A t, u \in Threads : Renewing(t) /\ Renewing(u) => t = u
  /\ up /\ (\A t \in Threads : ~(Renewing(t) /\ thread[t].want = "password")) =>
       service.password = Kept
  /\ \A t \in Threads :
       /\ thread[t].at = "assign" /\ thread[t].want # "password" =>
            thread[t].mine.password = service.password
       /\ thread[t].at = "persist" => thread[t].want = "password"
       /\ thread[t].at = "save file" =>
            thread[t].new = IF thread[t].want = "password" THEN service.password ELSE file

PasswordInv ==
  /\ up => file # Torn
  /\ ~up => \A t \in Threads : thread[t].at = "rest"
  /\ ~raced => AloneInv

\* A request that has nothing to do with the password.
LEMMA OthersKeepIt ==
  ASSUME Inv, PasswordInv, NEW t \in Threads, ~Renewing(t), up,
         NEW x, Moves(t, x), x.at \notin Renewals,
         UNCHANGED <<up, service, file, raced>>
  PROVE  PasswordInv'
  <1>1. thread' = [u \in Threads |-> IF u = t THEN x ELSE thread[u]]
    BY DEF Inv, RequestsFit, Moves
  <1>2. ~Renewing(t)' /\ \A u \in Threads \ {t} : thread'[u] = thread[u]
    BY <1>1 DEF Renewing, Renewals
  <1>3. \A u \in Threads : Renewing(u)' => u # t /\ Renewing(u) /\ thread'[u] = thread[u]
    BY <1>2 DEF Renewing
  <1>4. \A u \in Threads : Renewing(u) => u # t /\ Renewing(u)' /\ thread'[u] = thread[u]
    BY <1>2 DEF Renewing
  <1>5. ~raced => AloneInv'
    <2>. SUFFICES ASSUME ~raced PROVE AloneInv'
      OBVIOUS
    <2>1. AloneInv
      BY DEF PasswordInv
    <2>2. \A u, v \in Threads : Renewing(u)' /\ Renewing(v)' => u = v
      BY <1>3, <2>1 DEF AloneInv
    <2>3. up /\ (\A u \in Threads : ~(Renewing(u)' /\ thread'[u].want = "password")) =>
            service.password = Kept
      BY <1>4, <2>1 DEF AloneInv
    <2>4. ASSUME NEW u \in Threads
          PROVE  /\ thread'[u].at = "assign" /\ thread'[u].want # "password" =>
                      thread'[u].mine.password = service.password
                 /\ thread'[u].at = "persist" => thread'[u].want = "password"
                 /\ thread'[u].at = "save file" =>
                      thread'[u].new = IF thread'[u].want = "password" THEN service.password ELSE file
      <3>1. CASE u = t
        BY <1>1, <3>1 DEF Renewals
      <3>2. CASE u # t
        BY <1>2, <2>1, <3>2 DEF AloneInv
      <3>. QED  BY <3>1, <3>2
    <2>. QED  BY <2>2, <2>3, <2>4 DEF AloneInv, Kept, Renewing
  <1>. QED  BY <1>5 DEF PasswordInv


\* A request that renews the service or writes the file, and leaves the password
\* to be had from where it moves to.
LEMMA TheOneThatRenews ==
  ASSUME Inv, PasswordInv, NEW t \in Threads, NEW x, Moves(t, x), up, up', file' # Torn,
         ~raced' => ~raced /\ ~Alongside(t),
         ~raced' =>
           /\ x.at = "assign" /\ x.want # "password" => x.mine.password = service'.password
           /\ x.at = "persist" => x.want = "password"
           /\ x.at = "save file" =>
                x.new = IF x.want = "password" THEN service'.password ELSE file'
           /\ ~(x.at \in Renewals /\ x.want = "password") => service'.password = Kept'
  PROVE  PasswordInv'
  <1>1. thread' = [u \in Threads |-> IF u = t THEN x ELSE thread[u]]
    BY DEF Inv, RequestsFit, Moves
  <1>2. SUFFICES ASSUME ~raced' PROVE AloneInv'
    BY DEF PasswordInv
  <1>3. \A u \in Threads \ {t} : ~(thread'[u].at \in Renewals)
    BY <1>1, <1>2 DEF Alongside, Renewing, Renewals
  <1>4. thread'[t] = x
    BY <1>1
  <1>5. \A u, v \in Threads : Renewing(u)' /\ Renewing(v)' => u = v
    BY <1>3 DEF Renewing, Renewals
  <1>6. up' /\ (\A u \in Threads : ~(Renewing(u)' /\ thread'[u].want = "password")) =>
          service'.password = Kept'
    BY <1>2, <1>4 DEF Renewing, Renewals
  <1>7. ASSUME NEW u \in Threads
        PROVE  /\ thread'[u].at = "assign" /\ thread'[u].want # "password" =>
                    thread'[u].mine.password = service'.password
               /\ thread'[u].at = "persist" => thread'[u].want = "password"
               /\ thread'[u].at = "save file" =>
                    thread'[u].new = IF thread'[u].want = "password" THEN service'.password
                                                                     ELSE file'
    <2>1. CASE u = t
      BY <1>2, <1>4, <2>1
    <2>2. CASE u # t
      BY <1>3, <2>2 DEF Renewals
    <2>. QED  BY <2>1, <2>2
  <1>. QED  BY <1>5, <1>6, <1>7 DEF AloneInv

\* Nobody but t renews, and nothing is lost, while t does.
LEMMA AloneWhileRenewing ==
  ASSUME PasswordInv, NEW t \in Threads, Renewing(t), ~raced
  PROVE  ~Alongside(t)
  BY DEF PasswordInv, AloneInv, Alongside

LEMMA KeptBefore ==
  ASSUME PasswordInv, NEW t \in Threads, ~raced, ~Alongside(t), up,
         ~(Renewing(t) /\ thread[t].want = "password")
  PROVE  service.password = Kept
  BY DEF PasswordInv, AloneInv, Alongside

LEMMA RequestsKeepIt ==
  ASSUME Inv, PasswordInv, NEW t \in Threads, Login(t) \/ Request(t)
  PROVE  PasswordInv'
  <1>1. Resting.at = "rest"
    BY Parts
  <1>2. ASSUME NEW x, Receive(t, x), x.at \in {"rest", "drop others", "get"}
        PROVE  PasswordInv'
    <2>1. ~Renewing(t) /\ up
      BY <1>2 DEF Receive, At, Renewing
    <2>2. Moves(t, x) /\ x.at \notin Renewals /\ UNCHANGED <<up, service, file, raced>>
      BY <1>2 DEF Receive, Renewals
    <2>. QED  BY <2>1, <2>2, OthersKeepIt
  <1>3. CASE Login(t)
    <2>1. PICK agent : \/ Receive(t, Resting)
                       \/ Receive(t, [Resting EXCEPT !.at = "drop others", !.want = "login",
                                                     !.agent = agent, !.time = now])
      BY <1>3 DEF Login
    <2>. DEFINE x == [Resting EXCEPT !.at = "drop others", !.want = "login",
                                     !.agent = agent, !.time = now]
    <2>2. x.at = "drop others"
      BY DEF Resting
    <2>3. Receive(t, Resting) \/ Receive(t, x)
      BY <2>1
    <2>. HIDE DEF x
    <2>. QED  BY <1>1, <1>2, <2>2, <2>3
  <1>4. CASE Request(t)
    <2>1. PICK want, id, agent :
            Receive(t, [Resting EXCEPT !.at = "get", !.want = want, !.sid = id, !.agent = agent,
                                       !.mine = service])
      BY <1>4 DEF Request
    <2>. DEFINE x == [Resting EXCEPT !.at = "get", !.want = want, !.sid = id, !.agent = agent,
                                     !.mine = service]
    <2>2. x.at = "get"
      BY DEF Resting
    <2>3. Receive(t, x)
      BY <2>1
    <2>. HIDE DEF x
    <2>. QED  BY <1>2, <2>2, <2>3
  <1>. QED  BY <1>3, <1>4

\* The steps around a session.
LEMMA SessionStepsKeepIt ==
  ASSUME Inv, PasswordInv, NEW t \in Threads,
         DropOthers(t) \/ Open(t) \/ Get(t) \/ Refuse(t) \/ Pass(t) \/ SaveSession(t)
           \/ Logout(t) \/ Update(t)
  PROVE  PasswordInv'
  <1>1. /\ up /\ UNCHANGED <<up, service, file, raced>>
        /\ thread[t].at \in {"drop others", "open", "get", "check", "save", "logout", "update"}
    BY DEF DropOthers, Open, Get, Refuse, Pass, SaveSession, Logout, Update, At, UnchangedAround
  <1>2. ~Renewing(t)
    BY <1>1 DEF Renewing
  <1>3. ASSUME NEW x, Moves(t, x), x.at \notin Renewals
        PROVE  PasswordInv'
    BY <1>1, <1>2, <1>3, OthersKeepIt
  <1>4. CASE Ends(t)
    BY <1>3, <1>4, Parts DEF Ends, Renewals
  <1>5. thread[t] \in Doing /\ Fits(thread[t], drawn, uses, now)
    BY MyRequestFits DEF Fits
  <1>6. CASE DropOthers(t)
    <2>. DEFINE x == [thread[t] EXCEPT !.at = "open"]
    <2>1. x.at = "open" /\ Moves(t, x)
      BY <1>5, <1>6 DEF Doing, DropOthers
    <2>. HIDE DEF x
    <2>. QED  BY <1>3, <2>1 DEF Renewals
  <1>7. CASE Get(t)
    <2>. DEFINE x == [thread[t] EXCEPT !.at = "check", !.copy = sessions[thread[t].sid]]
    <2>1. x.at = "check"
      BY <1>5 DEF Doing
    <2>2. Ends(t) \/ Moves(t, x)
      BY <1>7 DEF Get
    <2>. HIDE DEF x
    <2>. QED  BY <1>3, <1>4, <2>1, <2>2 DEF Renewals
  <1>8. CASE Pass(t)
    <2>. DEFINE me == thread[t]
                x == [Resting EXCEPT !.at = "save", !.want = me.want, !.sid = me.sid,
                                     !.copy = me.copy, !.time = now]
    <2>1. x.at = "save"
      BY DEF Resting
    <2>2. Moves(t, x)
      BY <1>8 DEF Pass
    <2>. HIDE DEF x
    <2>. QED  BY <1>3, <2>1, <2>2 DEF Renewals
  <1>9. CASE SaveSession(t)
    <2>. DEFINE want == thread[t].want
                x == [Resting EXCEPT !.at = want, !.want = want, !.sid = thread[t].sid]
    <2>1. want \in Wants
      BY <1>5, <1>9 DEF SaveSession, At, Fits
    <2>2. x.at = want
      BY DEF Resting
    <2>3. Ends(t) \/ Moves(t, x)
      BY <1>9 DEF SaveSession
    <2>. HIDE DEF x, want
    <2>4. want \notin Renewals
      BY <2>1 DEF Wants, Renewals
    <2>. QED  BY <1>3, <1>4, <2>2, <2>3, <2>4
  <1>10. CASE Open(t) \/ Refuse(t) \/ Logout(t) \/ Update(t)
    BY <1>4, <1>10 DEF Open, Refuse, Logout, Update
  <1>. QED  BY <1>6, <1>7, <1>8, <1>9, <1>10

LEMMA ChangePasswordKeepsIt ==
  ASSUME Inv, PasswordInv, NEW t \in Threads, ChangePassword(t)
  PROVE  PasswordInv'
  <1>1. up /\ ~Renewing(t) /\ UNCHANGED <<up, service, file>>
    BY DEF ChangePassword, At, Renewing, UnchangedAround
  <1>2. CASE Ends(t) /\ UNCHANGED raced
    BY <1>1, <1>2, OthersKeepIt, Parts DEF Ends, Renewals
  <1>3. ASSUME NEW password \in Passwords \ {service.password},
               Moves(t, [Resting EXCEPT !.at = "assign", !.want = "password", !.mine = service,
                                        !.new = password]),
               raced' = (raced \/ Alongside(t))
        PROVE  PasswordInv'
    <2>. DEFINE x == [Resting EXCEPT !.at = "assign", !.want = "password", !.mine = service,
                                     !.new = password]
    <2>1. x.at = "assign" /\ x.want = "password"
      BY DEF Resting
    <2>2. Moves(t, x)
      BY <1>3
    <2>. HIDE DEF x
    <2>3. file' # Torn
      BY <1>1 DEF PasswordInv
    <2>. QED  BY <1>1, <1>3, <2>1, <2>2, <2>3, TheOneThatRenews DEF Renewals
  <1>. QED  BY <1>2, <1>3 DEF ChangePassword

LEMMA PutSettingsKeepsIt ==
  ASSUME Inv, PasswordInv, NEW t \in Threads, PutSettings(t)
  PROVE  PasswordInv'
  <1>. DEFINE x == [Resting EXCEPT !.at = "assign", !.want = "settings", !.mine = service]
  <1>1. up /\ ~Renewing(t) /\ UNCHANGED <<up, service, file>> /\ raced' = (raced \/ Alongside(t))
    BY DEF PutSettings, At, Renewing, UnchangedAround
  <1>2. x.at = "assign" /\ x.want = "settings" /\ x.mine = service
    BY DEF Resting
  <1>3. Moves(t, x)
    BY DEF PutSettings
  <1>. HIDE DEF x
  <1>4. file' # Torn
    BY <1>1 DEF PasswordInv
  <1>5. ~raced' => ~raced /\ ~Alongside(t)
    BY <1>1
  <1>6. ~raced' => service'.password = Kept'
    BY <1>1, <1>5, KeptBefore DEF Kept
  <1>. QED  BY <1>1, <1>2, <1>3, <1>4, <1>5, <1>6, TheOneThatRenews

LEMMA SaveThesisKeepsIt ==
  ASSUME Inv, PasswordInv, NEW t \in Threads, SaveThesis(t)
  PROVE  PasswordInv'
  <1>. DEFINE x == [Resting EXCEPT !.at = "save file", !.want = "thesis", !.new = file]
  <1>1. /\ up /\ ~Renewing(t) /\ UNCHANGED <<up, service, file>> /\ file # Torn
        /\ raced' = (raced \/ Alongside(t))
    BY DEF SaveThesis, At, Renewing
  <1>2. x.at = "save file" /\ x.want = "thesis" /\ x.new = file
    BY DEF Resting
  <1>3. Moves(t, x)
    BY DEF SaveThesis
  <1>. HIDE DEF x
  <1>5. ~raced' => ~raced /\ ~Alongside(t)
    BY <1>1
  <1>6. ~raced' => service'.password = Kept'
    BY <1>1, <1>5, KeptBefore DEF Kept
  <1>. QED  BY <1>1, <1>2, <1>3, <1>5, <1>6, TheOneThatRenews

\* A renewal of the policy keeps the password of the service it was made from,
\* which is still the one that is there.
LEMMA AssignKeepsIt ==
  ASSUME Inv, PasswordInv, NEW t \in Threads, Assign(t)
  PROVE  PasswordInv'
  <1>. DEFINE me == thread[t]
  <1>1. /\ up /\ Renewing(t) /\ me.at = "assign" /\ UNCHANGED <<up, file, raced>>
    BY DEF Assign, At, Renewing, UnchangedAround
  <1>2. file' # Torn /\ (~raced' => ~raced /\ ~Alongside(t))
    BY <1>1, AloneWhileRenewing DEF PasswordInv
  <1>3. me.mine \in Services
    BY MyRequestFits DEF Fits, Doing
  <1>4. CASE me.want = "password"
    <2>. DEFINE x == [Resting EXCEPT !.at = "persist", !.want = "password"]
    <2>1. x.at = "persist" /\ x.want = "password"
      BY DEF Resting
    <2>2. Moves(t, x)
      BY <1>4 DEF Assign
    <2>. HIDE DEF x
    <2>. QED  BY <1>1, <1>2, <2>1, <2>2, TheOneThatRenews DEF Renewals
  <1>5. CASE me.want # "password"
    <2>1. ~raced => me.mine.password = service.password
      BY <1>1, <1>5 DEF PasswordInv, AloneInv
    <2>2. service'.password = me.mine.password
      BY <1>3, <1>5 DEF Assign, Services
    <2>3. ~raced' => service'.password = Kept'
      BY <1>1, <1>2, <1>5, <2>1, <2>2, KeptBefore DEF Kept
    <2>4. Moves(t, Resting)
      BY <1>5 DEF Assign, Ends
    <2>. QED  BY <1>1, <1>2, <2>3, <2>4, Parts, TheOneThatRenews
  <1>. QED  BY <1>4, <1>5

LEMMA LoadFileKeepsIt ==
  ASSUME Inv, PasswordInv, NEW t \in Threads, LoadFile(t)
  PROVE  PasswordInv'
  <1>. DEFINE x == [thread[t] EXCEPT !.at = "save file", !.new = service.password]
  <1>1. /\ up /\ Renewing(t) /\ thread[t].at = "persist" /\ UNCHANGED <<up, service, file, raced>>
    BY DEF LoadFile, At, Renewing, UnchangedAround
  <1>2. file # Torn /\ file' # Torn /\ (~raced' => ~raced /\ ~Alongside(t))
    BY <1>1, AloneWhileRenewing DEF PasswordInv
  <1>3. x.at = "save file" /\ x.new = service.password /\ x.want = thread[t].want
    BY MyRequestFits DEF Fits, Doing
  <1>4. Moves(t, x)
    BY <1>2 DEF LoadFile
  <1>. HIDE DEF x
  <1>5. ~raced' => x.want = "password"
    BY <1>1, <1>2, <1>3 DEF PasswordInv, AloneInv
  <1>. QED  BY <1>1, <1>2, <1>3, <1>4, <1>5, TheOneThatRenews DEF Renewals

LEMMA SaveFileKeepsIt ==
  ASSUME Inv, PasswordInv, NEW t \in Threads, SaveFile(t)
  PROVE  PasswordInv'
  <1>1. /\ up /\ Renewing(t) /\ thread[t].at = "save file" /\ UNCHANGED <<up, service, raced>>
        /\ file' = thread[t].new /\ Moves(t, Resting)
    BY DEF SaveFile, At, Renewing, UnchangedAround, Ends
  <1>2. ~raced' => ~raced /\ ~Alongside(t)
    BY <1>1, AloneWhileRenewing
  <1>3. thread[t].new \in Passwords \cup {Unset}
    BY MyRequestFits DEF Fits, Doing
  <1>4. file' # Torn
    BY <1>1, <1>3, SessionsAssumption DEF Torn, Unset
  <1>5. ~raced' => service'.password = Kept'
    <2>1. CASE thread[t].want = "password"
      <3>1. service.password \in Passwords
        BY DEF Inv, TypeInv, Services
      <3>2. ~raced => file' = service.password
        BY <1>1, <2>1 DEF PasswordInv, AloneInv
      <3>. QED  BY <1>1, <1>2, <3>1, <3>2, SessionsAssumption DEF Kept, Unset
    <2>2. CASE thread[t].want # "password"
      <3>1. ~raced => file' = file
        BY <1>1, <2>2 DEF PasswordInv, AloneInv
      <3>. QED  BY <1>1, <1>2, <2>2, <3>1, KeptBefore DEF Kept
    <2>. QED  BY <2>1, <2>2
  <1>. QED  BY <1>1, <1>2, <1>4, <1>5, Parts, TheOneThatRenews

LEMMA CrashKeepsIt ==
  ASSUME Inv, PasswordInv, Crash
  PROVE  PasswordInv'
  <1>1. up' = FALSE /\ \A t \in Threads : thread'[t].at = "rest"
    BY Parts DEF Crash
  <1>. QED  BY <1>1 DEF PasswordInv, AloneInv, Renewing

LEMMA RestartKeepsIt ==
  ASSUME Inv, PasswordInv, Restart
  PROVE  PasswordInv'
  <1>1. /\ UNCHANGED <<thread, file, raced>> /\ file # Torn
        /\ service' = [password |-> Kept, policy |-> FirstPolicy]
        /\ \A t \in Threads : thread[t].at = "rest"
    BY DEF Restart, PasswordInv, Kept
  <1>2. service'.password = Kept' /\ \A t \in Threads : ~Renewing(t)' /\ thread'[t].at = "rest"
    BY <1>1 DEF Kept, Renewing
  <1>. QED  BY <1>1, <1>2 DEF PasswordInv, AloneInv

\* The password is kept: whoever is the only one to renew the service or to write
\* the file leaves the two with the same password, for any number of threads.
THEOREM ThePasswordIsKept == Spec => []PasswordIsKept
  <1>1. Init => PasswordInv
    <2>. SUFFICES ASSUME Init PROVE PasswordInv
      OBVIOUS
    <2>1. \A t \in Threads : thread[t].at = "rest"
      BY Parts DEF Init
    <2>2. service.password = Kept /\ file # Torn
      BY DEF Init, Kept, Unset, Torn
    <2>. QED  BY <2>1, <2>2 DEF PasswordInv, AloneInv, Renewing
  <1>2. PasswordInv => PasswordIsKept
    BY DEF PasswordInv, AloneInv, PasswordIsKept, Kept
  <1>3. Inv /\ PasswordInv /\ [Next]_vars => PasswordInv'
    <2>. SUFFICES ASSUME Inv, PasswordInv, [Next]_vars PROVE PasswordInv'
      OBVIOUS
    <2>1. CASE UNCHANGED vars \/ Tick
      <3>1. UNCHANGED <<up, service, file, thread, raced>>
        BY <2>1 DEF vars, Tick
      <3>2. AloneInv' <=> AloneInv
        BY <3>1 DEF AloneInv, Renewing, Kept
      <3>3. \A t \in Threads : thread'[t].at = thread[t].at
        BY <3>1
      <3>. QED  BY <3>1, <3>2, <3>3 DEF PasswordInv
    <2>2. CASE Crash \/ Restart
      BY <2>2, CrashKeepsIt, RestartKeepsIt
    <2>3. ASSUME NEW t \in Threads, Login(t) \/ Request(t) \/ SaveThesis(t) \/ Step(t)
          PROVE  PasswordInv'
      BY <2>3, RequestsKeepIt, SaveThesisKeepsIt, SessionStepsKeepIt, ChangePasswordKeepsIt,
         PutSettingsKeepsIt, AssignKeepsIt, LoadFileKeepsIt, SaveFileKeepsIt DEF Step
    <2>. QED  BY <2>1, <2>2, <2>3 DEF Next
  <1>. QED  BY <1>1, <1>2, <1>3, InvHolds, PTL DEF Spec

=============================================================================
