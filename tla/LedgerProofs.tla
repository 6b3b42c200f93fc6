---------------------------- MODULE LedgerProofs ----------------------------
(***************************************************************************)
(* The safety of the trade ledger, for any brokers, symbols, threads and   *)
(* numbers of orders, requests and faults.                                 *)
(*                                                                         *)
(* The merge of closed trades is a fold over sequences. What a fold does   *)
(* is proved by induction on the set of lengths it holds of.               *)
(*                                                                         *)
(* Types follow a thesis from the list a scan has made into its writes and *)
(* the file, and a trade through the merge of the store.                   *)
(*                                                                         *)
(* A close by hand is sized on a stored portfolio of any age; a broker     *)
(* that clips it leaves the position on its side or closes it.             *)
(*                                                                         *)
(* A thesis is filed once: LedgerInv says, for a broker that reports its   *)
(* trades and books that nothing has disturbed, what has been filed and    *)
(* what is still to be, at each place of each thread.                      *)
(*                                                                         *)
(* Every trade is filed: FilingInv says, for a broker whose trades the     *)
(* merge does not take for one another, that the lists a scan works on     *)
(* lack no trade and that a trade waits for a thesis older than it.        *)
(*                                                                         *)
(* What is filed stays, with any broker and through restarts: StayInv says *)
(* that what a thread is about to archive is a trade the journal lacks.    *)
(***************************************************************************)
EXTENDS TradeLedger, FiniteSetTheorems, SequenceTheorems, WellFoundedInduction, TLAPS

-----------------------------------------------------------------------------
(* Induction and recursion, without an operator as parameter.              *)

\* A set of numbers has a least one.
LEMMA LeastNat ==
  ASSUME NEW S, S \subseteq Nat, S # {}
  PROVE  \E n \in S : \A m \in S : n <= m
<1>1. PICK n \in S : \A m \in S : ~(<<m, n>> \in OpToRel(<, Nat))
  BY NatLessThanWellFounded, WFMin
<1>2. \A m \in S : m \in Nat /\ n \in Nat /\ ~(m < n)
  BY <1>1 DEF OpToRel
<1>. QED
  BY <1>2

\* What holds of 0 and of the successor of each number it holds of holds of all.
LEMMA AllNat ==
  ASSUME NEW G, 0 \in G, \A n \in Nat : n \in G => n + 1 \in G
  PROVE  Nat \subseteq G
<1>1. SUFFICES ASSUME Nat \ G # {} PROVE FALSE
  OBVIOUS
<1>2. PICK n \in Nat \ G : \A m \in Nat \ G : n <= m
  BY <1>1, LeastNat
<1>3. \A m \in Nat \ G : ~(m < n)
  BY <1>2
<1>4. n \in Nat /\ n \notin G /\ n # 0
  OBVIOUS
<1>5. n - 1 \in Nat /\ (n - 1) + 1 = n /\ n - 1 < n
  BY <1>4
<1>6. n - 1 \in G
  BY <1>3, <1>5
<1>. QED
  BY <1>4, <1>5, <1>6

\* f repeats the step g from e on.
Repeats(f, g, e, N) == f[0] = e /\ \A n \in 1..N : f[n] = g[<<n, f[n - 1]>>]

\* A function may be defined by what it makes of the value before.
LEMMA FoldExists ==
  ASSUME NEW T, NEW e \in T, NEW N \in Nat, NEW g \in [(1..N) \X T -> T]
  PROVE  \E f \in [0..N -> T] : Repeats(f, g, e, N)
<1> DEFINE Rule(f, n) == \A m \in 0..N : m <= n => f[m] = IF m = 0 THEN e ELSE g[<<m, f[m - 1]>>]
           G == {n \in Nat : \E f \in [0..N -> T] : Rule(f, n)}
<1>1. 0 \in G
  <2>1. [m \in 0..N |-> e] \in [0..N -> T] /\ Rule([m \in 0..N |-> e], 0)
    OBVIOUS
  <2>. QED  BY <2>1
<1>2. ASSUME NEW n \in Nat, n \in G PROVE n + 1 \in G
  <2>1. PICK f \in [0..N -> T] : Rule(f, n)
    BY <1>2
  <2>2. CASE n + 1 \notin 0..N
    <3>1. \A m \in 0..N : m <= n + 1 => m <= n
      BY <2>2
    <3>2. Rule(f, n + 1)
      BY <2>1, <3>1
    <3>. QED  BY <3>2
  <2>3. CASE n + 1 \in 0..N
    <3> DEFINE h == [f EXCEPT ![n + 1] = g[<<n + 1, f[n]>>]]
    <3>1. n \in 0..N /\ n + 1 \in 1..N /\ f[n] \in T
      BY <2>3
    <3>2. g[<<n + 1, f[n]>>] \in T
      BY <3>1
    <3>3. h \in [0..N -> T] /\ h[n + 1] = g[<<n + 1, f[n]>>] /\ \A m \in 0..N : m <= n => h[m] = f[m]
      BY <2>3, <3>2
    <3> HIDE DEF h
    <3>4. ASSUME NEW m \in 0..N, m <= n + 1
          PROVE  h[m] = IF m = 0 THEN e ELSE g[<<m, h[m - 1]>>]
      <4>1. CASE m <= n
        <5>1. h[m] = f[m] /\ f[m] = IF m = 0 THEN e ELSE g[<<m, f[m - 1]>>]
          BY <2>1, <3>3, <4>1
        <5>2. m # 0 => m - 1 \in 0..N /\ m - 1 <= n
          BY <4>1
        <5>3. m # 0 => h[m - 1] = f[m - 1]
          BY <3>3, <5>2
        <5>. QED  BY <5>1, <5>3
      <4>2. CASE m = n + 1
        <5>1. m # 0 /\ m - 1 = n
          BY <4>2
        <5>2. h[m - 1] = f[n]
          BY <3>1, <3>3, <5>1
        <5>. QED  BY <3>3, <4>2, <5>1, <5>2
      <4>. QED  BY <3>4, <4>1, <4>2
    <3>. QED  BY <3>3, <3>4
  <2>. QED  BY <2>2, <2>3
<1>3. N \in G
  <2> HIDE DEF G
  <2>. QED  BY <1>1, <1>2, AllNat
<1>4. PICK f \in [0..N -> T] : Rule(f, N)
  BY <1>3
<1>5. \A m \in 0..N : f[m] = IF m = 0 THEN e ELSE g[<<m, f[m - 1]>>]
  BY <1>4
<1>6. f[0] = e
  <2>1. 0 \in 0..N
    OBVIOUS
  <2>. QED  BY <1>5, <2>1
<1>7. ASSUME NEW n \in 1..N PROVE f[n] = g[<<n, f[n - 1]>>]
  <2>1. n \in 0..N /\ n # 0
    OBVIOUS
  <2>. QED  BY <1>5, <2>1
<1>. QED
  BY <1>6, <1>7 DEF Repeats

-----------------------------------------------------------------------------
(* The merge of trades: it takes them from the two lists.                  *)

LEMMA InsertedIsIn ==
  ASSUME NEW S, NEW s \in Seq(S), NEW trade \in S
  PROVE  Inserted(s, trade) \in Seq(S)
<1> DEFINE B == {i \in DOMAIN s : s[i].at >= trade.at}
           n == Cardinality(B)
<1>1. DOMAIN s = 1..Len(s) /\ Len(s) \in Nat
  BY LenProperties
<1>2. IsFiniteSet(1..Len(s)) /\ Cardinality(1..Len(s)) = Len(s)
  BY <1>1, FS_Interval
<1>3. n \in Nat /\ n <= Len(s)
  BY <1>1, <1>2, FS_Subset, FS_CardinalityType
<1> HIDE DEF n
<1>4. SubSeq(s, 1, n) \in Seq(S)
  <2>1. \A i \in 1..n : s[i] \in S
    BY <1>1, <1>3, ElementOfSeq
  <2>. QED  BY <1>3, <2>1, SubSeqProperties
<1>5. SubSeq(s, n + 1, Len(s)) \in Seq(S)
  <2>1. \A i \in (n + 1)..Len(s) : s[i] \in S
    BY <1>1, <1>3, ElementOfSeq
  <2>. QED  BY <1>1, <1>3, <2>1, SubSeqProperties
<1>6. <<trade>> \in Seq(S)
  OBVIOUS
<1>7. SubSeq(s, 1, (n + 1) - 1) = SubSeq(s, 1, n)
  BY <1>3
<1>8. Inserted(s, trade) = SubSeq(s, 1, n) \o <<trade>> \o SubSeq(s, n + 1, Len(s))
  BY <1>7 DEF Inserted, InsertAt, n
<1>. QED
  BY <1>4, <1>5, <1>6, <1>8, ConcatProperties

\* The sort, trade by trade.
LEMMA NewestFirstStepwise ==
  ASSUME NEW S, NEW s \in Seq(S)
  PROVE  \E f \in [0..Len(s) -> Seq(S)] :
           /\ f[0] = <<>>
           /\ \A n \in 1..Len(s) : f[n] = Inserted(f[n - 1], s[n])
           /\ NewestFirst(s) = f[Len(s)]
<1> DEFINE N == Len(s)
           Rule(f) == f = [n \in 0..N |-> IF n = 0 THEN <<>>
                             ELSE CHOOSE next \in {Inserted(x, s[n]) : x \in {f[n - 1]}} : TRUE]
<1>1. N \in Nat /\ <<>> \in Seq(S) /\ \A n \in 1..N : s[n] \in S
  BY LenProperties, ElementOfSeq
<1>2. \A x, y : (CHOOSE next \in {Inserted(z, y) : z \in {x}} : TRUE) = Inserted(x, y)
  <2>1. \A x, y : {Inserted(z, y) : z \in {x}} = {Inserted(x, y)}
    OBVIOUS
  <2>2. \A w : (CHOOSE next \in {w} : TRUE) = w
    OBVIOUS
  <2>. QED  BY <2>1, <2>2
<1>3. PICK f : Rule(f) /\ NewestFirst(s) = f[N]
  <2>1. \E f : Rule(f)
    <3> DEFINE g == [p \in (1..N) \X Seq(S) |-> Inserted(p[2], s[p[1]])]
    <3> HIDE DEF N
    <3>1. ASSUME NEW p \in (1..N) \X Seq(S) PROVE Inserted(p[2], s[p[1]]) \in Seq(S)
      <4>1. p[1] \in 1..N /\ p[2] \in Seq(S)
        OBVIOUS
      <4>2. s[p[1]] \in S
        BY <1>1, <4>1
      <4>. QED  BY <4>1, <4>2, InsertedIsIn
    <3>2. g \in [(1..N) \X Seq(S) -> Seq(S)]
      BY <3>1
    <3>3. \A n \in 1..N, x \in Seq(S) : g[<<n, x>>] = Inserted(x, s[n])
      OBVIOUS
    <3> HIDE DEF g
    <3>4. PICK f \in [0..N -> Seq(S)] : Repeats(f, g, <<>>, N)
      <4>1. N \in Nat /\ <<>> \in Seq(S)
        BY <1>1
      <4>. QED  BY ONLY <3>2, <4>1, FoldExists
    <3>5. ASSUME NEW n \in 0..N, n # 0
          PROVE  f[n] = CHOOSE next \in {Inserted(x, s[n]) : x \in {f[n - 1]}} : TRUE
      <4>1. n \in 1..N /\ n - 1 \in 0..N
        BY <1>1, <3>5
      <4>2. f[n] = Inserted(f[n - 1], s[n])
        BY <3>3, <3>4, <4>1 DEF Repeats
      <4>. QED  BY <1>2, <4>2
    <3>6. Rule(f)
      BY <3>4, <3>5 DEF Repeats
    <3>. QED  BY <3>6
  <2> DEFINE h == CHOOSE f : Rule(f)
  <2>2. NewestFirst(s) = h[N]
    BY DEF NewestFirst
  <2>3. Rule(h)
    BY <2>1
  <2> HIDE DEF h
  <2>. QED  BY <2>2, <2>3
<1> HIDE DEF N
<1>4. f[0] = <<>>
  BY <1>1, <1>3
<1>5. ASSUME NEW n \in 1..N PROVE f[n] = Inserted(f[n - 1], s[n])
  <2>1. n \in 0..N /\ n # 0
    BY <1>1
  <2>2. f[n] = CHOOSE next \in {Inserted(x, s[n]) : x \in {f[n - 1]}} : TRUE
    BY <1>3, <2>1
  <2>. QED  BY <1>2, <2>2
<1>6. f \in [0..N -> Seq(S)]
  <2> DEFINE G == {n \in Nat : n \in 0..N => f[n] \in Seq(S)}
  <2>1. 0 \in G
    BY <1>1, <1>4
  <2>2. ASSUME NEW n \in Nat, n \in G PROVE n + 1 \in G
    <3>1. ASSUME n + 1 \in 0..N PROVE f[n + 1] \in Seq(S)
      <4>1. n + 1 \in 1..N /\ n \in 0..N /\ (n + 1) - 1 = n
        BY <1>1, <3>1
      <4>2. f[n] \in Seq(S) /\ s[n + 1] \in S
        BY <1>1, <2>2, <4>1
      <4>3. f[n + 1] = Inserted(f[n], s[n + 1])
        BY <1>5, <4>1
      <4>. QED  BY <4>2, <4>3, InsertedIsIn
    <3>. QED  BY <3>1
  <2>3. Nat \subseteq G
    <3> HIDE DEF G
    <3>. QED  BY <2>1, <2>2, AllNat
  <2>4. \A n \in 0..N : f[n] \in Seq(S)
    BY <1>1, <2>3
  <2>. QED  BY <1>3, <2>4
<1>. QED
  BY <1>3, <1>4, <1>5, <1>6 DEF N

LEMMA TakeIsIn ==
  ASSUME NEW S, NEW s \in Seq(S), NEW trade \in S
  PROVE  Take(s, trade) \in Seq(S)
<1> DEFINE twins == {i \in DOMAIN s : Match(s[i], trade)}
           first == CHOOSE i \in twins : \A j \in twins : i <= j
<1>1. DOMAIN s = 1..Len(s) /\ Len(s) \in Nat
  BY LenProperties
<1>2. CASE twins = {}
  BY <1>2, AppendProperties DEF Take
<1>3. CASE twins # {}
  <2>1. twins \subseteq Nat /\ twins \subseteq 1..Len(s)
    BY <1>1
  <2>2. \E i \in twins : \A j \in twins : i <= j
    <3> HIDE DEF twins
    <3>. QED  BY <1>3, <2>1, LeastNat
  <2>3. first \in twins
    <3> HIDE DEF twins
    <3>. QED  BY <2>2
  <2>4. first \in 1..Len(s)
    BY <2>1, <2>3
  <2>5. Take(s, trade) = [s EXCEPT ![first] = Prefer(s[first], trade)]
    BY <1>3 DEF Take
  <2> HIDE DEF first, twins
  <2>6. Prefer(s[first], trade) \in {s[first], trade} /\ s[first] \in S
    BY <2>4, ElementOfSeq DEF Prefer
  <2>7. Prefer(s[first], trade) \in S
    BY <2>6
  <2>. QED  BY <2>4, <2>5, <2>7, ExceptSeq
<1>. QED
  BY <1>2, <1>3

\* The merge, trade by trade.
LEMMA TakenFromStepwise ==
  ASSUME NEW S, NEW s \in Seq(S)
  PROVE  \E f \in [0..Len(s) -> Seq(S)] :
           /\ f[0] = <<>>
           /\ \A n \in 1..Len(s) : f[n] = Take(f[n - 1], s[n])
           /\ TakenFrom(s) = f[Len(s)]
<1> DEFINE N == Len(s)
           Rule(f) == f = [n \in 0..N |-> IF n = 0 THEN <<>>
                             ELSE CHOOSE next \in {Take(x, s[n]) : x \in {f[n - 1]}} : TRUE]
<1>1. N \in Nat /\ <<>> \in Seq(S) /\ \A n \in 1..N : s[n] \in S
  BY LenProperties, ElementOfSeq
<1>2. \A x, y : (CHOOSE next \in {Take(z, y) : z \in {x}} : TRUE) = Take(x, y)
  <2>1. \A x, y : {Take(z, y) : z \in {x}} = {Take(x, y)}
    OBVIOUS
  <2>2. \A w : (CHOOSE next \in {w} : TRUE) = w
    OBVIOUS
  <2>. QED  BY <2>1, <2>2
<1>3. PICK f : Rule(f) /\ TakenFrom(s) = f[N]
  <2>1. \E f : Rule(f)
    <3> DEFINE g == [p \in (1..N) \X Seq(S) |-> Take(p[2], s[p[1]])]
    <3> HIDE DEF N
    <3>1. ASSUME NEW p \in (1..N) \X Seq(S) PROVE Take(p[2], s[p[1]]) \in Seq(S)
      <4>1. p[1] \in 1..N /\ p[2] \in Seq(S)
        OBVIOUS
      <4>2. s[p[1]] \in S
        BY <1>1, <4>1
      <4>. QED  BY <4>1, <4>2, TakeIsIn
    <3>2. g \in [(1..N) \X Seq(S) -> Seq(S)]
      BY <3>1
    <3>3. \A n \in 1..N, x \in Seq(S) : g[<<n, x>>] = Take(x, s[n])
      OBVIOUS
    <3> HIDE DEF g
    <3>4. PICK f \in [0..N -> Seq(S)] : Repeats(f, g, <<>>, N)
      <4>1. N \in Nat /\ <<>> \in Seq(S)
        BY <1>1
      <4>. QED  BY ONLY <3>2, <4>1, FoldExists
    <3>5. ASSUME NEW n \in 0..N, n # 0
          PROVE  f[n] = CHOOSE next \in {Take(x, s[n]) : x \in {f[n - 1]}} : TRUE
      <4>1. n \in 1..N /\ n - 1 \in 0..N
        BY <1>1, <3>5
      <4>2. f[n] = Take(f[n - 1], s[n])
        BY <3>3, <3>4, <4>1 DEF Repeats
      <4>. QED  BY <1>2, <4>2
    <3>6. Rule(f)
      BY <3>4, <3>5 DEF Repeats
    <3>. QED  BY <3>6
  <2> DEFINE h == CHOOSE f : Rule(f)
  <2>2. TakenFrom(s) = h[N]
    BY DEF TakenFrom
  <2>3. Rule(h)
    BY <2>1
  <2> HIDE DEF h
  <2>. QED  BY <2>2, <2>3
<1> HIDE DEF N
<1>4. f[0] = <<>>
  BY <1>1, <1>3
<1>5. ASSUME NEW n \in 1..N PROVE f[n] = Take(f[n - 1], s[n])
  <2>1. n \in 0..N /\ n # 0
    BY <1>1
  <2>2. f[n] = CHOOSE next \in {Take(x, s[n]) : x \in {f[n - 1]}} : TRUE
    BY <1>3, <2>1
  <2>. QED  BY <1>2, <2>2
<1>6. f \in [0..N -> Seq(S)]
  <2> DEFINE G == {n \in Nat : n \in 0..N => f[n] \in Seq(S)}
  <2>1. 0 \in G
    BY <1>1, <1>4
  <2>2. ASSUME NEW n \in Nat, n \in G PROVE n + 1 \in G
    <3>1. ASSUME n + 1 \in 0..N PROVE f[n + 1] \in Seq(S)
      <4>1. n + 1 \in 1..N /\ n \in 0..N /\ (n + 1) - 1 = n
        BY <1>1, <3>1
      <4>2. f[n] \in Seq(S) /\ s[n + 1] \in S
        BY <1>1, <2>2, <4>1
      <4>3. f[n + 1] = Take(f[n], s[n + 1])
        BY <1>5, <4>1
      <4>. QED  BY <4>2, <4>3, TakeIsIn
    <3>. QED  BY <3>1
  <2>3. Nat \subseteq G
    <3> HIDE DEF G
    <3>. QED  BY <2>1, <2>2, AllNat
  <2>4. \A n \in 0..N : f[n] \in Seq(S)
    BY <1>1, <2>3
  <2>. QED  BY <1>3, <2>4
<1>. QED
  BY <1>3, <1>4, <1>5, <1>6 DEF N

LEMMA NewestFirstIsIn ==
  ASSUME NEW S, NEW s \in Seq(S)
  PROVE  NewestFirst(s) \in Seq(S)
<1>1. PICK f \in [0..Len(s) -> Seq(S)] : NewestFirst(s) = f[Len(s)]
  BY NewestFirstStepwise
<1>2. Len(s) \in Nat
  BY LenProperties
<1>3. Len(s) \in 0..Len(s)
  BY <1>2
<1>. QED
  BY <1>1, <1>3

\* A merge invents nothing: what it returns is from one list or the other.
LEMMA MergeIsIn ==
  ASSUME NEW S, NEW a \in Seq(S), NEW b \in Seq(S)
  PROVE  Merge(a, b) \in Seq(S)
<1>1. CASE a = <<>> \/ b = <<>>
  BY <1>1 DEF Merge
<1>2. CASE a # <<>> /\ b # <<>>
  <2> DEFINE all == NewestFirst(a \o b)
             taken == TakenFrom(all)
  <2>1. all \in Seq(S)
    BY ConcatProperties, NewestFirstIsIn
  <2> HIDE DEF all
  <2>2. taken \in Seq(S)
    <3>1. PICK f \in [0..Len(all) -> Seq(S)] : TakenFrom(all) = f[Len(all)]
      BY <2>1, TakenFromStepwise
    <3>2. Len(all) \in Nat
      BY <2>1, LenProperties
    <3>3. Len(all) \in 0..Len(all)
      BY <3>2
    <3>. QED  BY <3>1, <3>3
  <2>3. Merge(a, b) = NewestFirst(taken)
    <3>1. {TakenFrom(x) : x \in {NewestFirst(a \o b)}} = {taken}
      BY DEF all
    <3> HIDE DEF taken
    <3>2. {NewestFirst(x) : x \in {taken}} = {NewestFirst(taken)}
      OBVIOUS
    <3>3. (CHOOSE merged \in {NewestFirst(taken)} : TRUE) = NewestFirst(taken)
      OBVIOUS
    <3>. QED  BY <1>2, <3>1, <3>2, <3>3 DEF Merge
  <2>. QED  BY <2>2, <2>3, NewestFirstIsIn
<1>. QED
  BY <1>1, <1>2

-----------------------------------------------------------------------------
(* Types.                                                                  *)

Trade == [id : Int, deal : Symbols \X Int, opened : Nat, at : Nat, fee : Nat]
Portfolio == [pos : [Symbols -> Int], trades : Seq(Trade), fresh : BOOLEAN]

States == {"scaled-out", "closed", "manual-closed", "recovered-closed"}

\* A scale-out is filed under a thesis that has one to file.
Due(thesis, state) == state = "scaled-out" => thesis.filed < thesis.out

Entry == {e \in [trade : Int, sym : Symbols, at : Nat, thesis : Thesis, state : States] :
            Due(e.thesis, e.state)}
Books == [active : [Symbols -> Thesis], closed : SUBSET Entry]

Archival == {j \in [do : {"archive"}, sym : Symbols, trade : Trade, thesis : Thesis,
                    state : States] : Due(j.thesis, j.state)}
Job == [do : {"upsert", "count"}, sym : Symbols, thesis : Thesis]
       \cup [do : {"remove", "touch"}, sym : Symbols]
       \cup Archival \cup [do : {"change"}] \cup [do : {"store"}, view : Portfolio]

Places == {"rest", "list", "scale-outs", "decide", "sent", "closed", "file", "merged", "recover"}

Sent == [sym : Symbols, thesis : Thesis, delta : Int]

ThreadType ==
    [at : Places, jobs : Seq(Job), copy : {None} \cup Portfolio \cup Books, view : Portfolio,
     left : Seq(Trade), active : [Symbols -> Thesis], order : {NoOrder} \cup Sent,
     phase : {"none", "before", "after"}]

\* A thread: what it has loaded is for the write it is at, it knows the order it
\* sent where it needs it, and the trade to file where it files one.
Thread ==
    {r \in ThreadType :
       /\ r.copy # None => /\ r.jobs # <<>>
                           /\ r.copy \in IF Head(r.jobs).do = "store" THEN Portfolio ELSE Books
       /\ r.at \in {"sent", "closed", "file"} => r.order \in Sent
       /\ r.at \in {"list", "scale-outs"} => r.phase = "before" \/ r.order \in Sent
       /\ r.at = "file" => r.left # <<>>}

BrokerInv ==
    /\ broker \in Brokers
    /\ held \in [Symbols -> Int]
    /\ working \in [Symbols -> Int]
    /\ trades \in Seq(Trade)

BooksInv ==
    /\ stored \in Portfolio
    /\ file # Torn => file \in Books
    /\ memory \in [Symbols -> Thesis]

CountInv == orders \in Nat /\ requests \in 0..MaxRequests /\ faults \in 0..MaxFaults

TypeInv == BrokerInv /\ BooksInv /\ thread \in [Threads -> Thread] /\ CountInv

-----------------------------------------------------------------------------

LEMMA Constants ==
  /\ Lot \in Nat /\ MaxRequests \in Nat /\ MaxFaults \in Nat
  /\ Scanner \in Threads
  /\ \A b \in Brokers : b \in BrokerType /\ b.pace \in Nat /\ b.pace > 0
BY LedgerAssumption DEF Threads, BrokerType

LEMMA SmallTypes ==
  /\ None \in Thesis /\ OldThesis \in Thesis
  /\ NoView \in Portfolio /\ Resting \in Thread
<1>1. None \in Thesis /\ OldThesis \in Thesis
  BY DEF None, OldThesis, Thesis
<1>2. NoView \in Portfolio
  BY DEF NoView, Portfolio
<1>3. Resting \in Thread
  BY <1>1, <1>2 DEF Resting, Thread, ThreadType, Places
<1>. QED
  BY <1>1, <1>2, <1>3

LEMMA ClockIsNat ==
  ASSUME BrokerInv
  PROVE  Clock \in Nat
<1>1. CASE trades = <<>>
  BY <1>1 DEF Clock
<1>2. CASE trades # <<>>
  <2>1. Len(trades) \in 1..Len(trades)
    BY <1>2, EmptySeq, LenProperties DEF BrokerInv
  <2>2. trades[Len(trades)] \in Trade
    BY <2>1, ElementOfSeq DEF BrokerInv
  <2>. QED  BY <1>2, <2>2 DEF Clock, Last, Trade
<1>. QED
  BY <1>1, <1>2

\* The quantity of an order that is executed.
LEMMA AllowedIsInt ==
  ASSUME BrokerInv, NEW sym \in Symbols, NEW delta \in Int, NEW manual \in BOOLEAN
  PROVE  Allowed(sym, delta, manual) \in Int
<1>1. held[sym] \in Int
  BY DEF BrokerInv
<1>2. \A n \in Int : Abs(n) \in Nat /\ Sign(n) \in {-1, 0, 1}
  BY DEF Abs, Sign
<1>3. Smaller(Abs(held[sym]), Abs(delta)) \in Nat
  BY <1>1, <1>2 DEF Smaller
<1>4. \A n \in Nat, s \in {-1, 0, 1} : -s * n \in Int
  OBVIOUS
<1>5. -Sign(held[sym]) * Smaller(Abs(held[sym]), Abs(delta)) \in Int
  BY <1>1, <1>2, <1>3, <1>4
<1>. QED
  BY <1>5 DEF Allowed

LEMMA ExecuteType ==
  ASSUME BrokerInv, NEW sym \in Symbols, NEW delta \in Int, Execute(sym, delta)
  PROVE  held' \in [Symbols -> Int] /\ trades' \in Seq(Trade)
<1>1. held[sym] \in Int
  BY DEF BrokerInv
<1>2. held' \in [Symbols -> Int]
  BY <1>1 DEF Execute, BrokerInv
<1>3. Closing(sym, delta) \in Trade
  <2>1. Abs(held[sym]) \in Nat /\ Abs(delta) \in Nat /\ Sign(held[sym]) \in {-1, 0, 1}
    BY <1>1 DEF Abs, Sign
  <2>2. Smaller(Abs(held[sym]), Abs(delta)) \in Nat
    BY <2>1 DEF Smaller
  <2>3. Sign(held[sym]) * Smaller(Abs(held[sym]), Abs(delta)) \in Int
    BY <2>1, <2>2
  <2>4. Clock \in Nat /\ Len(trades) \in Nat /\ broker.pace \in Nat
    BY ClockIsNat, LenProperties, Constants DEF BrokerInv
  <2>. QED  BY <2>3, <2>4 DEF Closing, Trade
<1>4. trades' \in Seq(Trade)
  <2>1. Append(trades, Closing(sym, delta)) \in Seq(Trade)
    BY <1>3, AppendProperties DEF BrokerInv
  <2>. QED  BY <2>1 DEF Execute, BrokerInv
<1>. QED
  BY <1>2, <1>4

LEMMA SubmitType ==
  ASSUME BrokerInv, NEW sym \in Symbols, NEW delta \in Int, NEW manual \in BOOLEAN,
         Submit(sym, delta, manual), broker' = broker
  PROVE  BrokerInv'
<1>1. Allowed(sym, delta, manual) \in Int
  BY AllowedIsInt
<1>2. CASE broker.fillsAtOnce
  BY <1>1, <1>2, ExecuteType DEF Submit, BrokerInv
<1>3. CASE ~broker.fillsAtOnce
  BY <1>1, <1>3 DEF Submit, BrokerInv
<1>. QED
  BY <1>2, <1>3

-----------------------------------------------------------------------------
(* Types of what threads do.                                               *)

LEMMA JobTypes ==
  /\ \A sym \in Symbols, thesis \in Thesis :
        ToUpsert(sym, thesis) \in Job /\ ToCount(sym, thesis) \in Job
  /\ \A sym \in Symbols : ToRemove(sym) \in Job /\ ToTouch(sym) \in Job
  /\ \A sym \in Symbols, trade \in Trade, thesis \in Thesis, state \in States :
        Due(thesis, state) => ToArchive(sym, trade, thesis, state) \in Job
  /\ ToChange \in Job
  /\ \A view \in Portfolio : ToStore(view) \in Job
<1>1. \A sym \in Symbols, trade \in Trade, thesis \in Thesis, state \in States :
        Due(thesis, state) => ToArchive(sym, trade, thesis, state) \in Archival
  BY DEF ToArchive, Archival
<1>. QED
  BY <1>1 DEF Job, ToUpsert, ToCount, ToRemove, ToTouch, ToChange, ToStore

LEMMA MovesType ==
  ASSUME TypeInv, NEW t \in Threads, NEW r \in Thread, Moves(t, r)
  PROVE  thread' \in [Threads -> Thread]
BY DEF TypeInv, Moves

LEMMA ReconciledType ==
  ASSUME BrokerInv
  PROVE  Reconciled \in Portfolio
BY EmptySeq DEF BrokerInv, Reconciled, Portfolio

\* What a write leaves.
LEMMA WrittenType ==
  ASSUME TypeInv, NEW job \in Job, NEW copy \in Portfolio \cup Books,
         IF job.do = "store" THEN copy \in Portfolio ELSE copy \in Books
  PROVE  IF job.do = "store" THEN Written(job, copy) \in Portfolio ELSE Written(job, copy) \in Books
<1>1. CASE job.do = "store"
  <2>1. copy.trades \in Seq(Trade) /\ stored.fresh \in BOOLEAN
    BY <1>1 DEF Portfolio, TypeInv, BooksInv
  <2>2. job.view \in Portfolio
    BY <1>1 DEF Job, Archival
  <2>3. Merge(copy.trades, job.view.trades) \in Seq(Trade)
    BY <2>1, <2>2, MergeIsIn DEF Portfolio
  <2>4. Written(job, copy) = [job.view EXCEPT !.trades = Merge(copy.trades, job.view.trades),
                                              !.fresh = job.view.fresh \/ stored.fresh]
    BY <1>1 DEF Written
  <2>. QED  BY <1>1, <2>1, <2>2, <2>3, <2>4 DEF Portfolio
<1>2. CASE job.do \in {"upsert", "count"}
  <2>1. job.sym \in Symbols /\ job.thesis \in Thesis /\ copy \in Books
    BY <1>2 DEF Job, Archival
  <2>2. Counted(copy, job.sym, job.thesis) \in Thesis
    BY <2>1 DEF Counted, Thesis, Books
  <2>. QED  BY <1>2, <2>1, <2>2 DEF Written, Upserted, Books
<1>3. CASE job.do = "remove"
  <2>1. job.sym \in Symbols /\ copy \in Books
    BY <1>3 DEF Job, Archival
  <2>. QED  BY <1>3, <2>1, SmallTypes DEF Written, Removed, Books
<1>4. CASE job.do = "archive"
  <2>1. job \in Archival /\ copy \in Books
    BY <1>4 DEF Job
  <2> DEFINE e == [trade |-> job.trade.id, sym |-> job.sym, at |-> job.trade.at,
                   thesis |-> job.thesis, state |-> job.state]
  <2>2. e \in Entry
    <3>1. job.trade \in Trade /\ Due(job.thesis, job.state)
      BY <2>1 DEF Archival
    <3>2. job.trade.id \in Int /\ job.trade.at \in Nat
      BY <3>1 DEF Trade
    <3>. QED  BY <2>1, <3>1, <3>2 DEF Archival, Entry
  <2> HIDE DEF e
  <2>3. Written(job, copy) = [copy EXCEPT !.closed = {x \in copy.closed : x.trade # job.trade.id} \cup {e}]
    BY <1>4 DEF Written, Archived, e
  <2>. QED  BY <1>4, <2>1, <2>2, <2>3 DEF Books
<1>5. CASE job.do \in {"touch", "change"}
  BY <1>5 DEF Written
<1>. QED
  BY <1>1, <1>2, <1>3, <1>4, <1>5 DEF Job, Archival

LEMMA LoadType ==
  ASSUME TypeInv, NEW t \in Threads, Load(t)
  PROVE  TypeInv'
<1> DEFINE r == thread[t]
           job == Head(r.jobs)
<1>1. r \in Thread /\ r.jobs \in Seq(Job) /\ r.jobs # <<>>
  BY DEF TypeInv, Thread, ThreadType, Load
<1>2. job \in Job /\ Tail(r.jobs) \in Seq(Job)
  BY <1>1, HeadTailProperties
<1>3. CASE job.do # "store" /\ file = Torn
  <2>1. Moves(t, Resting)
    BY <1>3 DEF Load
  <2>2. thread' \in [Threads -> Thread]
    BY <2>1, MovesType, SmallTypes
  <2>. QED  BY <2>2 DEF Load, UnchangedByThreads, TypeInv, BrokerInv, BooksInv, CountInv
<1>4. CASE ~(job.do # "store" /\ file = Torn) /\ job.do = "touch" /\ file.active[job.sym] = None
  <2>1. Moves(t, [r EXCEPT !.jobs = Tail(r.jobs)])
    BY <1>4 DEF Load
  <2>2. [r EXCEPT !.jobs = Tail(r.jobs)] \in Thread
    <3>1. r.copy = None
      BY DEF Load
    <3> HIDE DEF r
    <3>. QED  BY <1>1, <1>2, <3>1 DEF Thread, ThreadType
  <2>3. thread' \in [Threads -> Thread]
    BY <2>1, <2>2, MovesType
  <2>. QED  BY <2>3 DEF Load, UnchangedByThreads, TypeInv, BrokerInv, BooksInv, CountInv
<1>5. CASE /\ ~(job.do # "store" /\ file = Torn)
           /\ ~(job.do = "touch" /\ file.active[job.sym] = None)
  <2> DEFINE c == IF job.do = "store" THEN stored ELSE file
  <2>1. Moves(t, [r EXCEPT !.copy = c])
    BY <1>5 DEF Load
  <2>2. IF job.do = "store" THEN c \in Portfolio ELSE c \in Books
    BY <1>5 DEF TypeInv, BooksInv
  <2>3. [r EXCEPT !.copy = c] \in Thread
    <3> HIDE DEF r, c
    <3>. QED  BY <1>1, <1>2, <2>2 DEF Thread, ThreadType, job
  <2>4. thread' \in [Threads -> Thread]
    BY <2>1, <2>3, MovesType
  <2>. QED  BY <2>4 DEF Load, UnchangedByThreads, TypeInv, BrokerInv, BooksInv, CountInv
<1>. QED
  BY <1>3, <1>4, <1>5

LEMMA SaveType ==
  ASSUME TypeInv, NEW t \in Threads, Save(t)
  PROVE  TypeInv'
<1> DEFINE r == thread[t]
           job == Head(r.jobs)
           rest == [r EXCEPT !.jobs = Tail(r.jobs), !.copy = None]
<1>1. r \in Thread /\ r.jobs \in Seq(Job) /\ r.jobs # <<>> /\ r.copy # None
  BY DEF TypeInv, Thread, ThreadType, Save
<1>2. job \in Job /\ Tail(r.jobs) \in Seq(Job)
  BY <1>1, HeadTailProperties
<1>3. IF job.do = "store" THEN r.copy \in Portfolio ELSE r.copy \in Books
  BY <1>1 DEF Thread
<1>4. IF job.do = "store" THEN Written(job, r.copy) \in Portfolio ELSE Written(job, r.copy) \in Books
  <2> HIDE DEF job, r
  <2>. QED  BY <1>2, <1>3, WrittenType
<1>5. BooksInv'
  <2>1. IF job.do = "store" THEN stored' = Written(job, r.copy) /\ UNCHANGED file
        ELSE file' = Written(job, r.copy) /\ UNCHANGED stored
    BY DEF Save
  <2>2. memory' = memory
    BY DEF Save
  <2> HIDE DEF job, r
  <2>. QED  BY <1>4, <2>1, <2>2 DEF TypeInv, BooksInv
<1>6. rest \in Thread
  <2> HIDE DEF r
  <2>. QED  BY <1>1, <1>2 DEF Thread, ThreadType
<1>7. Moves(t, IF rest.jobs = <<>> /\ rest.at = "rest" THEN Resting ELSE rest)
  BY DEF Save
<1>8. thread' \in [Threads -> Thread]
  <2> HIDE DEF rest
  <2>. QED  BY <1>6, <1>7, MovesType, SmallTypes
<1>. QED
  BY <1>5, <1>8 DEF Save, UnchangedByThreads, TypeInv, BrokerInv, CountInv

\* There is a last of some positions in a list.
LEMMA LastIsIn ==
  ASSUME NEW S, NEW s \in Seq(S), NEW C \in SUBSET DOMAIN s, C # {}
  PROVE  LastOf(C) \in C /\ \A j \in C : j <= LastOf(C)
<1> DEFINE D == {Len(s) - i : i \in C}
<1>1. Len(s) \in Nat /\ C \subseteq 1..Len(s)
  BY LenProperties
<1>2. D \subseteq Nat /\ D # {}
  BY <1>1
<1>3. PICK n \in D : \A m \in D : n <= m
  <2> HIDE DEF D
  <2>. QED  BY <1>2, LeastNat
<1>4. PICK i \in C : n = Len(s) - i
  BY <1>3
<1>5. \A j \in C : j <= i
  <2>1. ASSUME NEW j \in C PROVE j <= i
    <3>1. Len(s) - j \in D
      OBVIOUS
    <3>2. Len(s) - i <= Len(s) - j
      BY <1>3, <1>4, <3>1
    <3>3. i \in Int /\ j \in Int /\ Len(s) \in Int
      BY <1>1
    <3>. QED  BY <3>2, <3>3
  <2>. QED  BY <2>1
<1>6. \E k \in C : \A j \in C : j <= k
  BY <1>5
<1>. QED
  BY <1>6 DEF LastOf

\* What leaves the broker and the books as they are, apart from the memory.
LEMMA AsideType ==
  ASSUME TypeInv, UNCHANGED <<broker, held, working, trades, stored, file, orders, requests, faults>>,
         memory' \in [Symbols -> Thesis], thread' \in [Threads -> Thread]
  PROVE  TypeInv'
BY DEF TypeInv, BrokerInv, BooksInv, CountInv

LEMMA SymbolOf ==
  ASSUME NEW trade \in Trade
  PROVE  Symbol(trade) \in Symbols
<1>1. trade.deal \in Symbols \X Int
  BY DEF Trade
<1>. QED
  BY <1>1 DEF Symbol

LEMMA MeIsThread ==
  ASSUME TypeInv
  PROVE  /\ Me \in Thread /\ Scanner \in Threads
         /\ memory \in [Symbols -> Thesis]
BY Constants DEF TypeInv, BooksInv, Me

LEMMA KnownType ==
  ASSUME TypeInv, NEW sym \in Symbols
  PROVE  Known(sym) \in Thesis /\ (Selected(sym) \in Thesis)
<1>1. Me.active \in [Symbols -> Thesis]
  BY MeIsThread DEF Thread, ThreadType
<1>2. memory \in [Symbols -> Thesis] /\ (file # Torn => file.active \in [Symbols -> Thesis])
  BY DEF TypeInv, BooksInv, Books
<1>. QED
  BY <1>1, <1>2, SmallTypes DEF Known, Selected

LEMMA BeginScanType ==
  ASSUME TypeInv, BeginScan
  PROVE  TypeInv'
<1> DEFINE view == IF stored.fresh THEN [stored EXCEPT !.fresh = FALSE] ELSE Reconciled
           r == [Resting EXCEPT !.at = "list", !.phase = "before", !.view = view,
                                !.jobs = <<ToStore(view)>>]
<1>1. view \in Portfolio
  BY ReconciledType DEF TypeInv, BooksInv, Portfolio
<1>2. Moves(Scanner, r)
  BY DEF BeginScan
<1> HIDE DEF view
<1>3. ToStore(view) \in Job
  BY <1>1, JobTypes
<1>4. r \in Thread
  <2>1. <<ToStore(view)>> \in Seq(Job)
    BY <1>3
  <2>2. Resting \in ThreadType /\ Resting.copy = None
    BY SmallTypes DEF Resting, Thread
  <2>3. r \in ThreadType
    BY <1>1, <2>1, <2>2 DEF ThreadType, Places
  <2>4. r.at = "list" /\ r.phase = "before" /\ r.copy = None
    BY <2>2 DEF ThreadType
  <2>. QED  BY <2>3, <2>4 DEF Thread
<1> HIDE DEF r
<1>5. thread' \in [Threads -> Thread]
  BY <1>2, <1>4, MovesType, MeIsThread
<1>. QED
  BY <1>5, AsideType DEF BeginScan, UnchangedByThreads, TypeInv, BooksInv

LEMMA ListThesesType ==
  ASSUME TypeInv, ListTheses
  PROVE  TypeInv'
<1> DEFINE r == [Me EXCEPT !.at = "scale-outs", !.active = file.active,
                           !.left = NewestFirst(Me.view.trades)]
<1>1. CASE file = Torn
  BY <1>1, MovesType, SmallTypes, MeIsThread, AsideType DEF ListTheses, UnchangedByThreads
<1>2. CASE file # Torn
  <2>1. Moves(Scanner, r)
    BY <1>2 DEF ListTheses
  <2>2. file.active \in [Symbols -> Thesis]
    BY <1>2 DEF TypeInv, BooksInv, Books
  <2>3. NewestFirst(Me.view.trades) \in Seq(Trade)
    BY MeIsThread, NewestFirstIsIn DEF Thread, ThreadType, Portfolio
  <2>4. r \in Thread
    <3>1. Me.at = "list"
      BY DEF ListTheses, At, Me
    <3>. QED  BY <2>2, <2>3, <3>1, MeIsThread DEF Thread, ThreadType, Places
  <2>5. thread' \in [Threads -> Thread]
    <3> HIDE DEF r
    <3>. QED  BY <2>1, <2>4, MovesType, MeIsThread
  <2>6. memory' \in [Symbols -> Thesis]
    BY MeIsThread DEF ListTheses
  <2> HIDE DEF r
  <2>. QED  BY <2>5, <2>6, AsideType DEF ListTheses, UnchangedByThreads
<1>. QED
  BY <1>1, <1>2

LEMMA FileScaleOutType ==
  ASSUME TypeInv, FileScaleOut
  PROVE  TypeInv'
<1> DEFINE trade == Head(Me.left)
           sym == Symbol(trade)
           next == [Known(sym) EXCEPT !.filed = Known(sym).filed + 1]
<1>1. /\ Me \in Thread /\ Me.left \in Seq(Trade) /\ Me.left # <<>> /\ Me.jobs = <<>>
      /\ Me.at = "scale-outs"
  BY MeIsThread DEF Thread, ThreadType, FileScaleOut, At, Me
<1>2. trade \in Trade /\ Tail(Me.left) \in Seq(Trade) /\ sym \in Symbols
  <2>1. trade \in Trade /\ Tail(Me.left) \in Seq(Trade)
    BY <1>1, HeadTailProperties
  <2> HIDE DEF trade
  <2>. QED  BY <2>1, SymbolOf
<1> HIDE DEF trade, sym
<1>3. Known(sym) \in Thesis /\ next \in Thesis
  BY <1>2, KnownType DEF Thesis
<1>4. CASE file = Torn
  BY <1>4, MovesType, SmallTypes, MeIsThread, AsideType DEF FileScaleOut, UnchangedByThreads
<1>5. CASE file # Torn /\ IsScaleOut(trade)
  <2> DEFINE r == [Me EXCEPT !.left = Tail(Me.left), !.active[sym] = next,
                     !.jobs = <<ToArchive(sym, trade, Known(sym), "scaled-out"), ToUpsert(sym, next)>>]
  <2>1. Moves(Scanner, r) /\ memory' = [memory EXCEPT ![sym] = next]
    BY <1>5 DEF FileScaleOut, trade, sym
  <2> HIDE DEF next
  <2>2. Due(Known(sym), "scaled-out")
    BY <1>3, <1>5 DEF Due, IsScaleOut, Thesis, sym
  <2>3. ToArchive(sym, trade, Known(sym), "scaled-out") \in Job /\ ToUpsert(sym, next) \in Job
    BY <1>2, <1>3, <2>2, JobTypes DEF States
  <2>4. [Me.active EXCEPT ![sym] = next] \in [Symbols -> Thesis]
    BY <1>1, <1>2, <1>3 DEF Thread, ThreadType
  <2>5. r \in Thread
    <3>1. <<ToArchive(sym, trade, Known(sym), "scaled-out"), ToUpsert(sym, next)>> \in Seq(Job)
      BY <2>3
    <3>2. Me \in ThreadType /\ Me.copy = None
      BY <1>1 DEF Thread
    <3>3. r \in ThreadType
      BY <1>2, <2>4, <3>1, <3>2 DEF ThreadType
    <3>4. r.at = "scale-outs" /\ r.copy = None /\ r.phase = Me.phase /\ r.order = Me.order
      BY <1>1, <3>2 DEF ThreadType
    <3>. QED  BY <1>1, <3>3, <3>4 DEF Thread
  <2> HIDE DEF r
  <2>6. thread' \in [Threads -> Thread]
    BY <2>1, <2>5, MovesType, MeIsThread
  <2>7. memory' \in [Symbols -> Thesis]
    BY <1>2, <1>3, <2>1, MeIsThread
  <2>. QED  BY <2>6, <2>7, AsideType DEF FileScaleOut, UnchangedByThreads
<1>6. CASE file # Torn /\ ~IsScaleOut(trade)
  <2> DEFINE r == [Me EXCEPT !.left = Tail(Me.left)]
  <2>1. Moves(Scanner, r) /\ UNCHANGED memory
    BY <1>6 DEF FileScaleOut, trade
  <2>2. r \in Thread
    BY <1>1, <1>2 DEF Thread, ThreadType
  <2> HIDE DEF r
  <2>3. thread' \in [Threads -> Thread]
    BY <2>1, <2>2, MovesType, MeIsThread
  <2>. QED  BY <2>1, <2>3, AsideType, MeIsThread DEF FileScaleOut, UnchangedByThreads
<1>. QED
  BY <1>4, <1>5, <1>6

LEMMA DropStaleType ==
  ASSUME TypeInv, DropStale
  PROVE  TypeInv'
<1>1. /\ Me \in Thread /\ Me.view.trades \in Seq(Trade) /\ Me.jobs = <<>> /\ Me.at = "scale-outs"
  BY MeIsThread DEF Thread, ThreadType, Portfolio, DropStale, At, Me
<1>2. CASE file = Torn
  BY <1>2, MovesType, SmallTypes, MeIsThread, AsideType DEF DropStale, UnchangedByThreads
<1>3. CASE file # Torn
  <2>1. PICK sym \in Stale : /\ memory' = [memory EXCEPT ![sym] = None]
                             /\ Moves(Scanner, [Me EXCEPT !.active[sym] = None, !.jobs = Filing(sym)])
    BY <1>3 DEF DropStale
  <2>2. sym \in Symbols /\ Known(sym) \in Thesis
    BY <2>1, KnownType DEF Stale
  <2>3. Filing(sym) \in Seq(Job)
    <3>1. ToRemove(sym) \in Job
      BY <2>2, JobTypes
    <3>2. CASE Candidates(sym) = {}
      BY <3>1, <3>2 DEF Filing
    <3>3. CASE Candidates(sym) # {}
      <4> DEFINE trade == Me.view.trades[LastOf(Candidates(sym))]
      <4>1. Candidates(sym) \in SUBSET DOMAIN Me.view.trades
        BY DEF Candidates
      <4>2. LastOf(Candidates(sym)) \in DOMAIN Me.view.trades
        BY <1>1, <3>3, <4>1, LastIsIn
      <4>3. trade \in Trade
        BY <1>1, <4>2, ElementOfSeq, LenProperties
      <4> HIDE DEF trade
      <4>4. ToArchive(sym, trade, Known(sym), "closed") \in Job
        BY <2>2, <4>3, JobTypes DEF States, Due
      <4>5. Filing(sym) = <<ToArchive(sym, trade, Known(sym), "closed"), ToRemove(sym)>>
        BY <3>3 DEF Filing, trade
      <4>. QED  BY <3>1, <4>4, <4>5
    <3>. QED  BY <3>2, <3>3
  <2> DEFINE r == [Me EXCEPT !.active[sym] = None, !.jobs = Filing(sym)]
  <2>4. r \in Thread
    <3>1. Filing(sym) # <<>>
      BY <2>2 DEF Filing
    <3>2. [Me.active EXCEPT ![sym] = None] \in [Symbols -> Thesis]
      BY <1>1, SmallTypes DEF Thread, ThreadType
    <3>3. Me.copy = None
      BY <1>1 DEF Thread
    <3>. QED  BY <1>1, <2>3, <3>2, <3>3 DEF Thread, ThreadType
  <2> HIDE DEF r
  <2>5. thread' \in [Threads -> Thread]
    BY <2>1, <2>4, MovesType, MeIsThread DEF r
  <2>6. memory' \in [Symbols -> Thesis]
    BY <2>1, <2>2, MeIsThread, SmallTypes
  <2>. QED  BY <2>5, <2>6, AsideType DEF DropStale, UnchangedByThreads
<1>. QED
  BY <1>2, <1>3

\* A thread that only has a write left to do.
LEMMA LastWrites ==
  ASSUME NEW jobs \in Seq(Job)
  PROVE  [Resting EXCEPT !.jobs = jobs] \in Thread
<1>1. Resting \in ThreadType /\ Resting.copy = None /\ Resting.at = "rest"
  BY SmallTypes DEF Resting, Thread
<1>. QED
  BY <1>1 DEF ThreadType, Thread

LEMMA LastWrite ==
  ASSUME NEW job \in Job
  PROVE  [Resting EXCEPT !.jobs = <<job>>] \in Thread
<1>1. <<job>> \in Seq(Job)
  OBVIOUS
<1>. QED
  BY <1>1, LastWrites

LEMMA SynchronisedType ==
  ASSUME TypeInv, Synchronised
  PROVE  TypeInv'
<1> DEFINE sym == Me.order.sym
           thesis == Counted(file, sym, Me.order.thesis)
<1>1. Me \in Thread /\ Me.at = "scale-outs" /\ memory \in [Symbols -> Thesis]
  BY MeIsThread DEF Synchronised, At, Me
<1>2. CASE Me.phase = "before"
  <2> DEFINE r == [Me EXCEPT !.at = "decide"]
  <2>1. Moves(Scanner, r) /\ UNCHANGED memory
    BY <1>2 DEF Synchronised
  <2>2. r \in Thread
    BY <1>1 DEF Thread, ThreadType, Places
  <2> HIDE DEF r
  <2>3. thread' \in [Threads -> Thread]
    BY <2>1, <2>2, MovesType, MeIsThread
  <2>. QED  BY <1>1, <2>1, <2>3, AsideType DEF Synchronised, UnchangedByThreads
<1>3. CASE Me.phase # "before" /\ Me.view.pos[sym] # 0 /\ file # Torn
  <2>1. /\ Moves(Scanner, [Resting EXCEPT !.jobs = <<ToUpsert(sym, thesis)>>])
        /\ memory' = [memory EXCEPT ![sym] = thesis]
    BY <1>3 DEF Synchronised
  <2>2. Me.order \in Sent
    BY <1>1, <1>3 DEF Thread
  <2>3. sym \in Symbols /\ Me.order.thesis \in Thesis
    BY <2>2 DEF Sent
  <2>4. file \in Books
    BY <1>3 DEF TypeInv, BooksInv
  <2> HIDE DEF sym
  <2>5. thesis \in Thesis
    BY <2>3, <2>4 DEF Counted, Thesis, Books
  <2> HIDE DEF thesis
  <2>6. ToUpsert(sym, thesis) \in Job
    BY <2>3, <2>5, JobTypes
  <2>7. [Resting EXCEPT !.jobs = <<ToUpsert(sym, thesis)>>] \in Thread
    BY <2>6, LastWrite
  <2>8. thread' \in [Threads -> Thread]
    BY <2>1, <2>7, MovesType, MeIsThread
  <2>9. memory' \in [Symbols -> Thesis]
    BY <1>1, <2>1, <2>5
  <2>. QED  BY <2>8, <2>9, AsideType DEF Synchronised, UnchangedByThreads
<1>4. CASE Me.phase # "before" /\ ~(Me.view.pos[sym] # 0 /\ file # Torn)
  <2>1. Moves(Scanner, Resting) /\ UNCHANGED memory
    BY <1>4 DEF Synchronised
  <2>2. thread' \in [Threads -> Thread]
    BY <2>1, MovesType, SmallTypes, MeIsThread
  <2>. QED  BY <1>1, <2>1, <2>2, AsideType DEF Synchronised, UnchangedByThreads
<1>. QED
  BY <1>2, <1>3, <1>4

LEMMA HoldType ==
  ASSUME TypeInv, Hold
  PROVE  TypeInv'
<1>1. thread' \in [Threads -> Thread]
  BY MovesType, SmallTypes, MeIsThread DEF Hold
<1>. QED
  BY <1>1, AsideType, MeIsThread DEF Hold, UnchangedByThreads

LEMMA MoveStopType ==
  ASSUME TypeInv, NEW sym \in Symbols, MoveStop(sym)
  PROVE  TypeInv'
<1>1. Selected(sym) \in Thesis /\ ToUpsert(sym, Selected(sym)) \in Job
  BY KnownType, JobTypes
<1>2. [Resting EXCEPT !.jobs = <<ToUpsert(sym, Selected(sym))>>] \in Thread
  BY <1>1, LastWrite
<1>3. thread' \in [Threads -> Thread]
  BY <1>2, MovesType, MeIsThread DEF MoveStop
<1>4. memory' \in [Symbols -> Thesis]
  BY <1>1, MeIsThread DEF MoveStop
<1>. QED
  BY <1>3, <1>4, AsideType DEF MoveStop, UnchangedByThreads

LEMMA OrderType ==
  ASSUME TypeInv, NEW sym \in Symbols, NEW delta \in Int, NEW thesis \in Thesis,
         Order(sym, delta, thesis)
  PROVE  TypeInv'
<1> DEFINE order == [sym |-> sym, thesis |-> thesis, delta |-> delta]
           r == [Me EXCEPT !.at = "sent", !.phase = "after", !.order = order]
<1>1. Moves(Scanner, r) /\ Me \in Thread
  BY MeIsThread DEF Order
<1>2. order \in Sent
  BY DEF Sent
<1> HIDE DEF order
<1>3. r \in Thread
  <2>1. Me \in ThreadType
    BY <1>1 DEF Thread
  <2>2. r \in ThreadType
    BY <1>2, <2>1 DEF ThreadType, Places
  <2>3. r.at = "sent" /\ r.order = order /\ r.copy = Me.copy /\ r.jobs = Me.jobs
    BY <2>1 DEF ThreadType
  <2>. QED  BY <1>1, <1>2, <2>2, <2>3 DEF Thread
<1> HIDE DEF r
<1>4. thread' \in [Threads -> Thread]
  BY <1>1, <1>3, MovesType, MeIsThread
<1>5. BrokerInv'
  BY SubmitType DEF Order, UnchangedByThreads, TypeInv
<1>6. BooksInv' /\ CountInv'
  BY DEF Order, UnchangedByThreads, TypeInv, BooksInv, CountInv
<1>. QED
  BY <1>4, <1>5, <1>6 DEF TypeInv

LEMMA OrdersType ==
  ASSUME TypeInv, NEW sym \in Symbols, Signal(sym) \/ Exit(sym) \/ ScaleOut(sym)
  PROVE  TypeInv'
<1>1. Me.view.pos[sym] \in Int
  BY MeIsThread DEF Thread, ThreadType, Portfolio
<1>2. Selected(sym) \in Thesis
  BY KnownType
<1>3. CASE Signal(sym)
  <2>1. NewThesis \in Thesis
    <3>1. Clock \in Nat /\ orders \in Nat
      BY ClockIsNat DEF TypeInv, CountInv
    <3>2. Clock + 1 \in Nat /\ orders + 1 \in Int
      BY <3>1
    <3>. QED  BY <3>2 DEF NewThesis, Thesis
  <2>2. (IF Me.view.pos[sym] = 0 THEN Lot ELSE -Me.view.pos[sym]) \in Int
    BY <1>1, Constants
  <2>. QED  BY <1>3, <2>1, <2>2, OrderType DEF Signal
<1>4. CASE Exit(sym)
  <2>1. -Me.view.pos[sym] \in Int
    BY <1>1
  <2>. QED  BY <1>2, <1>4, <2>1, OrderType DEF Exit
<1>5. CASE ScaleOut(sym)
  <2>1. -Sign(Me.view.pos[sym]) \in Int
    BY <1>1 DEF Sign
  <2>2. [Selected(sym) EXCEPT !.out = Selected(sym).out + 1] \in Thesis
    BY <1>2 DEF Thesis
  <2>. QED  BY <1>5, <2>1, <2>2, OrderType DEF ScaleOut
<1>. QED
  BY <1>3, <1>4, <1>5

LEMMA FaultCounts ==
  ASSUME TypeInv, Fault
  PROVE  faults' \in 0..MaxFaults
BY Constants DEF TypeInv, CountInv, Fault

LEMMA LoseType ==
  ASSUME TypeInv, Lose
  PROVE  TypeInv'
<1>1. thread' \in [Threads -> Thread]
  <2>1. Moves(Scanner, Resting)
    BY DEF Lose
  <2>. QED  BY <2>1, MovesType, SmallTypes, MeIsThread
<1>2. faults' \in 0..MaxFaults
  BY FaultCounts DEF Lose
<1>. QED
  BY <1>1, <1>2 DEF Lose, TypeInv, BrokerInv, BooksInv, CountInv

LEMMA RecordType ==
  ASSUME TypeInv, Record
  PROVE  TypeInv'
<1> DEFINE sym == Me.order.sym
           jobs == <<ToStore(Reconciled), ToTouch(sym), ToCount(sym, Me.order.thesis)>>
           r == [Me EXCEPT !.at = "list", !.view = Reconciled, !.jobs = jobs]
<1>1. Me \in Thread /\ Me.at = "sent" /\ Me.jobs = <<>>
  BY MeIsThread DEF Record, At, Me
<1>2. Moves(Scanner, r)
  BY DEF Record
<1>3. Me \in ThreadType /\ Me.order \in Sent /\ Me.copy = None
  BY <1>1 DEF Thread
<1>4. jobs \in Seq(Job)
  <2>1. sym \in Symbols /\ Me.order.thesis \in Thesis /\ Reconciled \in Portfolio
    BY <1>3, ReconciledType DEF Sent, TypeInv
  <2> HIDE DEF sym
  <2>2. /\ ToStore(Reconciled) \in Job /\ ToTouch(sym) \in Job
        /\ ToCount(sym, Me.order.thesis) \in Job
    BY <2>1, JobTypes
  <2>. QED  BY <2>2
<1> HIDE DEF jobs
<1>5. r \in Thread
  <2>1. Reconciled \in Portfolio
    BY ReconciledType DEF TypeInv
  <2>2. r \in ThreadType
    BY <1>3, <1>4, <2>1 DEF ThreadType, Places
  <2>3. r.at = "list" /\ r.order = Me.order /\ r.copy = None
    BY <1>3 DEF ThreadType
  <2>. QED  BY <1>3, <2>2, <2>3 DEF Thread
<1> HIDE DEF r
<1>6. thread' \in [Threads -> Thread]
  BY <1>2, <1>5, MovesType, MeIsThread
<1>. QED
  BY <1>6, AsideType, MeIsThread DEF Record, UnchangedByThreads

LEMMA RequestCounts ==
  ASSUME TypeInv, NEW t, Request(t)
  PROVE  t \in Threads /\ requests' \in 0..MaxRequests
BY Constants DEF TypeInv, CountInv, Request, Threads

LEMMA ClosePositionType ==
  ASSUME TypeInv, NEW t, NEW sym \in Symbols, ClosePosition(t, sym)
  PROVE  TypeInv'
<1> DEFINE order == [sym |-> sym, thesis |-> None, delta |-> stored.pos[sym]]
           r == [Resting EXCEPT !.at = "closed", !.order = order]
<1>1. stored.pos[sym] \in Int /\ -stored.pos[sym] \in Int
  BY DEF TypeInv, BooksInv, Portfolio
<1>2. order \in Sent
  BY <1>1, SmallTypes DEF Sent
<1>3. \/ Moves(t, r)
      \/ Moves(t, Resting)
  BY DEF ClosePosition
<1> HIDE DEF order
<1>4. r \in Thread
  <2>1. Resting \in ThreadType /\ Resting.copy = None
    BY SmallTypes DEF Resting, Thread
  <2>2. r \in ThreadType /\ r.at = "closed" /\ r.order = order /\ r.copy = None
    BY <1>2, <2>1 DEF ThreadType, Places
  <2>. QED  BY <1>2, <2>2 DEF Thread
<1> HIDE DEF r
<1>5. thread' \in [Threads -> Thread] /\ requests' \in 0..MaxRequests
  <2>1. t \in Threads /\ requests' \in 0..MaxRequests
    BY RequestCounts DEF ClosePosition
  <2>. QED  BY <1>3, <1>4, <2>1, MovesType, SmallTypes
<1>6. BrokerInv'
  BY <1>1, SubmitType DEF ClosePosition, TypeInv
<1>. QED
  BY <1>5, <1>6 DEF ClosePosition, TypeInv, BooksInv, CountInv

LEMMA RecordCloseType ==
  ASSUME TypeInv, NEW t \in Threads, RecordClose(t)
  PROVE  TypeInv'
<1> DEFINE sym == thread[t].order.sym
           made == MadeUp(sym, thread[t].order.delta)
           view == IF Ours(sym) # {} THEN Reconciled
                   ELSE [Reconciled EXCEPT !.trades = Append(Reconciled.trades, made)]
           trade == IF Ours(sym) # {} THEN Reconciled.trades[LastOf(Ours(sym))] ELSE made
           r == [thread[t] EXCEPT !.at = "file", !.left = <<trade>>, !.jobs = <<ToStore(view)>>]
<1>1. thread[t] \in Thread /\ thread[t].at = "closed" /\ thread[t].jobs = <<>>
  BY DEF TypeInv, RecordClose, At
<1>2. thread[t] \in ThreadType /\ thread[t].order \in Sent /\ thread[t].copy = None
  BY <1>1 DEF Thread
<1>3. sym \in Symbols /\ thread[t].order.delta \in Int
  BY <1>2 DEF Sent
<1>4. made \in Trade
  <2>1. Clock \in Nat /\ Len(trades) \in Nat
    BY ClockIsNat, LenProperties DEF TypeInv, BrokerInv
  <2>2. -Len(trades) \in Int
    BY <2>1
  <2>. QED  BY <1>3, <2>1, <2>2 DEF MadeUp, Trade
<1>5. Moves(t, r)
  BY DEF RecordClose
<1> HIDE DEF sym, made
<1>6. Reconciled \in Portfolio /\ Reconciled.trades \in Seq(Trade)
  BY ReconciledType DEF TypeInv, Portfolio
<1>7. view \in Portfolio
  <2>1. Append(Reconciled.trades, made) \in Seq(Trade)
    BY <1>4, <1>6, AppendProperties
  <2>. QED  BY <1>6, <2>1 DEF Portfolio
<1>8. trade \in Trade
  <2>1. CASE Ours(sym) # {}
    <3>1. Ours(sym) \in SUBSET DOMAIN Reconciled.trades
      BY DEF Ours
    <3>2. LastOf(Ours(sym)) \in DOMAIN Reconciled.trades
      BY <1>6, <2>1, <3>1, LastIsIn
    <3>3. Reconciled.trades[LastOf(Ours(sym))] \in Trade
      BY <1>6, <3>2, ElementOfSeq, LenProperties
    <3>. QED  BY <2>1, <3>3
  <2>2. CASE Ours(sym) = {}
    BY <1>4, <2>2
  <2>. QED  BY <2>1, <2>2
<1> HIDE DEF view, trade
<1>9. r \in Thread
  <2>1. <<trade>> \in Seq(Trade) /\ <<trade>> # <<>>
    BY <1>8
  <2>2. ToStore(view) \in Job
    BY <1>7, JobTypes
  <2>3. <<ToStore(view)>> \in Seq(Job)
    BY <2>2
  <2>4. r \in ThreadType
    BY <1>2, <2>1, <2>3 DEF ThreadType, Places
  <2>5. r.at = "file" /\ r.order = thread[t].order /\ r.copy = None /\ r.left = <<trade>>
    BY <1>2 DEF ThreadType
  <2>. QED  BY <1>2, <2>1, <2>4, <2>5 DEF Thread
<1> HIDE DEF r
<1>10. thread' \in [Threads -> Thread]
  BY <1>5, <1>9, MovesType
<1>11. memory' \in [Symbols -> Thesis]
  BY DEF RecordClose, TypeInv, BooksInv
<1>. QED
  BY <1>10, <1>11, AsideType DEF RecordClose, UnchangedByThreads

LEMMA FileCloseType ==
  ASSUME TypeInv, NEW t \in Threads, FileClose(t)
  PROVE  TypeInv'
<1> DEFINE sym == thread[t].order.sym
           trade == thread[t].left[1]
           jobs == <<ToArchive(sym, trade, file.active[sym], "manual-closed"), ToRemove(sym)>>
<1>1. thread[t] \in Thread /\ thread[t].at = "file"
  BY DEF TypeInv, FileClose, At
<1>2. thread[t].order \in Sent /\ thread[t].left # <<>> /\ thread[t].left \in Seq(Trade)
  BY <1>1 DEF Thread, ThreadType
<1>3. sym \in Symbols /\ trade \in Trade
  <2>1. 1 \in 1..Len(thread[t].left)
    BY <1>2, EmptySeq
  <2>2. trade \in Trade
    BY <1>2, <2>1, ElementOfSeq
  <2>. QED  BY <1>2, <2>2 DEF Sent
<1>4. CASE file = Torn \/ file.active[sym] = None
  <2>1. Moves(t, Resting)
    BY <1>4 DEF FileClose
  <2>2. thread' \in [Threads -> Thread]
    BY <2>1, MovesType, SmallTypes
  <2>3. memory' \in [Symbols -> Thesis]
    BY DEF FileClose, TypeInv, BooksInv
  <2>. QED  BY <2>2, <2>3, AsideType DEF FileClose, UnchangedByThreads
<1>5. CASE ~(file = Torn \/ file.active[sym] = None)
  <2>1. Moves(t, [Resting EXCEPT !.jobs = jobs])
    BY <1>5 DEF FileClose
  <2>2. file.active[sym] \in Thesis
    BY <1>3, <1>5 DEF TypeInv, BooksInv, Books
  <2> HIDE DEF sym, trade
  <2>3. /\ ToArchive(sym, trade, file.active[sym], "manual-closed") \in Job
        /\ ToRemove(sym) \in Job
    BY <1>3, <2>2, JobTypes DEF States, Due
  <2>4. jobs \in Seq(Job)
    BY <2>3
  <2> HIDE DEF jobs
  <2>5. thread' \in [Threads -> Thread]
    BY <2>1, <2>4, LastWrites, MovesType
  <2>6. memory' \in [Symbols -> Thesis]
    BY DEF FileClose, TypeInv, BooksInv
  <2>. QED  BY <2>5, <2>6, AsideType DEF FileClose, UnchangedByThreads
<1>. QED
  BY <1>4, <1>5

LEMMA BackfillType ==
  ASSUME TypeInv, NEW t, Backfill(t)
  PROVE  TypeInv'
<1> DEFINE view == [pos |-> held, trades |-> NewestFirst(trades), fresh |-> TRUE]
           r == [Resting EXCEPT !.at = "merged", !.jobs = <<ToStore(view)>>]
<1>1. view \in Portfolio
  BY NewestFirstIsIn DEF TypeInv, BrokerInv, Portfolio
<1>2. Moves(t, r)
  BY DEF Backfill
<1> HIDE DEF view
<1>3. r \in Thread
  <2>1. ToStore(view) \in Job
    BY <1>1, JobTypes
  <2>2. <<ToStore(view)>> \in Seq(Job)
    BY <2>1
  <2>3. Resting \in ThreadType /\ Resting.copy = None
    BY SmallTypes DEF Resting, Thread
  <2>4. r \in ThreadType /\ r.at = "merged" /\ r.copy = None
    BY <2>2, <2>3 DEF ThreadType, Places
  <2>. QED  BY <2>4 DEF Thread
<1> HIDE DEF r
<1>4. thread' \in [Threads -> Thread] /\ requests' \in 0..MaxRequests
  <2>1. t \in Threads /\ requests' \in 0..MaxRequests
    BY RequestCounts DEF Backfill
  <2>. QED  BY <1>2, <1>3, <2>1, MovesType
<1>. QED
  BY <1>4 DEF Backfill, TypeInv, BrokerInv, BooksInv, CountInv

LEMMA ListBackfilledType ==
  ASSUME TypeInv, NEW t \in Threads, ListBackfilled(t)
  PROVE  TypeInv'
<1> DEFINE r == [thread[t] EXCEPT !.at = "recover", !.view = stored, !.active = file.active,
                                  !.left = NewestFirst(stored.trades)]
<1>1. memory' \in [Symbols -> Thesis]
  BY DEF ListBackfilled, TypeInv, BooksInv
<1>2. thread' \in [Threads -> Thread]
  <2>1. CASE file = Torn
    BY <2>1, MovesType, SmallTypes DEF ListBackfilled
  <2>2. CASE file # Torn
    <3>1. Moves(t, r)
      BY <2>2 DEF ListBackfilled
    <3>2. stored \in Portfolio /\ file.active \in [Symbols -> Thesis]
      BY <2>2 DEF TypeInv, BooksInv, Books
    <3>3. NewestFirst(stored.trades) \in Seq(Trade)
      BY <3>2, NewestFirstIsIn DEF Portfolio
    <3>4. thread[t] \in Thread
      BY DEF TypeInv
    <3>5. r \in Thread
      BY <3>2, <3>3, <3>4 DEF Thread, ThreadType, Places
    <3> HIDE DEF r
    <3>. QED  BY <3>1, <3>5, MovesType
  <2>. QED  BY <2>1, <2>2
<1>. QED
  BY <1>1, <1>2, AsideType DEF ListBackfilled, UnchangedByThreads

LEMMA RecoverType ==
  ASSUME TypeInv, NEW t \in Threads, Recover(t)
  PROVE  TypeInv'
<1> DEFINE trade == Head(thread[t].left)
           sym == Symbol(trade)
           thesis == thread[t].active[sym]
           jobs == <<ToArchive(sym, trade, thesis, "recovered-closed"), ToRemove(sym)>>
<1>1. thread[t] \in Thread /\ thread[t].at = "recover" /\ thread[t].jobs = <<>>
  BY DEF TypeInv, Recover, At
<1>2. thread[t] \in ThreadType /\ thread[t].copy = None
  BY <1>1 DEF Thread
<1>3. memory' \in [Symbols -> Thesis]
  BY DEF Recover, TypeInv, BooksInv
<1>4. thread' \in [Threads -> Thread]
  <2>1. CASE thread[t].left = <<>> \/ file = Torn
    <3>1. Moves(t, Resting)
      BY <2>1 DEF Recover
    <3>. QED  BY <3>1, MovesType, SmallTypes
  <2>2. CASE ~(thread[t].left = <<>> \/ file = Torn)
    <3>1. trade \in Trade /\ Tail(thread[t].left) \in Seq(Trade)
      BY <1>2, <2>2, HeadTailProperties DEF ThreadType
    <3>2. sym \in Symbols
      <4> HIDE DEF trade
      <4>. QED  BY <3>1, SymbolOf
    <3>3. CASE IsFiled(file, trade) \/ thread[t].view.pos[sym] # 0 \/ thesis = None
      <4>1. Moves(t, [thread[t] EXCEPT !.left = Tail(thread[t].left)])
        BY <2>2, <3>3 DEF Recover
      <4>2. [thread[t] EXCEPT !.left = Tail(thread[t].left)] \in Thread
        BY <1>1, <3>1 DEF Thread, ThreadType
      <4>. QED  BY <4>1, <4>2, MovesType
    <3>4. CASE ~(IsFiled(file, trade) \/ thread[t].view.pos[sym] # 0 \/ thesis = None)
      <4> DEFINE r == [thread[t] EXCEPT !.left = Tail(thread[t].left), !.active[sym] = None,
                                        !.jobs = jobs]
      <4>1. Moves(t, r)
        BY <2>2, <3>4 DEF Recover
      <4>2. thesis \in Thesis
        BY <1>2, <3>2 DEF ThreadType
      <4> HIDE DEF trade, sym, thesis
      <4>3. jobs \in Seq(Job)
        <5>1. ToArchive(sym, trade, thesis, "recovered-closed") \in Job /\ ToRemove(sym) \in Job
          BY <3>1, <3>2, <4>2, JobTypes DEF States, Due
        <5>. QED  BY <5>1
      <4> HIDE DEF jobs
      <4>4. r \in Thread
        <5>1. [thread[t].active EXCEPT ![sym] = None] \in [Symbols -> Thesis]
          BY <1>2, SmallTypes DEF ThreadType
        <5>2. r \in ThreadType
          BY <1>2, <3>1, <4>3, <5>1 DEF ThreadType
        <5>3. r.at = "recover" /\ r.copy = None
          BY <1>1, <1>2 DEF ThreadType
        <5>. QED  BY <5>2, <5>3 DEF Thread
      <4> HIDE DEF r
      <4>. QED  BY <4>1, <4>4, MovesType
    <3>. QED  BY <3>3, <3>4
  <2>. QED  BY <2>1, <2>2
<1>. QED
  BY <1>3, <1>4, AsideType DEF Recover, UnchangedByThreads

LEMMA ChangeStateType ==
  ASSUME TypeInv, NEW t, ChangeState(t)
  PROVE  TypeInv'
<1>1. [Resting EXCEPT !.jobs = <<ToChange>>] \in Thread
  BY JobTypes, LastWrite
<1>2. thread' \in [Threads -> Thread] /\ requests' \in 0..MaxRequests
  <2>1. t \in Threads /\ requests' \in 0..MaxRequests
    BY RequestCounts DEF ChangeState
  <2>2. Moves(t, [Resting EXCEPT !.jobs = <<ToChange>>])
    BY DEF ChangeState
  <2>. QED  BY <1>1, <2>1, <2>2, MovesType
<1>. QED
  BY <1>2 DEF ChangeState, TypeInv, BrokerInv, BooksInv, CountInv

LEMMA RequestFailsType ==
  ASSUME TypeInv, NEW t \in Threads, RequestFails(t)
  PROVE  TypeInv'
<1>1. thread' \in [Threads -> Thread]
  <2>1. Moves(t, Resting)
    BY DEF RequestFails
  <2>. QED  BY <2>1, MovesType, SmallTypes
<1>2. faults' \in 0..MaxFaults
  BY FaultCounts DEF RequestFails
<1>. QED
  BY <1>1, <1>2 DEF RequestFails, TypeInv, BrokerInv, BooksInv, CountInv

LEMMA FillType ==
  ASSUME TypeInv, NEW sym \in Symbols, Fill(sym)
  PROVE  TypeInv'
<1>1. working[sym] \in Int /\ BrokerInv
  BY DEF TypeInv, BrokerInv
<1>2. held' \in [Symbols -> Int] /\ trades' \in Seq(Trade)
  BY <1>1, ExecuteType DEF Fill
<1>3. working' \in [Symbols -> Int]
  BY <1>1 DEF Fill, BrokerInv
<1>. QED
  BY <1>2, <1>3 DEF Fill, TypeInv, BrokerInv, BooksInv, CountInv

LEMMA AgeType ==
  ASSUME TypeInv, Age
  PROVE  TypeInv'
<1>1. stored' \in Portfolio
  BY DEF Age, TypeInv, BooksInv, Portfolio
<1>. QED
  BY <1>1 DEF Age, TypeInv, BrokerInv, BooksInv, CountInv

LEMMA CrashType ==
  ASSUME TypeInv, Crash
  PROVE  TypeInv'
<1>1. thread' \in [Threads -> Thread] /\ memory' \in [Symbols -> Thesis]
  BY SmallTypes DEF Crash
<1>2. faults' \in 0..MaxFaults
  BY FaultCounts DEF Crash
<1>3. file' # Torn => file' \in Books
  BY DEF Crash, TypeInv, BooksInv
<1>. QED
  BY <1>1, <1>2, <1>3 DEF Crash, TypeInv, BrokerInv, BooksInv, CountInv

LEMMA InitType ==
  ASSUME Init
  PROVE  TypeInv
<1>1. held \in [Symbols -> Int]
  BY Constants DEF Init
<1>2. <<>> \in Seq(Trade)
  BY EmptySeq
<1>3. stored \in Portfolio
  BY <1>2 DEF Init, Portfolio
<1>4. file \in Books /\ memory \in [Symbols -> Thesis]
  BY SmallTypes DEF Init, Books
<1>5. thread \in [Threads -> Thread]
  BY SmallTypes DEF Init
<1>. QED
  BY <1>1, <1>2, <1>3, <1>4, <1>5, Constants
     DEF Init, TypeInv, BrokerInv, BooksInv, CountInv

LEMMA StepType ==
  ASSUME TypeInv, Next
  PROVE  TypeInv'
<1>1. CASE Scan
  BY <1>1, BeginScanType, ListThesesType, FileScaleOutType, DropStaleType, SynchronisedType,
     HoldType, LoseType, RecordType, MoveStopType, OrdersType DEF Scan
<1>2. CASE \E t \in Threads : Write(t)
  BY <1>2, LoadType, SaveType DEF Write
<1>3. CASE \E t \in Requesters : Handle(t)
  BY <1>3, RecordCloseType, FileCloseType, ListBackfilledType, RecoverType, RequestFailsType
     DEF Handle, Threads
<1>4. CASE \E t \in Requesters : \/ Backfill(t) \/ ChangeState(t)
                                 \/ \E s \in Symbols : ClosePosition(t, s)
  BY <1>4, BackfillType, ChangeStateType, ClosePositionType
<1>5. CASE \/ \E s \in Symbols : Fill(s)
           \/ Age \/ Crash
  BY <1>5, FillType, AgeType, CrashType
<1>. QED
  BY <1>1, <1>2, <1>3, <1>4, <1>5 DEF Next, Threads

LEMMA StutterType ==
  ASSUME TypeInv, UNCHANGED vars
  PROVE  TypeInv'
BY DEF vars, TypeInv, BrokerInv, BooksInv, CountInv

LEMMA TypeInvHolds == Spec => []TypeInv
<1>1. Init => TypeInv
  BY InitType
<1>2. TypeInv /\ [Next]_vars => TypeInv'
  BY StepType, StutterType
<1>. QED
  BY <1>1, <1>2, PTL DEF Spec

\* The types hold, and a scale-out is filed under a thesis that has one to file.
THEOREM TypesHold == Spec => []TypeOK
<1>1. TypeInv => TypeOK
  <2> SUFFICES ASSUME TypeInv PROVE TypeOK
    OBVIOUS
  <2>1. ASSUME file # Torn
        PROVE  /\ file.active \in [Symbols -> Thesis]
               /\ \A e \in file.closed : /\ e.thesis \in Thesis
                                         /\ e.state = "scaled-out" => e.thesis.filed < e.thesis.out
    BY <2>1 DEF TypeInv, BooksInv, Books, Entry, Due
  <2>2. ASSUME NEW t \in Threads
        PROVE  /\ thread[t].at \in Places
               /\ \A i \in DOMAIN thread[t].jobs : thread[t].jobs[i].do \in
                    {"upsert", "count", "touch", "change", "remove", "archive", "store"}
    <3>1. thread[t].at \in Places /\ thread[t].jobs \in Seq(Job)
      BY DEF TypeInv, Thread, ThreadType
    <3>2. \A i \in DOMAIN thread[t].jobs : thread[t].jobs[i] \in Job
      BY <3>1, ElementOfSeq, LenProperties
    <3>. QED  BY <3>1, <3>2 DEF Job, Archival
  <2>. QED
    BY <2>1, <2>2 DEF TypeOK, TypeInv, BrokerInv, BooksInv, CountInv, Portfolio, Places
<1>. QED
  BY <1>1, TypeInvHolds, PTL

-----------------------------------------------------------------------------
(* Closing by hand.                                                        *)

\* What is taken from a position, and no more than it, does not turn it.
LEMMA ClippedKeepsSide ==
  ASSUME NEW p \in Int, NEW n \in Int
  PROVE  p * (p + (-Sign(p) * Smaller(Abs(p), Abs(n)))) >= 0
<1> DEFINE m == Smaller(Abs(p), Abs(n))
<1>1. m \in Nat /\ m <= Abs(p) /\ Abs(p) \in Nat
  BY DEF Smaller, Abs
<1> HIDE DEF m
<1>2. \A a \in Nat, b \in Nat : a * b >= 0
  OBVIOUS
<1>3. CASE p > 0
  <2>1. p \in Nat /\ p - m \in Nat
    BY <1>1, <1>3 DEF Abs
  <2>2. p + (-Sign(p) * m) = p - m
    BY <1>1, <1>3 DEF Sign
  <2>. QED  BY <1>2, <2>1, <2>2 DEF m
<1>4. CASE p < 0
  <2>1. -p \in Nat /\ -p - m \in Nat
    BY <1>1, <1>4 DEF Abs
  <2>2. p + (-Sign(p) * m) = -(-p - m)
    BY <1>1, <1>4 DEF Sign
  <2>3. (-p) * (-p - m) >= 0
    BY <1>2, <2>1
  <2>4. p * (-(-p - m)) = (-p) * (-p - m)
    BY <1>1
  <2>. QED  BY <2>2, <2>3, <2>4 DEF m
<1>5. CASE p = 0
  BY <1>1, <1>5 DEF m, Sign
<1>. QED
  BY <1>3, <1>4, <1>5

LEMMA SquareIsNat ==
  ASSUME NEW p \in Int
  PROVE  p * p >= 0
<1>1. CASE p >= 0
  <2>1. \A a \in Nat, b \in Nat : a * b >= 0
    OBVIOUS
  <2>. QED  BY <1>1, <2>1
<1>2. CASE p < 0
  <2>1. -p \in Nat /\ p * p = (-p) * (-p)
    BY <1>2
  <2>2. \A a \in Nat, b \in Nat : a * b >= 0
    OBVIOUS
  <2>. QED  BY <2>1, <2>2
<1>. QED
  BY <1>1, <1>2

SidesKept == \A s \in Symbols : held[s] * held'[s] >= 0

LEMMA SameSide ==
  ASSUME TypeInv, UNCHANGED held
  PROVE  SidesKept
BY SquareIsNat DEF SidesKept, TypeInv, BrokerInv

LEMMA CloseKeepsSide ==
  ASSUME TypeInv, broker.clipsManual, NEW t, NEW sym \in Symbols, ClosePosition(t, sym)
  PROVE  SidesKept
<1> DEFINE delta == -stored.pos[sym]
           does == Allowed(sym, delta, TRUE)
<1>1. delta \in Int /\ held \in [Symbols -> Int] /\ Submit(sym, delta, TRUE)
  <2>1. stored.pos[sym] \in Int /\ held \in [Symbols -> Int]
    BY DEF TypeInv, BrokerInv, BooksInv, Portfolio
  <2>2. Submit(sym, delta, TRUE)
    BY DEF ClosePosition
  <2>3. delta \in Int
    BY <2>1
  <2> HIDE DEF delta
  <2>. QED  BY <2>1, <2>2, <2>3
<1> HIDE DEF delta
<1>2. CASE ~broker.fillsAtOnce
  BY <1>1, <1>2, SameSide DEF Submit
<1>3. CASE broker.fillsAtOnce
  <2>1. held' = [held EXCEPT ![sym] = held[sym] + does]
    BY <1>1, <1>3 DEF Submit, Execute
  <2>2. held[sym] * (held[sym] + does) >= 0
    <3>1. held[sym] \in Int
      BY <1>1
    <3>2. CASE Reduces(sym, delta)
      <4>1. does = -Sign(held[sym]) * Smaller(Abs(held[sym]), Abs(delta))
        BY <3>2 DEF Allowed
      <4> HIDE DEF does
      <4>. QED  BY <1>1, <3>1, <4>1, ClippedKeepsSide
    <3>3. CASE ~Reduces(sym, delta)
      <4>1. does = 0
        BY <3>3 DEF Allowed
      <4> HIDE DEF does
      <4>2. held[sym] + does = held[sym]
        BY <3>1, <4>1
      <4>. QED  BY <3>1, <4>2, SquareIsNat
    <3>. QED  BY <3>2, <3>3
  <2>3. held'[sym] = held[sym] + does
    BY <1>1, <2>1
  <2> HIDE DEF does
  <2>4. ASSUME NEW s \in Symbols PROVE held[s] * held'[s] >= 0
    <3>1. CASE s = sym
      BY <2>2, <2>3, <3>1
    <3>2. CASE s # sym
      <4>1. held'[s] = held[s] /\ held[s] \in Int
        BY <1>1, <2>1, <3>2
      <4>. QED  BY <4>1, SquareIsNat
    <3>. QED  BY <3>1, <3>2
  <2>. QED  BY <2>4 DEF SidesKept
<1>. QED
  BY <1>2, <1>3

\* Closing a position by hand never opens one the other way, whatever the stored
\* portfolio says that the order is made from (close_position, reduce_only): only
\* the broker's clipping keeps it from that.
THEOREM ClosesKeepTheirSide == Spec => ClosesNeverFlip
<1>1. ASSUME TypeInv, Next, requests' # requests, broker.clipsManual
      PROVE  SidesKept
  <2>1. CASE \E t \in Requesters, s \in Symbols : ClosePosition(t, s)
    BY <1>1, <2>1, CloseKeepsSide
  <2>2. CASE \E t \in Requesters : Backfill(t) \/ ChangeState(t)
    <3>1. UNCHANGED held
      BY <2>2 DEF Backfill, ChangeState
    <3>. QED  BY <1>1, <3>1, SameSide
  <2>3. CASE Scan
    <3>1. UNCHANGED requests
      BY <2>3 DEF Scan, BeginScan, ListTheses, FileScaleOut, DropStale, Synchronised, Hold, Lose,
                  Record, MoveStop, Signal, Exit, ScaleOut, Order, UnchangedByThreads
    <3>. QED  BY <1>1, <3>1
  <2>4. CASE \E t \in Threads : Write(t)
    BY <1>1, <2>4 DEF Write, Load, Save, UnchangedByThreads
  <2>5. CASE \E t \in Requesters : Handle(t)
    BY <1>1, <2>5 DEF Handle, RecordClose, FileClose, ListBackfilled, Recover, RequestFails,
                      UnchangedByThreads
  <2>6. CASE (\E s \in Symbols : Fill(s)) \/ Age \/ Crash
    BY <1>1, <2>6 DEF Fill, Age, Crash
  <2>. QED
    BY <1>1, <2>1, <2>2, <2>3, <2>4, <2>5, <2>6 DEF Next, Threads
<1>2. TypeInv /\ [Next]_vars
      => [requests' # requests /\ broker.clipsManual =>
            \A s \in Symbols : held[s] * held'[s] >= 0]_vars
  <2> SUFFICES ASSUME TypeInv, [Next]_vars, vars' # vars, requests' # requests,
                      broker.clipsManual
               PROVE  \A s \in Symbols : held[s] * held'[s] >= 0
    OBVIOUS
  <2>1. Next
    OBVIOUS
  <2>2. SidesKept
    BY <1>1, <2>1
  <2>. QED  BY <2>2 DEF SidesKept
<1>. QED
  BY <1>2, TypeInvHolds, PTL DEF Spec, ClosesNeverFlip

-----------------------------------------------------------------------------
(* What is filed, and what is still to be. Up to TradesAreAllFiled the      *)
(* broker is one that reports its trades, no request has run beside a scan *)
(* or another request, and no position without a thesis has been closed.   *)

Ledger == {trades[i] : i \in DOMAIN trades}

Unfiled(s) == {i \in DOMAIN trades : Symbol(trades[i]) = s /\ ~IsFiled(file, trades[i])}

\* The thesis has been filed as that of a closed position.
Done(s, thesis) ==
    \E e \in file.closed : /\ e.sym = s /\ e.thesis.id = thesis.id
                           /\ e.state # "scaled-out"

\* A thesis that has been filed is of a position that is gone, with nothing left
\* to file.
Settled(s, thesis) == thesis # None /\ Done(s, thesis) => held[s] = 0 /\ Unfiled(s) = {}

\* The scanner has sent an order for the symbol and not brought its books in line.
After(s) ==
    /\ Me.at = "sent" \/ (Me.at \in {"list", "scale-outs"} /\ Me.phase = "after")
    /\ Me.order.sym = s

\* The scale-outs of a position that is held are counted.
Counts(s) ==
    /\ file.active[s].filed <= file.active[s].out
    /\ memory[s].filed <= memory[s].out
    /\ memory[s] # None => file.active[s].filed <= memory[s].out

Past(thesis) == thesis.id <= orders /\ thesis.since <= Clock + 1

\* A thread that has executed an order has not yet stored what it led to.
Behind(t) ==
    \/ thread[t].at \in {"sent", "closed"}
    \/ thread[t].jobs # <<>> /\ Head(thread[t].jobs).do = "store"

AloneInv == \A t, u \in Threads : Busy(t) /\ Busy(u) => t = u

Single(s) == \A i, j \in Unfiled(s) : i = j

EntriesInv ==
    /\ \A i \in DOMAIN trades : trades[i].id = i
    /\ \A e \in file.closed : e.trade \in DOMAIN trades /\ e.thesis.id <= orders
    /\ \A e, f \in file.closed :
         /\ e.sym = f.sym /\ e.thesis.id = f.thesis.id
         /\ "scaled-out" \notin {e.state, f.state}
         => e = f

SymbolInv(s) ==
    /\ working[s] = 0
    /\ Past(file.active[s]) /\ Past(memory[s])
    /\ Settled(s, file.active[s]) /\ Settled(s, memory[s])
    /\ Single(s)
    /\ (held[s] # 0 \/ ~broker.served) /\ ~After(s) => Unfiled(s) = {}
    /\ held[s] # 0 /\ ~After(s) => Counts(s)

StoreInv ==
    /\ stored.trades \in Seq(Ledger)
    /\ (\A t \in Threads : ~Behind(t)) =>
         /\ stored.fresh => stored.pos = held
         /\ \A s \in Symbols : stored.pos[s] # 0 => stored.pos[s] = held[s]

\* What is loaded for a write to the file is the file.
CopyInv(t) ==
    thread[t].copy # None =>
        IF Head(thread[t].jobs).do = "store" THEN thread[t].copy.trades \in Seq(Ledger)
        ELSE thread[t].copy = file

\* Writes under way: a thesis that is filed as closed has not been filed, and the
\* trade is the only one of the symbol that is not; ...
ArchiveInv(job) ==
    /\ job.trade \in Ledger /\ Unfiled(job.sym) = {job.trade.id}
    /\ job.thesis.id <= orders
    /\ job.state # "scaled-out" => held[job.sym] = 0 /\ ~Done(job.sym, job.thesis)

\* ... one that is written is that in memory, of a position that is held; one
\* that is removed is of none.
UpsertInv(job) == memory[job.sym] = job.thesis /\ held[job.sym] # 0 /\ job.thesis # None
RemoveInv(job) == held[job.sym] = 0 /\ (~broker.served => Unfiled(job.sym) = {})

Files(jobs) ==
    /\ Len(jobs) = 2 /\ jobs[1].do = "archive" /\ jobs[1].state # "scaled-out"
    /\ jobs[2] = ToRemove(jobs[1].sym)
    /\ ArchiveInv(jobs[1])
Removes(jobs) == Len(jobs) = 1 /\ jobs[1].do = "remove" /\ RemoveInv(jobs[1])

\* The order that was sent, and what it did.
OrderInv(s, thesis) ==
    /\ thesis # None /\ Past(thesis)
    /\ Me.at # "scale-outs" => ~Done(s, thesis)
    /\ held[s] # 0 =>
         /\ ~Done(s, thesis)
         /\ thesis.filed <= thesis.out /\ file.active[s].filed <= thesis.out
         /\ \A i \in Unfiled(s) : /\ trades[i].at >= thesis.since
                                  /\ thesis.filed < thesis.out
                                  /\ file.active[s].filed < thesis.out

\* The thesis of the order has been written to the file.
WrittenInv(s, thesis) ==
    /\ held[s] # 0 => /\ file.active[s] # None
                      /\ file.active[s].out = thesis.out
                      /\ file.active[s].since = thesis.since
    /\ ~broker.served /\ Unfiled(s) # {} => file.active[s] # None

ViewInv == Me.view.pos = held /\ Me.view.trades \in Seq(Ledger)

CountJobs(s, thesis) ==
    {<<ToCount(s, thesis)>>, <<ToTouch(s), ToCount(s, thesis)>>,
     <<ToStore(Me.view), ToTouch(s), ToCount(s, thesis)>>}

ListInv ==
    /\ ViewInv
    /\ Me.phase # "none"
    /\ Me.phase = "before" => Me.jobs \in {<<>>, <<ToStore(Me.view)>>}
    /\ Me.phase = "after" =>
         /\ Me.view.trades = trades
         /\ OrderInv(Me.order.sym, Me.order.thesis)
         /\ \/ Me.jobs = <<>> /\ WrittenInv(Me.order.sym, Me.order.thesis)
            \/ Me.jobs \in CountJobs(Me.order.sym, Me.order.thesis)

\* The theses the scanner has listed are those of the file, up to what it is
\* writing.
ActiveInv(s) ==
    \/ Me.active[s] = file.active[s]
    \/ Me.jobs # <<>> /\ Me.jobs[Len(Me.jobs)].sym = s

\* A scale-out is filed: of the symbol of the order, and for the trade of it.
ScalesOut ==
    LET job == Me.jobs[Len(Me.jobs)]
    IN  /\ job.do = "upsert" /\ UpsertInv(job) /\ Me.active[job.sym] = job.thesis
        /\ Me.phase = "after" /\ job.sym = Me.order.sym
        /\ job.thesis.filed <= job.thesis.out
        /\ job.thesis.out = Me.order.thesis.out /\ job.thesis.since = Me.order.thesis.since
        /\ \/ Len(Me.jobs) = 1 /\ Unfiled(job.sym) = {}
           \/ /\ Len(Me.jobs) = 2 /\ Me.jobs[1].do = "archive" /\ Me.jobs[1].state = "scaled-out"
              /\ Me.jobs[1].sym = job.sym
              /\ ArchiveInv(Me.jobs[1])

\* A thesis without a position is filed or dropped.
Drops ==
    /\ Files(Me.jobs) \/ Removes(Me.jobs)
    /\ Me.left = <<>>
    /\ Me.active[Me.jobs[Len(Me.jobs)].sym] = None
    /\ memory[Me.jobs[Len(Me.jobs)].sym] = None

\* The trades of the order's symbol that are not filed are yet to be looked at.
ToCome(s) == \A i \in Unfiled(s) : \E k \in DOMAIN Me.left : Me.left[k].id = i

SyncInv ==
    /\ ViewInv
    /\ Me.phase # "none"
    /\ Me.left \in Seq(Ledger)
    /\ \A s \in Symbols : ActiveInv(s)
    /\ Me.phase = "after" =>
         /\ Me.view.trades = trades
         /\ OrderInv(Me.order.sym, Me.order.thesis)
         /\ WrittenInv(Me.order.sym, Me.order.thesis)
         /\ held[Me.order.sym] # 0 => ToCome(Me.order.sym) \/ (Me.jobs # <<>> /\ ScalesOut)
    /\ Me.jobs = <<>> \/ ScalesOut \/ Drops

DecideInv ==
    /\ ViewInv /\ Me.jobs = <<>> /\ Me.phase = "before"
    /\ Me.active = file.active
    /\ \A s \in Symbols : held[s] = 0 => file.active[s] = None /\ memory[s] = None

ScannerInv ==
    /\ Me.at \in {"rest", "list", "scale-outs", "decide", "sent"}
    /\ Me.at = "rest" => Me.jobs = <<>> \/ (Len(Me.jobs) = 1 /\ Me.jobs[1].do = "upsert"
                                            /\ UpsertInv(Me.jobs[1]))
    /\ Me.at = "list" => ListInv
    /\ Me.at = "scale-outs" => SyncInv
    /\ Me.at = "decide" => DecideInv
    /\ Me.at = "sent" => /\ Me.jobs = <<>> /\ Me.phase = "after"
                         /\ OrderInv(Me.order.sym, Me.order.thesis)

\* The position of the symbol has been closed; i is the trade that did.
ClosedInv(s, i) ==
    /\ i \in DOMAIN trades /\ Symbol(trades[i]) = s /\ Unfiled(s) = {i}
    /\ held[s] = 0
    /\ ~Done(s, file.active[s])

RequestInv(t) ==
    /\ broker.served \/ ~Busy(t)
    /\ thread[t].at \in {"rest", "closed", "file"}
    /\ thread[t].at = "rest" => \/ thread[t].jobs \in {<<>>, <<ToChange>>}
                                \/ Files(thread[t].jobs) \/ Removes(thread[t].jobs)
    /\ thread[t].at = "closed" => /\ thread[t].jobs = <<>>
                                  /\ ClosedInv(thread[t].order.sym, Len(trades))
    /\ thread[t].at = "file" => /\ ClosedInv(thread[t].order.sym, thread[t].left[1].id)
                                /\ thread[t].left[1] \in Ledger
                                /\ \/ thread[t].jobs = <<>>
                                   \/ /\ Len(thread[t].jobs) = 1 /\ thread[t].jobs[1].do = "store"
                                      /\ thread[t].jobs[1].view.pos = held
                                      /\ thread[t].jobs[1].view.trades \in Seq(Ledger)

LedgerInv ==
    /\ AloneInv /\ EntriesInv /\ StoreInv
    /\ \A s \in Symbols : SymbolInv(s)
    /\ \A t \in Threads : CopyInv(t)
    /\ ScannerInv
    /\ \A t \in Requesters : RequestInv(t)

\* Nobody has loaded a file that is torn.
TornInv == file = Torn => \A t \in Threads : thread[t].copy # None => Head(thread[t].jobs).do = "store"

Inv == TornInv /\ (Undisturbed /\ broker.reports => LedgerInv)

-----------------------------------------------------------------------------
(* Putting the parts together.                                             *)

LEMMA RestsThen ==
  ASSUME NEW t \in Threads, thread'[t] = Resting
  PROVE  /\ ~Busy(t)' /\ ~Behind(t)' /\ CopyInv(t)' /\ RequestInv(t)'
         /\ t = Scanner => ScannerInv' /\ \A s \in Symbols : ~After(s)'
BY DEF Resting, Busy, Behind, CopyInv, RequestInv, ScannerInv, After, Me

LEMMA OthersRest ==
  ASSUME AloneInv, NEW t \in Threads, Busy(t)
  PROVE  \A u \in Threads \ {t} : thread[u] = Resting
BY DEF AloneInv, Busy

\* What a step of a thread must keep, the others being at rest.
LEMMA ThreadMoves ==
  ASSUME TypeInv, NEW t \in Threads, NEW r, Moves(t, r),
         \A u \in Threads \ {t} : thread[u] = Resting,
         EntriesInv', StoreInv', \A s \in Symbols : SymbolInv(s)', CopyInv(t)',
         t = Scanner => ScannerInv', t \in Requesters => RequestInv(t)'
  PROVE  LedgerInv'
<1>1. \A u \in Threads \ {t} : thread'[u] = Resting
  BY DEF Moves, TypeInv
<1>2. AloneInv'
  BY <1>1 DEF AloneInv, Busy
<1>3. \A u \in Threads \ {t} : CopyInv(u)' /\ RequestInv(u)' /\ (u = Scanner => ScannerInv')
  BY <1>1, RestsThen
<1>4. ScannerInv' /\ (\A u \in Requesters : RequestInv(u)') /\ (\A u \in Threads : CopyInv(u)')
  BY <1>3, Constants DEF Threads
<1>. QED
  BY <1>2, <1>4 DEF LedgerInv

\* The books stay as they are.
LEMMA BooksStay ==
  ASSUME EntriesInv, \A s \in Symbols : SymbolInv(s),
         UNCHANGED <<broker, held, working, trades, file, memory, orders>>,
         \A s \in Symbols : After(s) => After(s)'
  PROVE  EntriesInv' /\ \A s \in Symbols : SymbolInv(s)'
<1>1. EntriesInv'
  BY DEF EntriesInv
<1>2. ASSUME NEW s \in Symbols PROVE SymbolInv(s)'
  <2>1. Unfiled(s)' = Unfiled(s)
    BY DEF Unfiled
  <2>2. Single(s)' = Single(s)
    BY <2>1 DEF Single
  <2>3. \A x : /\ Past(x)' = Past(x)
               /\ Settled(s, x)' = Settled(s, x)
    BY <2>1 DEF Past, Clock, Settled, Done
  <2>4. Past(file.active[s])' /\ Past(memory[s])' /\ Settled(s, file.active[s])' /\ Settled(s, memory[s])'
    BY <2>3 DEF SymbolInv
  <2>5. Counts(s)' = Counts(s)
    BY DEF Counts
  <2>. QED  BY <2>1, <2>2, <2>4, <2>5 DEF SymbolInv
<1>. QED
  BY <1>1, <1>2

\* The portfolio store stays as it is, or grows old.
LEMMA StoreStays ==
  ASSUME TypeInv, StoreInv, UNCHANGED <<held, trades>>,
         stored' = stored \/ stored' = [stored EXCEPT !.fresh = FALSE],
         NEW t \in Threads, \A u \in Threads \ {t} : thread'[u] = thread[u], Behind(t) => Behind(t)'
  PROVE  StoreInv'
<1>1. stored'.pos = stored.pos /\ stored'.trades = stored.trades /\ (stored'.fresh => stored.fresh)
  BY DEF TypeInv, BooksInv, Portfolio
<1>2. Ledger' = Ledger
  BY DEF Ledger
<1>3. \A u \in Threads : Behind(u) => Behind(u)'
  BY DEF Behind
<1>. QED
  BY <1>1, <1>2, <1>3 DEF StoreInv

\* A step that changes what the thread has in hand and nothing else.
LEMMA HandMoves ==
  ASSUME TypeInv, LedgerInv, NEW t \in Threads, NEW r, Moves(t, r),
         \A u \in Threads \ {t} : thread[u] = Resting,
         UNCHANGED <<broker, held, working, trades, stored, file, memory, orders>>,
         Behind(t) => Behind(t)', CopyInv(t)',
         t = Scanner => ScannerInv' /\ \A s \in Symbols : After(s) => After(s)',
         t \in Requesters => RequestInv(t)'
  PROVE  LedgerInv'
<1>1. \A u \in Threads \ {t} : thread'[u] = thread[u]
  BY DEF Moves, TypeInv
<1>2. StoreInv'
  BY <1>1, StoreStays DEF LedgerInv
<1>3. \A s \in Symbols : After(s) => After(s)'
  BY <1>1, Constants DEF After, Me
<1>4. EntriesInv' /\ \A s \in Symbols : SymbolInv(s)'
  BY <1>3, BooksStay DEF LedgerInv
<1>. QED
  BY <1>2, <1>4, ThreadMoves

-----------------------------------------------------------------------------
(* The steps of a scan up to its order.                                    *)

LEMMA LedgerInit ==
  ASSUME Init
  PROVE  LedgerInv
<1>1. /\ trades = <<>> /\ DOMAIN trades = {} /\ Len(trades) = 0
      /\ \A t \in Threads : thread[t] = Resting
  BY DEF Init
<1>2. AloneInv /\ \A t \in Threads : ~Behind(t) /\ CopyInv(t) /\ RequestInv(t)
  BY <1>1 DEF AloneInv, Busy, Behind, CopyInv, RequestInv, Resting
<1>3. ScannerInv /\ \A s \in Symbols : ~After(s)
  BY <1>1, Constants DEF ScannerInv, After, Me, Resting
<1>4. EntriesInv
  BY <1>1 DEF Init, EntriesInv
<1>5. StoreInv
  BY <1>1 DEF Init, StoreInv
<1>6. ASSUME NEW s \in Symbols PROVE SymbolInv(s)
  <2>1. Unfiled(s) = {}
    BY <1>1 DEF Unfiled
  <2>2. file.active[s] \in {None, OldThesis} /\ memory[s] = None /\ file.closed = {} /\ working[s] = 0
    BY DEF Init
  <2>3. Past(file.active[s]) /\ Past(memory[s])
    BY <1>1, <2>2 DEF Init, Past, Clock, None, OldThesis
  <2>4. \A x : Settled(s, x)
    BY <2>2 DEF Settled, Done
  <2>5. Counts(s) /\ Single(s)
    BY <2>1, <2>2 DEF Counts, Single, None, OldThesis
  <2>. QED  BY <2>1, <2>2, <2>3, <2>4, <2>5 DEF SymbolInv
<1>. QED
  BY <1>2, <1>3, <1>4, <1>5, <1>6, Constants DEF LedgerInv, Threads

\* The stored portfolio is what the broker has, when nobody is at work.
LEMMA StoredIsCurrent ==
  ASSUME LedgerInv, \A t \in Threads : thread[t] = Resting
  PROVE  /\ stored.fresh => stored.pos = held
         /\ \A s \in Symbols : stored.pos[s] # 0 => stored.pos[s] = held[s]
BY DEF LedgerInv, StoreInv, Behind, Resting

LEMMA TradesAreLedger ==
  ASSUME BrokerInv
  PROVE  trades \in Seq(Ledger)
<1>1. Len(trades) \in Nat /\ DOMAIN trades = 1..Len(trades)
  BY LenProperties DEF BrokerInv
<1>2. trades = [i \in 1..Len(trades) |-> trades[i]]
  BY <1>1 DEF BrokerInv
<1>3. \A i \in 1..Len(trades) : trades[i] \in Ledger
  BY <1>1 DEF Ledger
<1>. QED
  BY <1>1, <1>2, <1>3, IsASeq

LEMMA BeginScanKeeps ==
  ASSUME TypeInv, LedgerInv, broker.reports, BeginScan, ~overlapped'
  PROVE  LedgerInv'
<1> DEFINE view == IF stored.fresh THEN [stored EXCEPT !.fresh = FALSE] ELSE Reconciled
           r == [Resting EXCEPT !.at = "list", !.phase = "before", !.view = view,
                                !.jobs = <<ToStore(view)>>]
<1>1. \A t \in Threads : thread[t] = Resting
  BY DEF BeginScan, Begins, Alongside, Busy
<1>2. view.pos = held /\ view.trades \in Seq(Ledger)
  <2>1. CASE stored.fresh
    BY <1>1, <2>1, StoredIsCurrent DEF TypeInv, BooksInv, Portfolio, LedgerInv, StoreInv
  <2>2. CASE ~stored.fresh
    BY <2>2, TradesAreLedger DEF Reconciled, TypeInv
  <2>. QED  BY <2>1, <2>2
<1>3. Moves(Scanner, r) /\ UNCHANGED <<broker, held, working, trades, stored, file, memory, orders>>
  BY DEF BeginScan, UnchangedByThreads
<1> HIDE DEF view
<1>4. r.at = "list" /\ r.phase = "before" /\ r.view = view /\ r.jobs = <<ToStore(view)>> /\ r.copy = None
  BY DEF Resting
<1> HIDE DEF r
<1>5. Me' = r
  BY <1>3, Constants DEF Moves, Me, TypeInv
<1>6. Ledger' = Ledger
  BY <1>3 DEF Ledger
<1>7. ScannerInv'
  <2>1. ListInv'
    BY <1>2, <1>3, <1>4, <1>5, <1>6 DEF ListInv, ViewInv
  <2>. QED  BY <1>4, <1>5, <2>1 DEF ScannerInv
<1>8. \A s \in Symbols : ~After(s)
  BY <1>1, Constants DEF After, Me, Resting
<1>9. ~Behind(Scanner) /\ CopyInv(Scanner)'
  BY <1>1, <1>4, <1>5, Constants DEF Behind, Resting, CopyInv, Me
<1>. QED
  BY <1>1, <1>3, <1>7, <1>8, <1>9, HandMoves, Constants, LedgerAssumption

LEMMA HoldKeeps ==
  ASSUME TypeInv, LedgerInv, Hold
  PROVE  LedgerInv'
<1>1. Me.at = "decide" /\ Me.jobs = <<>>
  BY DEF Hold, At, Me
<1>2. Busy(Scanner) /\ \A u \in Threads \ {Scanner} : thread[u] = Resting
  BY <1>1, OthersRest, Constants DEF Busy, Resting, Me, LedgerInv
<1>3. ~Behind(Scanner) /\ \A s \in Symbols : ~After(s)
  BY <1>1 DEF Behind, After, Me
<1>4. thread'[Scanner] = Resting
  BY Constants DEF Hold, Moves, TypeInv
<1>. QED
  BY <1>2, <1>3, <1>4, RestsThen, HandMoves, Constants, LedgerAssumption
     DEF Hold, UnchangedByThreads

-----------------------------------------------------------------------------
(* The sort loses no trade.                                                *)

LEMMA InsertedKeeps ==
  ASSUME NEW S, NEW s \in Seq(S), NEW trade \in S
  PROVE  /\ \E k \in DOMAIN Inserted(s, trade) : Inserted(s, trade)[k] = trade
         /\ \A i \in DOMAIN s : \E k \in DOMAIN Inserted(s, trade) : Inserted(s, trade)[k] = s[i]
<1> DEFINE B == {i \in DOMAIN s : s[i].at >= trade.at}
           n == Cardinality(B)
           N == Len(s)
           new == Inserted(s, trade)
<1>1. DOMAIN s = 1..N /\ N \in Nat
  BY LenProperties
<1>2. n \in Nat /\ n <= N
  <2>1. IsFiniteSet(1..N) /\ Cardinality(1..N) = N
    BY <1>1, FS_Interval
  <2>. QED  BY <1>1, <2>1, FS_Subset, FS_CardinalityType
<1> HIDE DEF n
<1> DEFINE front == SubSeq(s, 1, n)
           back == SubSeq(s, n + 1, N)
<1>3. front \in Seq(S) /\ Len(front) = n /\ \A i \in 1..n : front[i] = s[i]
  <2>1. \A i \in 1..n : s[i] \in S
    BY <1>1, <1>2, ElementOfSeq
  <2>. QED  BY <1>2, <2>1, SubSeqProperties
<1>4. back \in Seq(S) /\ Len(back) = N - n /\ \A i \in 1..(N - n) : back[i] = s[n + i]
  <2> HIDE DEF N
  <2>1. \A i \in (n + 1)..N : s[i] \in S
    BY <1>1, <1>2, ElementOfSeq
  <2>2. n + 1 \in Int /\ N \in Int
    BY <1>1, <1>2
  <2>3. /\ SubSeq(s, n + 1, N) \in Seq(S)
        /\ Len(SubSeq(s, n + 1, N)) = IF n + 1 <= N THEN N - (n + 1) + 1 ELSE 0
        /\ \A i \in 1..(N - (n + 1) + 1) : SubSeq(s, n + 1, N)[i] = s[(n + 1) + i - 1]
    BY <2>1, <2>2, SubSeqProperties
  <2> HIDE DEF back
  <2>4. back = SubSeq(s, n + 1, N)
    BY DEF back
  <2>5. N - (n + 1) + 1 = N - n /\ (IF n + 1 <= N THEN N - (n + 1) + 1 ELSE 0) = N - n
    BY <1>1, <1>2
  <2>6. \A i \in 1..(N - n) : (n + 1) + i - 1 = n + i
    BY <1>1, <1>2
  <2>. QED  BY <2>3, <2>4, <2>5, <2>6
<1>5. SubSeq(s, 1, (n + 1) - 1) = front
  BY <1>2
<1>6. new = front \o <<trade>> \o back
  BY <1>5 DEF Inserted, InsertAt, n
<1> HIDE DEF front, back, new, N
<1>7. <<trade>> \in Seq(S) /\ Len(<<trade>>) = 1 /\ <<trade>>[1] = trade
  OBVIOUS
<1> DEFINE head == front \o <<trade>>
<1>8. /\ head \in Seq(S) /\ Len(head) = n + 1 /\ head[n + 1] = trade
      /\ \A i \in 1..n : head[i] = s[i]
  BY <1>2, <1>3, <1>7, ConcatProperties
<1>9. new = head \o back
  BY <1>6
<1> HIDE DEF head
<1>10. /\ new \in Seq(S) /\ Len(new) = N + 1
       /\ \A i \in 1..(n + 1) : new[i] = head[i]
       /\ \A i \in (n + 2)..(N + 1) : new[i] = back[i - (n + 1)]
  BY <1>1, <1>2, <1>4, <1>8, <1>9, ConcatProperties
<1>11. DOMAIN new = 1..(N + 1)
  BY <1>10, LenProperties
<1>12. new[n + 1] = trade /\ n + 1 \in DOMAIN new
  BY <1>1, <1>2, <1>8, <1>10, <1>11
<1>13. ASSUME NEW i \in 1..N PROVE \E k \in DOMAIN new : new[k] = s[i]
  <2>1. CASE i <= n
    <3>1. i \in 1..n /\ i \in 1..(n + 1) /\ i \in DOMAIN new
      BY <1>1, <1>2, <1>11, <2>1
    <3>. QED  BY <1>8, <1>10, <3>1
  <2>2. CASE ~(i <= n)
    <3>1. i + 1 \in (n + 2)..(N + 1) /\ (i + 1) - (n + 1) = i - n /\ i - n \in 1..(N - n)
      BY <1>1, <1>2, <2>2
    <3>2. new[i + 1] = back[i - n] /\ i + 1 \in DOMAIN new
      BY <1>1, <1>2, <1>10, <1>11, <3>1
    <3>3. back[i - n] = s[n + (i - n)] /\ n + (i - n) = i
      BY <1>2, <1>4, <3>1
    <3>. QED  BY <3>2, <3>3
  <2>. QED  BY <2>1, <2>2
<1>. QED
  BY <1>1, <1>12, <1>13 DEF new

LEMMA NewestFirstKeeps ==
  ASSUME NEW S, NEW s \in Seq(S)
  PROVE  \A i \in DOMAIN s : \E k \in DOMAIN NewestFirst(s) : NewestFirst(s)[k] = s[i]
<1>1. PICK f \in [0..Len(s) -> Seq(S)] :
           /\ f[0] = <<>>
           /\ \A n \in 1..Len(s) : f[n] = Inserted(f[n - 1], s[n])
           /\ NewestFirst(s) = f[Len(s)]
  BY NewestFirstStepwise
<1> DEFINE N == Len(s)
           Has(n) == \A i \in 1..n : \E k \in DOMAIN f[n] : f[n][k] = s[i]
           G == {n \in Nat : n \in 0..N => Has(n)}
<1>2. N \in Nat /\ DOMAIN s = 1..N /\ \A n \in 1..N : s[n] \in S
  BY LenProperties, ElementOfSeq
<1> HIDE DEF N
<1>3. 0 \in G
  OBVIOUS
<1>4. ASSUME NEW n \in Nat, n \in G PROVE n + 1 \in G
  <2>1. SUFFICES ASSUME n + 1 \in 0..N PROVE Has(n + 1)
    OBVIOUS
  <2>2. n + 1 \in 1..N /\ n \in 0..N /\ (n + 1) - 1 = n
    BY <1>2, <2>1
  <2>3. f[n] \in Seq(S) /\ s[n + 1] \in S /\ f[n + 1] = Inserted(f[n], s[n + 1]) /\ Has(n)
    BY <1>1, <1>2, <1>4, <2>2 DEF N
  <2>4. SUFFICES ASSUME NEW i \in 1..(n + 1) PROVE \E k \in DOMAIN f[n + 1] : f[n + 1][k] = s[i]
    OBVIOUS
  <2>5. CASE i = n + 1
    BY <2>3, <2>5, InsertedKeeps
  <2>6. CASE i # n + 1
    <3>1. i \in 1..n
      BY <2>6
    <3>2. PICK k \in DOMAIN f[n] : f[n][k] = s[i]
      BY <2>3, <3>1
    <3>3. \E j \in DOMAIN f[n + 1] : f[n + 1][j] = f[n][k]
      BY <2>3, InsertedKeeps
    <3>. QED  BY <3>2, <3>3
  <2>. QED  BY <2>5, <2>6
<1>5. Nat \subseteq G
  <2> HIDE DEF G
  <2>. QED  BY <1>3, <1>4, AllNat
<1>6. Has(N)
  BY <1>2, <1>5
<1>. QED
  BY <1>1, <1>2, <1>6 DEF N

LEMMA ListThesesKeeps ==
  ASSUME TypeInv, LedgerInv, file # Torn, ListTheses
  PROVE  LedgerInv'
<1> DEFINE left == NewestFirst(Me.view.trades)
           r == [Me EXCEPT !.at = "scale-outs", !.active = file.active, !.left = left]
<1>1. /\ Me.at = "list" /\ Me.jobs = <<>> /\ Me \in ThreadType /\ Me.copy = None
      /\ Moves(Scanner, r) /\ UNCHANGED <<broker, held, working, trades, stored, file, memory, orders>>
  BY MeIsThread DEF ListTheses, At, Me, UnchangedByThreads, Thread
<1>2. ListInv
  BY <1>1 DEF LedgerInv, ScannerInv
<1> HIDE DEF left
<1>3. /\ r.at = "scale-outs" /\ r.phase = Me.phase /\ r.view = Me.view /\ r.jobs = <<>>
      /\ r.copy = None /\ r.left = left /\ r.active = file.active /\ r.order = Me.order
  BY <1>1 DEF ThreadType
<1> HIDE DEF r
<1>4. Me' = r
  BY <1>1, Constants DEF Moves, Me, TypeInv
<1>5. Ledger' = Ledger /\ \A s \in Symbols : Unfiled(s)' = Unfiled(s) /\ \A x : Done(s, x)' = Done(s, x)
  BY <1>1 DEF Ledger, Unfiled, Done
<1>6. left \in Seq(Ledger)
  BY <1>2, NewestFirstIsIn DEF ListInv, ViewInv, left
<1>7. SyncInv'
  <2>1. ViewInv' /\ \A s \in Symbols : ActiveInv(s)'
    BY <1>1, <1>2, <1>3, <1>4, <1>5 DEF ListInv, ViewInv, ActiveInv
  <2>2. ASSUME Me.phase = "after"
        PROVE  LET s == Me.order.sym
                   thesis == Me.order.thesis
               IN  /\ Me.view.trades = trades
                   /\ OrderInv(s, thesis)' /\ WrittenInv(s, thesis)' /\ ToCome(s)'
    <3> DEFINE s == Me.order.sym
               thesis == Me.order.thesis
    <3>1. s \in Symbols
      BY <1>1, <2>2, MeIsThread DEF Thread, Sent
    <3>2. Me.view.trades = trades /\ OrderInv(s, thesis) /\ WrittenInv(s, thesis)
      BY <1>1, <1>2, <2>2 DEF ListInv, CountJobs
    <3>3. Me'.order = Me.order /\ s' = s /\ thesis' = thesis
      BY <1>3, <1>4
    <3> HIDE DEF s, thesis
    <3>4. OrderInv(s, thesis)' /\ WrittenInv(s, thesis)'
      BY <1>1, <1>3, <1>4, <1>5, <3>1, <3>2, <3>3 DEF OrderInv, WrittenInv, Past, Clock
    <3>5. ToCome(s)'
      <4>1. SUFFICES ASSUME NEW i \in Unfiled(s) PROVE \E k \in DOMAIN left : left[k].id = i
        BY <1>3, <1>4, <1>5, <3>1, <3>3 DEF ToCome
      <4>2. i \in DOMAIN trades /\ trades[i].id = i /\ trades \in Seq(Ledger)
        BY TradesAreLedger DEF Unfiled, LedgerInv, EntriesInv, TypeInv
      <4>3. \E k \in DOMAIN left : left[k] = trades[i]
        BY <3>2, <4>2, NewestFirstKeeps DEF left
      <4>. QED  BY <4>2, <4>3
    <3>. QED  BY <3>2, <3>4, <3>5 DEF s, thesis
  <2>. QED  BY <1>1, <1>2, <1>3, <1>4, <1>5, <1>6, <2>1, <2>2 DEF SyncInv, ListInv
<1>8. ScannerInv'
  BY <1>3, <1>4, <1>7 DEF ScannerInv
<1>9. Busy(Scanner) /\ \A u \in Threads \ {Scanner} : thread[u] = Resting
  BY <1>1, OthersRest, Constants DEF Busy, Resting, Me, LedgerInv
<1>10. ~Behind(Scanner) /\ CopyInv(Scanner)' /\ \A s \in Symbols : After(s) => After(s)'
  BY <1>1, <1>3, <1>4 DEF Behind, CopyInv, After, Me
<1>. QED
  BY <1>1, <1>8, <1>9, <1>10, HandMoves, Constants, LedgerAssumption

\* A thesis is taken into memory, or forgotten.
LEMMA MemoryMoves ==
  ASSUME TypeInv, LedgerInv, NEW r, Moves(Scanner, r),
         \A u \in Threads \ {Scanner} : thread[u] = Resting,
         UNCHANGED <<broker, held, working, trades, stored, file, orders>>,
         NEW sym \in Symbols, NEW x \in Thesis, memory' = [memory EXCEPT ![sym] = x],
         Past(x), Settled(sym, x),
         \A s \in Symbols \ {sym} : After(s) => After(s)',
         ~After(sym)' /\ (held[sym] # 0 \/ ~broker.served) => Unfiled(sym) = {},
         ~After(sym)' /\ held[sym] # 0 => Counts(sym)',
         ~Behind(Scanner), CopyInv(Scanner)', ScannerInv'
  PROVE  LedgerInv'
<1>1. EntriesInv'
  BY DEF LedgerInv, EntriesInv
<1>2. ASSUME NEW s \in Symbols PROVE SymbolInv(s)'
  <2>1. SymbolInv(s) /\ memory \in [Symbols -> Thesis]
    BY MeIsThread DEF LedgerInv
  <2>2. Unfiled(s)' = Unfiled(s)
    BY DEF Unfiled
  <2>3. Single(s)' = Single(s)
    BY <2>2 DEF Single
  <2>4. \A y : Past(y)' = Past(y) /\ Settled(s, y)' = Settled(s, y)
    BY <2>2 DEF Past, Clock, Settled, Done
  <2>5. CASE s = sym
    <3>1. memory'[s] = x
      BY <2>1, <2>5
    <3>2. Past(file.active[s])' /\ Past(memory[s])' /\ Settled(s, file.active[s])' /\ Settled(s, memory[s])'
      BY <2>1, <2>4, <2>5, <3>1 DEF SymbolInv
    <3>. QED  BY <2>1, <2>2, <2>3, <2>5, <3>2 DEF SymbolInv
  <2>6. CASE s # sym
    <3>1. memory'[s] = memory[s]
      BY <2>1, <2>6
    <3>2. Past(file.active[s])' /\ Past(memory[s])' /\ Settled(s, file.active[s])' /\ Settled(s, memory[s])'
      BY <2>1, <2>4, <3>1 DEF SymbolInv
    <3>3. Counts(s)' = Counts(s)
      BY <3>1 DEF Counts
    <3>4. After(s) => After(s)'
      BY <2>6
    <3>. QED  BY <2>1, <2>2, <2>3, <3>2, <3>3, <3>4 DEF SymbolInv
  <2>. QED  BY <2>5, <2>6
<1>3. StoreInv'
  <2>1. \A u \in Threads \ {Scanner} : thread'[u] = thread[u]
    BY DEF Moves, TypeInv
  <2>. QED  BY <2>1, StoreStays, Constants DEF LedgerInv
<1>. QED
  BY <1>1, <1>2, <1>3, ThreadMoves, Constants, LedgerAssumption

LEMMA AtWork ==
  ASSUME LedgerInv, NEW t \in Threads, thread[t].at # "rest" \/ thread[t].jobs # <<>>
  PROVE  Busy(t) /\ \A u \in Threads \ {t} : thread[u] = Resting
<1>1. Busy(t)
  BY DEF Busy, Resting
<1>. QED
  BY <1>1, OthersRest DEF LedgerInv

\* The theses of a symbol that is in line.
LEMMA SelectedIsKept ==
  ASSUME TypeInv, LedgerInv, file # Torn, NEW sym \in Symbols
  PROVE  /\ Selected(sym) \in {file.active[sym], memory[sym]} \cap Thesis
         /\ memory[sym] # None => Selected(sym) = memory[sym]
         /\ Past(Selected(sym)) /\ Settled(sym, Selected(sym))
<1>1. Selected(sym) \in {file.active[sym], memory[sym]} \cap Thesis
  BY KnownType DEF Selected
<1>. QED
  BY <1>1 DEF LedgerInv, SymbolInv, Selected

LEMMA MoveStopKeeps ==
  ASSUME TypeInv, LedgerInv, file # Torn, NEW sym \in Symbols, MoveStop(sym)
  PROVE  LedgerInv'
<1> DEFINE x == Selected(sym)
           r == [Resting EXCEPT !.jobs = <<ToUpsert(sym, x)>>]
<1>1. /\ Me.at = "decide" /\ Me.jobs = <<>> /\ Moves(Scanner, r)
      /\ UNCHANGED <<broker, held, working, trades, stored, file, orders>>
      /\ memory' = [memory EXCEPT ![sym] = x] /\ x # None /\ Me.view.pos[sym] # 0
  BY DEF MoveStop, At, Me, UnchangedByThreads
<1>2. DecideInv /\ SymbolInv(sym)
  BY <1>1 DEF LedgerInv, ScannerInv
<1>3. held[sym] # 0 /\ Unfiled(sym) = {} /\ Counts(sym) /\ ~After(sym)
  BY <1>1, <1>2 DEF DecideInv, ViewInv, SymbolInv, After
<1>4. /\ x \in {file.active[sym], memory[sym]} \cap Thesis
      /\ memory[sym] # None => x = memory[sym]
      /\ Past(x) /\ Settled(sym, x)
  BY SelectedIsKept
<1> HIDE DEF x
<1>5. r.at = "rest" /\ r.jobs = <<ToUpsert(sym, x)>> /\ r.copy = None
  BY DEF Resting
<1> HIDE DEF r
<1>6. Me' = r /\ memory \in [Symbols -> Thesis]
  BY <1>1, MeIsThread DEF Moves, Me, TypeInv
<1>7. ScannerInv'
  <2>1. Me'.at = "rest" /\ Len(Me'.jobs) = 1 /\ Me'.jobs[1] = ToUpsert(sym, x)
    BY <1>5, <1>6
  <2>2. UpsertInv(Me.jobs[1])'
    BY <1>1, <1>3, <1>6, <2>1 DEF UpsertInv, ToUpsert
  <2>. QED  BY <2>1, <2>2 DEF ScannerInv, ToUpsert
<1>8. Counts(sym)'
  BY <1>1, <1>3, <1>4, <1>6 DEF Counts
<1>9. ~Behind(Scanner) /\ CopyInv(Scanner)' /\ \A s \in Symbols : ~After(s)
  BY <1>1, <1>5, <1>6 DEF Behind, CopyInv, After, Me
<1>10. \A u \in Threads \ {Scanner} : thread[u] = Resting
  BY <1>1, AtWork, Constants DEF Me
<1>. QED
  BY <1>1, <1>3, <1>4, <1>7, <1>8, <1>9, <1>10, MemoryMoves

LEMMA SynchronisedKeeps ==
  ASSUME TypeInv, LedgerInv, file # Torn, Synchronised
  PROVE  LedgerInv'
<1>1. /\ Me.at = "scale-outs" /\ Me.jobs = <<>> /\ Me.left = <<>> /\ Stale = {}
      /\ Me \in ThreadType /\ Me.copy = None
      /\ UNCHANGED <<broker, held, working, trades, stored, file, orders>>
  BY MeIsThread DEF Synchronised, At, Me, UnchangedByThreads, Thread
<1>2. SyncInv
  BY <1>1 DEF LedgerInv, ScannerInv
<1>3. ~Behind(Scanner) /\ \A u \in Threads \ {Scanner} : thread[u] = Resting
  BY <1>1, AtWork, Constants DEF Me, Behind
<1>4. \A s \in Symbols : Me.active[s] = file.active[s]
  BY <1>1, <1>2 DEF SyncInv, ActiveInv
<1>5. \A s \in Symbols : held[s] = 0 => file.active[s] = None /\ memory[s] = None
  BY <1>1, <1>2, <1>4 DEF SyncInv, ViewInv, Stale, Known
<1>6. CASE Me.phase = "before"
  <2> DEFINE r == [Me EXCEPT !.at = "decide"]
  <2>1. Moves(Scanner, r) /\ UNCHANGED memory
    BY <1>6 DEF Synchronised
  <2>2. /\ r.at = "decide" /\ r.phase = "before" /\ r.jobs = <<>> /\ r.copy = None
        /\ r.active = Me.active /\ r.view = Me.view
    BY <1>1, <1>6 DEF ThreadType
  <2> HIDE DEF r
  <2>3. Me' = r
    BY <2>1, Constants DEF Moves, Me, TypeInv
  <2>4. Me.active = file.active
    <3>1. Me.active \in [Symbols -> Thesis] /\ file.active \in [Symbols -> Thesis]
      BY <1>1 DEF ThreadType, TypeInv, BooksInv, Books
    <3>. QED  BY <1>4, <3>1
  <2>5. DecideInv'
    <3>1. Ledger' = Ledger
      BY <1>1 DEF Ledger
    <3>. QED  BY <1>1, <1>2, <1>5, <2>1, <2>2, <2>3, <2>4, <3>1 DEF DecideInv, SyncInv, ViewInv
  <2>6. ScannerInv'
    BY <2>2, <2>3, <2>5 DEF ScannerInv
  <2>7. CopyInv(Scanner)' /\ \A s \in Symbols : ~After(s)
    BY <1>1, <1>6, <2>2, <2>3 DEF CopyInv, After, Me
  <2>. QED  BY <1>1, <1>3, <2>1, <2>6, <2>7, HandMoves, Constants, LedgerAssumption
<1>7. ASSUME Me.phase # "before"
      PROVE  \E sym \in Symbols, thesis \in Thesis :
                /\ sym = Me.order.sym /\ thesis = Me.order.thesis
                /\ OrderInv(sym, thesis) /\ WrittenInv(sym, thesis)
                /\ held[sym] # 0 => Unfiled(sym) = {}
                /\ ~broker.served => Unfiled(sym) = {}
  <2>1. Me.phase = "after" /\ Me.order \in Sent
    BY <1>1, <1>2, <1>7, MeIsThread DEF SyncInv, Thread, ThreadType
  <2>2. PICK sym \in Symbols, thesis \in Thesis : sym = Me.order.sym /\ thesis = Me.order.thesis
    BY <2>1 DEF Sent
  <2>3. OrderInv(sym, thesis) /\ WrittenInv(sym, thesis) /\ (held[sym] # 0 => Unfiled(sym) = {})
    BY <1>1, <1>2, <2>1, <2>2 DEF SyncInv, ToCome
  <2>4. ~broker.served /\ held[sym] = 0 => Unfiled(sym) = {}
    BY <1>5, <2>2, <2>3 DEF WrittenInv
  <2>. QED  BY <2>2, <2>3, <2>4
<1>8. CASE Me.phase # "before"
  <2>1. PICK sym \in Symbols, thesis \in Thesis :
           /\ sym = Me.order.sym /\ thesis = Me.order.thesis
           /\ OrderInv(sym, thesis) /\ WrittenInv(sym, thesis)
           /\ held[sym] # 0 => Unfiled(sym) = {}
           /\ ~broker.served => Unfiled(sym) = {}
    BY <1>7, <1>8
  <2>2. \A s \in Symbols \ {sym} : ~After(s)
    BY <2>1 DEF After
  <2>3. CASE held[sym] = 0
    <3>1. Moves(Scanner, Resting) /\ UNCHANGED memory
      BY <1>2, <1>8, <2>1, <2>3 DEF Synchronised, SyncInv, ViewInv
    <3>2. thread'[Scanner] = Resting
      BY <3>1, Constants DEF Moves, TypeInv
    <3>3. memory' = [memory EXCEPT ![sym] = None]
      BY <1>5, <2>3, <3>1, MeIsThread
    <3>4. ScannerInv' /\ CopyInv(Scanner)' /\ \A s \in Symbols : ~After(s)'
      BY <3>2, RestsThen, Constants
    <3>5. Past(None) /\ Settled(sym, None)
      <4>1. orders \in Nat /\ Clock \in Nat
        BY ClockIsNat DEF TypeInv, CountInv
      <4>. QED  BY <4>1 DEF Past, Settled, None
    <3>. QED  BY <1>1, <1>3, <2>1, <2>2, <2>3, <3>1, <3>3, <3>4, <3>5, MemoryMoves, SmallTypes
  <2>4. CASE held[sym] # 0
    <3> DEFINE x == Counted(file, sym, thesis)
               r == [Resting EXCEPT !.jobs = <<ToUpsert(sym, x)>>]
    <3>1. Moves(Scanner, r) /\ memory' = [memory EXCEPT ![sym] = x]
      BY <1>2, <1>8, <2>1, <2>4 DEF Synchronised, SyncInv, ViewInv
    <3>2. file.active[sym] \in Thesis
      BY DEF TypeInv, BooksInv, Books
    <3>3. /\ x \in Thesis /\ x.id = thesis.id /\ x.since = thesis.since /\ x.out = thesis.out
          /\ x.filed <= x.out /\ file.active[sym].filed <= x.out /\ x # None
      <4>1. thesis.filed <= thesis.out /\ file.active[sym].filed <= thesis.out /\ thesis # None
        BY <2>1, <2>4 DEF OrderInv
      <4>2. CASE file.active[sym].filed > thesis.filed
        <5>1. x = [thesis EXCEPT !.filed = file.active[sym].filed]
          BY <4>2 DEF Counted
        <5>. QED  BY <3>2, <4>1, <4>2, <5>1 DEF Thesis, None
      <4>3. CASE ~(file.active[sym].filed > thesis.filed)
        BY <4>1, <4>3 DEF Counted
      <4>. QED  BY <4>2, <4>3
    <3> HIDE DEF x
    <3>4. Past(x) /\ Settled(sym, x)
      BY <2>1, <2>4, <3>3 DEF OrderInv, Past, Settled, Done
    <3>5. r.at = "rest" /\ r.jobs = <<ToUpsert(sym, x)>> /\ r.copy = None
      BY DEF Resting
    <3> HIDE DEF r
    <3>6. Me' = r /\ memory'[sym] = x
      BY <3>1, MeIsThread DEF Moves, Me, TypeInv
    <3>7. ScannerInv'
      <4>1. Me'.at = "rest" /\ Len(Me'.jobs) = 1 /\ Me'.jobs[1] = ToUpsert(sym, x)
        BY <3>5, <3>6
      <4>2. UpsertInv(Me.jobs[1])'
        BY <1>1, <2>4, <3>3, <3>6, <4>1 DEF UpsertInv, ToUpsert
      <4>. QED  BY <4>1, <4>2 DEF ScannerInv, ToUpsert
    <3>8. Counts(sym)'
      BY <1>1, <2>1, <2>4, <3>3, <3>6 DEF Counts, OrderInv, WrittenInv
    <3>9. CopyInv(Scanner)'
      BY <3>5, <3>6 DEF CopyInv, Me
    <3>. QED  BY <1>1, <1>3, <2>1, <2>2, <2>4, <3>1, <3>3, <3>4, <3>7, <3>8, <3>9, MemoryMoves
  <2>. QED  BY <2>3, <2>4
<1>. QED
  BY <1>6, <1>8

LEMMA InLedger ==
  ASSUME TypeInv, LedgerInv, NEW trade \in Ledger
  PROVE  /\ trade.id \in DOMAIN trades /\ trades[trade.id] = trade
         /\ trade \in Trade /\ Symbol(trade) \in Symbols
<1>1. PICK i \in DOMAIN trades : trade = trades[i]
  BY DEF Ledger
<1>2. trade.id = i
  BY <1>1 DEF LedgerInv, EntriesInv
<1>3. trade \in Trade
  BY <1>1, ElementOfSeq, LenProperties DEF TypeInv, BrokerInv
<1>. QED
  BY <1>1, <1>2, <1>3, SymbolOf

LEMMA FileScaleOutKeeps ==
  ASSUME TypeInv, LedgerInv, file # Torn, FileScaleOut
  PROVE  LedgerInv'
<1>1. /\ Me.at = "scale-outs" /\ Me.jobs = <<>> /\ Me.left # <<>>
      /\ Me \in ThreadType /\ Me.copy = None
      /\ UNCHANGED <<broker, held, working, trades, stored, file, orders>>
  BY MeIsThread DEF FileScaleOut, At, Me, UnchangedByThreads, Thread
<1>2. SyncInv
  BY <1>1 DEF LedgerInv, ScannerInv
<1>3. ~Behind(Scanner) /\ \A u \in Threads \ {Scanner} : thread[u] = Resting
  BY <1>1, AtWork, Constants DEF Me, Behind
<1>4. Head(Me.left) \in Ledger /\ Tail(Me.left) \in Seq(Ledger)
  BY <1>1, <1>2, HeadTailProperties DEF SyncInv
<1>5. PICK trade \in Ledger : trade = Head(Me.left)
  BY <1>4
<1>6. PICK s \in Symbols : s = Symbol(trade)
  BY InLedger
<1>7. trade.id \in DOMAIN trades /\ trades[trade.id] = trade
  BY InLedger
<1>8. Me.active[s] = file.active[s] /\ Me.view.pos = held
  BY <1>1, <1>2 DEF SyncInv, ActiveInv, ViewInv
<1>9. Ledger' = Ledger /\ \A u \in Symbols : Unfiled(u)' = Unfiled(u) /\ \A x : Done(u, x)' = Done(u, x)
  BY <1>1 DEF Ledger, Unfiled, Done
<1>10. CASE IsScaleOut(trade)
  <2>1. ~IsFiled(file, trade) /\ held[s] # 0
    BY <1>6, <1>8, <1>10 DEF IsScaleOut
  <2>2. trade.id \in Unfiled(s)
    BY <1>6, <1>7, <2>1 DEF Unfiled
  <2>3. SymbolInv(s)
    BY DEF LedgerInv
  <2>4. Unfiled(s) = {trade.id}
    BY <2>2, <2>3 DEF SymbolInv, Single
  <2>5. After(s)
    BY <2>1, <2>2, <2>3 DEF SymbolInv
  <2>6. Me.phase = "after" /\ Me.order.sym = s
    BY <1>1, <2>5 DEF After
  <2>7. PICK k \in Thesis : k = Known(s)
    BY KnownType
  <2>8. k = file.active[s] /\ k # None /\ k.out = Me.order.thesis.out /\ k.since = Me.order.thesis.since
    BY <1>2, <1>8, <2>1, <2>6, <2>7 DEF SyncInv, WrittenInv, Known
  <2>9. k.filed < k.out /\ k.filed \in Nat /\ k.out \in Nat
    BY <1>6, <1>10, <2>7 DEF IsScaleOut, Thesis
  <2> DEFINE x == [k EXCEPT !.filed = k.filed + 1]
             jobs == <<ToArchive(s, trade, k, "scaled-out"), ToUpsert(s, x)>>
             r == [Me EXCEPT !.left = Tail(Me.left), !.active[s] = x, !.jobs = jobs]
  <2>10. Moves(Scanner, r) /\ memory' = [memory EXCEPT ![s] = x]
    BY <1>5, <1>6, <1>10, <2>7 DEF FileScaleOut
  <2>11. /\ x \in Thesis /\ x # None /\ x.id = k.id /\ x.since = k.since /\ x.out = k.out
         /\ x.filed <= x.out
    BY <2>9 DEF Thesis, None
  <2> HIDE DEF x
  <2>12. Past(x) /\ Settled(s, x)
    BY <2>3, <2>8, <2>11 DEF SymbolInv, Past, Settled, Done
  <2>13. /\ Len(jobs) = 2 /\ jobs # <<>> /\ jobs[2] = ToUpsert(s, x)
         /\ jobs[1] = ToArchive(s, trade, k, "scaled-out")
    OBVIOUS
  <2> HIDE DEF jobs
  <2>14. /\ r.at = "scale-outs" /\ r.phase = "after" /\ r.view = Me.view /\ r.jobs = jobs
         /\ r.copy = None /\ r.left = Tail(Me.left) /\ r.order = Me.order
         /\ r.active = [Me.active EXCEPT ![s] = x]
    BY <1>1, <2>6 DEF ThreadType
  <2> HIDE DEF r
  <2>15. Me' = r /\ memory \in [Symbols -> Thesis] /\ Me.active \in [Symbols -> Thesis]
    BY <1>1, <2>10, MeIsThread DEF Moves, Me, TypeInv, ThreadType
  <2>16. memory'[s] = x /\ Me'.active[s] = x /\ \A u \in Symbols \ {s} : Me'.active[u] = Me.active[u]
    BY <2>10, <2>14, <2>15
  <2>17. ScalesOut'
    <3>1. UpsertInv(ToUpsert(s, x))'
      BY <1>1, <2>1, <2>11, <2>16 DEF UpsertInv, ToUpsert
    <3>2. ArchiveInv(ToArchive(s, trade, k, "scaled-out"))'
      BY <1>1, <1>9, <2>3, <2>4, <2>8 DEF ArchiveInv, ToArchive, SymbolInv, Past
    <3>3. /\ ToUpsert(s, x).do = "upsert" /\ ToUpsert(s, x).sym = s /\ ToUpsert(s, x).thesis = x
          /\ ToArchive(s, trade, k, "scaled-out").do = "archive"
          /\ ToArchive(s, trade, k, "scaled-out").state = "scaled-out"
          /\ ToArchive(s, trade, k, "scaled-out").sym = s
      BY DEF ToUpsert, ToArchive
    <3>4. Me'.jobs = jobs /\ Len(Me'.jobs) = 2 /\ Me'.jobs[Len(Me'.jobs)] = ToUpsert(s, x)
          /\ Me'.jobs[1] = ToArchive(s, trade, k, "scaled-out")
      BY <2>13, <2>14, <2>15
    <3>5. UpsertInv(Me.jobs[Len(Me.jobs)])' /\ ArchiveInv(Me.jobs[1])'
      BY <3>1, <3>2, <3>4
    <3>. QED  BY <2>6, <2>8, <2>11, <2>14, <2>15, <2>16, <3>3, <3>4, <3>5 DEF ScalesOut
  <2>18. \A u \in Symbols : ActiveInv(u)'
    <3>1. \A u \in Symbols \ {s} : Me'.active[u] = file.active[u]
      BY <1>1, <1>2, <2>16 DEF SyncInv, ActiveInv
    <3>2. Me'.jobs # <<>> /\ Me'.jobs[Len(Me'.jobs)].sym = s
      <4>1. Me'.jobs = jobs
        BY <2>14, <2>15
      <4>2. jobs[Len(jobs)].sym = s
        BY <2>13 DEF ToUpsert
      <4>. QED  BY <2>13, <4>1, <4>2
    <3>. QED  BY <1>1, <3>1, <3>2 DEF ActiveInv
  <2>19. OrderInv(s, Me.order.thesis) /\ WrittenInv(s, Me.order.thesis) /\ Me.view.trades = trades
    BY <1>2, <2>6 DEF SyncInv
  <2>20. PICK thesis \in Thesis : thesis = Me.order.thesis
    BY <1>1, <2>6, MeIsThread DEF Thread, Sent
  <2>21. OrderInv(s, thesis)' /\ WrittenInv(s, thesis)'
    BY <1>1, <1>9, <2>14, <2>15, <2>19, <2>20 DEF OrderInv, WrittenInv, Past, Clock
  <2>22. Me'.order.sym = s /\ Me'.order.thesis = thesis
    BY <2>6, <2>14, <2>15, <2>20
  <2>23. SyncInv'
    <3>1. ViewInv' /\ Me'.left \in Seq(Ledger)' /\ Me'.view.trades = trades'
      BY <1>1, <1>2, <1>4, <1>9, <2>14, <2>15, <2>19 DEF SyncInv, ViewInv
    <3>2. OrderInv(Me.order.sym, Me.order.thesis)' /\ WrittenInv(Me.order.sym, Me.order.thesis)'
      BY <2>21, <2>22
    <3>. QED  BY <2>13, <2>14, <2>15, <2>17, <2>18, <3>1, <3>2 DEF SyncInv
  <2>24. ScannerInv' /\ CopyInv(Scanner)' /\ \A u \in Symbols : After(u) => After(u)'
    BY <2>14, <2>15, <2>6, <2>23 DEF ScannerInv, CopyInv, After, Me
  <2>25. After(s)'
    BY <2>5, <2>24
  <2>. QED  BY <1>1, <1>3, <2>10, <2>11, <2>12, <2>24, <2>25, MemoryMoves
<1>11. CASE ~IsScaleOut(trade)
  <2> DEFINE r == [Me EXCEPT !.left = Tail(Me.left)]
  <2>1. Moves(Scanner, r) /\ UNCHANGED memory
    BY <1>5, <1>11 DEF FileScaleOut
  <2>2. /\ r.at = "scale-outs" /\ r.phase = Me.phase /\ r.view = Me.view /\ r.jobs = <<>>
        /\ r.copy = None /\ r.left = Tail(Me.left) /\ r.order = Me.order /\ r.active = Me.active
    BY <1>1 DEF ThreadType
  <2> HIDE DEF r
  <2>3. Me' = r
    BY <2>1, Constants DEF Moves, Me, TypeInv
  <2>4. \A u \in Symbols : ActiveInv(u)'
    BY <1>1, <1>2, <2>2, <2>3 DEF SyncInv, ActiveInv
  <2>5. ASSUME Me.phase = "after", NEW u \in Symbols, NEW thesis \in Thesis,
               u = Me.order.sym, thesis = Me.order.thesis
        PROVE  /\ OrderInv(u, thesis)' /\ WrittenInv(u, thesis)'
               /\ held[u] # 0 => ToCome(u)'
    <3>1. OrderInv(u, thesis) /\ WrittenInv(u, thesis) /\ (held[u] # 0 => ToCome(u))
      BY <1>1, <1>2, <2>5 DEF SyncInv
    <3>2. OrderInv(u, thesis)' /\ WrittenInv(u, thesis)'
      BY <1>1, <1>9, <2>1, <2>2, <2>3, <3>1 DEF OrderInv, WrittenInv, Past, Clock
    <3>3. ASSUME held[u] # 0, NEW i \in Unfiled(u)
          PROVE  \E k \in DOMAIN Tail(Me.left) : Tail(Me.left)[k].id = i
      <4>1. PICK j \in DOMAIN Me.left : Me.left[j].id = i
        BY <3>1, <3>3 DEF ToCome
      <4>2. i # trade.id
        <5>1. SUFFICES ASSUME i = trade.id PROVE FALSE
          OBVIOUS
        <5>2. u = s /\ ~IsFiled(file, trade)
          BY <1>6, <1>7, <3>3, <5>1 DEF Unfiled
        <5>3. Known(u) = file.active[u] /\ Known(u) # None
          BY <1>8, <3>1, <3>3, <5>2 DEF Known, WrittenInv
        <5>4. trade.at >= thesis.since /\ file.active[u].filed < thesis.out
          BY <1>7, <3>1, <3>3, <5>1 DEF OrderInv
        <5>5. file.active[u].out = thesis.out /\ file.active[u].since = thesis.since
          BY <3>1, <3>3 DEF WrittenInv
        <5>6. file.active[u] \in Thesis
          BY DEF TypeInv, BooksInv, Books
        <5>7. Known(u).out > Known(u).filed /\ trade.at >= Known(u).since
          BY <5>3, <5>4, <5>5, <5>6 DEF Thesis
        <5>8. Symbol(trade) = u /\ Me.view.pos[u] # 0
          BY <1>6, <1>8, <3>3, <5>2
        <5>. QED  BY <1>11, <5>2, <5>3, <5>7, <5>8 DEF IsScaleOut
      <4>3. Len(Me.left) \in Nat /\ DOMAIN Me.left = 1..Len(Me.left) /\ Me.left \in Seq(Ledger)
        BY <1>2, LenProperties DEF SyncInv
      <4>4. Me.left[1] = trade
        BY <1>1, <1>5, <4>3, HeadTailProperties
      <4>5. j \in 2..Len(Me.left)
        BY <4>1, <4>2, <4>3, <4>4
      <4>6. /\ Len(Tail(Me.left)) = Len(Me.left) - 1
            /\ \A m \in 1..(Len(Me.left) - 1) : Tail(Me.left)[m] = Me.left[m + 1]
        BY <1>1, <4>3, HeadTailProperties
      <4>7. DOMAIN Tail(Me.left) = 1..(Len(Me.left) - 1)
        BY <1>4, <4>6, LenProperties
      <4>8. j - 1 \in 1..(Len(Me.left) - 1) /\ (j - 1) + 1 = j
        BY <4>3, <4>5
      <4>. QED  BY <4>1, <4>6, <4>7, <4>8
    <3>4. held[u] # 0 => ToCome(u)'
      BY <1>9, <2>2, <2>3, <3>3 DEF ToCome
    <3>. QED  BY <3>2, <3>4
  <2>6. ASSUME Me.phase = "after"
        PROVE  /\ OrderInv(Me.order.sym, Me.order.thesis)' /\ WrittenInv(Me.order.sym, Me.order.thesis)'
               /\ held'[Me'.order.sym] # 0 => ToCome(Me.order.sym)'
    <3>1. PICK u \in Symbols, thesis \in Thesis : u = Me.order.sym /\ thesis = Me.order.thesis
      BY <1>1, <2>6, MeIsThread DEF Thread, Sent
    <3>2. u = Me'.order.sym /\ thesis = Me'.order.thesis
      BY <2>2, <2>3, <3>1
    <3>. QED  BY <1>1, <2>5, <2>6, <3>1, <3>2
  <2>7. SyncInv'
    <3>1. ViewInv' /\ Me'.left \in Seq(Ledger)' /\ (Me.phase = "after" => Me'.view.trades = trades')
      BY <1>1, <1>2, <1>4, <1>9, <2>2, <2>3 DEF SyncInv, ViewInv
    <3>. QED  BY <1>2, <2>2, <2>3, <2>4, <2>6, <3>1 DEF SyncInv
  <2>8. ScannerInv' /\ CopyInv(Scanner)' /\ \A u \in Symbols : After(u) => After(u)'
    BY <1>1, <2>2, <2>3, <2>7 DEF ScannerInv, CopyInv, After, Me
  <2>. QED  BY <1>1, <1>3, <2>1, <2>8, HandMoves, Constants, LedgerAssumption
<1>. QED
  BY <1>10, <1>11

LEMMA NoneIsPast ==
  ASSUME TypeInv
  PROVE  Past(None) /\ \A s \in Symbols : Settled(s, None)
<1>1. orders \in Nat /\ Clock \in Nat
  BY ClockIsNat DEF TypeInv, CountInv
<1>. QED
  BY <1>1 DEF Past, Settled, None

\* What a thesis of a position that is gone is closed by.
LEMMA FilingOf ==
  ASSUME TypeInv, LedgerInv, file # Torn, SyncInv, Me.jobs = <<>>, Me.at = "scale-outs",
         NEW s \in Symbols, held[s] = 0, Known(s) # None
  PROVE  /\ Files(Filing(s)) \/ Removes(Filing(s))
         /\ Filing(s)[Len(Filing(s))].sym = s /\ Filing(s) # <<>>
<1>1. /\ SymbolInv(s) /\ Me.active[s] = file.active[s] /\ Me.view.trades \in Seq(Ledger)
      /\ Me.phase = "after" => Me.view.trades = trades
  BY DEF LedgerInv, SyncInv, ActiveInv, ViewInv
<1>2. PICK k \in Thesis : k = Known(s)
  BY KnownType
<1>3. Past(k) /\ Settled(s, k) /\ k # None
  BY <1>1, <1>2 DEF Known, SymbolInv
<1>4. CASE Candidates(s) = {}
  <2>1. Filing(s) = <<ToRemove(s)>>
    BY <1>4 DEF Filing
  <2>2. ASSUME ~broker.served, NEW i \in Unfiled(s) PROVE FALSE
    <3>1. After(s)
      BY <1>1, <2>2 DEF SymbolInv
    <3>2. Me.view.trades = trades
      BY <1>1, <3>1 DEF After
    <3>3. i \in Candidates(s)
      BY <2>2, <3>2 DEF Candidates, Unfiled
    <3>. QED  BY <1>4, <3>3
  <2>3. RemoveInv(ToRemove(s))
    BY <2>2 DEF RemoveInv, ToRemove
  <2>. QED  BY <2>1, <2>3 DEF Removes, ToRemove
<1>5. CASE Candidates(s) # {}
  <2>1. PICK c \in Candidates(s) : c = LastOf(Candidates(s))
    <3>1. Candidates(s) \in SUBSET DOMAIN Me.view.trades
      BY DEF Candidates
    <3>. QED  BY <1>1, <1>5, <3>1, LastIsIn
  <2>2. PICK trade \in Ledger : trade = Me.view.trades[c]
    <3>1. c \in 1..Len(Me.view.trades)
      BY <1>1, LenProperties DEF Candidates
    <3>2. Me.view.trades[c] \in Ledger
      BY <1>1, <3>1, ElementOfSeq
    <3>. QED  BY <3>2
  <2>3. Symbol(trade) = s /\ ~IsFiled(file, trade)
    BY <2>2 DEF Candidates
  <2>4. trade.id \in Unfiled(s)
    BY <2>3, InLedger DEF Unfiled
  <2>5. Unfiled(s) = {trade.id}
    BY <1>1, <2>4 DEF SymbolInv, Single
  <2> DEFINE job == ToArchive(s, trade, k, "closed")
  <2>6. Filing(s) = <<job, ToRemove(s)>>
    BY <1>2, <1>5, <2>1, <2>2 DEF Filing
  <2>7. job.do = "archive" /\ job.sym = s /\ job.trade = trade /\ job.thesis = k /\ job.state = "closed"
    BY DEF ToArchive
  <2>8. ToRemove(s).sym = s
    BY DEF ToRemove
  <2> HIDE DEF job
  <2>9. ArchiveInv(job)
    BY <1>3, <2>5, <2>7 DEF ArchiveInv, Past, Settled
  <2>. QED  BY <2>6, <2>7, <2>8, <2>9 DEF Files
<1>. QED
  BY <1>4, <1>5

LEMMA DropStaleKeeps ==
  ASSUME TypeInv, LedgerInv, file # Torn, DropStale
  PROVE  LedgerInv'
<1>1. /\ Me.at = "scale-outs" /\ Me.jobs = <<>> /\ Me.left = <<>>
      /\ Me \in ThreadType /\ Me.copy = None
      /\ UNCHANGED <<broker, held, working, trades, stored, file, orders>>
  BY MeIsThread DEF DropStale, At, Me, UnchangedByThreads, Thread
<1>2. SyncInv
  BY <1>1 DEF LedgerInv, ScannerInv
<1>3. ~Behind(Scanner) /\ \A u \in Threads \ {Scanner} : thread[u] = Resting
  BY <1>1, AtWork, Constants DEF Me, Behind
<1>4. PICK s \in Stale : /\ memory' = [memory EXCEPT ![s] = None]
                         /\ Moves(Scanner, [Me EXCEPT !.active[s] = None, !.jobs = Filing(s)])
  BY DEF DropStale
<1>5. s \in Symbols /\ held[s] = 0 /\ Known(s) # None
  BY <1>2 DEF Stale, SyncInv, ViewInv
<1>6. PICK jobs : jobs = Filing(s)
  OBVIOUS
<1>7. (Files(jobs) \/ Removes(jobs)) /\ jobs[Len(jobs)].sym = s /\ jobs # <<>>
  BY <1>1, <1>2, <1>5, <1>6, FilingOf
<1>8. Ledger' = Ledger /\ \A u \in Symbols : Unfiled(u)' = Unfiled(u) /\ \A x : Done(u, x)' = Done(u, x)
  BY <1>1 DEF Ledger, Unfiled, Done
<1>9. Files(jobs)' \/ Removes(jobs)'
  <2>1. CASE Files(jobs)
    <3>1. ArchiveInv(jobs[1])'
      <4>1. jobs[1].sym = s
        BY <1>7, <2>1 DEF Files, ToRemove
      <4>. QED  BY <1>1, <1>5, <1>8, <2>1, <4>1 DEF Files, ArchiveInv
    <3>. QED  BY <2>1, <3>1 DEF Files
  <2>2. CASE Removes(jobs)
    <3>1. RemoveInv(jobs[1])'
      <4>1. jobs[1].sym = s
        BY <1>7, <2>2 DEF Removes
      <4>. QED  BY <1>1, <1>5, <1>8, <2>2, <4>1 DEF Removes, RemoveInv
    <3>. QED  BY <2>2, <3>1 DEF Removes
  <2>. QED  BY <1>7, <2>1, <2>2
<1> DEFINE r == [Me EXCEPT !.active[s] = None, !.jobs = jobs]
<1>10. Moves(Scanner, r)
  BY <1>4, <1>6
<1>11. /\ r.at = "scale-outs" /\ r.phase = Me.phase /\ r.view = Me.view /\ r.jobs = jobs
       /\ r.copy = None /\ r.left = <<>> /\ r.order = Me.order
       /\ r.active = [Me.active EXCEPT ![s] = None]
  BY <1>1 DEF ThreadType
<1> HIDE DEF r
<1>12. Me' = r /\ memory \in [Symbols -> Thesis] /\ Me.active \in [Symbols -> Thesis]
  BY <1>1, <1>10, MeIsThread DEF Moves, Me, TypeInv, ThreadType
<1>13. memory'[s] = None /\ Me'.active[s] = None /\ \A u \in Symbols \ {s} : Me'.active[u] = Me.active[u]
  BY <1>4, <1>5, <1>11, <1>12
<1>14. \A u \in Symbols : ActiveInv(u)'
  <2>1. \A u \in Symbols \ {s} : Me'.active[u] = file.active[u]
    BY <1>1, <1>2, <1>13 DEF SyncInv, ActiveInv
  <2>2. Me'.jobs # <<>> /\ Me'.jobs[Len(Me'.jobs)].sym = s
    BY <1>7, <1>11, <1>12
  <2>. QED  BY <1>1, <2>1, <2>2 DEF ActiveInv
<1>15. Drops'
  <2>1. Me'.jobs = jobs
    BY <1>11, <1>12
  <2>. QED  BY <1>7, <1>9, <1>11, <1>12, <1>13, <2>1 DEF Drops
<1>16. ASSUME Me.phase = "after"
       PROVE  /\ OrderInv(Me.order.sym, Me.order.thesis)' /\ WrittenInv(Me.order.sym, Me.order.thesis)'
              /\ held'[Me'.order.sym] # 0 => ToCome(Me.order.sym)'
  <2>1. PICK u \in Symbols, thesis \in Thesis : u = Me.order.sym /\ thesis = Me.order.thesis
    BY <1>1, <1>16, MeIsThread DEF Thread, Sent
  <2>2. OrderInv(u, thesis) /\ WrittenInv(u, thesis) /\ (held[u] # 0 => ToCome(u))
    BY <1>1, <1>2, <1>16, <2>1 DEF SyncInv
  <2>3. OrderInv(u, thesis)' /\ WrittenInv(u, thesis)'
    BY <1>1, <1>8, <1>11, <1>12, <2>2 DEF OrderInv, WrittenInv, Past, Clock
  <2>4. held[u] # 0 => ToCome(u)'
    BY <1>1, <1>8, <1>11, <1>12, <2>2 DEF ToCome
  <2>5. u = Me'.order.sym /\ thesis = Me'.order.thesis
    BY <1>11, <1>12, <2>1
  <2>. QED  BY <1>1, <2>3, <2>4, <2>5
<1>17. SyncInv'
  <2>1. ViewInv' /\ Me'.left \in Seq(Ledger)' /\ (Me.phase = "after" => Me'.view.trades = trades')
    BY <1>1, <1>2, <1>8, <1>11, <1>12 DEF SyncInv, ViewInv
  <2>. QED  BY <1>2, <1>11, <1>12, <1>14, <1>15, <1>16, <2>1 DEF SyncInv
<1>18. ScannerInv' /\ CopyInv(Scanner)' /\ \A u \in Symbols : After(u)' <=> After(u)
  BY <1>1, <1>11, <1>12, <1>17 DEF ScannerInv, CopyInv, After, Me
<1>19. (held[s] # 0 \/ ~broker.served) /\ ~After(s) => Unfiled(s) = {}
  BY <1>5 DEF LedgerInv, SymbolInv
<1>. QED
  BY <1>1, <1>3, <1>4, <1>5, <1>10, <1>18, <1>19, NoneIsPast, SmallTypes, MemoryMoves

-----------------------------------------------------------------------------
(* Orders.                                                                 *)

\* A broker that reports its trades answers always and fills at once; behind the
\* API, it only closes.
LEMMA ReporterTraits ==
  ASSUME TypeInv, broker.reports
  PROVE  /\ ~broker.live /\ broker.fillsAtOnce
         /\ broker.served => broker.clips /\ ~broker.opens /\ ~broker.history
BY ReportersAssumption DEF TypeInv, BrokerInv

LEMMA SeqGrows ==
  ASSUME NEW S, NEW T, S \subseteq T, NEW s \in Seq(S)
  PROVE  s \in Seq(T)
<1>1. Len(s) \in Nat /\ DOMAIN s = 1..Len(s) /\ s \in [1..Len(s) -> S]
  BY LenProperties
<1>2. s = [i \in 1..Len(s) |-> s[i]]
  BY <1>1
<1>3. \A i \in 1..Len(s) : s[i] \in T
  BY <1>1
<1>. QED
  BY <1>1, <1>2, <1>3, IsASeq

\* A trade more, of the symbol of the order, or none.
Grows(sym) ==
    \/ trades' = trades /\ Unfiled(sym)' = Unfiled(sym)
    \/ /\ Len(trades') = Len(trades) + 1
       /\ Unfiled(sym)' = Unfiled(sym) \cup {Len(trades')}
       /\ Symbol(trades'[Len(trades')]) = sym
       /\ trades'[Len(trades')].at = Clock + broker.pace

LEMMA ExecutedBooks ==
  ASSUME TypeInv, LedgerInv, NEW sym \in Symbols, NEW does \in Int, Execute(sym, does),
         file # Torn, UNCHANGED <<broker, file>>, orders' \in {orders, orders + 1}
  PROVE  /\ Ledger \subseteq Ledger' /\ EntriesInv' /\ Grows(sym)
         /\ Reduces(sym, does) <=> trades' # trades
         /\ \A i \in DOMAIN trades : i \in DOMAIN trades' /\ trades'[i] = trades[i]
         /\ held'[sym] = held[sym] + does
         /\ \A u \in Symbols \ {sym} : held'[u] = held[u] /\ Unfiled(u)' = Unfiled(u)
         /\ \A x \in Thesis : Past(x) => Past(x)'
<1> DEFINE n == Len(trades)
           c == Closing(sym, does)
<1>1. n \in Nat /\ DOMAIN trades = 1..n /\ held \in [Symbols -> Int] /\ trades \in Seq(Trade)
      /\ orders \in Nat /\ Clock \in Nat /\ broker.pace \in Nat /\ broker.pace > 0
  BY LenProperties, ClockIsNat, Constants DEF TypeInv, BrokerInv, CountInv
<1>2. held'[sym] = held[sym] + does /\ \A u \in Symbols \ {sym} : held'[u] = held[u]
  BY <1>1 DEF Execute
<1>3. EntriesInv
  BY DEF LedgerInv
<1>4. \A e \in file.closed : e.thesis.id <= orders'
  <2>1. \A e \in file.closed : e.thesis.id \in Int
    BY DEF TypeInv, BooksInv, Books, Entry, Thesis
  <2>. QED  BY <1>1, <1>3, <2>1 DEF EntriesInv
<1>5. CASE ~Reduces(sym, does)
  <2>1. trades' = trades
    BY <1>5 DEF Execute
  <2>2. \A u : Unfiled(u)' = Unfiled(u)
    BY <2>1 DEF Unfiled
  <2>3. Ledger' = Ledger
    BY <2>1 DEF Ledger
  <2>4. EntriesInv'
    BY <1>3, <1>4, <2>1 DEF EntriesInv
  <2>5. \A x \in Thesis : Past(x) => Past(x)'
    <3>1. Clock' = Clock
      BY <2>1 DEF Clock
    <3>. QED  BY <1>1, <3>1 DEF Past, Thesis
  <2>. QED  BY <1>2, <1>5, <2>1, <2>2, <2>3, <2>4, <2>5 DEF Grows
<1>6. CASE Reduces(sym, does)
  <2>1. trades' = Append(trades, c)
    BY <1>6 DEF Execute
  <2>2. c.id = n + 1 /\ Symbol(c) = sym /\ c.at = Clock + broker.pace
    BY DEF Closing, Symbol
  <2> HIDE DEF c, n
  <2>3. /\ Len(trades') = n + 1 /\ DOMAIN trades' = 1..(n + 1)
        /\ trades'[n + 1] = c /\ \A i \in 1..n : trades'[i] = trades[i]
    BY <1>1, <2>1 DEF n
  <2>4. Ledger \subseteq Ledger'
    BY <1>1, <2>3 DEF Ledger
  <2>5. EntriesInv'
    <3>1. \A i \in 1..n : i \in 1..(n + 1)
      BY <1>1
    <3>2. \A i \in 1..(n + 1) : trades'[i].id = i
      <4>1. \A i \in 1..(n + 1) : i = n + 1 \/ i \in 1..n
        BY <1>1
      <4>. QED  BY <1>1, <1>3, <2>2, <2>3, <4>1 DEF EntriesInv
    <3>. QED  BY <1>1, <1>3, <1>4, <2>3, <3>1, <3>2 DEF EntriesInv
  <2>6. ~IsFiled(file, trades'[n + 1])
    <3>1. n + 1 \notin 1..n
      BY <1>1
    <3>. QED  BY <1>1, <1>3, <2>2, <2>3, <3>1 DEF IsFiled, EntriesInv
  <2>7. Unfiled(sym)' = Unfiled(sym) \cup {n + 1} /\ \A u \in Symbols \ {sym} : Unfiled(u)' = Unfiled(u)
    <3>1. \A u, i : i \in Unfiled(u)' <=>
             i \in 1..(n + 1) /\ Symbol(trades'[i]) = u /\ ~IsFiled(file, trades'[i])
      BY <2>3 DEF Unfiled, Symbol, IsFiled
    <3>2. \A i : i \in 1..(n + 1) <=> i = n + 1 \/ i \in 1..n
      BY <1>1
    <3>3. \A u, i : i \in Unfiled(u) <=> i \in 1..n /\ Symbol(trades[i]) = u /\ ~IsFiled(file, trades[i])
      BY <1>1 DEF Unfiled
    <3>4. ASSUME NEW u \in Symbols
          PROVE  Unfiled(u)' = IF u = sym THEN Unfiled(u) \cup {n + 1} ELSE Unfiled(u)
      <4>1. \A i \in 1..n : i \in Unfiled(u)' <=> i \in Unfiled(u)
        BY <2>3, <3>1, <3>2, <3>3
      <4>2. n + 1 \in Unfiled(u)' <=> u = sym
        BY <2>2, <2>3, <2>6, <3>1, <3>2
      <4>3. \A i : i \in Unfiled(u)' \/ i \in Unfiled(u) => i \in 1..n \/ i = n + 1
        BY <3>1, <3>2, <3>3
      <4>4. n + 1 \notin Unfiled(u)
        BY <1>1, <3>3
      <4>. QED  BY <4>1, <4>2, <4>3, <4>4
    <3>. QED  BY <3>4
  <2>8. \A x \in Thesis : Past(x) => Past(x)'
    <3>1. Clock' = Clock + broker.pace
      <4>1. trades' # <<>> /\ Last(trades') = c
        BY <1>1, <2>3 DEF Last
      <4>. QED  BY <2>2, <4>1 DEF Clock
    <3>. QED  BY <1>1, <3>1 DEF Past, Thesis
  <2>9. Len(trades') # Len(trades)
    BY <1>1, <2>3
  <2>10. Grows(sym)
    <3>1. Len(trades') = Len(trades) + 1 /\ Unfiled(sym)' = Unfiled(sym) \cup {Len(trades')}
      BY <2>3, <2>7 DEF n
    <3>2. Symbol(trades'[Len(trades')]) = sym /\ trades'[Len(trades')].at = Clock + broker.pace
      BY <2>2, <2>3
    <3>. QED  BY <3>1, <3>2 DEF Grows
  <2>11. \A i \in DOMAIN trades : i \in DOMAIN trades' /\ trades'[i] = trades[i]
    BY <1>1, <2>3
  <2>. QED  BY <1>2, <1>6, <2>4, <2>5, <2>7, <2>8, <2>9, <2>10, <2>11
<1>. QED
  BY <1>5, <1>6

LEMMA SignTimesAbs ==
  ASSUME NEW p \in Int, p # 0
  PROVE  /\ -Sign(p) * Abs(p) = -p /\ Abs(-p) = Abs(p) /\ Smaller(Abs(p), Abs(p)) = Abs(p)
         /\ Sign(p) \in {-1, 1} /\ Abs(-Sign(p)) = 1 /\ p * (-p) < 0 /\ p * (-Sign(p)) < 0
         /\ (Abs(p) > 1 => Smaller(Abs(p), 1) = 1 /\ p + (-Sign(p)) # 0)
<1>1. CASE p > 0
  <2>1. Sign(p) = 1 /\ Abs(p) = p /\ Abs(-p) = p
    BY <1>1 DEF Sign, Abs
  <2>2. p * (-p) < 0
    <3>1. \A a \in Nat, b \in Nat : a > 0 /\ b > 0 => a * (-b) < 0
      OBVIOUS
    <3>. QED  BY <1>1, <3>1
  <2>3. -Sign(p) * Abs(p) = -p /\ p * (-Sign(p)) = -p
    BY <2>1
  <2>4. Smaller(p, p) = p /\ (p > 1 => Smaller(p, 1) = 1 /\ p + (-Sign(p)) # 0)
    BY <2>1 DEF Smaller
  <2>5. Abs(-Sign(p)) = 1
    <3>1. PICK m \in Int : m = -Sign(p) /\ -m = 1
      BY <2>1
    <3>. QED  BY <3>1 DEF Abs
  <2>. QED  BY <1>1, <2>1, <2>2, <2>3, <2>4, <2>5
<1>2. CASE p < 0
  <2>1. Sign(p) = -1 /\ Abs(p) = -p /\ Abs(-p) = -p
    BY <1>2 DEF Sign, Abs
  <2>2. p * (-p) < 0
    <3>1. \A a \in Nat, b \in Nat : a > 0 /\ b > 0 => (-a) * b < 0
      OBVIOUS
    <3>2. -p \in Nat /\ -p > 0 /\ -(-p) = p
      BY <1>2
    <3>. QED  BY <3>1, <3>2
  <2>3. -Sign(p) * Abs(p) = -p /\ p * (-Sign(p)) = p
    BY <2>1
  <2>4. Smaller(-p, -p) = -p /\ (-p > 1 => Smaller(-p, 1) = 1 /\ p + (-Sign(p)) # 0)
    BY <1>2, <2>1 DEF Smaller
  <2>5. Abs(-Sign(p)) = 1
    <3>1. PICK m \in Int : m = -Sign(p) /\ m = 1
      BY <2>1
    <3>. QED  BY <3>1 DEF Abs
  <2>. QED  BY <1>2, <2>1, <2>2, <2>3, <2>4, <2>5
<1>. QED
  BY <1>1, <1>2

\* An order against a position is executed as a whole, ...
LEMMA AgainstPosition ==
  ASSUME TypeInv, NEW sym \in Symbols, NEW delta \in Int, NEW manual \in BOOLEAN, held[sym] # 0,
         delta = -held[sym] \/ (Abs(held[sym]) > 1 /\ delta = -Sign(held[sym]))
  PROVE  Allowed(sym, delta, manual) = delta /\ Reduces(sym, delta)
<1>1. PICK p \in Int : p = held[sym]
  BY DEF TypeInv, BrokerInv
<1>2. Reduces(sym, delta)
  BY <1>1, SignTimesAbs DEF Reduces
<1>3. -Sign(p) * Smaller(Abs(p), Abs(delta)) = delta
  <2>1. CASE delta = -p
    BY <1>1, <2>1, SignTimesAbs
  <2>2. CASE Abs(p) > 1 /\ delta = -Sign(p)
    <3>1. Smaller(Abs(p), Abs(delta)) = 1 /\ Sign(p) \in {-1, 1}
      BY <1>1, <2>2, SignTimesAbs
    <3>. QED  BY <2>2, <3>1
  <2>. QED  BY <1>1, <2>1, <2>2
<1>. QED
  BY <1>1, <1>2, <1>3 DEF Allowed

\* ... and one without a position as a whole or not at all.
LEMMA WithoutPosition ==
  ASSUME TypeInv, broker.reports, NEW sym \in Symbols, NEW delta \in Int, NEW manual \in BOOLEAN,
         held[sym] = 0
  PROVE  /\ ~Reduces(sym, Allowed(sym, delta, manual))
         /\ broker.served => Allowed(sym, delta, manual) = 0
<1>1. \A n \in Int : ~Reduces(sym, n)
  BY DEF Reduces
<1>2. Allowed(sym, delta, manual) \in Int
  BY AllowedIsInt DEF TypeInv
<1>3. broker.served => Allowed(sym, delta, manual) = 0
  BY <1>1, ReporterTraits DEF Allowed
<1>. QED
  BY <1>1, <1>2, <1>3

\* The scanner sends an order: every thesis is of a position that is held and has
\* nothing left to file.
LEMMA OrderKeeps ==
  ASSUME TypeInv, LedgerInv, file # Torn, broker.reports,
         NEW sym \in Symbols, NEW thesis \in Thesis, NEW delta \in Int, Order(sym, delta, thesis),
         NEW does \in Int, does = Allowed(sym, delta, FALSE),
         held[sym] = 0 => ~Reduces(sym, does) /\ (broker.served => does = 0),
         thesis # None, thesis.id <= orders + 1, thesis.since <= Clock + 1, ~Done(sym, thesis),
         held[sym] + does # 0 =>
           /\ thesis.filed <= thesis.out /\ file.active[sym].filed <= thesis.out
           /\ Reduces(sym, does) => /\ thesis.filed < thesis.out
                                    /\ file.active[sym].filed < thesis.out
  PROVE  LedgerInv'
<1> DEFINE r == [Me EXCEPT !.at = "sent", !.phase = "after",
                           !.order = [sym |-> sym, thesis |-> thesis, delta |-> delta]]
<1>1. /\ Me.at = "decide" /\ Me.jobs = <<>> /\ Me \in ThreadType /\ Me.copy = None
      /\ orders' = orders + 1 /\ Execute(sym, does) /\ Moves(Scanner, r)
      /\ UNCHANGED <<broker, working, stored, file, memory>>
  BY MeIsThread, ReporterTraits DEF Order, Submit, At, Me, UnchangedByThreads, Thread
<1>2. DecideInv
  BY <1>1 DEF LedgerInv, ScannerInv
<1>3. \A u \in Threads \ {Scanner} : thread[u] = Resting
  BY <1>1, AtWork, Constants DEF Me
<1>4. \A s \in Symbols : ~After(s) /\ SymbolInv(s)
  BY <1>1 DEF After, LedgerInv
<1>5. /\ Ledger \subseteq Ledger' /\ EntriesInv' /\ Grows(sym)
      /\ Reduces(sym, does) <=> trades' # trades
      /\ \A i \in DOMAIN trades : i \in DOMAIN trades' /\ trades'[i] = trades[i]
      /\ held'[sym] = held[sym] + does
      /\ \A u \in Symbols \ {sym} : held'[u] = held[u] /\ Unfiled(u)' = Unfiled(u)
      /\ \A x \in Thesis : Past(x) => Past(x)'
  BY <1>1, ExecutedBooks
<1>6. \A s, x : Done(s, x)' = Done(s, x)
  BY <1>1 DEF Done
<1>7. /\ r.at = "sent" /\ r.phase = "after" /\ r.jobs = <<>> /\ r.copy = None
      /\ r.order.sym = sym /\ r.order.thesis = thesis
  BY <1>1 DEF ThreadType
<1> HIDE DEF r
<1>8. Me' = r
  BY <1>1, Constants DEF Moves, Me, TypeInv
<1>9. \A s \in Symbols : file.active[s] \in Thesis /\ memory[s] \in Thesis
  BY DEF TypeInv, BooksInv, Books
<1>10. Unfiled(sym) = {} \/ (held[sym] = 0 /\ broker.served)
  BY <1>4 DEF SymbolInv
<1>11. Single(sym)'
  <2>1. CASE Unfiled(sym) = {}
    BY <1>5, <2>1 DEF Single, Grows
  <2>2. CASE held[sym] = 0
    <3>1. Unfiled(sym)' = Unfiled(sym)
      BY <1>1, <1>5, <2>2 DEF Unfiled
    <3>. QED  BY <1>4, <3>1 DEF Single, SymbolInv
  <2>. QED  BY <1>10, <2>1, <2>2
<1>12. ASSUME NEW s \in Symbols PROVE SymbolInv(s)'
  <2>1. \A x \in {file.active[s], memory[s]} : Past(x)' /\ Settled(s, x)'
    <3>1. \A x \in {file.active[s], memory[s]} : x # None => held[s] # 0
      BY <1>2 DEF DecideInv
    <3>2. \A x \in {file.active[s], memory[s]} : Past(x) /\ (x # None => ~Done(s, x))
      BY <1>4, <3>1 DEF SymbolInv, Settled
    <3>3. \A x \in {file.active[s], memory[s]} : Past(x)' /\ (x # None => ~Done(s, x)')
      BY <1>5, <1>6, <1>9, <3>2
    <3>. QED  BY <3>3 DEF Settled
  <2>2. Past(file.active[s])' /\ Settled(s, file.active[s])' /\ Past(memory[s])' /\ Settled(s, memory[s])'
    BY <1>1, <2>1
  <2>3. CASE s = sym
    <3>1. After(s)'
      BY <1>7, <1>8, <2>3 DEF After
    <3>. QED  BY <1>1, <1>4, <1>11, <2>2, <2>3, <3>1 DEF SymbolInv
  <2>4. CASE s # sym
    <3>1. Unfiled(s)' = Unfiled(s) /\ held'[s] = held[s]
      BY <1>5, <2>4
    <3>2. Single(s)' /\ Counts(s)' = Counts(s)
      BY <1>1, <1>4, <3>1 DEF Single, SymbolInv, Counts
    <3>. QED  BY <1>1, <1>4, <2>2, <3>1, <3>2 DEF SymbolInv
  <2>. QED  BY <2>3, <2>4
<1>13. OrderInv(sym, thesis)'
  <2>1. Past(thesis)'
    <3>1. Past(thesis)' <=> thesis.id <= orders' /\ thesis.since <= Clock' + 1
      BY DEF Past
    <3>2. Past([thesis EXCEPT !.id = 0]) => Past([thesis EXCEPT !.id = 0])'
      BY <1>5 DEF Thesis
    <3>3. thesis.since <= Clock' + 1
      <4>1. orders \in Nat
        BY DEF TypeInv, CountInv
      <4>. QED  BY <3>2, <4>1 DEF Past, Thesis
    <3>. QED  BY <1>1, <3>1, <3>3
  <2>2. ASSUME held'[sym] # 0, NEW i \in Unfiled(sym)'
        PROVE  /\ trades'[i].at >= thesis.since
               /\ thesis.filed < thesis.out /\ file.active[sym].filed < thesis.out
    <3>1. Unfiled(sym) = {}
      <4>1. held[sym] = 0 /\ broker.served => does = 0 /\ held[sym] + does = 0
        <5>1. SUFFICES ASSUME held[sym] = 0, broker.served PROVE does = 0 /\ held[sym] + does = 0
          OBVIOUS
        <5>2. does = 0
          BY <5>1
        <5>3. \A a, b \in Int : a = 0 /\ b = 0 => a + b = 0
          OBVIOUS
        <5>. QED  BY <5>1, <5>2, <5>3
      <4>. QED  BY <1>5, <1>10, <2>2, <4>1
    <3>2. trades' # trades /\ i = Len(trades')
      BY <1>5, <2>2, <3>1 DEF Grows
    <3>3. trades'[i].at = Clock + broker.pace
      BY <1>5, <3>2 DEF Grows
    <3>4. Clock \in Nat /\ broker.pace \in Nat /\ broker.pace > 0
      BY ClockIsNat, Constants DEF TypeInv, BrokerInv
    <3>5. thesis.since <= Clock + broker.pace
      BY <3>4 DEF Thesis
    <3>6. Reduces(sym, does) /\ held[sym] + does # 0
      BY <1>5, <2>2, <3>2
    <3>. QED  BY <3>3, <3>5, <3>6
  <2>. QED  BY <1>1, <1>5, <1>6, <1>7, <1>8, <2>1, <2>2 DEF OrderInv
<1>14. ScannerInv' /\ CopyInv(Scanner)'
  <2>1. OrderInv(Me.order.sym, Me.order.thesis)'
    BY <1>7, <1>8, <1>13
  <2>. QED  BY <1>7, <1>8, <2>1 DEF ScannerInv, CopyInv, Me
<1>15. StoreInv'
  <2>1. Behind(Scanner)'
    BY <1>7, <1>8 DEF Behind, Me
  <2>2. stored.trades \in Seq(Ledger')
    BY <1>5, SeqGrows DEF LedgerInv, StoreInv
  <2>. QED  BY <1>1, <2>1, <2>2, Constants DEF StoreInv
<1>. QED
  BY <1>1, <1>3, <1>5, <1>12, <1>14, <1>15, ThreadMoves, Constants, LedgerAssumption

LEMMA OrdersKeep ==
  ASSUME TypeInv, LedgerInv, file # Torn, broker.reports, NEW sym \in Symbols,
         Signal(sym) \/ Exit(sym) \/ ScaleOut(sym)
  PROVE  LedgerInv'
<1>1. Me.at = "decide" /\ DecideInv
  BY DEF Signal, Exit, ScaleOut, Order, At, Me, LedgerInv, ScannerInv
<1>2. PICK p \in Int : p = held[sym]
  BY DEF TypeInv, BrokerInv
<1>3. Me.view.pos[sym] = p /\ ~After(sym) /\ SymbolInv(sym)
  BY <1>1, <1>2 DEF DecideInv, ViewInv, After, LedgerInv
<1>4. orders \in Nat /\ Clock \in Nat /\ Lot \in Int
  BY ClockIsNat, Constants DEF TypeInv, CountInv
<1>5. NewThesis \in Thesis /\ NewThesis # None /\ NewThesis.id = orders + 1
      /\ NewThesis.since = Clock + 1 /\ NewThesis.out = 0 /\ NewThesis.filed = 0
  BY <1>4 DEF NewThesis, Thesis, None
<1>6. ~Done(sym, NewThesis)
  <2>1. \A e \in file.closed : e.thesis.id \in Int /\ e.thesis.id <= orders
    BY DEF TypeInv, BooksInv, Books, Entry, Thesis, LedgerInv, EntriesInv
  <2>. QED  BY <1>4, <1>5, <2>1 DEF Done
<1>7. PICK k \in Thesis : /\ k = Selected(sym) /\ k \in {file.active[sym], memory[sym]}
                          /\ memory[sym] # None => k = memory[sym]
                          /\ Past(k) /\ Settled(sym, k)
  BY SelectedIsKept
<1>8. p + (-p) = 0 /\ -p \in Int /\ -Sign(p) \in Int
  BY DEF Sign
<1>9. CASE Signal(sym)
  <2>1. CASE p = 0
    <3>1. Order(sym, Lot, NewThesis)
      BY <1>3, <1>9, <2>1 DEF Signal
    <3>2. PICK does \in Int : does = Allowed(sym, Lot, FALSE)
      BY <1>4, AllowedIsInt DEF TypeInv
    <3>3. ~Reduces(sym, does) /\ (broker.served => does = 0)
      BY <1>2, <1>4, <2>1, <3>2, WithoutPosition
    <3>4. file.active[sym].filed = 0
      <4>1. file.active[sym] = None
        BY <1>1, <1>2, <2>1 DEF DecideInv
      <4>. QED  BY <4>1 DEF None
    <3>5. NewThesis.id <= orders + 1 /\ NewThesis.since <= Clock + 1
          /\ NewThesis.filed <= NewThesis.out /\ file.active[sym].filed <= NewThesis.out
      BY <1>4, <1>5, <3>4
    <3>. QED  BY <1>4, <1>5, <1>6, <3>1, <3>2, <3>3, <3>5, OrderKeeps
  <2>2. CASE p # 0
    <3>1. PICK d \in Int : d = -p
      BY <1>8
    <3>2. Order(sym, d, NewThesis)
      BY <1>3, <1>9, <2>2, <3>1 DEF Signal
    <3>3. Allowed(sym, d, FALSE) = d
      BY <1>2, <2>2, <3>1, AgainstPosition
    <3>4. NewThesis.id <= orders + 1 /\ NewThesis.since <= Clock + 1
      BY <1>4, <1>5
    <3>5. held[sym] # 0 /\ held[sym] + d = 0
      BY <1>2, <1>8, <2>2, <3>1
    <3>. QED  BY <1>5, <1>6, <3>2, <3>3, <3>4, <3>5, OrderKeeps
  <2>. QED  BY <2>1, <2>2
<1>10. CASE Exit(sym)
  <2>1. PICK d \in Int : d = -p
    BY <1>8
  <2>2. p # 0 /\ k # None /\ Order(sym, d, k)
    BY <1>3, <1>7, <1>10, <2>1 DEF Exit
  <2>3. Allowed(sym, d, FALSE) = d
    BY <1>2, <2>1, <2>2, AgainstPosition
  <2>4. ~Done(sym, k) /\ k.id <= orders + 1 /\ k.since <= Clock + 1
    BY <1>2, <1>4, <1>7, <2>2 DEF Settled, Past, Thesis
  <2>5. held[sym] # 0 /\ held[sym] + d = 0
    BY <1>2, <1>8, <2>1, <2>2
  <2>. QED  BY <2>2, <2>3, <2>4, <2>5, OrderKeeps
<1>11. CASE ScaleOut(sym)
  <2> DEFINE x == [k EXCEPT !.out = k.out + 1]
  <2>1. PICK d \in Int : d = -Sign(p)
    BY <1>8
  <2>2. Abs(p) > 1 /\ k # None /\ Order(sym, d, x)
    BY <1>3, <1>7, <1>11, <2>1 DEF ScaleOut
  <2>3. p # 0
    BY <2>2 DEF Abs
  <2>4. Allowed(sym, d, FALSE) = d
    BY <1>2, <2>1, <2>2, <2>3, AgainstPosition
  <2>5. x \in Thesis /\ x.id = k.id /\ x.since = k.since /\ x.filed = k.filed /\ x.out = k.out + 1
        /\ x # None
    BY DEF Thesis, None
  <2> HIDE DEF x
  <2>6. ~Done(sym, x) /\ x.id <= orders + 1 /\ x.since <= Clock + 1
    BY <1>2, <1>4, <1>7, <2>2, <2>3, <2>5 DEF Settled, Past, Thesis, Done
  <2>7. k.filed <= k.out /\ file.active[sym].filed <= k.out
    <3>1. Counts(sym)
      BY <1>2, <1>3, <2>3 DEF SymbolInv
    <3>. QED  BY <1>7, <2>2, <3>1 DEF Counts
  <2>8. x.filed < x.out /\ file.active[sym].filed < x.out /\ x.filed <= x.out /\ file.active[sym].filed <= x.out
    <3>1. file.active[sym] \in Thesis
      BY DEF TypeInv, BooksInv, Books
    <3>. QED  BY <2>5, <2>7, <3>1 DEF Thesis
  <2>9. held[sym] # 0
    BY <1>2, <2>3
  <2>. QED  BY <2>2, <2>4, <2>5, <2>6, <2>8, <2>9, OrderKeeps
<1>. QED
  BY <1>9, <1>10, <1>11

-----------------------------------------------------------------------------
(* A close by hand.                                                        *)

LEMMA ClosePositionKeeps ==
  ASSUME TypeInv, LedgerInv, file # Torn, broker.reports,
         ~overlapped', ~orphaned', NEW t, NEW sym \in Symbols, ClosePosition(t, sym)
  PROVE  LedgerInv'
<1>1. /\ t \in Requesters /\ t \in Threads /\ broker.served
      /\ Submit(sym, -stored.pos[sym], TRUE) /\ stored.pos[sym] # 0 /\ ~Orphans(sym)
      /\ UNCHANGED <<broker, stored, file, memory, orders>>
      /\ \A u \in Threads : thread[u] = Resting
  BY DEF ClosePosition, Request, Begins, Alongside, Busy, Threads
<1>2. PICK d \in Int : d = -held[sym] /\ held[sym] # 0 /\ d = -stored.pos[sym]
  <2>1. stored.pos[sym] = held[sym] /\ held[sym] \in Int
    BY <1>1, StoredIsCurrent DEF TypeInv, BrokerInv
  <2>. QED  BY <1>1, <2>1
<1>3. Allowed(sym, d, TRUE) = d /\ Reduces(sym, d)
  BY <1>2, AgainstPosition
<1>4. Execute(sym, d) /\ working' = working
  BY <1>1, <1>2, <1>3, ReporterTraits DEF Submit
<1>5. /\ Ledger \subseteq Ledger' /\ EntriesInv' /\ Grows(sym) /\ trades' # trades
      /\ \A i \in DOMAIN trades : i \in DOMAIN trades' /\ trades'[i] = trades[i]
      /\ held'[sym] = 0
      /\ \A u \in Symbols \ {sym} : held'[u] = held[u] /\ Unfiled(u)' = Unfiled(u)
      /\ \A x \in Thesis : Past(x) => Past(x)'
  <2>1. held[sym] + d = 0
    <3>1. held[sym] \in Int
      BY DEF TypeInv, BrokerInv
    <3>. QED  BY <1>2, <3>1
  <2>. QED  BY <1>1, <1>3, <1>4, <2>1, ExecutedBooks
<1>6. \A s, x : Done(s, x)' = Done(s, x)
  BY <1>1 DEF Done
<1>7. \A s \in Symbols : ~After(s) /\ SymbolInv(s)
  BY <1>1, Constants DEF After, LedgerInv, Me, Resting
<1>8. Unfiled(sym) = {} /\ ~Done(sym, file.active[sym]) /\ file.active[sym] # None
      /\ (memory[sym] # None => ~Done(sym, memory[sym]))
  <2>1. file.active[sym] # None
    BY <1>1, <1>5 DEF Orphans
  <2>. QED  BY <1>2, <1>7, <2>1 DEF SymbolInv, Settled
<1>9. /\ Unfiled(sym)' = {Len(trades')} /\ Symbol(trades'[Len(trades')]) = sym
      /\ Len(trades') \in DOMAIN trades'
  <2>1. /\ Unfiled(sym)' = {Len(trades')} /\ Symbol(trades'[Len(trades')]) = sym
    BY <1>5, <1>8 DEF Grows
  <2>2. \A i \in Unfiled(sym)' : i \in DOMAIN trades'
    BY DEF Unfiled
  <2>. QED  BY <2>1, <2>2
<1>10. \A s \in Symbols : file.active[s] \in Thesis /\ memory[s] \in Thesis
  BY DEF TypeInv, BooksInv, Books
<1> DEFINE r == [Resting EXCEPT !.at = "closed",
                     !.order = [sym |-> sym, thesis |-> None, delta |-> stored.pos[sym]]]
<1>11. Moves(t, r)
  BY <1>1, <1>2, <1>5, ReporterTraits DEF ClosePosition
<1>12. r.at = "closed" /\ r.jobs = <<>> /\ r.copy = None /\ r.order.sym = sym
  BY DEF Resting
<1> HIDE DEF r
<1>13. thread'[t] = r
  BY <1>1, <1>11 DEF Moves, TypeInv
<1>14. thread'[Scanner] = Resting
  BY <1>1, <1>11, Constants, LedgerAssumption DEF Moves, TypeInv
<1>15. ASSUME NEW s \in Symbols PROVE SymbolInv(s)'
  <2>1. ~After(s)' /\ Past(file.active[s])' /\ Past(memory[s])'
    <3>1. Past(file.active[s]) /\ Past(memory[s])
      BY <1>7 DEF SymbolInv
    <3>2. \A x \in {file.active[s], memory[s]} : Past(x)'
      BY <1>5, <1>10, <3>1
    <3>. QED  BY <1>1, <1>14, <3>2, RestsThen, Constants
  <2>2. CASE s = sym
    <3>1. \A x \in {file.active[s], memory[s]} : Settled(s, x)'
      BY <1>6, <1>8, <2>2 DEF Settled
    <3>2. Settled(s, file.active[s])' /\ Settled(s, memory[s])' /\ Single(s)'
      BY <1>1, <1>9, <2>2, <3>1 DEF Single
    <3>. QED  BY <1>1, <1>4, <1>5, <1>7, <2>1, <2>2, <3>2 DEF SymbolInv
  <2>3. CASE s # sym
    <3>1. Unfiled(s)' = Unfiled(s) /\ held'[s] = held[s]
      BY <1>5, <2>3
    <3>2. Single(s)' /\ Counts(s)' = Counts(s)
      BY <1>1, <1>7, <3>1 DEF Single, SymbolInv, Counts
    <3>3. \A x : Settled(s, x)' = Settled(s, x)
      BY <1>6, <3>1 DEF Settled
    <3>4. Settled(s, file.active[s])' /\ Settled(s, memory[s])'
      BY <1>1, <1>7, <3>3 DEF SymbolInv
    <3>. QED  BY <1>1, <1>4, <1>7, <2>1, <3>1, <3>2, <3>4 DEF SymbolInv
  <2>. QED  BY <2>2, <2>3
<1>16. RequestInv(t)' /\ CopyInv(t)'
  <2>1. ClosedInv(sym, Len(trades))'
    BY <1>1, <1>5, <1>6, <1>8, <1>9 DEF ClosedInv
  <2>2. ClosedInv(thread[t].order.sym, Len(trades))'
    BY <1>12, <1>13, <2>1
  <2>. QED  BY <1>1, <1>12, <1>13, <2>2 DEF RequestInv, CopyInv
<1>17. StoreInv'
  <2>1. Behind(t)'
    BY <1>12, <1>13 DEF Behind
  <2>2. stored.trades \in Seq(Ledger')
    BY <1>5, SeqGrows DEF LedgerInv, StoreInv
  <2>. QED  BY <1>1, <2>1, <2>2 DEF StoreInv
<1>18. \A u \in Threads \ {t} : thread[u] = Resting
  BY <1>1
<1>. QED
  BY <1>1, <1>5, <1>11, <1>15, <1>16, <1>17, <1>18, ThreadMoves, LedgerAssumption

LEMMA RecordCloseKeeps ==
  ASSUME TypeInv, LedgerInv, broker.reports, NEW t \in Requesters, RecordClose(t)
  PROVE  LedgerInv'
<1>1. /\ t \in Threads /\ t # Scanner /\ thread[t].at = "closed" /\ thread[t].jobs = <<>>
      /\ thread[t] \in Thread /\ thread[t] \in ThreadType /\ thread[t].copy = None
      /\ thread[t].order \in Sent
      /\ UNCHANGED <<broker, held, working, trades, stored, file, memory, orders>>
  BY LedgerAssumption DEF RecordClose, At, UnchangedByThreads, TypeInv, Thread, Threads
<1>2. PICK s \in Symbols : s = thread[t].order.sym
  BY <1>1 DEF Sent
<1>3. ClosedInv(s, Len(trades)) /\ broker.served
  BY <1>1, <1>2 DEF LedgerInv, RequestInv, Busy, Resting
<1>4. Reconciled = [pos |-> held, trades |-> trades, fresh |-> TRUE]
  BY DEF Reconciled
<1>5. Len(trades) \in Ours(s)
  BY <1>3, <1>4 DEF Ours, ClosedInv
<1>6. LastOf(Ours(s)) = Len(trades)
  <2>1. Ours(s) \in SUBSET DOMAIN trades /\ trades \in Seq(Trade)
    BY <1>4 DEF Ours, TypeInv, BrokerInv
  <2>2. DOMAIN trades = 1..Len(trades) /\ Len(trades) \in Nat
    BY <2>1, LenProperties
  <2>3. LastOf(Ours(s)) \in Ours(s) /\ \A j \in Ours(s) : j <= LastOf(Ours(s))
    BY <1>5, <2>1, LastIsIn
  <2>4. PICK m : m = LastOf(Ours(s))
    OBVIOUS
  <2>. QED  BY <1>5, <2>1, <2>2, <2>3, <2>4
<1>7. PICK trade \in Ledger : trade = trades[Len(trades)] /\ trade.id = Len(trades)
  BY <1>3 DEF ClosedInv, Ledger, LedgerInv, EntriesInv
<1> DEFINE r == [thread[t] EXCEPT !.at = "file", !.left = <<trade>>,
                                  !.jobs = <<ToStore(Reconciled)>>]
<1>8. Moves(t, r)
  BY <1>2, <1>4, <1>5, <1>6, <1>7 DEF RecordClose
<1>9. /\ r.at = "file" /\ r.left[1] = trade /\ r.copy = None /\ r.order = thread[t].order
      /\ r.jobs = <<ToStore(Reconciled)>>
  BY <1>1 DEF ThreadType
<1> HIDE DEF r
<1>10. thread'[t] = r
  BY <1>1, <1>8 DEF Moves, TypeInv
<1>11. ClosedInv(s, trade.id)' /\ Ledger' = Ledger
  <2>1. Unfiled(s)' = Unfiled(s) /\ \A x : Done(s, x)' = Done(s, x)
    BY <1>1 DEF Unfiled, Done
  <2>2. Ledger' = Ledger
    BY <1>1 DEF Ledger
  <2>. QED  BY <1>1, <1>3, <1>7, <2>1, <2>2 DEF ClosedInv
<1>12. RequestInv(t)'
  <2>1. ClosedInv(thread[t].order.sym, thread[t].left[1].id)' /\ thread'[t].left[1] \in Ledger'
    BY <1>2, <1>7, <1>9, <1>10, <1>11
  <2>2. /\ Len(thread'[t].jobs) = 1 /\ thread'[t].jobs[1].do = "store"
        /\ thread'[t].jobs[1].view = Reconciled
    BY <1>9, <1>10 DEF ToStore
  <2>3. thread'[t].jobs[1].view.pos = held' /\ thread'[t].jobs[1].view.trades \in Seq(Ledger')
    BY <1>1, <1>4, <1>11, <2>2, TradesAreLedger DEF TypeInv
  <2>. QED  BY <1>1, <1>3, <1>9, <1>10, <2>1, <2>2, <2>3 DEF RequestInv
<1>13. CopyInv(t)' /\ Behind(t)'
  BY <1>9, <1>10 DEF CopyInv, Behind, ToStore
<1>14. \A u \in Threads \ {t} : thread[u] = Resting
  BY <1>1, AtWork
<1>. QED
  BY <1>1, <1>8, <1>12, <1>13, <1>14, HandMoves

LEMMA FileCloseKeeps ==
  ASSUME TypeInv, LedgerInv, file # Torn, NEW t \in Requesters, FileClose(t)
  PROVE  LedgerInv'
<1>1. /\ t \in Threads /\ t # Scanner /\ thread[t].at = "file" /\ thread[t].jobs = <<>>
      /\ thread[t] \in Thread /\ thread[t].copy = None /\ thread[t].order \in Sent
      /\ UNCHANGED <<broker, held, working, trades, stored, file, memory, orders>>
  BY LedgerAssumption DEF FileClose, At, UnchangedByThreads, TypeInv, Thread, Threads
<1>2. PICK s \in Symbols : s = thread[t].order.sym
  BY <1>1 DEF Sent
<1>3. PICK trade \in Ledger : trade = thread[t].left[1] /\ ClosedInv(s, trade.id)
  BY <1>1, <1>2 DEF LedgerInv, RequestInv
<1>4. broker.served /\ ~Behind(t)
  BY <1>1 DEF LedgerInv, RequestInv, Busy, Resting, Behind
<1>5. \A u \in Threads \ {t} : thread[u] = Resting
  BY <1>1, AtWork
<1>6. CASE file.active[s] = None
  <2>1. Moves(t, Resting)
    BY <1>2, <1>6 DEF FileClose
  <2>2. thread'[t] = Resting
    BY <1>1, <2>1 DEF Moves, TypeInv
  <2>. QED  BY <1>1, <1>4, <1>5, <2>1, <2>2, RestsThen, HandMoves
<1>7. CASE file.active[s] # None
  <2>1. PICK k : k = file.active[s]
    OBVIOUS
  <2>2. PICK job : job = ToArchive(s, trade, k, "manual-closed")
    OBVIOUS
  <2>3. /\ job.do = "archive" /\ job.sym = s /\ job.trade = trade /\ job.thesis = k
        /\ job.state = "manual-closed"
    BY <2>2 DEF ToArchive
  <2> DEFINE r == [Resting EXCEPT !.jobs = <<job, ToRemove(s)>>]
  <2>4. Moves(t, r)
    BY <1>2, <1>3, <1>7, <2>1, <2>2 DEF FileClose
  <2>5. r.at = "rest" /\ r.copy = None /\ r.jobs = <<job, ToRemove(s)>>
    BY DEF Resting
  <2> HIDE DEF r
  <2>6. thread'[t] = r
    BY <1>1, <2>4 DEF Moves, TypeInv
  <2>7. Files(<<job, ToRemove(s)>>)'
    <3>1. Unfiled(s)' = Unfiled(s) /\ Ledger' = Ledger /\ \A x : Done(s, x)' = Done(s, x)
      BY <1>1 DEF Unfiled, Done, Ledger
    <3>2. Past(k)
      BY <2>1 DEF LedgerInv, SymbolInv
    <3>3. ArchiveInv(job)'
      BY <1>1, <1>3, <2>1, <2>3, <3>1, <3>2 DEF ArchiveInv, ClosedInv, Past
    <3>. QED  BY <2>3, <3>3 DEF Files
  <2>8. RequestInv(t)' /\ CopyInv(t)'
    <3>1. Files(thread[t].jobs)'
      BY <2>5, <2>6, <2>7
    <3>. QED  BY <1>1, <1>4, <2>5, <2>6, <3>1 DEF RequestInv, CopyInv
  <2>. QED  BY <1>1, <1>4, <1>5, <2>4, <2>8, HandMoves
<1>. QED
  BY <1>6, <1>7

LEMMA ChangeStateKeeps ==
  ASSUME TypeInv, LedgerInv, ~overlapped', NEW t, ChangeState(t)
  PROVE  LedgerInv'
<1> DEFINE r == [Resting EXCEPT !.jobs = <<ToChange>>]
<1>1. /\ t \in Requesters /\ t \in Threads /\ t # Scanner /\ broker.served /\ Moves(t, r)
      /\ UNCHANGED <<broker, held, working, trades, stored, file, memory, orders>>
      /\ \A u \in Threads : thread[u] = Resting
  BY LedgerAssumption DEF ChangeState, Request, Begins, Alongside, Busy, Threads
<1>2. r.at = "rest" /\ r.copy = None /\ r.jobs = <<ToChange>>
  BY DEF Resting
<1> HIDE DEF r
<1>3. thread'[t] = r
  BY <1>1 DEF Moves, TypeInv
<1>4. RequestInv(t)' /\ CopyInv(t)'
  BY <1>1, <1>2, <1>3 DEF RequestInv, CopyInv
<1>5. ~Behind(t)
  BY <1>1 DEF Behind, Resting
<1>. QED
  BY <1>1, <1>4, <1>5, HandMoves

-----------------------------------------------------------------------------
(* What is in hand stays as it is.                                         *)

LEMMA FilesStay ==
  ASSUME UNCHANGED <<broker, held, trades, file, memory, orders>>
  PROVE  /\ Ledger' = Ledger
         /\ \A s : Unfiled(s)' = Unfiled(s)
         /\ \A s, x : Done(s, x)' = Done(s, x)
         /\ \A j : ArchiveInv(j)' = ArchiveInv(j) /\ UpsertInv(j)' = UpsertInv(j) /\ RemoveInv(j)' = RemoveInv(j)
         /\ \A js : Files(js)' = Files(js) /\ Removes(js)' = Removes(js)
         /\ \A x : Past(x)' = Past(x)
         /\ \A s, i : ClosedInv(s, i)' = ClosedInv(s, i)
<1>1. Ledger' = Ledger /\ \A s : Unfiled(s)' = Unfiled(s) /\ \A x : Done(s, x)' = Done(s, x)
  BY DEF Ledger, Unfiled, Done
<1>2. \A j : ArchiveInv(j)' = ArchiveInv(j) /\ UpsertInv(j)' = UpsertInv(j) /\ RemoveInv(j)' = RemoveInv(j)
  BY <1>1 DEF ArchiveInv, UpsertInv, RemoveInv
<1>3. \A js : Files(js)' = Files(js) /\ Removes(js)' = Removes(js)
  BY <1>2 DEF Files, Removes
<1>4. \A x : Past(x)' = Past(x)
  BY DEF Past, Clock
<1>5. \A s, i : ClosedInv(s, i)' = ClosedInv(s, i)
  BY <1>1 DEF ClosedInv
<1>. QED
  BY <1>1, <1>2, <1>3, <1>4, <1>5

LEMMA ScannerStays ==
  ASSUME TypeInv, ScannerInv, UNCHANGED <<broker, held, trades, file, memory, orders>>,
         Me'.at = Me.at, Me'.jobs = Me.jobs, Me'.view = Me.view, Me'.left = Me.left,
         Me'.active = Me.active, Me'.order = Me.order, Me'.phase = Me.phase
  PROVE  ScannerInv' /\ \A s \in Symbols : After(s)' = After(s)
<1>1. \A s, x : OrderInv(s, x)' = OrderInv(s, x) /\ WrittenInv(s, x)' = WrittenInv(s, x)
  BY FilesStay DEF OrderInv, WrittenInv
<1>2. ViewInv' = ViewInv
  BY FilesStay DEF ViewInv
<1>3. PICK o, th : o = Me.order.sym /\ th = Me.order.thesis /\ o = Me'.order.sym /\ th = Me'.order.thesis
  OBVIOUS
<1>4. /\ OrderInv(Me.order.sym, Me.order.thesis)' = OrderInv(Me.order.sym, Me.order.thesis)
      /\ WrittenInv(Me.order.sym, Me.order.thesis)' = WrittenInv(Me.order.sym, Me.order.thesis)
  <2>1. OrderInv(Me.order.sym, Me.order.thesis)' = OrderInv(o, th)'
    BY <1>3
  <2>2. WrittenInv(Me.order.sym, Me.order.thesis)' = WrittenInv(o, th)'
    BY <1>3
  <2>. QED  BY <1>1, <1>3, <2>1, <2>2
<1>5. CountJobs(Me.order.sym, Me.order.thesis)' = CountJobs(Me.order.sym, Me.order.thesis)
  BY DEF CountJobs
<1>6. ListInv' = ListInv
  BY <1>2, <1>4, <1>5 DEF ListInv
<1>7. ScalesOut' = ScalesOut /\ Drops' = Drops
  <2>1. PICK js, j : js = Me.jobs /\ js = Me'.jobs /\ j = js[Len(js)]
    OBVIOUS
  <2>2. ScalesOut' = ScalesOut
    <3>1. UpsertInv(j)' = UpsertInv(j) /\ ArchiveInv(js[1])' = ArchiveInv(js[1])
      BY FilesStay
    <3>2. Unfiled(j.sym)' = Unfiled(j.sym)
      BY FilesStay
    <3>. QED  BY <2>1, <3>1, <3>2 DEF ScalesOut
  <2>3. Drops' = Drops
    <3>1. Files(js)' = Files(js) /\ Removes(js)' = Removes(js)
      BY FilesStay
    <3>. QED  BY <2>1, <3>1 DEF Drops
  <2>. QED  BY <2>2, <2>3
<1>8. SyncInv' = SyncInv
  <2>1. ToCome(Me.order.sym)' = ToCome(Me.order.sym)
    <3>1. ToCome(o)' = ToCome(o)
      BY FilesStay DEF ToCome
    <3>. QED  BY <1>3, <3>1
  <2>2. \A s : ActiveInv(s)' = ActiveInv(s)
    BY DEF ActiveInv
  <2>. QED  BY <1>2, <1>4, <1>7, <2>1, <2>2, FilesStay DEF SyncInv
<1>9. DecideInv' = DecideInv
  BY <1>2 DEF DecideInv
<1>10. UpsertInv(Me.jobs[1])' = UpsertInv(Me.jobs[1])
  <2>1. PICK j : j = Me.jobs[1] /\ j = Me'.jobs[1]
    OBVIOUS
  <2>. QED  BY <2>1, FilesStay
<1>. QED
  BY <1>4, <1>6, <1>8, <1>9, <1>10 DEF ScannerInv, After

LEMMA RequestStays ==
  ASSUME NEW t \in Threads, RequestInv(t), UNCHANGED <<broker, held, trades, file, memory, orders>>,
         Busy(t), thread'[t].at = thread[t].at, thread'[t].jobs = thread[t].jobs,
         thread'[t].order = thread[t].order, thread'[t].left = thread[t].left
  PROVE  RequestInv(t)'
<1>1. PICK js, s, i : js = thread[t].jobs /\ s = thread[t].order.sym /\ i = thread[t].left[1].id
  OBVIOUS
<1>2. js = thread'[t].jobs /\ s = thread'[t].order.sym /\ i = thread'[t].left[1].id
  BY <1>1
<1>3. /\ Files(thread[t].jobs)' = Files(thread[t].jobs)
      /\ Removes(thread[t].jobs)' = Removes(thread[t].jobs)
  BY <1>1, <1>2, FilesStay
<1>4. /\ ClosedInv(thread[t].order.sym, thread[t].left[1].id)' = ClosedInv(thread[t].order.sym, thread[t].left[1].id)
      /\ ClosedInv(thread[t].order.sym, Len(trades))' = ClosedInv(thread[t].order.sym, Len(trades))
  <2>1. ClosedInv(s, i)' = ClosedInv(s, i)
    BY FilesStay
  <2>2. PICK n : n = Len(trades) /\ n = Len(trades')
    OBVIOUS
  <2>3. ClosedInv(s, n)' = ClosedInv(s, n)
    BY FilesStay
  <2>. QED  BY <1>1, <1>2, <2>1, <2>2, <2>3
<1>. QED
  BY <1>3, <1>4, FilesStay DEF RequestInv

LEMMA AgeKeeps ==
  ASSUME TypeInv, LedgerInv, Age
  PROVE  LedgerInv'
<1>1. /\ UNCHANGED <<broker, held, working, trades, file, memory, thread, orders>>
      /\ stored' = [stored EXCEPT !.fresh = FALSE]
  BY DEF Age
<1>2. AloneInv' /\ Me' = Me
  BY <1>1 DEF LedgerInv, AloneInv, Busy, Me
<1>3. ScannerInv' /\ \A s \in Symbols : After(s)' = After(s)
  BY <1>1, <1>2, ScannerStays DEF LedgerInv
<1>4. EntriesInv' /\ \A s \in Symbols : SymbolInv(s)'
  BY <1>1, <1>3, BooksStay DEF LedgerInv
<1>5. StoreInv'
  <2>1. Behind(Scanner)' = Behind(Scanner)
    BY <1>1 DEF Behind
  <2>. QED  BY <1>1, <2>1, StoreStays, Constants DEF LedgerInv
<1>6. ASSUME NEW t \in Threads PROVE CopyInv(t)'
  <2>1. CopyInv(t) /\ Ledger' = Ledger
    BY <1>1, FilesStay DEF LedgerInv
  <2>. QED  BY <1>1, <2>1 DEF CopyInv
<1>7. ASSUME NEW t \in Requesters PROVE RequestInv(t)'
  <2>1. t \in Threads /\ RequestInv(t)
    BY DEF LedgerInv, Threads
  <2>2. CASE Busy(t)
    BY <1>1, <2>1, <2>2, RequestStays
  <2>3. CASE ~Busy(t)
    BY <1>1, <2>1, <2>3, RestsThen DEF Busy
  <2>. QED  BY <2>2, <2>3
<1>. QED
  BY <1>2, <1>3, <1>4, <1>5, <1>6, <1>7 DEF LedgerInv

LEMMA RecordKeeps ==
  ASSUME TypeInv, LedgerInv, broker.reports, Record
  PROVE  LedgerInv'
<1>1. /\ Me.at = "sent" /\ Me.jobs = <<>> /\ Me \in ThreadType /\ Me.copy = None /\ Me.order \in Sent
      /\ UNCHANGED <<broker, held, working, trades, stored, file, memory, orders>>
  BY MeIsThread DEF Record, At, Me, UnchangedByThreads, Thread
<1>2. PICK s \in Symbols, x \in Thesis : s = Me.order.sym /\ x = Me.order.thesis
  BY <1>1 DEF Sent
<1>3. Me.phase = "after" /\ OrderInv(s, x)
  BY <1>1, <1>2 DEF LedgerInv, ScannerInv
<1>4. PICK view : view = Reconciled
  OBVIOUS
<1>5. view.pos = held /\ view.trades = trades
  BY <1>4 DEF Reconciled
<1> DEFINE r == [Me EXCEPT !.at = "list", !.view = view,
                           !.jobs = <<ToStore(view), ToTouch(s), ToCount(s, x)>>]
<1>6. Moves(Scanner, r)
  BY <1>2, <1>4 DEF Record
<1>7. /\ r.at = "list" /\ r.phase = "after" /\ r.view = view /\ r.copy = None /\ r.order = Me.order
      /\ r.jobs = <<ToStore(view), ToTouch(s), ToCount(s, x)>>
  BY <1>1, <1>3 DEF ThreadType
<1> HIDE DEF r
<1>8. Me' = r
  BY <1>6, Constants DEF Moves, Me, TypeInv
<1>9. ListInv'
  <2>1. OrderInv(s, x)'
    BY <1>1, <1>3, <1>7, <1>8, FilesStay DEF OrderInv
  <2>2. OrderInv(Me.order.sym, Me.order.thesis)'
    BY <1>2, <1>7, <1>8, <2>1
  <2>3. ViewInv' /\ Me'.view.trades = trades'
    BY <1>1, <1>5, <1>7, <1>8, FilesStay, TradesAreLedger DEF ViewInv, TypeInv
  <2>4. Me'.jobs \in CountJobs(Me.order.sym, Me.order.thesis)'
    BY <1>2, <1>7, <1>8 DEF CountJobs
  <2>. QED  BY <1>7, <1>8, <2>2, <2>3, <2>4 DEF ListInv
<1>10. ScannerInv' /\ CopyInv(Scanner)' /\ Behind(Scanner)' /\ \A u \in Symbols : After(u) => After(u)'
  <2>1. Head(Me'.jobs).do = "store" /\ Me'.jobs # <<>>
    BY <1>7, <1>8 DEF ToStore
  <2>. QED  BY <1>7, <1>8, <1>9, <2>1 DEF ScannerInv, CopyInv, Behind, After, Me
<1>11. \A u \in Threads \ {Scanner} : thread[u] = Resting
  BY <1>1, AtWork, Constants DEF Me
<1>. QED
  BY <1>1, <1>6, <1>10, <1>11, HandMoves, Constants, LedgerAssumption

LEMMA LoadKeeps ==
  ASSUME TypeInv, LedgerInv, file # Torn, NEW t \in Threads, Load(t)
  PROVE  LedgerInv'
<1>1. /\ thread[t] \in ThreadType /\ thread[t].jobs # <<>> /\ thread[t].copy = None /\ thread[t].jobs \in Seq(Job)
      /\ UNCHANGED <<broker, held, working, trades, stored, file, memory, orders>>
  BY DEF Load, UnchangedByThreads, TypeInv, Thread, ThreadType
<1>2. Busy(t) /\ \A u \in Threads \ {t} : thread[u] = Resting
  BY <1>1, AtWork
<1>3. PICK job : job = Head(thread[t].jobs)
  OBVIOUS
<1>4. CASE ~(job.do = "touch" /\ file.active[job.sym] = None)
  <2>1. PICK c : c = IF job.do = "store" THEN stored ELSE file
    OBVIOUS
  <2> DEFINE r == [thread[t] EXCEPT !.copy = c]
  <2>2. Moves(t, r)
    BY <1>3, <1>4, <2>1 DEF Load
  <2>3. /\ r.at = thread[t].at /\ r.jobs = thread[t].jobs /\ r.view = thread[t].view
        /\ r.left = thread[t].left /\ r.active = thread[t].active /\ r.order = thread[t].order
        /\ r.phase = thread[t].phase /\ r.copy = c
    BY <1>1 DEF ThreadType
  <2> HIDE DEF r
  <2>4. thread'[t] = r
    BY <2>2 DEF Moves, TypeInv
  <2>5. Behind(t) => Behind(t)'
    BY <2>3, <2>4 DEF Behind
  <2>6. CopyInv(t)'
    <3>1. job.do = "store" => c.trades \in Seq(Ledger')
      BY <1>1, <2>1, FilesStay DEF LedgerInv, StoreInv
    <3>2. Head(thread'[t].jobs) = job
      BY <1>3, <2>3, <2>4
    <3>. QED  BY <1>1, <2>1, <2>3, <2>4, <3>1, <3>2 DEF CopyInv
  <2>7. t = Scanner => ScannerInv' /\ \A s \in Symbols : After(s) => After(s)'
    BY <1>1, <2>3, <2>4, ScannerStays DEF LedgerInv, Me
  <2>8. t \in Requesters => RequestInv(t)'
    BY <1>1, <1>2, <2>3, <2>4, RequestStays DEF LedgerInv
  <2>. QED  BY <1>1, <1>2, <2>2, <2>5, <2>6, <2>7, <2>8, HandMoves
<1>5. CASE job.do = "touch" /\ file.active[job.sym] = None
  <2>1. Moves(t, [thread[t] EXCEPT !.jobs = Tail(thread[t].jobs)])
    BY <1>3, <1>5 DEF Load
  <2>2. Head(thread[t].jobs) = thread[t].jobs[1]
    BY <1>1
  <2>3. t = Scanner
    <3>1. SUFFICES ASSUME t # Scanner PROVE FALSE
      OBVIOUS
    <3>2. RequestInv(t)
      BY <3>1 DEF LedgerInv, Threads
    <3>. QED  BY <1>1, <1>3, <1>5, <2>2, <3>2 DEF RequestInv, Files, Removes, ToChange
  <2>4. Me.jobs[1].do = "touch" /\ Me.jobs # <<>> /\ Me.copy = None
    BY <1>1, <1>3, <1>5, <2>2, <2>3 DEF Me
  <2>5. Me.at = "list" /\ ListInv
    <3>1. ScannerInv
      BY DEF LedgerInv
    <3>2. Me.at # "scale-outs"
      <4>1. SUFFICES ASSUME Me.at = "scale-outs" PROVE FALSE
        OBVIOUS
      <4>2. ScalesOut \/ Drops
        BY <2>4, <3>1, <4>1 DEF ScannerInv, SyncInv
      <4>3. ~Drops
        BY <2>4 DEF Drops, Files, Removes
      <4>4. ~ScalesOut
        BY <2>4 DEF ScalesOut
      <4>. QED  BY <4>2, <4>3, <4>4
    <3>. QED  BY <2>4, <3>1, <3>2 DEF ScannerInv, DecideInv
  <2>6. Me.phase = "after" /\ Me.order \in Sent
    <3>1. Me.phase # "before"
      <4>1. <<ToStore(Me.view)>>[1].do # "touch"
        BY DEF ToStore
      <4>. QED  BY <2>4, <2>5, <4>1 DEF ListInv
    <3>2. Me.phase = "after"
      BY <1>1, <2>3, <2>5, <3>1 DEF ListInv, ThreadType, Me
    <3>. QED  BY <2>5, <3>1, <3>2, MeIsThread DEF Thread
  <2>7. PICK s \in Symbols, x \in Thesis : s = Me.order.sym /\ x = Me.order.thesis
    BY <2>6 DEF Sent
  <2>8. Me.jobs = <<ToTouch(s), ToCount(s, x)>>
    <3>1. ToStore(Me.view).do # "touch" /\ ToCount(s, x).do # "touch"
      BY DEF ToStore, ToCount
    <3>2. Me.jobs \in CountJobs(s, x)
      BY <2>4, <2>5, <2>6, <2>7 DEF ListInv
    <3>. QED  BY <2>4, <3>1, <3>2 DEF CountJobs
  <2>9. Tail(Me.jobs) = <<ToCount(s, x)>>
    BY <2>8
  <2> DEFINE r == [Me EXCEPT !.jobs = <<ToCount(s, x)>>]
  <2>10. Moves(Scanner, r)
    BY <2>1, <2>3, <2>9 DEF Me
  <2>11. /\ r.at = "list" /\ r.phase = "after" /\ r.view = Me.view /\ r.copy = None /\ r.order = Me.order
         /\ r.jobs = <<ToCount(s, x)>>
    BY <1>1, <2>3, <2>4, <2>5, <2>6 DEF ThreadType, Me
  <2> HIDE DEF r
  <2>12. Me' = r
    BY <2>10, Constants DEF Moves, Me, TypeInv
  <2>13. ListInv'
    <3>1. OrderInv(s, x)'
      BY <1>1, <2>5, <2>6, <2>7, <2>11, <2>12, FilesStay DEF OrderInv, ListInv
    <3>2. OrderInv(Me.order.sym, Me.order.thesis)'
      BY <2>7, <2>11, <2>12, <3>1
    <3>3. ViewInv' /\ Me'.view.trades = trades'
      BY <1>1, <2>5, <2>6, <2>11, <2>12, FilesStay DEF ListInv, ViewInv
    <3>4. Me'.jobs \in CountJobs(Me.order.sym, Me.order.thesis)'
      BY <2>7, <2>11, <2>12 DEF CountJobs
    <3>. QED  BY <2>11, <2>12, <3>2, <3>3, <3>4 DEF ListInv
  <2>14. ScannerInv' /\ CopyInv(Scanner)' /\ ~Behind(Scanner) /\ \A u \in Symbols : After(u) => After(u)'
    <3>1. Head(Me.jobs).do # "store"
      BY <1>3, <1>5, <2>3 DEF Me
    <3>. QED  BY <2>5, <2>11, <2>12, <2>13, <3>1 DEF ScannerInv, CopyInv, Behind, After, Me
  <2>. QED  BY <1>1, <1>2, <2>3, <2>10, <2>14, HandMoves, Constants, LedgerAssumption
<1>. QED
  BY <1>4, <1>5

-----------------------------------------------------------------------------
(* Saves.                                                                  *)

\* What a save takes and leaves in hand.
LEMMA SaveHand ==
  ASSUME TypeInv, LedgerInv, NEW t \in Threads, Save(t)
  PROVE  /\ UNCHANGED <<broker, held, working, trades, memory, orders>>
         /\ \A u \in Threads \ {t} : thread[u] = Resting
         /\ thread[t] \in ThreadType /\ thread[t].jobs # <<>> /\ Busy(t)
         /\ \E r : Moves(t, r)
         /\ thread[t].at = "rest" /\ Tail(thread[t].jobs) = <<>> => thread'[t] = Resting
         /\ ~(thread[t].at = "rest" /\ Tail(thread[t].jobs) = <<>>) =>
              /\ thread'[t].at = thread[t].at /\ thread'[t].view = thread[t].view
              /\ thread'[t].left = thread[t].left /\ thread'[t].active = thread[t].active
              /\ thread'[t].order = thread[t].order /\ thread'[t].phase = thread[t].phase
              /\ thread'[t].jobs = Tail(thread[t].jobs)
         /\ thread'[t].copy = None
         /\ thread[t].jobs[1].do = "store" => /\ stored' = Written(thread[t].jobs[1], thread[t].copy)
                                              /\ thread[t].copy.trades \in Seq(Ledger)
                                              /\ file' = file
         /\ thread[t].jobs[1].do # "store" => /\ file' = Written(thread[t].jobs[1], file)
                                              /\ stored' = stored
<1>1. /\ thread[t] \in ThreadType /\ thread[t].jobs # <<>> /\ thread[t].copy # None
      /\ thread[t].jobs \in Seq(Job)
      /\ UNCHANGED <<broker, held, working, trades, memory, orders>>
  BY DEF Save, UnchangedByThreads, TypeInv, Thread, ThreadType
<1>2. Busy(t) /\ \A u \in Threads \ {t} : thread[u] = Resting
  BY <1>1, AtWork
<1>3. Head(thread[t].jobs) = thread[t].jobs[1]
  BY <1>1
<1> DEFINE rest == [thread[t] EXCEPT !.jobs = Tail(thread[t].jobs), !.copy = None]
<1>4. /\ rest.at = thread[t].at /\ rest.view = thread[t].view
      /\ rest.left = thread[t].left /\ rest.active = thread[t].active
      /\ rest.order = thread[t].order /\ rest.phase = thread[t].phase
      /\ rest.jobs = Tail(thread[t].jobs) /\ rest.copy = None
  BY <1>1 DEF ThreadType
<1>5. Moves(t, IF rest.jobs = <<>> /\ rest.at = "rest" THEN Resting ELSE rest)
  BY DEF Save
<1> HIDE DEF rest
<1>6. thread'[t] = IF rest.jobs = <<>> /\ rest.at = "rest" THEN Resting ELSE rest
  BY <1>5 DEF Moves, TypeInv
<1>7. \E r : Moves(t, r)
  BY <1>5
<1>8. CopyInv(t)
  BY DEF LedgerInv
<1>9. thread[t].jobs[1].do = "store" => /\ stored' = Written(thread[t].jobs[1], thread[t].copy)
                                        /\ thread[t].copy.trades \in Seq(Ledger)
                                        /\ file' = file
  BY <1>1, <1>3, <1>8 DEF Save, CopyInv
<1>10. thread[t].jobs[1].do # "store" => /\ file' = Written(thread[t].jobs[1], file)
                                         /\ stored' = stored
  BY <1>1, <1>3, <1>8 DEF Save, CopyInv
<1>11. Resting.copy = None
  BY DEF Resting
<1>. QED
  BY <1>1, <1>2, <1>4, <1>6, <1>7, <1>9, <1>10, <1>11

\* The thesis of a position is written or removed.
LEMMA ActiveWritten ==
  ASSUME TypeInv, LedgerInv, file # Torn, NEW s \in Symbols, NEW x \in Thesis,
         file' = [file EXCEPT !.active[s] = x],
         UNCHANGED <<broker, held, working, trades, memory, orders>>,
         Past(x), Settled(s, x), \A u \in Symbols : After(u) => After(u)',
         ~After(s)' /\ held[s] # 0 => Counts(s)'
  PROVE  /\ EntriesInv' /\ \A u \in Symbols : SymbolInv(u)'
         /\ file'.active[s] = x /\ \A u \in Symbols \ {s} : file'.active[u] = file.active[u]
         /\ Ledger' = Ledger /\ \A u : Unfiled(u)' = Unfiled(u) /\ \A y : Done(u, y)' = Done(u, y)
<1>1. /\ file'.active[s] = x /\ \A u \in Symbols \ {s} : file'.active[u] = file.active[u]
      /\ file'.closed = file.closed
  BY DEF TypeInv, BooksInv, Books
<1>2. Ledger' = Ledger /\ \A u : Unfiled(u)' = Unfiled(u) /\ \A y : Done(u, y)' = Done(u, y)
  BY <1>1 DEF Ledger, Unfiled, Done, IsFiled
<1>3. EntriesInv'
  BY <1>1 DEF LedgerInv, EntriesInv
<1>4. ASSUME NEW u \in Symbols PROVE SymbolInv(u)'
  <2>1. SymbolInv(u) /\ Single(u)'
    BY <1>2 DEF LedgerInv, SymbolInv, Single
  <2>2. \A y : Past(y)' = Past(y) /\ Settled(u, y)' = Settled(u, y)
    BY <1>2 DEF Past, Clock, Settled
  <2>3. CASE u = s
    <3>1. Past(file.active[u])' /\ Settled(u, file.active[u])'
      BY <1>1, <2>2, <2>3
    <3>2. Past(memory[u])' /\ Settled(u, memory[u])'
      BY <2>1, <2>2 DEF SymbolInv
    <3>. QED  BY <1>2, <2>1, <2>3, <3>1, <3>2 DEF SymbolInv
  <2>4. CASE u # s
    <3>1. file'.active[u] = file.active[u]
      BY <1>1, <2>4
    <3>2. Past(file.active[u])' /\ Settled(u, file.active[u])'
      BY <2>1, <2>2, <3>1 DEF SymbolInv
    <3>3. Past(memory[u])' /\ Settled(u, memory[u])'
      BY <2>1, <2>2 DEF SymbolInv
    <3>4. Counts(u)' = Counts(u)
      BY <3>1 DEF Counts
    <3>. QED  BY <1>2, <2>1, <3>2, <3>3, <3>4 DEF SymbolInv
  <2>. QED  BY <2>3, <2>4
<1>. QED
  BY <1>1, <1>2, <1>3, <1>4

\* A trade is filed.
LEMMA TradeFiled ==
  ASSUME TypeInv, LedgerInv, file # Torn, NEW job, job.sym \in Symbols, ArchiveInv(job),
         job.do = "archive", file' = Written(job, file),
         UNCHANGED <<broker, held, working, trades, memory, orders>>,
         \A u \in Symbols : After(u) => After(u)'
  PROVE  /\ EntriesInv' /\ \A u \in Symbols : SymbolInv(u)'
         /\ file'.active = file.active /\ Ledger' = Ledger
         /\ Unfiled(job.sym)' = {} /\ \A u \in Symbols \ {job.sym} : Unfiled(u)' = Unfiled(u)
         /\ \A u, y : u # job.sym \/ job.state = "scaled-out" => (Done(u, y)' <=> Done(u, y))
<1> DEFINE e == [trade |-> job.trade.id, sym |-> job.sym, at |-> job.trade.at,
                 thesis |-> job.thesis, state |-> job.state]
<1>1. /\ job.trade.id \in DOMAIN trades /\ trades[job.trade.id] = job.trade
      /\ ~IsFiled(file, job.trade) /\ Symbol(job.trade) = job.sym
  <2>1. job.trade.id \in Unfiled(job.sym) /\ job.trade \in Ledger
    BY DEF ArchiveInv
  <2>. QED  BY <2>1, InLedger DEF Unfiled
<1>2. e.trade = job.trade.id /\ e.sym = job.sym /\ e.thesis = job.thesis /\ e.state = job.state
  OBVIOUS
<1>3. file' = [file EXCEPT !.closed = {x \in file.closed : x.trade # job.trade.id} \cup {e}]
  BY DEF Written, Archived
<1>4. file'.active = file.active /\ file'.closed = file.closed \cup {e}
  <2>1. {x \in file.closed : x.trade # job.trade.id} = file.closed
    BY <1>1 DEF IsFiled
  <2> HIDE DEF e
  <2>. QED  BY <1>3, <2>1 DEF TypeInv, BooksInv, Books
<1> HIDE DEF e
<1>5. Ledger' = Ledger
  BY DEF Ledger
<1>6. \A i \in DOMAIN trades : IsFiled(file, trades[i])' <=> IsFiled(file, trades[i]) \/ i = job.trade.id
  BY <1>2, <1>4 DEF IsFiled, LedgerInv, EntriesInv
<1>7. Unfiled(job.sym)' = {}
  BY <1>6 DEF Unfiled, ArchiveInv
<1>8. \A u \in Symbols \ {job.sym} : Unfiled(u)' = Unfiled(u)
  BY <1>1, <1>6 DEF Unfiled
<1>9. \A u, y : Done(u, y)' <=> Done(u, y) \/ (u = job.sym /\ job.thesis.id = y.id /\ job.state # "scaled-out")
  BY <1>2, <1>4 DEF Done
<1>10. EntriesInv'
  <2>1. EntriesInv /\ job.thesis.id <= orders
    BY DEF LedgerInv, ArchiveInv
  <2>2. \A x \in file'.closed : x.trade \in DOMAIN trades /\ x.thesis.id <= orders
    BY <1>1, <1>2, <1>4, <2>1 DEF EntriesInv
  <2>3. \A x \in file.closed : ~(x.sym = e.sym /\ x.thesis.id = e.thesis.id /\ "scaled-out" \notin {x.state, e.state})
    BY <1>2 DEF ArchiveInv, Done
  <2>4. ASSUME NEW x \in file'.closed, NEW y \in file'.closed,
               x.sym = y.sym /\ x.thesis.id = y.thesis.id, "scaled-out" \notin {x.state, y.state}
        PROVE  x = y
    BY <1>4, <2>1, <2>3, <2>4 DEF EntriesInv
  <2>. QED  BY <2>1, <2>2, <2>4 DEF EntriesInv
<1>11. ASSUME NEW u \in Symbols PROVE SymbolInv(u)'
  <2>1. SymbolInv(u)
    BY DEF LedgerInv
  <2>2. Unfiled(u)' \in {{}, Unfiled(u)}
    BY <1>7, <1>8
  <2>3. Single(u)' /\ Counts(u)' = Counts(u) /\ \A y : Past(y)' = Past(y)
    BY <1>4, <2>1, <2>2 DEF SymbolInv, Single, Counts, Past, Clock
  <2>4. \A y : Settled(u, y) => Settled(u, y)'
    <3>1. ASSUME NEW y, Settled(u, y), y # None, Done(u, y)'
          PROVE  held[u] = 0 /\ Unfiled(u)' = {}
      <4>1. CASE Done(u, y)
        BY <2>2, <3>1, <4>1 DEF Settled
      <4>2. CASE ~Done(u, y)
        BY <1>7, <1>9, <3>1, <4>2 DEF ArchiveInv
      <4>. QED  BY <4>1, <4>2
    <3>. QED  BY <3>1 DEF Settled
  <2>5. \A x \in {file.active[u], memory[u]} : Past(x)' /\ Settled(u, x)'
    BY <2>1, <2>3, <2>4 DEF SymbolInv
  <2>6. Past(file.active[u])' /\ Settled(u, file.active[u])' /\ Past(memory[u])' /\ Settled(u, memory[u])'
    BY <1>4, <2>5
  <2>. QED  BY <2>1, <2>2, <2>3, <2>6 DEF SymbolInv
<1>. QED
  BY <1>4, <1>5, <1>7, <1>8, <1>9, <1>10, <1>11

\* Who stores is done with what was executed; who writes to the file has been.
LEMMA StoreIsKept ==
  ASSUME TypeInv, LedgerInv, NEW t \in Threads, Save(t), thread[t].jobs[1].do # "store"
  PROVE  ~Behind(t) /\ StoreInv'
<1>1. /\ UNCHANGED <<broker, held, working, trades, memory, orders>> /\ thread[t].jobs # <<>>
      /\ stored' = stored /\ \E r : Moves(t, r)
      /\ Head(thread[t].jobs) = thread[t].jobs[1]
  BY SaveHand DEF ThreadType
<1>2. thread[t].at \notin {"sent", "closed"}
  <2>1. CASE t = Scanner
    BY <1>1, <2>1 DEF LedgerInv, ScannerInv, Me
  <2>2. CASE t # Scanner
    <3>1. RequestInv(t)
      BY <2>2 DEF LedgerInv, Threads
    <3>. QED  BY <1>1, <3>1 DEF RequestInv
  <2>. QED  BY <2>1, <2>2
<1>3. ~Behind(t)
  BY <1>1, <1>2 DEF Behind
<1>4. \A u \in Threads \ {t} : thread'[u] = thread[u]
  BY <1>1 DEF Moves, TypeInv
<1>. QED
  BY <1>1, <1>3, <1>4, StoreStays DEF LedgerInv

\* Where a portfolio is stored, and which.
LEMMA StoresWhat ==
  ASSUME TypeInv, LedgerInv, NEW t \in Threads, thread[t].jobs # <<>>, thread[t].jobs[1].do = "store"
  PROVE  /\ t = Scanner => /\ Me.at = "list" /\ ListInv
                           /\ \/ Me.phase = "before" /\ Me.jobs = <<ToStore(Me.view)>>
                              \/ Me.phase = "after" /\ Me.jobs = <<ToStore(Me.view), ToTouch(Me.order.sym),
                                                                   ToCount(Me.order.sym, Me.order.thesis)>>
         /\ t # Scanner => thread[t].at = "file" /\ Len(thread[t].jobs) = 1 /\ RequestInv(t)
         /\ thread[t].jobs[1].view.pos = held /\ thread[t].jobs[1].view.trades \in Seq(Ledger)
<1>1. CASE t = Scanner
  <2>1. ScannerInv /\ Me.jobs # <<>> /\ Me.jobs[1].do = "store"
    BY <1>1 DEF LedgerInv, Me
  <2>2. Me.at # "scale-outs"
    <3>1. SUFFICES ASSUME Me.at = "scale-outs" PROVE FALSE
      OBVIOUS
    <3>2. ScalesOut \/ Drops
      BY <2>1, <3>1 DEF ScannerInv, SyncInv
    <3>3. ~Drops
      BY <2>1 DEF Drops, Files, Removes
    <3>4. ~ScalesOut
      BY <2>1 DEF ScalesOut
    <3>. QED  BY <3>2, <3>3, <3>4
  <2>3. Me.at = "list" /\ ListInv
    BY <2>1, <2>2 DEF ScannerInv, DecideInv
  <2>4. Me.phase \in {"before", "after"}
    BY <2>3, MeIsThread DEF ListInv, Thread, ThreadType
  <2>5. CASE Me.phase = "before"
    <3>1. Me.jobs = <<ToStore(Me.view)>>
      BY <2>1, <2>3, <2>5 DEF ListInv
    <3>2. Me.jobs[1].view = Me.view
      BY <3>1 DEF ToStore
    <3>. QED  BY <1>1, <2>3, <2>5, <3>1, <3>2 DEF ListInv, ViewInv, Me
  <2>6. CASE Me.phase = "after"
    <3>1. Me.jobs \in CountJobs(Me.order.sym, Me.order.thesis)
      BY <2>1, <2>3, <2>6 DEF ListInv
    <3>2. /\ <<ToTouch(Me.order.sym), ToCount(Me.order.sym, Me.order.thesis)>>[1].do # "store"
          /\ <<ToCount(Me.order.sym, Me.order.thesis)>>[1].do # "store"
      BY DEF ToTouch, ToCount
    <3>3. Me.jobs = <<ToStore(Me.view), ToTouch(Me.order.sym), ToCount(Me.order.sym, Me.order.thesis)>>
      BY <2>1, <3>1, <3>2 DEF CountJobs
    <3>4. Me.jobs[1].view = Me.view
      BY <3>3 DEF ToStore
    <3>. QED  BY <1>1, <2>3, <2>6, <3>3, <3>4 DEF ListInv, ViewInv, Me
  <2>. QED  BY <2>4, <2>5, <2>6
<1>2. CASE t # Scanner
  <2>1. RequestInv(t)
    BY <1>2 DEF LedgerInv, Threads
  <2>2. thread[t].at # "rest"
    BY <2>1 DEF RequestInv, Files, Removes, ToChange
  <2>3. thread[t].at = "file"
    BY <2>1, <2>2 DEF RequestInv
  <2>. QED  BY <1>2, <2>1, <2>3 DEF RequestInv
<1>. QED
  BY <1>1, <1>2

LEMMA SaveStoreKeeps ==
  ASSUME TypeInv, LedgerInv, NEW t \in Threads, Save(t), thread[t].jobs[1].do = "store"
  PROVE  LedgerInv'
<1>1. /\ UNCHANGED <<broker, held, working, trades, file, memory, orders>>
      /\ \A u \in Threads \ {t} : thread[u] = Resting
      /\ thread[t].jobs # <<>> /\ Busy(t) /\ thread'[t].copy = None
      /\ stored' = Written(thread[t].jobs[1], thread[t].copy)
      /\ thread[t].copy.trades \in Seq(Ledger) /\ thread[t].jobs \in Seq(Job)
  BY SaveHand DEF ThreadType
<1>2. PICK r : Moves(t, r)
  BY SaveHand
<1>3. StoreInv'
  <2>1. PICK job \in Job : job = thread[t].jobs[1]
    BY <1>1
  <2>2. job.do = "store" /\ job.view.pos = held /\ job.view.trades \in Seq(Ledger)
    BY <1>1, <2>1, StoresWhat
  <2>3. job.view \in Portfolio
    BY <2>2 DEF Job, Archival
  <2>4. stored' = [job.view EXCEPT !.trades = Merge(thread[t].copy.trades, job.view.trades),
                                   !.fresh = job.view.fresh \/ stored.fresh]
    BY <1>1, <2>1, <2>2 DEF Written
  <2>5. Merge(thread[t].copy.trades, job.view.trades) \in Seq(Ledger)
    BY <1>1, <2>2, MergeIsIn
  <2>6. stored'.pos = held /\ stored'.trades \in Seq(Ledger)
    BY <2>2, <2>3, <2>4, <2>5 DEF Portfolio
  <2>. QED  BY <1>1, <2>6, FilesStay DEF StoreInv
<1>4. CASE t = Scanner
  <2>1. /\ Me.at = "list" /\ ListInv
        /\ \/ Me.phase = "before" /\ Me.jobs = <<ToStore(Me.view)>>
           \/ Me.phase = "after" /\ Me.jobs = <<ToStore(Me.view), ToTouch(Me.order.sym),
                                                ToCount(Me.order.sym, Me.order.thesis)>>
    BY <1>1, <1>4, StoresWhat
  <2>2. /\ Me'.at = "list" /\ Me'.view = Me.view /\ Me'.order = Me.order /\ Me'.phase = Me.phase
        /\ Me'.jobs = Tail(Me.jobs)
    BY <1>4, <2>1, SaveHand DEF Me
  <2>3. ViewInv'
    BY <1>1, <2>1, <2>2, FilesStay DEF ListInv, ViewInv
  <2>4. ListInv'
    <3>1. CASE Me.phase = "before"
      <4>1. Me'.jobs = <<>>
        <5>1. Me.jobs = <<ToStore(Me.view)>>
          BY <2>1, <3>1
        <5>2. Tail(<<ToStore(Me.view)>>) = <<>>
          OBVIOUS
        <5>. QED  BY <2>2, <5>1, <5>2
      <4>. QED  BY <2>1, <2>2, <2>3, <3>1, <4>1 DEF ListInv
    <3>2. CASE Me.phase = "after"
      <4>1. PICK s, x : s = Me.order.sym /\ x = Me.order.thesis
        OBVIOUS
      <4>2. OrderInv(s, x) /\ Me.view.trades = trades
        BY <2>1, <3>2, <4>1 DEF ListInv
      <4>3. OrderInv(s, x)'
        BY <1>1, <2>1, <2>2, <4>2, FilesStay DEF OrderInv
      <4>4. OrderInv(Me.order.sym, Me.order.thesis)'
        BY <2>2, <4>1, <4>3
      <4>5. Me'.jobs = <<ToTouch(s), ToCount(s, x)>>
        <5>1. Me.jobs = <<ToStore(Me.view), ToTouch(s), ToCount(s, x)>>
          BY <2>1, <3>2, <4>1
        <5>2. Tail(<<ToStore(Me.view), ToTouch(s), ToCount(s, x)>>) = <<ToTouch(s), ToCount(s, x)>>
          OBVIOUS
        <5>. QED  BY <2>2, <5>1, <5>2
      <4>6. Me'.jobs \in CountJobs(Me.order.sym, Me.order.thesis)'
        BY <2>2, <4>1, <4>5 DEF CountJobs
      <4>. QED  BY <1>1, <2>2, <2>3, <3>2, <4>2, <4>4, <4>6 DEF ListInv
    <3>. QED  BY <2>1, <3>1, <3>2
  <2>5. ScannerInv' /\ CopyInv(t)' /\ \A u \in Symbols : After(u) => After(u)'
    BY <1>1, <1>4, <2>1, <2>2, <2>4 DEF ScannerInv, CopyInv, After
  <2>6. EntriesInv' /\ \A s \in Symbols : SymbolInv(s)'
    BY <1>1, <2>5, BooksStay DEF LedgerInv
  <2>. QED  BY <1>1, <1>2, <1>3, <1>4, <2>5, <2>6, ThreadMoves, LedgerAssumption
<1>5. CASE t # Scanner
  <2>1. thread[t].at = "file" /\ Len(thread[t].jobs) = 1 /\ RequestInv(t)
    BY <1>1, <1>5, StoresWhat
  <2>2. Tail(thread[t].jobs) = <<>>
    <3>1. Tail(thread[t].jobs) \in Seq(Job) /\ Len(Tail(thread[t].jobs)) = Len(thread[t].jobs) - 1
      BY <1>1, HeadTailProperties
    <3>2. PICK js \in Seq(Job) : js = Tail(thread[t].jobs)
      BY <3>1
    <3>3. Len(js) = 0
      BY <2>1, <3>1, <3>2
    <3>. QED  BY <3>2, <3>3, EmptySeq
  <2>3. /\ thread'[t].at = "file" /\ thread'[t].order = thread[t].order
        /\ thread'[t].left = thread[t].left /\ thread'[t].jobs = <<>>
    BY <2>1, <2>2, SaveHand
  <2>4. PICK s, i : s = thread[t].order.sym /\ i = thread[t].left[1].id
    OBVIOUS
  <2>5. ClosedInv(s, i)'
    BY <1>1, <2>1, <2>4, FilesStay DEF RequestInv
  <2>6. ClosedInv(thread[t].order.sym, thread[t].left[1].id)'
    BY <2>3, <2>4, <2>5
  <2>7. RequestInv(t)' /\ CopyInv(t)'
    BY <1>1, <2>1, <2>3, <2>6, FilesStay DEF RequestInv, CopyInv
  <2>8. \A u \in Symbols : ~After(u)
    BY <1>1, <1>5, Constants DEF After, Me, Resting
  <2>9. EntriesInv' /\ \A s1 \in Symbols : SymbolInv(s1)'
    BY <1>1, <2>8, BooksStay DEF LedgerInv
  <2>. QED  BY <1>1, <1>2, <1>3, <1>5, <2>7, <2>9, ThreadMoves
<1>. QED
  BY <1>4, <1>5

\* The thesis is touched and counted after an order.
LEMMA SaveListKeeps ==
  ASSUME TypeInv, LedgerInv, file # Torn, Save(Scanner), Me.at = "list", Me.jobs[1].do # "store"
  PROVE  LedgerInv'
<1>1. /\ UNCHANGED <<broker, held, working, trades, memory, orders>>
      /\ \A u \in Threads \ {Scanner} : thread[u] = Resting
      /\ Me.jobs # <<>> /\ Me'.copy = None /\ file' = Written(Me.jobs[1], file)
      /\ Me'.at = "list" /\ Me'.view = Me.view /\ Me'.order = Me.order /\ Me'.phase = Me.phase
      /\ Me'.jobs = Tail(Me.jobs)
  BY SaveHand, Constants DEF Me
<1>2. PICK r : Moves(Scanner, r)
  BY SaveHand, Constants
<1>3. StoreInv'
  BY StoreIsKept, Constants DEF Me
<1>4. ListInv
  BY DEF LedgerInv, ScannerInv
<1>5. Me.phase = "after" /\ Me.order \in Sent
  <2>1. Me.phase # "before"
    <3>1. <<ToStore(Me.view)>>[1].do = "store"
      BY DEF ToStore
    <3>. QED  BY <1>1, <1>4, <3>1 DEF ListInv
  <2>. QED  BY <1>4, <2>1, MeIsThread DEF ListInv, Thread, ThreadType
<1>6. PICK s \in Symbols, x \in Thesis : s = Me.order.sym /\ x = Me.order.thesis
  BY <1>5 DEF Sent
<1>7. s = Me'.order.sym /\ x = Me'.order.thesis
  BY <1>1, <1>6
<1>8. OrderInv(s, x) /\ Me.view.trades = trades /\ ViewInv
  BY <1>4, <1>5, <1>6 DEF ListInv
<1>9. After(s)' /\ \A u \in Symbols : After(u) => After(u)'
  BY <1>1, <1>5, <1>6 DEF After
<1>10. CASE Me.jobs = <<ToTouch(s), ToCount(s, x)>>
  <2>1. Me.jobs[1] = ToTouch(s) /\ Me'.jobs = <<ToCount(s, x)>>
    BY <1>1, <1>10
  <2>2. file' = file
    BY <1>1, <2>1 DEF Written, ToTouch
  <2>3. EntriesInv' /\ \A u \in Symbols : SymbolInv(u)'
    BY <1>1, <1>9, <2>2, BooksStay DEF LedgerInv
  <2>4. OrderInv(s, x)' /\ ViewInv'
    BY <1>1, <1>8, <2>2, FilesStay DEF OrderInv, ViewInv
  <2>5. OrderInv(Me.order.sym, Me.order.thesis)'
    BY <1>7, <2>4
  <2>6. ListInv'
    BY <1>1, <1>5, <1>7, <1>8, <2>1, <2>4, <2>5 DEF ListInv, CountJobs
  <2>7. ScannerInv' /\ CopyInv(Scanner)'
    BY <1>1, <2>6 DEF ScannerInv, CopyInv, Me
  <2>. QED  BY <1>1, <1>2, <1>3, <2>3, <2>7, ThreadMoves, Constants, LedgerAssumption
<1>11. CASE Me.jobs = <<ToCount(s, x)>>
  <2>1. Me.jobs[1] = ToCount(s, x) /\ Me'.jobs = <<>>
    BY <1>1, <1>11
  <2>2. PICK y : y = Counted(file, s, x)
    OBVIOUS
  <2>3. file.active[s] \in Thesis
    BY DEF TypeInv, BooksInv, Books
  <2>4. /\ y \in Thesis /\ y.id = x.id /\ y.since = x.since /\ y.out = x.out /\ y # None
        /\ y.filed \in {x.filed, file.active[s].filed}
    <3>1. x # None
      BY <1>8 DEF OrderInv
    <3>2. CASE file.active[s].filed > x.filed
      <4>1. y = [x EXCEPT !.filed = file.active[s].filed]
        BY <2>2, <3>2 DEF Counted
      <4>. QED  BY <2>3, <3>2, <4>1 DEF Thesis, None
    <3>3. CASE ~(file.active[s].filed > x.filed)
      BY <2>2, <3>1, <3>3 DEF Counted
    <3>. QED  BY <3>2, <3>3
  <2>5. file' = [file EXCEPT !.active[s] = y]
    BY <1>1, <2>1, <2>2 DEF Written, Upserted, ToCount
  <2>6. Past(y) /\ Settled(s, y)
    BY <1>8, <2>4 DEF OrderInv, Past, Settled, Done
  <2>7. /\ EntriesInv' /\ \A u \in Symbols : SymbolInv(u)'
        /\ file'.active[s] = y
        /\ Ledger' = Ledger /\ \A u : Unfiled(u)' = Unfiled(u) /\ \A z : Done(u, z)' = Done(u, z)
    BY <1>1, <1>9, <2>4, <2>5, <2>6, ActiveWritten
  <2>8. OrderInv(s, x)' /\ WrittenInv(s, x)'
    <3>1. Past(x)'
      BY <1>1, <1>8 DEF OrderInv, Past, Clock
    <3>. QED  BY <1>1, <1>8, <2>4, <2>7, <3>1 DEF OrderInv, WrittenInv
  <2>9. OrderInv(Me.order.sym, Me.order.thesis)' /\ WrittenInv(Me.order.sym, Me.order.thesis)'
    BY <1>7, <2>8
  <2>10. ViewInv'
    BY <1>1, <1>8, <2>7 DEF ViewInv
  <2>11. ListInv'
    BY <1>1, <1>5, <1>8, <2>1, <2>9, <2>10 DEF ListInv
  <2>12. ScannerInv' /\ CopyInv(Scanner)'
    BY <1>1, <2>11 DEF ScannerInv, CopyInv, Me
  <2>. QED  BY <1>1, <1>2, <1>3, <2>7, <2>12, ThreadMoves, Constants, LedgerAssumption
<1>12. <<ToStore(Me.view), ToTouch(s), ToCount(s, x)>>[1].do = "store"
  BY DEF ToStore
<1>. QED
  BY <1>1, <1>4, <1>5, <1>6, <1>10, <1>11, <1>12 DEF ListInv, CountJobs

LEMMA TailOfFew ==
  ASSUME NEW S, NEW js \in Seq(S), js # <<>>
  PROVE  /\ Len(js) = 1 => Tail(js) = <<>>
         /\ Len(js) = 2 => /\ Tail(js) # <<>> /\ Len(Tail(js)) = 1
                           /\ Tail(js)[1] = js[2] /\ Tail(js)[Len(Tail(js))] = js[2]
<1>1. PICK tl \in Seq(S) : tl = Tail(js)
  BY HeadTailProperties
<1>2. Len(tl) = Len(js) - 1 /\ \A i \in 1..Len(tl) : tl[i] = js[i + 1]
  BY <1>1, HeadTailProperties
<1>3. ASSUME Len(js) = 1 PROVE tl = <<>>
  <2>1. Len(tl) = 0
    BY <1>2, <1>3
  <2>. QED  BY <2>1, EmptySeq
<1>4. ASSUME Len(js) = 2 PROVE tl # <<>> /\ Len(tl) = 1 /\ tl[1] = js[2]
  <2>1. Len(tl) = 1 /\ 1 \in 1..Len(tl) /\ 1 + 1 = 2
    BY <1>2, <1>4
  <2>2. tl[1] = js[2]
    BY <1>2, <2>1
  <2>3. tl # <<>>
    <3>1. tl = <<>> <=> Len(tl) = 0
      BY EmptySeq
    <3>. QED  BY <2>1, <3>1
  <2>. QED  BY <2>1, <2>2, <2>3
<1>. QED
  BY <1>1, <1>3, <1>4

\* What is common to the saves of the scanner to the file.
LEMMA ScannerSave ==
  ASSUME TypeInv, LedgerInv, Save(Scanner), Me.jobs[1].do # "store"
  PROVE  /\ UNCHANGED <<broker, held, working, trades, memory, orders>>
         /\ \A u \in Threads \ {Scanner} : thread[u] = Resting
         /\ Me.jobs # <<>> /\ Me.jobs \in Seq(Job) /\ Me'.copy = None /\ CopyInv(Scanner)'
         /\ \E r : Moves(Scanner, r)
         /\ file' = Written(Me.jobs[1], file) /\ StoreInv' /\ Ledger' = Ledger
         /\ Me.at = "rest" /\ Tail(Me.jobs) = <<>> => Me' = Resting
         /\ Me.at # "rest" => /\ Me'.at = Me.at /\ Me'.view = Me.view /\ Me'.left = Me.left
                              /\ Me'.active = Me.active /\ Me'.order = Me.order
                              /\ Me'.phase = Me.phase /\ Me'.jobs = Tail(Me.jobs)
<1>1. StoreInv'
  BY StoreIsKept, Constants DEF Me
<1>2. Me'.copy = None /\ CopyInv(Scanner)'
  BY SaveHand, Constants DEF Me, CopyInv
<1>3. Ledger' = Ledger
  <2>1. trades' = trades
    BY SaveHand, Constants
  <2>. QED  BY <2>1 DEF Ledger
<1>4. Me.jobs \in Seq(Job)
  BY MeIsThread DEF Thread, ThreadType
<1>. QED
  BY <1>1, <1>2, <1>3, <1>4, SaveHand, Constants DEF Me

\* A thesis is written that the scanner has in memory, of a position that is held.
LEMMA SaveRestKeeps ==
  ASSUME TypeInv, LedgerInv, file # Torn, Save(Scanner), Me.at = "rest"
  PROVE  LedgerInv'
<1>1. Len(Me.jobs) = 1 /\ Me.jobs[1].do = "upsert" /\ UpsertInv(Me.jobs[1])
  <2>1. Me.jobs # <<>>
    BY SaveHand, Constants DEF Me
  <2>. QED  BY <2>1 DEF LedgerInv, ScannerInv
<1>2. /\ UNCHANGED <<broker, held, working, trades, memory, orders>>
      /\ \A u \in Threads \ {Scanner} : thread[u] = Resting
      /\ Me.jobs # <<>> /\ Me.jobs \in Seq(Job) /\ CopyInv(Scanner)'
      /\ file' = Written(Me.jobs[1], file) /\ StoreInv'
      /\ Tail(Me.jobs) = <<>> => Me' = Resting
  BY <1>1, ScannerSave
<1>3. PICK r : Moves(Scanner, r)
  BY <1>1, ScannerSave
<1>4. thread'[Scanner] = Resting
  BY <1>1, <1>2, TailOfFew DEF Me
<1>5. PICK s \in Symbols, x \in Thesis : s = Me.jobs[1].sym /\ x = Me.jobs[1].thesis
  <2>1. Me.jobs[1] \in Job
    BY <1>2, MeIsThread, ElementOfSeq
  <2>. QED  BY <1>1, <2>1 DEF Job, Archival
<1>6. memory[s] = x /\ held[s] # 0 /\ x # None
  BY <1>1, <1>5 DEF UpsertInv
<1>7. file' = [file EXCEPT !.active[s] = x]
  BY <1>1, <1>2, <1>5 DEF Written, Upserted
<1>8. SymbolInv(s) /\ Past(x) /\ Settled(s, x) /\ \A u \in Symbols : ~After(u)
  BY <1>6 DEF LedgerInv, SymbolInv, After
<1>9. Counts(s)'
  <2>1. Counts(s) /\ file'.active[s] = x
    BY <1>6, <1>7, <1>8 DEF SymbolInv, TypeInv, BooksInv, Books
  <2>. QED  BY <1>2, <1>6, <2>1 DEF Counts
<1>10. EntriesInv' /\ \A u \in Symbols : SymbolInv(u)'
  BY <1>2, <1>7, <1>8, <1>9, ActiveWritten
<1>. QED
  BY <1>2, <1>3, <1>4, <1>10, RestsThen, ThreadMoves, Constants, LedgerAssumption

\* A scale-out is filed, and counted in its thesis.
LEMMA SaveScaleOutKeeps ==
  ASSUME TypeInv, LedgerInv, file # Torn, Save(Scanner), Me.at = "scale-outs", ScalesOut
  PROVE  LedgerInv'
<1>1. PICK js \in Seq(Job) : js = Me.jobs
  BY MeIsThread DEF Thread, ThreadType
<1>2. PICK job : job = js[Len(js)]
  OBVIOUS
<1>3. PICK s, k : s = job.sym /\ k = job.thesis
  OBVIOUS
<1>4. /\ job.do = "upsert" /\ memory[s] = k /\ held[s] # 0 /\ k # None /\ Me.active[s] = k
      /\ Me.phase = "after" /\ s = Me.order.sym /\ k.filed <= k.out
      /\ k.out = Me.order.thesis.out /\ k.since = Me.order.thesis.since
      /\ \/ Len(js) = 1 /\ Unfiled(s) = {}
         \/ /\ Len(js) = 2 /\ js[1].do = "archive" /\ js[1].state = "scaled-out"
            /\ js[1].sym = s
            /\ ArchiveInv(js[1])
  BY <1>1, <1>2, <1>3 DEF ScalesOut, UpsertInv
<1>5. js[1].do # "store"
  BY <1>2, <1>4
<1>6. /\ UNCHANGED <<broker, held, working, trades, memory, orders>>
      /\ \A u \in Threads \ {Scanner} : thread[u] = Resting
      /\ js # <<>> /\ CopyInv(Scanner)' /\ file' = Written(js[1], file) /\ StoreInv' /\ Ledger' = Ledger
      /\ Me'.at = "scale-outs" /\ Me'.view = Me.view /\ Me'.left = Me.left
      /\ Me'.active = Me.active /\ Me'.order = Me.order /\ Me'.phase = "after" /\ Me'.jobs = Tail(js)
  BY <1>1, <1>4, <1>5, ScannerSave
<1>7. PICK r : Moves(Scanner, r)
  BY <1>1, <1>5, ScannerSave
<1>8. PICK x \in Thesis : x = Me.order.thesis /\ s \in Symbols
  <2>1. Me.order \in Sent
    BY <1>4, MeIsThread DEF Thread
  <2>. QED  BY <1>4, <2>1 DEF Sent
<1>9. SyncInv
  BY DEF LedgerInv, ScannerInv
<1>10. OrderInv(s, x) /\ WrittenInv(s, x) /\ Me.view.trades = trades
  BY <1>4, <1>8, <1>9 DEF SyncInv
<1>11. After(s)' /\ \A u \in Symbols : After(u) => After(u)'
  BY <1>4, <1>6 DEF After
<1>12. k \in Thesis /\ Past(k) /\ Settled(s, k)
  <2>1. k \in Thesis /\ s \in Symbols
    BY <1>4, <1>8, MeIsThread
  <2>2. SymbolInv(s)
    BY <2>1 DEF LedgerInv
  <2>. QED  BY <1>4, <2>1, <2>2 DEF SymbolInv
<1>13. \A u \in Symbols \ {s} : Me.active[u] = file.active[u]
  BY <1>1, <1>2, <1>3, <1>9 DEF SyncInv, ActiveInv
<1>14. ViewInv' /\ Me'.left \in Seq(Ledger') /\ Me'.view.trades = trades'
  BY <1>6, <1>9, <1>10 DEF SyncInv, ViewInv
<1>15. CASE Len(js) = 1 /\ Unfiled(s) = {}
  <2>1. file' = [file EXCEPT !.active[s] = k] /\ Me'.jobs = <<>>
    <3>1. js[1] = job /\ Tail(js) = <<>>
      BY <1>2, <1>6, <1>15, TailOfFew
    <3>. QED  BY <1>3, <1>4, <1>6, <3>1 DEF Written, Upserted
  <2>2. /\ EntriesInv' /\ \A u \in Symbols : SymbolInv(u)'
        /\ file'.active[s] = k /\ \A u \in Symbols \ {s} : file'.active[u] = file.active[u]
        /\ \A u : Unfiled(u)' = Unfiled(u) /\ \A y : Done(u, y)' = Done(u, y)
    BY <1>6, <1>8, <1>11, <1>12, <2>1, ActiveWritten
  <2>3. \A u \in Symbols : ActiveInv(u)'
    BY <1>4, <1>6, <1>13, <2>2 DEF ActiveInv
  <2>4. OrderInv(s, x)' /\ WrittenInv(s, x)'
    <3>1. Past(x)'
      BY <1>6, <1>10 DEF OrderInv, Past, Clock
    <3>. QED  BY <1>4, <1>6, <1>8, <1>10, <1>15, <2>2, <3>1 DEF OrderInv, WrittenInv
  <2>5. ToCome(s)'
    BY <1>15, <2>2 DEF ToCome
  <2>6. SyncInv'
    <3>1. OrderInv(Me.order.sym, Me.order.thesis)' /\ WrittenInv(Me.order.sym, Me.order.thesis)'
          /\ ToCome(Me.order.sym)'
      BY <1>4, <1>6, <1>8, <2>4, <2>5
    <3>. QED  BY <1>6, <1>14, <2>1, <2>3, <3>1 DEF SyncInv
  <2>7. ScannerInv'
    BY <1>6, <2>6 DEF ScannerInv
  <2>. QED  BY <1>6, <1>7, <2>2, <2>7, ThreadMoves, Constants, LedgerAssumption
<1>16. CASE /\ Len(js) = 2 /\ js[1].do = "archive" /\ js[1].state = "scaled-out"
            /\ js[1].sym = s
            /\ ArchiveInv(js[1])
  <2>1. PICK arch : arch = js[1]
    OBVIOUS
  <2>2. /\ EntriesInv' /\ \A u \in Symbols : SymbolInv(u)'
        /\ file'.active = file.active
        /\ Unfiled(s)' = {} /\ \A u \in Symbols \ {s} : Unfiled(u)' = Unfiled(u)
        /\ \A u, y : Done(u, y)' <=> Done(u, y)
    BY <1>6, <1>8, <1>11, <1>16, <2>1, TradeFiled
  <2>3. Me'.jobs # <<>> /\ Len(Me'.jobs) = 1 /\ Me'.jobs[Len(Me'.jobs)] = job
    BY <1>2, <1>6, <1>16, TailOfFew
  <2>4. \A u \in Symbols : ActiveInv(u)'
    BY <1>3, <1>6, <1>13, <2>2, <2>3 DEF ActiveInv
  <2>5. OrderInv(s, x)' /\ WrittenInv(s, x)'
    <3>1. Past(x)'
      BY <1>6, <1>10 DEF OrderInv, Past, Clock
    <3>. QED  BY <1>4, <1>6, <1>8, <1>10, <2>2, <3>1 DEF OrderInv, WrittenInv
  <2>6. ScalesOut'
    <3>1. UpsertInv(job)'
      BY <1>3, <1>4, <1>6 DEF UpsertInv
    <3>2. UpsertInv(Me.jobs[Len(Me.jobs)])'
      BY <2>3, <3>1
    <3>. QED  BY <1>3, <1>4, <1>6, <2>2, <2>3, <3>2 DEF ScalesOut
  <2>7. SyncInv'
    <3>1. OrderInv(Me.order.sym, Me.order.thesis)' /\ WrittenInv(Me.order.sym, Me.order.thesis)'
      BY <1>4, <1>6, <1>8, <2>5
    <3>. QED  BY <1>6, <1>14, <2>3, <2>4, <2>6, <3>1 DEF SyncInv
  <2>8. ScannerInv'
    BY <1>6, <2>7 DEF ScannerInv
  <2>. QED  BY <1>6, <1>7, <2>2, <2>8, ThreadMoves, Constants, LedgerAssumption
<1>. QED
  BY <1>4, <1>15, <1>16

\* A thesis whose position is gone is filed, ...
LEMMA FilesNext ==
  ASSUME TypeInv, LedgerInv, file # Torn, NEW js \in Seq(Job), Files(js), file' = Written(js[1], file),
         UNCHANGED <<broker, held, working, trades, memory, orders>>,
         \A u \in Symbols : After(u) => After(u)',
         NEW s, s = js[Len(js)].sym
  PROVE  /\ s \in Symbols /\ held[s] = 0
         /\ EntriesInv' /\ \A u \in Symbols : SymbolInv(u)'
         /\ \A u \in Symbols : file'.active[u] = file.active[u]
         /\ Unfiled(s)' = {} /\ \A u \in Symbols \ {s} : Unfiled(u)' = Unfiled(u)
         /\ \A u, y : u # s => (Done(u, y)' <=> Done(u, y))
<1>1. PICK arch : arch = js[1]
  OBVIOUS
<1>2. /\ Len(js) = 2 /\ js # <<>> /\ arch.do = "archive" /\ arch.state # "scaled-out"
      /\ js[2] = ToRemove(arch.sym) /\ ArchiveInv(arch)
  BY <1>1 DEF Files
<1>3. s = arch.sym /\ js[2].sym = s /\ js[2].do = "remove"
  BY <1>2 DEF ToRemove
<1>4. arch \in Job
  BY <1>1, <1>2, ElementOfSeq
<1>5. s \in Symbols /\ held[s] = 0
  BY <1>2, <1>3, <1>4 DEF Job, Archival, ArchiveInv
<1>6. /\ EntriesInv' /\ \A u \in Symbols : SymbolInv(u)'
      /\ file'.active = file.active
      /\ Unfiled(s)' = {} /\ \A u \in Symbols \ {s} : Unfiled(u)' = Unfiled(u)
      /\ \A u, y : u # s => (Done(u, y)' <=> Done(u, y))
  BY <1>1, <1>2, <1>3, <1>5, TradeFiled
<1>. QED
  BY <1>3, <1>5, <1>6

\* ... and removed.
LEMMA RemovesNext ==
  ASSUME TypeInv, LedgerInv, file # Torn, NEW js \in Seq(Job), Removes(js), file' = Written(js[1], file),
         UNCHANGED <<broker, held, working, trades, memory, orders>>,
         \A u \in Symbols : After(u) => After(u)',
         NEW s, s = js[Len(js)].sym
  PROVE  /\ s \in Symbols /\ held[s] = 0 /\ (~broker.served => Unfiled(s) = {})
         /\ EntriesInv' /\ \A u \in Symbols : SymbolInv(u)'
         /\ file'.active[s] = None /\ \A u \in Symbols \ {s} : file'.active[u] = file.active[u]
         /\ Ledger' = Ledger
         /\ \A u : Unfiled(u)' = Unfiled(u) /\ \A y : Done(u, y)' = Done(u, y)
         /\ Tail(js) = <<>>
<1>1. PICK job : job = js[1]
  OBVIOUS
<1>2. Len(js) = 1 /\ js # <<>> /\ job.do = "remove" /\ RemoveInv(job) /\ s = job.sym
  BY <1>1 DEF Removes
<1>3. job \in Job
  BY <1>1, <1>2, ElementOfSeq
<1>4. s \in Symbols /\ held[s] = 0 /\ (~broker.served => Unfiled(s) = {})
  BY <1>2, <1>3 DEF Job, Archival, RemoveInv
<1>5. file' = [file EXCEPT !.active[s] = None]
  BY <1>1, <1>2 DEF Written, Removed
<1>6. Tail(js) = <<>>
  BY <1>2, TailOfFew
<1>. QED
  BY <1>4, <1>5, <1>6, NoneIsPast, SmallTypes, ActiveWritten

\* A thesis without a position is filed or dropped.
LEMMA SaveDropKeeps ==
  ASSUME TypeInv, LedgerInv, file # Torn, Save(Scanner), Me.at = "scale-outs", Drops
  PROVE  LedgerInv'
<1>1. PICK js \in Seq(Job) : js = Me.jobs
  BY MeIsThread DEF Thread, ThreadType
<1>2. PICK s : s = js[Len(js)].sym
  OBVIOUS
<1>3. PICK tl : tl = Tail(js)
  OBVIOUS
<1>4. /\ Files(js) \/ Removes(js)
      /\ Me.left = <<>> /\ Me.active[s] = None /\ memory[s] = None
      /\ js[1].do # "store"
  BY <1>1, <1>2 DEF Drops, Files, Removes
<1>5. /\ UNCHANGED <<broker, held, working, trades, memory, orders>>
      /\ \A u \in Threads \ {Scanner} : thread[u] = Resting
      /\ js # <<>> /\ CopyInv(Scanner)' /\ file' = Written(js[1], file) /\ StoreInv' /\ Ledger' = Ledger
      /\ Me'.at = "scale-outs" /\ Me'.view = Me.view /\ Me'.left = Me.left
      /\ Me'.active = Me.active /\ Me'.order = Me.order /\ Me'.phase = Me.phase /\ Me'.jobs = tl
  BY <1>1, <1>3, <1>4, ScannerSave
<1>6. PICK r : Moves(Scanner, r)
  BY <1>1, <1>4, ScannerSave
<1>7. SyncInv
  BY DEF LedgerInv, ScannerInv
<1>8. \A u \in Symbols : After(u) <=> After(u)'
  BY <1>5 DEF After
<1>9. /\ s \in Symbols /\ held[s] = 0
      /\ EntriesInv' /\ \A u \in Symbols : SymbolInv(u)'
      /\ \A u \in Symbols \ {s} : /\ file'.active[u] = file.active[u]
                                  /\ Unfiled(u)' = Unfiled(u) /\ \A y : Done(u, y)' <=> Done(u, y)
      /\ Unfiled(s)' = {} \/ (Unfiled(s)' = Unfiled(s) /\ (~broker.served => Unfiled(s)' = {}))
      /\ \/ tl # <<>> /\ Removes(tl)' /\ tl[Len(tl)].sym = s
         \/ tl = <<>> /\ file'.active[s] = None
  <2>1. CASE Files(js)
    <3>1. \A u \in Symbols : After(u) => After(u)'
      BY <1>8
    <3>2. /\ s \in Symbols /\ held[s] = 0
          /\ EntriesInv' /\ \A u \in Symbols : SymbolInv(u)'
          /\ \A u \in Symbols : file'.active[u] = file.active[u]
          /\ Unfiled(s)' = {} /\ \A u \in Symbols \ {s} : Unfiled(u)' = Unfiled(u)
          /\ \A u, y : u # s => (Done(u, y)' <=> Done(u, y))
      <4>1. file' = Written(js[1], file) /\ UNCHANGED <<broker, held, working, trades, memory, orders>>
        BY <1>5
      <4>2. TypeInv /\ LedgerInv /\ file # Torn
        OBVIOUS
      <4>. QED  BY ONLY <1>1, <1>2, <2>1, <3>1, <4>1, <4>2, FilesNext
    <3>3. tl # <<>> /\ Removes(tl)' /\ tl[Len(tl)].sym = s
      <4>1. PICK job : job = ToRemove(s)
        OBVIOUS
      <4>2. RemoveInv(job)' /\ job.do = "remove" /\ job.sym = s
        BY <1>5, <3>2, <4>1 DEF RemoveInv, ToRemove
      <4>3. js[2] = job
        <5>1. Len(js) = 2 /\ js[2] = ToRemove(js[1].sym)
          BY <2>1 DEF Files
        <5>2. ToRemove(js[1].sym).sym = js[1].sym
          BY DEF ToRemove
        <5>. QED  BY <1>2, <4>1, <5>1, <5>2
      <4>4. tl # <<>> /\ Len(tl) = 1 /\ tl[1] = job
        BY <1>3, <1>5, <2>1, <4>3, TailOfFew DEF Files
      <4>. QED  BY <4>2, <4>4 DEF Removes
    <3>. QED  BY <1>3, <3>2, <3>3
  <2>2. CASE Removes(js)
    <3>1. \A u \in Symbols : After(u) => After(u)'
      BY <1>8
    <3>2. /\ s \in Symbols /\ held[s] = 0 /\ (~broker.served => Unfiled(s) = {})
          /\ EntriesInv' /\ \A u \in Symbols : SymbolInv(u)'
          /\ file'.active[s] = None /\ \A u \in Symbols \ {s} : file'.active[u] = file.active[u]
          /\ \A u : Unfiled(u)' = Unfiled(u) /\ \A y : Done(u, y)' = Done(u, y)
          /\ Tail(js) = <<>>
      BY <1>2, <1>5, <2>2, <3>1, RemovesNext
    <3>3. \A u, y : Done(u, y)' <=> Done(u, y)
      BY <3>2
    <3>. QED  BY <1>3, <3>2, <3>3
  <2>. QED  BY <1>4, <2>1, <2>2
<1>10. \A u \in Symbols : ActiveInv(u)'
  <2>1. ASSUME NEW u \in Symbols PROVE Me'.active[u] = file'.active[u] \/ (tl # <<>> /\ tl[Len(tl)].sym = u)
    <3>1. CASE u = s
      BY <1>4, <1>5, <1>9, <3>1
    <3>2. CASE u # s
      BY <1>1, <1>2, <1>5, <1>7, <1>9, <3>2 DEF SyncInv, ActiveInv
    <3>. QED  BY <3>1, <3>2
  <2>. QED  BY <1>5, <2>1 DEF ActiveInv
<1>11. ViewInv' /\ Me'.left \in Seq(Ledger') /\ (Me'.phase = "after" => Me'.view.trades = trades')
  BY <1>5, <1>7 DEF SyncInv, ViewInv
<1>12. tl # <<>> => Drops'
  <2>1. ASSUME tl # <<>> PROVE /\ Removes(Me.jobs)' /\ Me'.left = <<>>
                               /\ Me'.active[Me'.jobs[Len(Me'.jobs)].sym] = None
                               /\ memory'[Me'.jobs[Len(Me'.jobs)].sym] = None
    <3>1. Removes(tl)' /\ tl[Len(tl)].sym = s
      BY <1>9, <2>1
    <3>. QED  BY <1>4, <1>5, <3>1
  <2>. QED  BY <2>1 DEF Drops
<1>13. ASSUME Me.phase = "after"
       PROVE  /\ OrderInv(Me.order.sym, Me.order.thesis)' /\ WrittenInv(Me.order.sym, Me.order.thesis)'
              /\ held'[Me'.order.sym] # 0 => ToCome(Me.order.sym)'
  <2>1. PICK o \in Symbols, x \in Thesis : o = Me.order.sym /\ x = Me.order.thesis
    <3>1. Me.order \in Sent
      BY <1>13, MeIsThread DEF Thread
    <3>. QED  BY <3>1 DEF Sent
  <2>2. OrderInv(o, x) /\ WrittenInv(o, x)
    BY <1>7, <1>13, <2>1 DEF SyncInv
  <2>3. Past(x)'
    BY <1>5, <2>2 DEF OrderInv, Past, Clock
  <2>4. o # s => OrderInv(o, x)'
    BY <1>5, <1>9, <2>2, <2>3 DEF OrderInv
  <2>5. o = s => OrderInv(o, x)'
    BY <1>5, <1>9, <2>2, <2>3 DEF OrderInv
  <2>6. WrittenInv(o, x)'
    <3>1. CASE o = s
      BY <1>5, <1>9, <3>1, <2>2 DEF WrittenInv
    <3>2. CASE o # s
      BY <1>5, <1>9, <3>2, <2>2 DEF WrittenInv
    <3>. QED  BY <3>1, <3>2
  <2>7. held[o] # 0 => ToCome(o)'
    <3>1. ASSUME held[o] # 0 PROVE o # s /\ (ToCome(o) \/ ScalesOut)
      BY <1>7, <1>9, <1>13, <2>1, <3>1 DEF SyncInv
    <3>2. ~ScalesOut
      <4>1. js[Len(js)].do = "remove"
        BY <1>4 DEF Files, Removes, ToRemove
      <4>. QED  BY <1>1, <4>1 DEF ScalesOut
    <3>3. held[o] # 0 => o # s /\ ToCome(o)
      BY <3>1, <3>2
    <3>. QED  BY <1>5, <1>9, <3>3 DEF ToCome
  <2>8. o = Me'.order.sym /\ x = Me'.order.thesis
    BY <1>5, <2>1
  <2>. QED  BY <1>5, <2>4, <2>5, <2>6, <2>7, <2>8
<1>14. SyncInv'
  <2>1. Me'.phase # "none" /\ Me'.jobs = tl
    BY <1>5, <1>7 DEF SyncInv
  <2>. QED  BY <1>5, <1>10, <1>11, <1>12, <1>13, <2>1 DEF SyncInv
<1>15. ScannerInv'
  BY <1>5, <1>14 DEF ScannerInv
<1>. QED
  BY <1>5, <1>6, <1>9, <1>15, ThreadMoves, Constants, LedgerAssumption

\* A request changes the file, or files and removes the thesis of what it closed.
LEMMA SaveRequestKeeps ==
  ASSUME TypeInv, LedgerInv, file # Torn, NEW t \in Requesters, Save(t),
         thread[t].jobs[1].do # "store"
  PROVE  LedgerInv'
<1>1. t \in Threads /\ t # Scanner /\ RequestInv(t)
  BY LedgerAssumption DEF LedgerInv, Threads
<1>2. PICK js \in Seq(Job) : js = thread[t].jobs
  BY <1>1 DEF TypeInv, Thread, ThreadType
<1>3. /\ UNCHANGED <<broker, held, working, trades, memory, orders>>
      /\ \A u \in Threads \ {t} : thread[u] = Resting
      /\ js # <<>> /\ Busy(t) /\ file' = Written(js[1], file)
      /\ thread'[t].copy = None
      /\ thread[t].at = "rest" /\ Tail(js) = <<>> => thread'[t] = Resting
      /\ Tail(js) # <<>> => thread'[t].at = thread[t].at /\ thread'[t].jobs = Tail(js)
  BY <1>1, <1>2, SaveHand
<1>4. PICK r : Moves(t, r)
  BY <1>1, SaveHand
<1>5. StoreInv'
  BY <1>1, StoreIsKept
<1>6. thread[t].at = "rest" /\ (js = <<ToChange>> \/ Files(js) \/ Removes(js))
  BY <1>1, <1>2, <1>3 DEF RequestInv
<1>7. \A u \in Symbols : ~After(u)
  BY <1>1, <1>3, Constants DEF After, Me, Resting
<1>8. \A u \in Symbols : After(u) => After(u)'
  BY <1>7
<1>9. PICK s : s = js[Len(js)].sym
  OBVIOUS
<1>10. CASE js = <<ToChange>>
  <2>1. js[1] = ToChange /\ Tail(js) = <<>>
    BY <1>10
  <2>2. file' = file
    BY <1>3, <2>1 DEF Written, ToChange
  <2>3. EntriesInv' /\ \A u \in Symbols : SymbolInv(u)'
    BY <1>3, <1>8, <2>2, BooksStay DEF LedgerInv
  <2>. QED  BY <1>1, <1>3, <1>4, <1>5, <1>6, <2>1, <2>3, RestsThen, ThreadMoves
<1>11. CASE Removes(js)
  <2>1. EntriesInv' /\ (\A u \in Symbols : SymbolInv(u)') /\ Tail(js) = <<>>
    BY <1>3, <1>8, <1>9, <1>11, RemovesNext
  <2>. QED  BY <1>1, <1>3, <1>4, <1>5, <1>6, <2>1, RestsThen, ThreadMoves
<1>12. CASE Files(js)
  <2>1. /\ s \in Symbols /\ held[s] = 0 /\ Unfiled(s)' = {}
        /\ EntriesInv' /\ \A u \in Symbols : SymbolInv(u)'
    BY <1>3, <1>8, <1>9, <1>12, FilesNext
  <2>2. PICK job : job = ToRemove(s)
    OBVIOUS
  <2>3. RemoveInv(job)' /\ job.do = "remove"
    BY <1>3, <2>1, <2>2 DEF RemoveInv, ToRemove
  <2>4. js[2] = job
    <3>1. Len(js) = 2 /\ js[2] = ToRemove(js[1].sym)
      BY <1>12 DEF Files
    <3>2. ToRemove(js[1].sym).sym = js[1].sym
      BY DEF ToRemove
    <3>. QED  BY <1>9, <2>2, <3>1, <3>2
  <2>5. PICK tl : tl = Tail(js)
    OBVIOUS
  <2>6. tl # <<>> /\ Len(tl) = 1 /\ tl[1] = job
    BY <1>3, <1>12, <2>4, <2>5, TailOfFew DEF Files
  <2>7. Removes(tl)'
    BY <2>3, <2>6 DEF Removes
  <2>8. thread'[t].at = "rest" /\ thread'[t].jobs = tl
    BY <1>3, <1>6, <2>5, <2>6
  <2>9. Removes(thread[t].jobs)'
    BY <2>7, <2>8
  <2>10. RequestInv(t)' /\ CopyInv(t)'
    BY <1>1, <1>3, <2>8, <2>9 DEF RequestInv, CopyInv
  <2>. QED  BY <1>1, <1>3, <1>4, <1>5, <2>1, <2>10, ThreadMoves
<1>. QED
  BY <1>6, <1>10, <1>11, <1>12

LEMMA SaveKeeps ==
  ASSUME TypeInv, LedgerInv, file # Torn, NEW t \in Threads, Save(t)
  PROVE  LedgerInv'
<1>1. CASE thread[t].jobs[1].do = "store"
  BY <1>1, SaveStoreKeeps
<1>2. CASE thread[t].jobs[1].do # "store" /\ t \in Requesters
  BY <1>2, SaveRequestKeeps
<1>3. CASE Me.jobs[1].do # "store" /\ t = Scanner
  <2>1. ScannerInv /\ Me.jobs # <<>>
    BY <1>3, SaveHand DEF LedgerInv, Me
  <2>2. CASE Me.at = "scale-outs"
    BY <1>3, <2>1, <2>2, SaveScaleOutKeeps, SaveDropKeeps DEF ScannerInv, SyncInv
  <2>3. Me.at \in {"rest", "list", "scale-outs"}
    BY <2>1 DEF ScannerInv, DecideInv
  <2>. QED  BY <1>3, <2>2, <2>3, SaveRestKeeps, SaveListKeeps
<1>. QED
  BY <1>1, <1>2, <1>3 DEF Threads, Me

-----------------------------------------------------------------------------
(* Torn files.                                                             *)

LEMMA TornIsNoBook == Torn \notin Books
<1>1. SUFFICES ASSUME Torn \in Books PROVE FALSE
  OBVIOUS
<1>2. DOMAIN Torn = {"active", "closed"} /\ DOMAIN Torn = {"torn"}
  BY <1>1 DEF Books, Torn
<1>3. "torn" \notin {"active", "closed"}
  OBVIOUS
<1>. QED
  BY <1>2, <1>3

\* What a thread holds that did not load it in this step.
Empties(t) == thread'[t] = thread[t] \/ thread'[t].copy = None

LEMMA EmptyHand ==
  ASSUME TypeInv, NEW t \in Threads, NEW r, Moves(t, r), r.copy = None
  PROVE  \A u \in Threads : Empties(u)
BY DEF Moves, TypeInv, Empties

LEMMA ScanEmpties ==
  ASSUME TypeInv, Scan
  PROVE  \A u \in Threads : Empties(u)
<1>1. Resting.copy = None /\ Me \in ThreadType /\ (Me.jobs = <<>> => Me.copy = None)
  BY MeIsThread DEF Resting, Thread
<1>2. CASE BeginScan \/ Hold \/ Lose
  BY <1>1, <1>2, EmptyHand, Constants DEF BeginScan, Hold, Lose, Resting
<1>3. CASE ListTheses \/ Record
  BY <1>1, <1>3, EmptyHand, Constants DEF ListTheses, Record, At, Me, ThreadType
<1>4. CASE FileScaleOut
  BY <1>1, <1>4, EmptyHand, Constants DEF FileScaleOut, At, Me, ThreadType
<1>5. CASE DropStale
  BY <1>1, <1>5, EmptyHand, Constants DEF DropStale, At, Me, ThreadType
<1>6. CASE Synchronised
  BY <1>1, <1>6, EmptyHand, Constants DEF Synchronised, At, Me, ThreadType, Resting
<1>7. CASE \E s \in Symbols : MoveStop(s)
  BY <1>1, <1>7, EmptyHand, Constants DEF MoveStop, Resting
<1>8. ASSUME NEW s, NEW d, NEW x, Order(s, d, x) PROVE \A u \in Threads : Empties(u)
  BY <1>1, <1>8, EmptyHand, Constants DEF Order, At, Me, ThreadType
<1>. QED
  BY <1>2, <1>3, <1>4, <1>5, <1>6, <1>7, <1>8 DEF Scan, Signal, Exit, ScaleOut

LEMMA RequestEmpties ==
  ASSUME TypeInv, NEW t \in Requesters,
         \/ Handle(t) \/ Backfill(t) \/ ChangeState(t)
         \/ \E s \in Symbols : ClosePosition(t, s)
  PROVE  \A u \in Threads : Empties(u)
<1>1. /\ Resting.copy = None /\ t \in Threads /\ thread[t] \in ThreadType
      /\ thread[t].jobs = <<>> => thread[t].copy = None
  BY DEF Resting, Threads, TypeInv, Thread
<1>2. CASE RecordClose(t)
  BY <1>1, <1>2, EmptyHand DEF RecordClose, At, ThreadType
<1>3. CASE FileClose(t) \/ RequestFails(t)
  BY <1>1, <1>3, EmptyHand DEF FileClose, RequestFails, Resting
<1>4. CASE ListBackfilled(t)
  BY <1>1, <1>4, EmptyHand DEF ListBackfilled, At, ThreadType
<1>5. CASE Recover(t)
  BY <1>1, <1>5, EmptyHand DEF Recover, At, ThreadType
<1>6. CASE Backfill(t) \/ ChangeState(t)
  BY <1>1, <1>6, EmptyHand DEF Backfill, ChangeState, Resting
<1>7. CASE \E s \in Symbols : ClosePosition(t, s)
  BY <1>1, <1>7, EmptyHand DEF ClosePosition, Resting
<1>. QED
  BY <1>2, <1>3, <1>4, <1>5, <1>6, <1>7 DEF Handle

LEMMA SaveOfTorn ==
  ASSUME TypeInv, TornInv, NEW t \in Threads, Save(t)
  PROVE  TornInv' /\ (file = Torn => file' = Torn)
<1>1. thread[t].copy # None /\ thread[t] \in Thread /\ thread[t].jobs # <<>> /\ thread[t].jobs \in Seq(Job)
  BY DEF Save, TypeInv, Thread, ThreadType
<1>2. PICK job \in Job : job = Head(thread[t].jobs)
  BY <1>1, HeadTailProperties
<1>3. /\ Resting.copy = None
      /\ [thread[t] EXCEPT !.jobs = Tail(@), !.copy = None].copy = None
  BY <1>1 DEF Resting, Thread, ThreadType
<1>4. \A u \in Threads : Empties(u)
  BY <1>3, EmptyHand DEF Save
<1>5. CASE file = Torn
  <2>1. file' = file
    BY <1>1, <1>2, <1>5 DEF Save, TornInv
  <2>. QED  BY <1>4, <1>5, <2>1 DEF TornInv, Empties
<1>6. CASE file # Torn
  <2>1. file' # Torn
    <3>1. CASE job.do = "store"
      BY <1>2, <1>6, <3>1 DEF Save
    <3>2. CASE job.do # "store"
      <4>1. file' = Written(job, thread[t].copy) /\ thread[t].copy \in Books
        BY <1>1, <1>2, <3>2 DEF Save, Thread
      <4>2. Written(job, thread[t].copy) \in Books
        BY <3>2, <4>1, WrittenType
      <4>. QED  BY <4>1, <4>2, TornIsNoBook
    <3>. QED  BY <3>1, <3>2
  <2>. QED  BY <1>6, <2>1 DEF TornInv
<1>. QED
  BY <1>5, <1>6

LEMMA LoadOfTorn ==
  ASSUME TypeInv, TornInv, NEW t \in Threads, Load(t)
  PROVE  TornInv' /\ file' = file
<1>1. file' = file
  BY DEF Load
<1>2. thread[t] \in ThreadType /\ Resting.copy = None
  BY DEF TypeInv, Thread, Resting
<1>3. PICK job : job = Head(thread[t].jobs)
  OBVIOUS
<1>4. ASSUME file = Torn PROVE TornInv'
  <2>1. CASE job.do # "store"
    <3>1. Moves(t, Resting)
      BY <1>3, <1>4, <2>1 DEF Load
    <3>2. \A u \in Threads : Empties(u)
      BY <1>2, <3>1, EmptyHand
    <3>. QED  BY <1>1, <1>4, <3>2 DEF TornInv, Empties
  <2>2. CASE job.do = "store"
    <3>1. Moves(t, [thread[t] EXCEPT !.copy = stored])
      BY <1>3, <2>2 DEF Load
    <3>2. thread'[t].jobs = thread[t].jobs /\ \A u \in Threads \ {t} : thread'[u] = thread[u]
      BY <1>2, <3>1 DEF Moves, TypeInv, ThreadType
    <3>. QED  BY <1>1, <1>3, <1>4, <2>2, <3>2 DEF TornInv
  <2>. QED  BY <2>1, <2>2
<1>. QED
  BY <1>1, <1>4 DEF TornInv

\* A file that is torn stays so: nobody writes over it.
LEMMA TornStays ==
  ASSUME TypeInv, TornInv, Next
  PROVE  TornInv' /\ (file = Torn => file' = Torn)
<1>1. CASE Scan
  <2>1. file' = file
    BY <1>1 DEF Scan, BeginScan, ListTheses, FileScaleOut, DropStale, Synchronised, Hold, Lose,
                Record, MoveStop, Signal, Exit, ScaleOut, Order
  <2>2. \A u \in Threads : Empties(u)
    BY <1>1, ScanEmpties
  <2>. QED  BY <2>1, <2>2 DEF TornInv, Empties
<1>2. CASE \E t \in Requesters : \/ Handle(t) \/ Backfill(t) \/ ChangeState(t)
                                 \/ \E s \in Symbols : ClosePosition(t, s)
  <2>1. file' = file
    BY <1>2 DEF Handle, RecordClose, FileClose, ListBackfilled, Recover, RequestFails, Backfill,
                ChangeState, ClosePosition
  <2>2. \A u \in Threads : Empties(u)
    BY <1>2, RequestEmpties
  <2>. QED  BY <2>1, <2>2 DEF TornInv, Empties
<1>3. CASE \E t \in Threads : Write(t)
  BY <1>3, SaveOfTorn, LoadOfTorn DEF Write
<1>4. CASE (\E s \in Symbols : Fill(s)) \/ Age
  BY <1>4 DEF Fill, Age, TornInv
<1>5. CASE Crash
  <2>1. \A t \in Threads : thread'[t].copy = None
    BY <1>5 DEF Crash, Resting
  <2>. QED  BY <1>5, <2>1 DEF Crash, TornInv
<1>. QED
  BY <1>1, <1>2, <1>3, <1>4, <1>5 DEF Next, Threads

\* The broker is the one it was, and what disturbs the books stays.
LEMMA DisturbedStays ==
  ASSUME Next
  PROVE  broker' = broker /\ (~overlapped' => ~overlapped) /\ (~orphaned' => ~orphaned)
<1>. USE DEF UnchangedByThreads, Begins, Request
<1>1. CASE Scan
  <2>1. broker' = broker
    BY <1>1 DEF Scan, BeginScan, ListTheses, FileScaleOut, DropStale, Synchronised, Hold, Lose,
                Record, MoveStop, Signal, Exit, ScaleOut, Order
  <2>2. CASE BeginScan
    BY <2>1, <2>2 DEF BeginScan
  <2>3. CASE \E s \in Symbols : Signal(s) \/ Exit(s) \/ ScaleOut(s)
    <3>1. PICK s, d, x : Order(s, d, x)
      BY <2>3 DEF Signal, Exit, ScaleOut
    <3>2. ~orphaned' => ~orphaned
      BY <3>1 DEF Order
    <3>. QED  BY <2>1, <3>1, <3>2 DEF Order
  <2>4. CASE UNCHANGED <<overlapped, orphaned>>
    BY <2>1, <2>4
  <2>. QED  BY <1>1, <2>2, <2>3, <2>4 DEF Scan, ListTheses, FileScaleOut, DropStale,
               Synchronised, Hold, Lose, Record, MoveStop
<1>2. CASE \E t \in Requesters : Handle(t)
  <2>1. UNCHANGED <<broker, overlapped, orphaned>>
    BY <1>2 DEF Handle, RecordClose, FileClose, ListBackfilled, Recover, RequestFails
  <2>. QED  BY <2>1
<1>3. ASSUME NEW t, NEW s, Backfill(t) \/ ChangeState(t) \/ ClosePosition(t, s)
      PROVE  broker' = broker /\ (~overlapped' => ~overlapped) /\ (~orphaned' => ~orphaned)
  <2>1. broker' = broker
    BY <1>3 DEF Backfill, ChangeState, ClosePosition
  <2>2. ~overlapped' => ~overlapped
    BY <1>3 DEF Backfill, ChangeState, ClosePosition
  <2>3. ~orphaned' => ~orphaned
    BY <1>3 DEF Backfill, ChangeState, ClosePosition
  <2>. QED  BY <2>1, <2>2, <2>3
<1>4. CASE \E t \in Threads : Write(t)
  <2>1. UNCHANGED <<broker, overlapped, orphaned>>
    BY <1>4 DEF Write, Load, Save
  <2>. QED  BY <2>1
<1>5. CASE \E s \in Symbols : Fill(s)
  <2>1. UNCHANGED <<broker, overlapped>>
    BY <1>5 DEF Fill
  <2>2. ~orphaned' => ~orphaned
    BY <1>5 DEF Fill
  <2>. QED  BY <2>1, <2>2
<1>6. CASE Age \/ Crash
  <2>1. UNCHANGED <<broker, overlapped, orphaned>>
    BY <1>6 DEF Age, Crash
  <2>. QED  BY <2>1
<1>. QED
  BY <1>1, <1>2, <1>3, <1>4, <1>5, <1>6 DEF Next, Threads

-----------------------------------------------------------------------------
(* The books of a broker that reports its trades.                          *)

LEMMA LedgerStep ==
  ASSUME TypeInv, LedgerInv, file # Torn, broker.reports, Next,
         ~overlapped', ~orphaned'
  PROVE  LedgerInv'
<1>1. CASE Scan
  <2>1. ~Lose
    BY ReporterTraits DEF Lose, Fault
  <2>. QED  BY <1>1, <2>1, BeginScanKeeps, ListThesesKeeps, FileScaleOutKeeps, DropStaleKeeps,
               SynchronisedKeeps, HoldKeeps, RecordKeeps, MoveStopKeeps, OrdersKeep DEF Scan
<1>2. CASE \E t \in Threads : Write(t)
  BY <1>2, LoadKeeps, SaveKeeps DEF Write
<1>3. CASE \E t \in Requesters : Handle(t)
  <2>1. PICK t \in Requesters : Handle(t)
    BY <1>3
  <2>2. RequestInv(t)
    BY DEF LedgerInv
  <2>3. ~RequestFails(t) /\ ~ListBackfilled(t) /\ ~Recover(t)
    BY <2>2, ReporterTraits DEF RequestFails, Fault, ListBackfilled, Recover, At, RequestInv
  <2>. QED  BY <2>1, <2>3, RecordCloseKeeps, FileCloseKeeps DEF Handle
<1>4. CASE \E t \in Requesters : \/ Backfill(t) \/ ChangeState(t)
                                 \/ \E s \in Symbols : ClosePosition(t, s)
  <2>1. \A t \in Requesters : ~Backfill(t)
    BY ReporterTraits DEF Backfill, Request
  <2>. QED  BY <1>4, <2>1, ChangeStateKeeps, ClosePositionKeeps
<1>5. CASE \E s \in Symbols : Fill(s)
  BY <1>5 DEF Fill, LedgerInv, SymbolInv
<1>6. CASE Age
  BY <1>6, AgeKeeps
<1>7. CASE Crash
  BY <1>7, ReporterTraits DEF Crash, Fault
<1>. QED
  BY <1>1, <1>2, <1>3, <1>4, <1>5, <1>6, <1>7 DEF Next, Threads

LEMMA LedgerStutter ==
  ASSUME TypeInv, LedgerInv, UNCHANGED vars
  PROVE  LedgerInv'
<1>1. UNCHANGED <<broker, held, working, trades, stored, file, memory, thread, orders>> /\ Me' = Me
  BY DEF vars, Me
<1>2. AloneInv' /\ EntriesInv' /\ StoreInv'
  BY <1>1, FilesStay DEF LedgerInv, AloneInv, Busy, EntriesInv, StoreInv, Behind
<1>3. \A s \in Symbols : After(s)' = After(s)
  BY <1>1 DEF After
<1>4. \A s \in Symbols : SymbolInv(s)'
  BY <1>1, <1>3, BooksStay DEF LedgerInv
<1>5. ScannerInv'
  BY <1>1, ScannerStays DEF LedgerInv
<1>6. ASSUME NEW t \in Threads PROVE CopyInv(t)'
  <2>1. CopyInv(t) /\ Ledger' = Ledger
    BY <1>1, FilesStay DEF LedgerInv
  <2>. QED  BY <1>1, <2>1 DEF CopyInv
<1>7. ASSUME NEW t \in Requesters PROVE RequestInv(t)'
  <2>1. t \in Threads /\ RequestInv(t)
    BY DEF LedgerInv, Threads
  <2>2. CASE Busy(t)
    BY <1>1, <2>1, <2>2, RequestStays
  <2>3. CASE ~Busy(t)
    BY <1>1, <2>1, <2>3, RestsThen DEF Busy
  <2>. QED  BY <2>2, <2>3
<1>. QED
  BY <1>2, <1>4, <1>5, <1>6, <1>7 DEF LedgerInv

LEMMA InvHolds == Spec => []Inv
<1>1. Init => Inv
  <2> SUFFICES ASSUME Init PROVE Inv
    OBVIOUS
  <2>1. TornInv
    BY DEF Init, TornInv, Resting
  <2>. QED  BY <2>1, LedgerInit DEF Inv
<1>2. TypeInv /\ Inv /\ [Next]_vars => Inv'
  <2> SUFFICES ASSUME TypeInv, Inv, [Next]_vars PROVE Inv'
    OBVIOUS
  <2>1. CASE Next
    <3>1. TornInv' /\ (file = Torn => file' = Torn)
      BY <2>1, TornStays DEF Inv
    <3>2. ASSUME Undisturbed', broker'.reports PROVE LedgerInv'
      <4>1. ~overlapped' /\ ~orphaned' /\ file' # Torn
        BY <3>2 DEF Undisturbed
      <4>2. broker.reports /\ ~overlapped /\ ~orphaned /\ file # Torn
        BY <2>1, <3>1, <3>2, <4>1, DisturbedStays
      <4>3. LedgerInv
        BY <4>2 DEF Inv, Undisturbed
      <4>. QED  BY <2>1, <4>1, <4>2, <4>3, LedgerStep
    <3>. QED  BY <3>1, <3>2 DEF Inv
  <2>2. CASE UNCHANGED vars
    <3>1. TornInv' /\ Undisturbed' = Undisturbed /\ broker' = broker
      BY <2>2 DEF vars, Inv, TornInv, Undisturbed
    <3>. QED  BY <2>2, <3>1, LedgerStutter DEF Inv
  <2>. QED  BY <2>1, <2>2
<1>. QED
  BY <1>1, <1>2, TypeInvHolds, PTL DEF Spec

\* With a broker that reports its trades, a thesis is filed as closed under one
\* trade only, for as long as the process lives that the broker is an object of
\* (_sync_trade_thesis_state, close_position): what has been filed has no trade
\* left to be filed under, so that it can only be removed.
THEOREM ThesesAreFiledOnce == Spec => []FiledOnce
<1>1. Inv => FiledOnce
  BY DEF Inv, LedgerInv, EntriesInv, FiledOnce
<1>. QED
  BY <1>1, InvHolds, PTL
-----------------------------------------------------------------------------
(* Every trade is filed. The broker's trades now follow each other at more *)
(* than the window within which the merge takes two for one.               *)

\* No two of the set are taken for one.
ToldApart(S) == \A x, y \in S : Match(x, y) => x = y

\* A merge then loses no trade either.
LEMMA TakeKeeps ==
  ASSUME NEW S, ToldApart(S), NEW s \in Seq(S), NEW trade \in S
  PROVE  /\ \E k \in DOMAIN Take(s, trade) : Take(s, trade)[k] = trade
         /\ \A i \in DOMAIN s : \E k \in DOMAIN Take(s, trade) : Take(s, trade)[k] = s[i]
<1> DEFINE twins == {i \in DOMAIN s : Match(s[i], trade)}
           first == CHOOSE i \in twins : \A j \in twins : i <= j
<1>1. DOMAIN s = 1..Len(s) /\ Len(s) \in Nat /\ \A i \in DOMAIN s : s[i] \in S
  BY LenProperties, ElementOfSeq
<1>2. CASE twins = {}
  <2>1. Take(s, trade) = Append(s, trade)
    BY <1>2 DEF Take
  <2>2. /\ Append(s, trade) \in Seq(S) /\ Len(Append(s, trade)) = Len(s) + 1
        /\ \A i \in 1..Len(s) : Append(s, trade)[i] = s[i]
        /\ Append(s, trade)[Len(s) + 1] = trade
    BY AppendProperties
  <2>3. DOMAIN Append(s, trade) = 1..(Len(s) + 1)
    BY <2>2, LenProperties
  <2>4. Len(s) + 1 \in 1..(Len(s) + 1) /\ 1..Len(s) \subseteq 1..(Len(s) + 1)
    BY <1>1
  <2>. QED  BY <1>1, <2>1, <2>2, <2>3, <2>4
<1>3. CASE twins # {}
  <2>1. twins \subseteq Nat /\ twins \subseteq 1..Len(s)
    BY <1>1
  <2>2. \E i \in twins : \A j \in twins : i <= j
    <3> HIDE DEF twins
    <3>. QED  BY <1>3, <2>1, LeastNat
  <2>3. first \in twins
    <3> HIDE DEF twins
    <3>. QED  BY <2>2
  <2>4. first \in DOMAIN s /\ s[first] = trade
    BY <1>1, <2>3 DEF ToldApart
  <2>5. Take(s, trade) = [s EXCEPT ![first] = Prefer(s[first], trade)]
    BY <1>3 DEF Take
  <2> HIDE DEF first, twins
  <2>6. Prefer(s[first], trade) = s[first]
    BY <2>4 DEF Prefer
  <2>7. Take(s, trade) = s
    BY <1>1, <2>5, <2>6
  <2>. QED  BY <2>4, <2>7
<1>. QED
  BY <1>2, <1>3

LEMMA TakenFromKeeps ==
  ASSUME NEW S, ToldApart(S), NEW s \in Seq(S)
  PROVE  \A i \in DOMAIN s : \E k \in DOMAIN TakenFrom(s) : TakenFrom(s)[k] = s[i]
<1>1. PICK f \in [0..Len(s) -> Seq(S)] :
           /\ f[0] = <<>>
           /\ \A n \in 1..Len(s) : f[n] = Take(f[n - 1], s[n])
           /\ TakenFrom(s) = f[Len(s)]
  BY TakenFromStepwise
<1> DEFINE N == Len(s)
           Has(n) == \A i \in 1..n : \E k \in DOMAIN f[n] : f[n][k] = s[i]
           G == {n \in Nat : n \in 0..N => Has(n)}
<1>2. N \in Nat /\ DOMAIN s = 1..N /\ \A n \in 1..N : s[n] \in S
  BY LenProperties, ElementOfSeq
<1> HIDE DEF N
<1>3. 0 \in G
  OBVIOUS
<1>4. ASSUME NEW n \in Nat, n \in G PROVE n + 1 \in G
  <2>1. SUFFICES ASSUME n + 1 \in 0..N PROVE Has(n + 1)
    OBVIOUS
  <2>2. n + 1 \in 1..N /\ n \in 0..N /\ (n + 1) - 1 = n
    BY <1>2, <2>1
  <2>3. f[n] \in Seq(S) /\ s[n + 1] \in S /\ f[n + 1] = Take(f[n], s[n + 1]) /\ Has(n)
    BY <1>1, <1>2, <1>4, <2>2 DEF N
  <2>4. SUFFICES ASSUME NEW i \in 1..(n + 1) PROVE \E k \in DOMAIN f[n + 1] : f[n + 1][k] = s[i]
    OBVIOUS
  <2>5. CASE i = n + 1
    BY <2>3, <2>5, TakeKeeps
  <2>6. CASE i # n + 1
    <3>1. i \in 1..n
      BY <2>6
    <3>2. PICK k \in DOMAIN f[n] : f[n][k] = s[i]
      BY <2>3, <3>1
    <3>3. \E j \in DOMAIN f[n + 1] : f[n + 1][j] = f[n][k]
      BY <2>3, TakeKeeps
    <3>. QED  BY <3>2, <3>3
  <2>. QED  BY <2>5, <2>6
<1>5. Nat \subseteq G
  <2> HIDE DEF G
  <2>. QED  BY <1>3, <1>4, AllNat
<1>6. Has(N)
  BY <1>2, <1>5
<1>. QED
  BY <1>1, <1>2, <1>6 DEF N

\* When no two trades match, each trade of a portfolio that is saved is in the store
\* afterwards, whatever the store had (_merge_closed_trades).
THEOREM MergeKeeps ==
  ASSUME NEW S, ToldApart(S), NEW a \in Seq(S), NEW b \in Seq(S)
  PROVE  \A i \in DOMAIN b : \E k \in DOMAIN Merge(a, b) : Merge(a, b)[k] = b[i]
<1>1. CASE a = <<>>
  BY <1>1 DEF Merge
<1>2. CASE b = <<>>
  BY <1>2
<1>3. CASE a # <<>> /\ b # <<>>
  <2> DEFINE all == NewestFirst(a \o b)
             taken == TakenFrom(all)
  <2>1. a \o b \in Seq(S) /\ all \in Seq(S)
    BY ConcatProperties, NewestFirstIsIn
  <2>2. \A i \in DOMAIN b : \E k \in DOMAIN (a \o b) : (a \o b)[k] = b[i]
    <3>1. /\ Len(a \o b) = Len(a) + Len(b) /\ Len(a) \in Nat /\ Len(b) \in Nat
          /\ \A i \in 1..(Len(a) + Len(b)) :
               (a \o b)[i] = IF i <= Len(a) THEN a[i] ELSE b[i - Len(a)]
          /\ DOMAIN b = 1..Len(b) /\ DOMAIN (a \o b) = 1..(Len(a) + Len(b))
      BY <2>1, LenProperties, ConcatProperties
    <3> SUFFICES ASSUME NEW i \in DOMAIN b PROVE (a \o b)[Len(a) + i] = b[i] /\ Len(a) + i \in DOMAIN (a \o b)
      OBVIOUS
    <3>2. i \in 1..Len(b) /\ ~(Len(a) + i <= Len(a)) /\ (Len(a) + i) - Len(a) = i
          /\ Len(a) + i \in 1..(Len(a) + Len(b))
      BY <3>1
    <3>. QED  BY <3>1, <3>2
  <2>3. \A i \in DOMAIN (a \o b) : \E k \in DOMAIN all : all[k] = (a \o b)[i]
    BY <2>1, NewestFirstKeeps
  <2> HIDE DEF all
  <2>4. \A i \in DOMAIN all : \E k \in DOMAIN taken : taken[k] = all[i]
    BY <2>1, TakenFromKeeps
  <2>5. taken \in Seq(S)
    <3>1. PICK f \in [0..Len(all) -> Seq(S)] : TakenFrom(all) = f[Len(all)]
      BY <2>1, TakenFromStepwise
    <3>2. Len(all) \in 0..Len(all)
      BY <2>1, LenProperties
    <3>. QED  BY <3>1, <3>2
  <2>6. Merge(a, b) = NewestFirst(taken)
    <3>1. {TakenFrom(x) : x \in {NewestFirst(a \o b)}} = {taken}
      BY DEF all
    <3> HIDE DEF taken
    <3>2. {NewestFirst(x) : x \in {taken}} = {NewestFirst(taken)}
      OBVIOUS
    <3>3. (CHOOSE merged \in {NewestFirst(taken)} : TRUE) = NewestFirst(taken)
      OBVIOUS
    <3>. QED  BY <1>3, <3>1, <3>2, <3>3 DEF Merge
  <2> HIDE DEF taken
  <2>7. \A i \in DOMAIN taken : \E k \in DOMAIN NewestFirst(taken) : NewestFirst(taken)[k] = taken[i]
    BY <2>5, NewestFirstKeeps
  <2>. QED  BY <2>2, <2>3, <2>4, <2>6, <2>7
<1>. QED
  BY <1>1, <1>2, <1>3

-----------------------------------------------------------------------------

\* Trades are so far apart that only the same are alike.
Spaced == \A i, j \in DOMAIN trades : i < j => trades[i].at + broker.pace <= trades[j].at

\* The thesis was made before the trades that are still to be filed closed.
Older(s, thesis) == \A i \in Unfiled(s) : thesis.since <= trades[i].at

HasAll(list) == \A i \in DOMAIN trades : \E k \in DOMAIN list : list[k] = trades[i]

EntriesDated == \A e \in file.closed : e.thesis.since <= e.at

\* A trade that is still to be filed has a thesis to be filed with.
WaitingInv(s) ==
    /\ Unfiled(s) # {} => file.active[s] # None
    /\ Older(s, file.active[s]) /\ Older(s, memory[s])

\* A portfolio that is fresh has all trades, once what they led to is stored.
FreshInv == stored.fresh /\ (\A t \in Threads : ~Behind(t)) => HasAll(stored.trades)

OnOrder(r) == r.at = "sent" \/ (r.at \in {"list", "scale-outs"} /\ r.phase = "after")

\* What a thread works on has all trades, its theses are older than the trades it
\* files them under, and it removes none that a trade waits for.
HandInv(r) ==
    /\ r.at \in {"list", "scale-outs"} => HasAll(r.view.trades)
    /\ OnOrder(r) => Older(r.order.sym, r.order.thesis)
    /\ r.jobs # <<>> /\ r.jobs[1].do = "store" => HasAll(r.jobs[1].view.trades)
    /\ \A j \in DOMAIN r.jobs :
         r.jobs[j].do = "archive" => r.jobs[j].thesis.since <= r.jobs[j].trade.at
    /\ Len(r.jobs) = 1 /\ r.jobs[1].do = "remove" => Unfiled(r.jobs[1].sym) = {}

FilingInv ==
    /\ Spaced /\ EntriesDated /\ FreshInv
    /\ \A s \in Symbols : WaitingInv(s)
    /\ \A t \in Threads : HandInv(thread[t])

LEMMA RestHasNothing == HandInv(Resting)
<1>1. Resting.at = "rest" /\ Resting.jobs = <<>>
  BY DEF Resting
<1>2. Len(<<>>) = 0 /\ DOMAIN <<>> = {}
  OBVIOUS
<1>. QED
  BY <1>1, <1>2 DEF HandInv, OnOrder

\* The same, when the broker's trades and the file are.
LEMMA TradesStay ==
  ASSUME UNCHANGED <<broker, trades, file>>
  PROVE  /\ Spaced' = Spaced /\ EntriesDated' = EntriesDated
         /\ \A s : Unfiled(s)' = Unfiled(s)
         /\ \A s, x : Older(s, x)' = Older(s, x)
         /\ \A l : HasAll(l)' = HasAll(l)
         /\ \A r : HandInv(r)' = HandInv(r)
<1>1. Spaced' = Spaced /\ EntriesDated' = EntriesDated
  BY DEF Spaced, EntriesDated
<1>2. \A s : Unfiled(s)' = Unfiled(s)
  BY DEF Unfiled
<1>3. \A s, x : Older(s, x)' = Older(s, x)
  BY <1>2 DEF Older
<1>4. \A l : HasAll(l)' = HasAll(l)
  BY DEF HasAll
<1>5. \A r : HandInv(r)' = HandInv(r)
  BY <1>2, <1>3, <1>4 DEF HandInv
<1>. QED
  BY <1>1, <1>2, <1>3, <1>4, <1>5

\* A step of a thread that files nothing and takes no trade.
LEMMA HandFiles ==
  ASSUME TypeInv, FilingInv, NEW t \in Threads, NEW r, Moves(t, r), HandInv(r),
         \A u \in Threads \ {t} : thread[u] = Resting,
         UNCHANGED <<broker, trades, stored, file>>,
         Behind(t) => Behind(t)',
         \A s \in Symbols : Older(s, memory'[s])
  PROVE  FilingInv'
<1>1. thread'[t] = r /\ \A u \in Threads \ {t} : thread'[u] = thread[u]
  BY DEF Moves, TypeInv
<1>2. Spaced' /\ EntriesDated'
  BY TradesStay DEF FilingInv
<1>3. FreshInv'
  <2>1. \A u \in Threads : Behind(u) => Behind(u)'
    BY <1>1 DEF Behind
  <2>2. HasAll(stored.trades)' = HasAll(stored.trades)
    BY DEF HasAll
  <2>. QED  BY <2>1, <2>2 DEF FilingInv, FreshInv
<1>4. ASSUME NEW s \in Symbols PROVE WaitingInv(s)'
  <2>1. PICK x, y : x = file.active[s] /\ x = file'.active[s] /\ y = memory'[s]
    OBVIOUS
  <2>2. Older(s, x) /\ Older(s, y) /\ (Unfiled(s) # {} => x # None)
    BY <2>1 DEF FilingInv, WaitingInv
  <2>3. Older(s, x)' /\ Older(s, y)' /\ (Unfiled(s)' # {} => x # None)
    BY <2>2, TradesStay
  <2>. QED  BY <2>1, <2>3 DEF WaitingInv
<1>5. ASSUME NEW u \in Threads PROVE HandInv(thread[u])'
  <2>1. PICK x : x = thread'[u]
    OBVIOUS
  <2>2. HandInv(x)
    BY <1>1, <2>1 DEF FilingInv
  <2>3. HandInv(x)'
    BY <2>2, TradesStay
  <2>. QED  BY <2>1, <2>3
<1>. QED
  BY <1>2, <1>3, <1>4, <1>5 DEF FilingInv

LEMMA FilingInit ==
  ASSUME Init
  PROVE  FilingInv
<1>1. /\ trades = <<>> /\ DOMAIN trades = {} /\ file.closed = {} /\ ~stored.fresh
      /\ \A t \in Threads : thread[t] = Resting
  BY DEF Init
<1>2. \A s : Unfiled(s) = {}
  BY <1>1 DEF Unfiled
<1>3. Spaced /\ EntriesDated /\ FreshInv
  BY <1>1 DEF Spaced, EntriesDated, FreshInv
<1>4. \A s \in Symbols : WaitingInv(s)
  BY <1>2 DEF WaitingInv, Older
<1>. QED
  BY <1>1, <1>3, <1>4, RestHasNothing DEF FilingInv

-----------------------------------------------------------------------------
(* The steps that neither write nor trade.                                 *)

LEMMA TimesAreNat ==
  ASSUME TypeInv
  PROVE  \A i \in DOMAIN trades : trades[i].at \in Nat
<1>1. trades \in Seq(Trade)
  BY DEF TypeInv, BrokerInv
<1>2. DOMAIN trades = 1..Len(trades) /\ Len(trades) \in Nat
  BY <1>1, LenProperties
<1>3. \A i \in 1..Len(trades) : trades[i] \in Trade
  BY <1>1, ElementOfSeq
<1>. QED
  BY <1>2, <1>3 DEF Trade

\* No position's thesis changes.
LEMMA SameMemory ==
  ASSUME FilingInv, memory' = memory
  PROVE  \A s \in Symbols : Older(s, memory'[s])
BY DEF FilingInv, WaitingInv

LEMMA BeginScanFiles ==
  ASSUME TypeInv, LedgerInv, FilingInv, broker.reports, BeginScan, ~overlapped'
  PROVE  FilingInv'
<1> DEFINE view == IF stored.fresh THEN [stored EXCEPT !.fresh = FALSE] ELSE Reconciled
           r == [Resting EXCEPT !.at = "list", !.phase = "before", !.view = view,
                                !.jobs = <<ToStore(view)>>]
<1>1. \A t \in Threads : thread[t] = Resting
  BY DEF BeginScan, Begins, Alongside, Busy
<1>2. HasAll(view.trades)
  <2>1. CASE stored.fresh
    <3>1. \A t \in Threads : ~Behind(t)
      BY <1>1 DEF Behind, Resting
    <3>2. view.trades = stored.trades
      BY <2>1 DEF TypeInv, BooksInv, Portfolio
    <3>. QED  BY <2>1, <3>1, <3>2 DEF FilingInv, FreshInv
  <2>2. CASE ~stored.fresh
    <3>1. view.trades = trades
      BY <2>2 DEF Reconciled
    <3>. QED  BY <3>1 DEF HasAll
  <2>. QED  BY <2>1, <2>2
<1>3. Moves(Scanner, r) /\ UNCHANGED <<broker, trades, stored, file, memory>>
  BY DEF BeginScan, UnchangedByThreads
<1> HIDE DEF view
<1>4. r.at = "list" /\ r.phase = "before" /\ r.view = view /\ r.jobs = <<ToStore(view)>>
  BY DEF Resting
<1> HIDE DEF r
<1>5. HandInv(r)
  <2>1. Len(r.jobs) = 1 /\ DOMAIN r.jobs = {1} /\ r.jobs[1].do = "store" /\ r.jobs[1].view = view
    BY <1>4 DEF ToStore
  <2>. QED  BY <1>2, <1>4, <2>1 DEF HandInv, OnOrder
<1>6. ~Behind(Scanner)
  BY <1>1, Constants DEF Behind, Resting
<1>. QED
  BY <1>1, <1>3, <1>5, <1>6, SameMemory, HandFiles, Constants

LEMMA ListThesesFiles ==
  ASSUME TypeInv, LedgerInv, FilingInv, file # Torn, ListTheses
  PROVE  FilingInv'
<1> DEFINE r == [Me EXCEPT !.at = "scale-outs", !.active = file.active,
                           !.left = NewestFirst(Me.view.trades)]
<1>1. /\ Me.at = "list" /\ Me.jobs = <<>> /\ Me \in ThreadType
      /\ Moves(Scanner, r) /\ UNCHANGED <<broker, trades, stored, file, memory>>
  BY MeIsThread DEF ListTheses, At, Me, UnchangedByThreads, Thread
<1>2. /\ r.at = "scale-outs" /\ r.phase = Me.phase /\ r.view = Me.view /\ r.jobs = Me.jobs
      /\ r.order = Me.order
  BY <1>1 DEF ThreadType
<1> HIDE DEF r
<1>3. HandInv(Me)
  BY Constants DEF FilingInv, Me
<1>4. HandInv(r)
  BY <1>1, <1>2, <1>3 DEF HandInv, OnOrder
<1>5. ~Behind(Scanner) /\ \A u \in Threads \ {Scanner} : thread[u] = Resting
  BY <1>1, AtWork, Constants DEF Behind, Me
<1>. QED
  BY <1>1, <1>4, <1>5, SameMemory, HandFiles, Constants

\* The theses a scan knows are older than what is still to be filed.
LEMMA KnownIsOlder ==
  ASSUME FilingInv, SyncInv, Me.jobs = <<>>, NEW s \in Symbols
  PROVE  Older(s, Known(s)) /\ (Unfiled(s) # {} => Known(s) # None)
<1>1. Me.active[s] = file.active[s]
  BY DEF SyncInv, ActiveInv
<1>. QED
  BY <1>1 DEF FilingInv, WaitingInv, Known

LEMMA FileScaleOutFiles ==
  ASSUME TypeInv, LedgerInv, FilingInv, file # Torn, FileScaleOut
  PROVE  FilingInv'
<1>1. /\ Me.at = "scale-outs" /\ Me.jobs = <<>> /\ Me.left # <<>> /\ Me \in ThreadType
      /\ UNCHANGED <<broker, trades, stored, file>>
  BY MeIsThread DEF FileScaleOut, At, Me, UnchangedByThreads, Thread
<1>2. SyncInv
  BY <1>1 DEF LedgerInv, ScannerInv
<1>3. HandInv(Me) /\ ~Behind(Scanner) /\ \A u \in Threads \ {Scanner} : thread[u] = Resting
  BY <1>1, AtWork, Constants DEF Behind, Me, FilingInv
<1>4. PICK trade, s : trade = Head(Me.left) /\ s = Symbol(trade)
  OBVIOUS
<1>5. s \in Symbols
  <2>1. Me.left \in Seq(Trade)
    BY <1>1 DEF ThreadType
  <2>2. trade \in Trade
    BY <1>1, <1>4, <2>1
  <2>. QED  BY <1>4, <2>2, SymbolOf
<1>6. CASE IsScaleOut(trade)
  <2>1. PICK k \in Thesis : k = Known(s)
    BY <1>5, KnownType
  <2>2. PICK next : next = [k EXCEPT !.filed = @ + 1]
    OBVIOUS
  <2>3. next.since = k.since /\ Older(s, k) /\ trade.at >= k.since
    BY <1>1, <1>2, <1>4, <1>5, <1>6, <2>1, <2>2, KnownIsOlder DEF IsScaleOut, Thesis
  <2> DEFINE jobs == <<ToArchive(s, trade, k, "scaled-out"), ToUpsert(s, next)>>
             r == [Me EXCEPT !.left = Tail(@), !.active[s] = next, !.jobs = jobs]
  <2>4. memory' = [memory EXCEPT ![s] = next] /\ Moves(Scanner, r)
    BY <1>4, <1>6, <2>1, <2>2 DEF FileScaleOut
  <2>5. /\ r.at = "scale-outs" /\ r.phase = Me.phase /\ r.view = Me.view /\ r.jobs = jobs
        /\ r.order = Me.order
    BY <1>1 DEF ThreadType
  <2>6. /\ Len(jobs) = 2 /\ jobs # <<>> /\ DOMAIN jobs = {1, 2}
        /\ jobs[1].do = "archive" /\ jobs[1].thesis = k /\ jobs[1].trade = trade
        /\ jobs[2].do = "upsert"
    BY DEF ToArchive, ToUpsert
  <2> HIDE DEF jobs, r
  <2>7. k.since <= trade.at
    <3>1. trade.at \in Nat /\ k.since \in Nat
      <4>1. trade \in Trade
        BY <1>1, <1>4 DEF ThreadType
      <4>. QED  BY <4>1 DEF Trade, Thesis
    <3>. QED  BY <2>3, <3>1
  <2>8. HandInv(r)
    BY <1>1, <1>3, <2>5, <2>6, <2>7 DEF HandInv, OnOrder
  <2>9. \A u \in Symbols : Older(u, memory'[u])
    <3>1. memory \in [Symbols -> Thesis] /\ Older(s, next)
      BY <2>3, MeIsThread DEF Older
    <3>2. \A u \in Symbols : memory'[u] = IF u = s THEN next ELSE memory[u]
      BY <2>4, <3>1
    <3>. QED  BY <3>1, <3>2 DEF FilingInv, WaitingInv
  <2>. QED  BY <1>1, <1>3, <2>4, <2>8, <2>9, HandFiles, Constants
<1>7. CASE ~IsScaleOut(trade)
  <2> DEFINE r == [Me EXCEPT !.left = Tail(@)]
  <2>1. memory' = memory /\ Moves(Scanner, r)
    BY <1>4, <1>7 DEF FileScaleOut
  <2>2. /\ r.at = "scale-outs" /\ r.phase = Me.phase /\ r.view = Me.view /\ r.jobs = Me.jobs
        /\ r.order = Me.order
    BY <1>1 DEF ThreadType
  <2> HIDE DEF r
  <2>3. HandInv(r)
    BY <1>1, <1>3, <2>2 DEF HandInv, OnOrder
  <2>. QED  BY <1>1, <1>3, <2>1, <2>3, SameMemory, HandFiles, Constants
<1>. QED
  BY <1>6, <1>7

\* A position that is gone is filed under the trade that closed it, if that has
\* not been filed.
LEMMA FilingMisses ==
  ASSUME TypeInv, LedgerInv, FilingInv, SyncInv, Me.jobs = <<>>, Me.at = "scale-outs",
         NEW s \in Symbols, Candidates(s) = {}
  PROVE  Unfiled(s) = {}
<1>1. HasAll(Me.view.trades)
  <2>1. HandInv(Me)
    BY Constants DEF FilingInv, Me
  <2>. QED  BY <2>1 DEF HandInv
<1>2. SUFFICES ASSUME NEW i \in Unfiled(s) PROVE FALSE
  OBVIOUS
<1>3. i \in DOMAIN trades /\ Symbol(trades[i]) = s /\ ~IsFiled(file, trades[i])
  BY DEF Unfiled
<1>4. PICK k \in DOMAIN Me.view.trades : Me.view.trades[k] = trades[i]
  BY <1>1, <1>3 DEF HasAll
<1>5. k \in Candidates(s)
  BY <1>3, <1>4 DEF Candidates
<1>. QED
  BY <1>5

LEMMA DropStaleFiles ==
  ASSUME TypeInv, LedgerInv, FilingInv, file # Torn, DropStale
  PROVE  FilingInv'
<1>1. /\ Me.at = "scale-outs" /\ Me.jobs = <<>> /\ Me.left = <<>> /\ Me \in ThreadType
      /\ UNCHANGED <<broker, trades, stored, file>>
  BY MeIsThread DEF DropStale, At, Me, UnchangedByThreads, Thread
<1>2. SyncInv
  BY <1>1 DEF LedgerInv, ScannerInv
<1>3. HandInv(Me) /\ ~Behind(Scanner) /\ \A u \in Threads \ {Scanner} : thread[u] = Resting
  BY <1>1, AtWork, Constants DEF Behind, Me, FilingInv
<1>4. PICK s \in Stale : /\ memory' = [memory EXCEPT ![s] = None]
                         /\ Moves(Scanner, [Me EXCEPT !.active[s] = None, !.jobs = Filing(s)])
  BY DEF DropStale
<1>5. s \in Symbols /\ held[s] = 0 /\ Known(s) # None
  BY <1>2 DEF Stale, SyncInv, ViewInv
<1>6. PICK jobs : jobs = Filing(s)
  OBVIOUS
<1>7. (Files(jobs) \/ Removes(jobs)) /\ jobs[Len(jobs)].sym = s /\ jobs # <<>>
  BY <1>1, <1>2, <1>5, <1>6, FilingOf
<1> DEFINE r == [Me EXCEPT !.active[s] = None, !.jobs = jobs]
<1>8. Moves(Scanner, r)
  BY <1>4, <1>6
<1>9. /\ r.at = "scale-outs" /\ r.phase = Me.phase /\ r.view = Me.view /\ r.jobs = jobs
      /\ r.order = Me.order
  BY <1>1 DEF ThreadType
<1> HIDE DEF r
<1>10. HandInv(r)
  <2>1. CASE Candidates(s) = {}
    <3>1. jobs = <<ToRemove(s)>>
      BY <1>6, <2>1 DEF Filing
    <3>2. Len(jobs) = 1 /\ DOMAIN jobs = {1} /\ jobs[1].do = "remove" /\ jobs[1].sym = s
      BY <3>1 DEF ToRemove
    <3>3. Unfiled(s) = {}
      BY <1>1, <1>2, <1>5, <2>1, FilingMisses
    <3>. QED  BY <1>1, <1>3, <1>9, <3>2, <3>3 DEF HandInv, OnOrder
  <2>2. CASE Candidates(s) # {}
    <3>1. PICK trade, k : trade = Me.view.trades[LastOf(Candidates(s))] /\ k = Known(s)
      OBVIOUS
    <3>2. jobs = <<ToArchive(s, trade, k, "closed"), ToRemove(s)>>
      BY <1>6, <2>2, <3>1 DEF Filing
    <3>3. /\ Len(jobs) = 2 /\ DOMAIN jobs = {1, 2} /\ jobs[1].do = "archive" /\ jobs[2].do = "remove"
          /\ jobs[1].thesis = k /\ jobs[1].trade = trade /\ jobs[1].sym = s
      BY <3>2 DEF ToRemove, ToArchive
    <3>4. trade \in Ledger /\ Unfiled(s) = {trade.id}
      BY <1>7, <3>3 DEF Files, Removes, ArchiveInv
    <3>5. k.since <= trade.at
      <4>1. Older(s, k)
        BY <1>1, <1>2, <1>5, <3>1, KnownIsOlder
      <4>. QED  BY <3>4, <4>1, InLedger DEF Older
    <3>. QED  BY <1>1, <1>3, <1>9, <3>3, <3>5 DEF HandInv, OnOrder
  <2>. QED  BY <2>1, <2>2
<1>11. \A u \in Symbols : Older(u, memory'[u])
  <2>1. memory \in [Symbols -> Thesis]
    BY MeIsThread
  <2>2. \A u \in Symbols : memory'[u] = IF u = s THEN None ELSE memory[u]
    BY <1>4, <2>1
  <2>3. Older(s, None)
    BY TimesAreNat DEF Older, None, Unfiled
  <2>. QED  BY <2>2, <2>3 DEF FilingInv, WaitingInv
<1>. QED
  BY <1>1, <1>3, <1>8, <1>10, <1>11, HandFiles, Constants

LEMMA SynchronisedFiles ==
  ASSUME TypeInv, LedgerInv, FilingInv, file # Torn, Synchronised
  PROVE  FilingInv'
<1>1. /\ Me.at = "scale-outs" /\ Me.jobs = <<>> /\ Me \in ThreadType
      /\ UNCHANGED <<broker, trades, stored, file>>
  BY MeIsThread DEF Synchronised, At, Me, UnchangedByThreads, Thread
<1>2. SyncInv
  BY <1>1 DEF LedgerInv, ScannerInv
<1>3. HandInv(Me) /\ ~Behind(Scanner) /\ \A u \in Threads \ {Scanner} : thread[u] = Resting
  BY <1>1, AtWork, Constants DEF Behind, Me, FilingInv
<1>4. CASE Me.phase = "before"
  <2> DEFINE r == [Me EXCEPT !.at = "decide"]
  <2>1. Moves(Scanner, r) /\ memory' = memory
    BY <1>4 DEF Synchronised
  <2>2. r.at = "decide" /\ r.jobs = Me.jobs
    BY <1>1 DEF ThreadType
  <2> HIDE DEF r
  <2>3. HandInv(r)
    BY <1>3, <2>2 DEF HandInv, OnOrder
  <2>. QED  BY <1>1, <1>3, <2>1, <2>3, SameMemory, HandFiles, Constants
<1>5. CASE Me.phase # "before" /\ Me.view.pos[Me.order.sym] = 0
  <2>1. Moves(Scanner, Resting) /\ memory' = memory
    BY <1>5 DEF Synchronised
  <2>. QED  BY <1>1, <1>3, <2>1, RestHasNothing, SameMemory, HandFiles, Constants
<1>6. CASE Me.phase # "before" /\ Me.view.pos[Me.order.sym] # 0
  <2>1. Me.phase = "after" /\ Me.order \in Sent
    BY <1>1, <1>2, <1>6, MeIsThread DEF SyncInv, Thread, ThreadType
  <2>2. PICK s \in Symbols, thesis \in Thesis : s = Me.order.sym /\ thesis = Me.order.thesis
    BY <2>1 DEF Sent
  <2>3. PICK x : x = Counted(file, s, thesis)
    OBVIOUS
  <2>4. x.since = thesis.since
    BY <2>2, <2>3 DEF Counted, Thesis
  <2>5. Older(s, x)
    <3>1. Older(s, thesis)
      BY <1>1, <1>3, <2>1, <2>2 DEF HandInv, OnOrder
    <3>. QED  BY <2>4, <3>1 DEF Older
  <2> DEFINE r == [Resting EXCEPT !.jobs = <<ToUpsert(s, x)>>]
  <2>6. Moves(Scanner, r) /\ memory' = [memory EXCEPT ![s] = x]
    BY <1>6, <2>2, <2>3 DEF Synchronised
  <2>7. r.at = "rest" /\ Len(r.jobs) = 1 /\ DOMAIN r.jobs = {1} /\ r.jobs[1].do = "upsert"
    BY DEF Resting, ToUpsert
  <2> HIDE DEF r
  <2>8. HandInv(r)
    BY <2>7 DEF HandInv, OnOrder
  <2>9. \A u \in Symbols : Older(u, memory'[u])
    <3>1. \A u \in Symbols : memory'[u] = IF u = s THEN x ELSE memory[u]
      BY <2>6, MeIsThread
    <3>. QED  BY <2>5, <3>1 DEF FilingInv, WaitingInv
  <2>. QED  BY <1>1, <1>3, <2>6, <2>8, <2>9, HandFiles, Constants
<1>. QED
  BY <1>4, <1>5, <1>6

LEMMA HoldFiles ==
  ASSUME TypeInv, LedgerInv, FilingInv, Hold
  PROVE  FilingInv'
<1>1. /\ Me.at = "decide" /\ Me.jobs = <<>> /\ Moves(Scanner, Resting)
      /\ UNCHANGED <<broker, trades, stored, file, memory>>
  BY DEF Hold, At, Me, UnchangedByThreads
<1>2. ~Behind(Scanner) /\ \A u \in Threads \ {Scanner} : thread[u] = Resting
  BY <1>1, AtWork, Constants DEF Behind, Me
<1>. QED
  BY <1>1, <1>2, RestHasNothing, SameMemory, HandFiles, Constants

LEMMA MoveStopFiles ==
  ASSUME TypeInv, LedgerInv, FilingInv, file # Torn, NEW s \in Symbols, MoveStop(s)
  PROVE  FilingInv'
<1> DEFINE x == Selected(s)
           r == [Resting EXCEPT !.jobs = <<ToUpsert(s, x)>>]
<1>1. /\ Me.at = "decide" /\ Me.jobs = <<>> /\ Moves(Scanner, r)
      /\ UNCHANGED <<broker, trades, stored, file>> /\ memory' = [memory EXCEPT ![s] = x]
  BY DEF MoveStop, At, Me, UnchangedByThreads
<1>2. ~Behind(Scanner) /\ \A u \in Threads \ {Scanner} : thread[u] = Resting
  BY <1>1, AtWork, Constants DEF Behind, Me
<1>3. Older(s, x)
  BY DEF FilingInv, WaitingInv, Selected
<1> HIDE DEF x
<1>4. r.at = "rest" /\ Len(r.jobs) = 1 /\ DOMAIN r.jobs = {1} /\ r.jobs[1].do = "upsert"
  BY DEF Resting, ToUpsert
<1> HIDE DEF r
<1>5. HandInv(r)
  BY <1>4 DEF HandInv, OnOrder
<1>6. \A u \in Symbols : Older(u, memory'[u])
  <2>1. \A u \in Symbols : memory'[u] = IF u = s THEN x ELSE memory[u]
    BY <1>1, MeIsThread
  <2>. QED  BY <1>3, <2>1 DEF FilingInv, WaitingInv
<1>. QED
  BY <1>1, <1>2, <1>5, <1>6, HandFiles, Constants

LEMMA RecordFiles ==
  ASSUME TypeInv, LedgerInv, FilingInv, broker.reports, Record
  PROVE  FilingInv'
<1>1. /\ Me.at = "sent" /\ Me.jobs = <<>> /\ Me \in ThreadType
      /\ UNCHANGED <<broker, trades, stored, file, memory>>
  BY MeIsThread DEF Record, At, Me, UnchangedByThreads, Thread
<1>2. HandInv(Me) /\ \A u \in Threads \ {Scanner} : thread[u] = Resting
  BY <1>1, AtWork, Constants DEF Me, FilingInv
<1>3. PICK view, s, x : view = Reconciled /\ s = Me.order.sym /\ x = Me.order.thesis
  OBVIOUS
<1>4. HasAll(view.trades)
  BY <1>3 DEF Reconciled, HasAll
<1> DEFINE jobs == <<ToStore(view), ToTouch(s), ToCount(s, x)>>
           r == [Me EXCEPT !.at = "list", !.view = view, !.jobs = jobs]
<1>5. Moves(Scanner, r)
  BY <1>3 DEF Record
<1>6. /\ r.at = "list" /\ r.phase = Me.phase /\ r.view = view /\ r.order = Me.order /\ r.jobs = jobs
  BY <1>1 DEF ThreadType
<1>7. /\ Len(jobs) = 3 /\ DOMAIN jobs = {1, 2, 3} /\ jobs # <<>>
      /\ jobs[1].do = "store" /\ jobs[1].view = view /\ jobs[2].do = "touch" /\ jobs[3].do = "count"
  <2>1. Len(jobs) = 3 /\ jobs # <<>>
    OBVIOUS
  <2>2. DOMAIN jobs = {1, 2, 3}
    OBVIOUS
  <2>. QED  BY <2>1, <2>2 DEF ToStore, ToTouch, ToCount
<1>8. Me.at = "sent" => OnOrder(Me)
  BY DEF OnOrder
<1> HIDE DEF jobs, r
<1>9. HandInv(r)
  BY <1>1, <1>2, <1>4, <1>6, <1>7, <1>8 DEF HandInv
<1>10. Behind(Scanner)'
  <2>1. Me' = r
    BY <1>5, Constants DEF Moves, Me, TypeInv
  <2>2. Me'.jobs = <<ToStore(view), ToTouch(s), ToCount(s, x)>>
    BY <1>6, <2>1 DEF jobs
  <2>3. Me'.jobs # <<>> /\ Head(Me'.jobs).do = "store"
    BY <2>2 DEF ToStore
  <2>. QED  BY <2>3 DEF Behind, Me
<1>. QED
  BY <1>1, <1>2, <1>5, <1>9, <1>10, SameMemory, HandFiles, Constants

LEMMA RecordCloseFiles ==
  ASSUME TypeInv, LedgerInv, FilingInv, broker.reports, NEW t \in Requesters, RecordClose(t)
  PROVE  FilingInv'
<1>1. /\ t \in Threads /\ t # Scanner /\ thread[t].at = "closed" /\ thread[t].jobs = <<>>
      /\ thread[t] \in ThreadType
      /\ UNCHANGED <<broker, trades, stored, file, memory>>
  BY LedgerAssumption DEF RecordClose, At, UnchangedByThreads, TypeInv, Thread, Threads
<1>2. ClosedInv(thread[t].order.sym, Len(trades))
  BY <1>1 DEF LedgerInv, RequestInv
<1>3. Len(trades) \in Ours(thread[t].order.sym)
  BY <1>2 DEF Ours, ClosedInv, Reconciled
<1>4. PICK view, trade : view = Reconciled /\ Moves(t, [thread[t] EXCEPT !.at = "file",
                                         !.left = <<trade>>, !.jobs = <<ToStore(view)>>])
  BY <1>3 DEF RecordClose
<1> DEFINE r == [thread[t] EXCEPT !.at = "file", !.left = <<trade>>, !.jobs = <<ToStore(view)>>]
<1>5. /\ r.at = "file" /\ r.jobs = <<ToStore(view)>>
  BY <1>1 DEF ThreadType
<1> HIDE DEF r
<1>6. HandInv(r)
  <2>1. /\ Len(r.jobs) = 1 /\ DOMAIN r.jobs = {1} /\ r.jobs[1].do = "store" /\ r.jobs[1].view = view
    BY <1>5 DEF ToStore
  <2>2. HasAll(view.trades)
    BY <1>4 DEF Reconciled, HasAll
  <2>. QED  BY <1>5, <2>1, <2>2 DEF HandInv, OnOrder
<1>7. Behind(t)'
  <2>1. thread'[t] = r
    BY <1>1, <1>4 DEF Moves, TypeInv, r
  <2>2. thread'[t].jobs # <<>> /\ Head(thread'[t].jobs).do = "store"
    BY <1>5, <2>1 DEF ToStore
  <2>. QED  BY <2>2 DEF Behind
<1>8. \A u \in Threads \ {t} : thread[u] = Resting
  BY <1>1, AtWork
<1>9. Moves(t, r)
  BY <1>4 DEF r
<1>. QED
  BY <1>1, <1>6, <1>7, <1>8, <1>9, SameMemory, HandFiles

LEMMA FileCloseFiles ==
  ASSUME TypeInv, LedgerInv, FilingInv, file # Torn, NEW t \in Requesters, FileClose(t)
  PROVE  FilingInv'
<1>1. /\ t \in Threads /\ t # Scanner /\ thread[t].at = "file" /\ thread[t].jobs = <<>>
      /\ thread[t] \in Thread /\ thread[t].order \in Sent
      /\ UNCHANGED <<broker, trades, stored, file, memory>>
  BY LedgerAssumption DEF FileClose, At, UnchangedByThreads, TypeInv, Thread, Threads
<1>2. PICK s \in Symbols : s = thread[t].order.sym
  BY <1>1 DEF Sent
<1>3. PICK trade \in Ledger : trade = thread[t].left[1] /\ ClosedInv(s, trade.id)
  BY <1>1, <1>2 DEF LedgerInv, RequestInv
<1>4. ~Behind(t) /\ \A u \in Threads \ {t} : thread[u] = Resting
  BY <1>1, AtWork DEF Behind
<1>5. CASE file.active[s] = None
  <2>1. Moves(t, Resting)
    BY <1>2, <1>5 DEF FileClose
  <2>. QED  BY <1>1, <1>4, <2>1, RestHasNothing, SameMemory, HandFiles
<1>6. CASE file.active[s] # None
  <2>1. PICK k : k = file.active[s]
    OBVIOUS
  <2> DEFINE jobs == <<ToArchive(s, trade, k, "manual-closed"), ToRemove(s)>>
             r == [Resting EXCEPT !.jobs = jobs]
  <2>2. Moves(t, r)
    BY <1>2, <1>3, <1>6, <2>1 DEF FileClose
  <2>3. r.at = "rest" /\ r.jobs = jobs
    BY DEF Resting
  <2>4. /\ Len(jobs) = 2 /\ DOMAIN jobs = {1, 2} /\ jobs[1].do = "archive" /\ jobs[2].do = "remove"
        /\ jobs[1].thesis = k /\ jobs[1].trade = trade
    BY DEF ToRemove, ToArchive
  <2> HIDE DEF jobs, r
  <2>5. k.since <= trade.at
    <3>1. Older(s, k) /\ trade.id \in Unfiled(s)
      BY <1>3, <2>1 DEF FilingInv, WaitingInv, ClosedInv
    <3>. QED  BY <3>1, InLedger DEF Older
  <2>6. HandInv(r)
    BY <2>3, <2>4, <2>5 DEF HandInv, OnOrder
  <2>. QED  BY <1>1, <1>4, <2>2, <2>6, SameMemory, HandFiles
<1>. QED
  BY <1>5, <1>6

LEMMA ChangeStateFiles ==
  ASSUME TypeInv, LedgerInv, FilingInv, ~overlapped', NEW t, ChangeState(t)
  PROVE  FilingInv'
<1> DEFINE r == [Resting EXCEPT !.jobs = <<ToChange>>]
<1>1. /\ t \in Threads /\ Moves(t, r)
      /\ UNCHANGED <<broker, trades, stored, file, memory>>
      /\ \A u \in Threads : thread[u] = Resting
  BY DEF ChangeState, Request, Begins, Alongside, Busy, Threads
<1>2. r.at = "rest" /\ Len(r.jobs) = 1 /\ DOMAIN r.jobs = {1} /\ r.jobs[1].do = "change"
  BY DEF Resting, ToChange
<1> HIDE DEF r
<1>3. HandInv(r)
  BY <1>2 DEF HandInv, OnOrder
<1>4. ~Behind(t)
  BY <1>1 DEF Behind, Resting
<1>. QED
  BY <1>1, <1>3, <1>4, SameMemory, HandFiles

LEMMA AgeFiles ==
  ASSUME TypeInv, FilingInv, Age
  PROVE  FilingInv'
<1>1. UNCHANGED <<broker, trades, file, memory, thread>> /\ ~stored'.fresh
  BY DEF Age, TypeInv, BooksInv, Portfolio
<1>2. Spaced' /\ EntriesDated' /\ FreshInv'
  BY <1>1, TradesStay DEF FilingInv, FreshInv
<1>3. ASSUME NEW s \in Symbols PROVE WaitingInv(s)'
  <2>1. WaitingInv(s)
    BY DEF FilingInv
  <2>. QED  BY <1>1, <2>1, TradesStay DEF WaitingInv, Older
<1>4. ASSUME NEW u \in Threads PROVE HandInv(thread[u])'
  <2>1. PICK x : x = thread[u] /\ x = thread'[u]
    BY <1>1
  <2>2. HandInv(x)
    BY <2>1 DEF FilingInv
  <2>3. HandInv(x)'
    BY <1>1, <2>2, TradesStay
  <2>. QED  BY <2>1, <2>3
<1>. QED
  BY <1>2, <1>3, <1>4 DEF FilingInv

-----------------------------------------------------------------------------
(* Loads and saves.                                                        *)

\* The writes of a thread, as many as it has left.
JobShapes(js) ==
    \/ Len(js) = 1
    \/ Len(js) = 2 /\ js[1].do = "archive" /\ js[2].do \in {"upsert", "remove"} /\ js[2].sym = js[1].sym
    \/ \E s, x : js = <<ToTouch(s), ToCount(s, x)>>
    \/ \E v, s, x : js = <<ToStore(v), ToTouch(s), ToCount(s, x)>>

LEMMA ShapeOfJobs ==
  ASSUME TypeInv, LedgerInv, NEW t \in Threads, thread[t].jobs # <<>>
  PROVE  JobShapes(thread[t].jobs)
<1>1. CASE t = Scanner
  <2>1. ScannerInv /\ Me.jobs # <<>> /\ Me.jobs = thread[t].jobs
    BY <1>1 DEF LedgerInv, Me
  <2>2. CASE Me.at = "list"
    <3>1. PICK s, x : s = Me.order.sym /\ x = Me.order.thesis
      OBVIOUS
    <3>2. Me.phase \in {"before", "after"}
      BY <2>1, <2>2, MeIsThread DEF ScannerInv, ListInv, Thread, ThreadType
    <3>3. Me.jobs = <<ToStore(Me.view)>> \/ Me.jobs \in CountJobs(s, x)
      BY <2>1, <2>2, <3>1, <3>2 DEF ScannerInv, ListInv
    <3>4. Len(<<ToStore(Me.view)>>) = 1 /\ Len(<<ToCount(s, x)>>) = 1
      OBVIOUS
    <3>5. CASE Me.jobs \in {<<ToStore(Me.view)>>, <<ToCount(s, x)>>}
      BY <2>1, <3>4, <3>5 DEF JobShapes
    <3>6. CASE Me.jobs = <<ToTouch(s), ToCount(s, x)>>
      BY <2>1, <3>6 DEF JobShapes
    <3>7. CASE Me.jobs = <<ToStore(Me.view), ToTouch(s), ToCount(s, x)>>
      BY <2>1, <3>7 DEF JobShapes
    <3>. QED  BY <3>3, <3>5, <3>6, <3>7 DEF CountJobs
  <2>3. CASE Me.at = "scale-outs"
    <3>1. ScalesOut \/ Drops
      BY <2>1, <2>3 DEF ScannerInv, SyncInv
    <3>2. CASE ScalesOut
      BY <2>1, <3>2 DEF ScalesOut, JobShapes
    <3>3. CASE Drops
      BY <2>1, <3>3 DEF Drops, Files, Removes, JobShapes, ToRemove
    <3>. QED  BY <3>1, <3>2, <3>3
  <2>4. CASE Me.at \notin {"list", "scale-outs"}
    BY <2>1, <2>4 DEF ScannerInv, DecideInv, JobShapes
  <2>. QED  BY <2>2, <2>3, <2>4
<1>2. CASE t # Scanner
  <2>1. RequestInv(t)
    BY <1>2 DEF LedgerInv, Threads
  <2>2. CASE Files(thread[t].jobs)
    BY <2>2 DEF Files, JobShapes, ToRemove
  <2>3. CASE ~Files(thread[t].jobs)
    BY <2>1, <2>3 DEF RequestInv, Removes, JobShapes
  <2>. QED  BY <2>2, <2>3
<1>. QED
  BY <1>1, <1>2

\* Stores and archives come first; a removal comes last, after the archive if
\* there is one.
LEMMA TailWrites ==
  ASSUME NEW js \in Seq(Job), js # <<>>, JobShapes(js)
  PROVE  /\ \A j \in DOMAIN Tail(js) : Tail(js)[j].do \notin {"store", "archive"}
         /\ Len(Tail(js)) = 1 /\ Tail(js)[1].do = "remove" =>
              js[1].do = "archive" /\ js[1].sym = Tail(js)[1].sym
<1>1. CASE Len(js) = 1
  <2>1. PICK tl : tl = Tail(js) /\ tl = <<>>
    BY <1>1, TailOfFew
  <2>2. DOMAIN <<>> = {} /\ Len(<<>>) = 0
    OBVIOUS
  <2>3. DOMAIN tl = {} /\ Len(tl) = 0
    BY <2>1, <2>2
  <2>4. Len(Tail(js)) # 1
    BY <2>1, <2>3
  <2>5. \A j \in DOMAIN Tail(js) : FALSE
    BY <2>1, <2>3
  <2>. QED  BY <2>4, <2>5
<1>2. CASE Len(js) = 2 /\ js[1].do = "archive" /\ js[2].do \in {"upsert", "remove"} /\ js[2].sym = js[1].sym
  <2>1. PICK tl : tl = Tail(js)
    OBVIOUS
  <2>2. tl \in Seq(Job) /\ Len(tl) = 1 /\ tl[1] = js[2]
    BY <1>2, <2>1, TailOfFew, HeadTailProperties
  <2>3. DOMAIN tl = {1}
    BY <2>2, LenProperties
  <2>. QED  BY <1>2, <2>1, <2>2, <2>3
<1>3. ASSUME NEW s, NEW x, js = <<ToTouch(s), ToCount(s, x)>>
      PROVE  Tail(js) = <<ToCount(s, x)>>
  BY <1>3
<1>4. ASSUME NEW v, NEW s, NEW x, js = <<ToStore(v), ToTouch(s), ToCount(s, x)>>
      PROVE  Tail(js) = <<ToTouch(s), ToCount(s, x)>>
  BY <1>4
<1>5. ASSUME NEW s, NEW x
      PROVE  /\ \A j \in DOMAIN <<ToCount(s, x)>> : <<ToCount(s, x)>>[j].do = "count"
             /\ \A j \in DOMAIN <<ToTouch(s), ToCount(s, x)>> :
                  <<ToTouch(s), ToCount(s, x)>>[j].do \in {"touch", "count"}
             /\ <<ToCount(s, x)>>[1].do = "count" /\ Len(<<ToTouch(s), ToCount(s, x)>>) # 1
  BY DEF ToTouch, ToCount
<1>6. ASSUME NEW s, NEW x, Tail(js) \in {<<ToCount(s, x)>>, <<ToTouch(s), ToCount(s, x)>>}
      PROVE  /\ \A j \in DOMAIN Tail(js) : Tail(js)[j].do \notin {"store", "archive"}
             /\ ~(Len(Tail(js)) = 1 /\ Tail(js)[1].do = "remove")
  <2>1. PICK tl : tl = Tail(js)
    OBVIOUS
  <2>2. CASE tl = <<ToCount(s, x)>>
    BY <1>5, <2>1, <2>2
  <2>3. CASE tl = <<ToTouch(s), ToCount(s, x)>>
    BY <1>5, <2>1, <2>3
  <2>. QED  BY <1>6, <2>1, <2>2, <2>3
<1>7. CASE \E s, x : js = <<ToTouch(s), ToCount(s, x)>>
  <2>1. PICK s, x : js = <<ToTouch(s), ToCount(s, x)>>
    BY <1>7
  <2>2. Tail(js) = <<ToCount(s, x)>>
    BY <1>3, <2>1
  <2>. QED  BY <1>6, <2>2
<1>8. CASE \E v, s, x : js = <<ToStore(v), ToTouch(s), ToCount(s, x)>>
  <2>1. PICK v, s, x : js = <<ToStore(v), ToTouch(s), ToCount(s, x)>>
    BY <1>8
  <2>2. Tail(js) = <<ToTouch(s), ToCount(s, x)>>
    BY <1>4, <2>1
  <2>. QED  BY <1>6, <2>2
<1>. QED
  BY <1>1, <1>2, <1>7, <1>8 DEF JobShapes

\* A write less in hand.
LEMMA TailInHand ==
  ASSUME TypeInv, LedgerInv, NEW t \in Threads, HandInv(thread[t]), thread[t].jobs # <<>>,
         NEW r, r.at = thread[t].at, r.view = thread[t].view, r.order = thread[t].order,
         r.phase = thread[t].phase, r.jobs = Tail(thread[t].jobs),
         thread[t].jobs[1].do # "archive"
  PROVE  HandInv(r)
<1>1. PICK js \in Seq(Job) : js = thread[t].jobs
  BY DEF TypeInv, Thread, ThreadType
<1>2. PICK tl \in Seq(Job) : tl = Tail(js) /\ r.jobs = tl
  BY <1>1, HeadTailProperties
<1>3. /\ \A j \in DOMAIN tl : tl[j].do \notin {"store", "archive"}
      /\ ~(Len(tl) = 1 /\ tl[1].do = "remove")
  BY <1>1, <1>2, TailWrites, ShapeOfJobs
<1>4. tl # <<>> => 1 \in DOMAIN tl
  <2>1. tl # <<>> => Len(tl) \in Nat \ {0}
    BY EmptySeq
  <2>. QED  BY <2>1, LenProperties
<1>. QED
  BY <1>2, <1>3, <1>4 DEF HandInv, OnOrder

LEMMA LoadFiles ==
  ASSUME TypeInv, LedgerInv, FilingInv, file # Torn, NEW t \in Threads, Load(t)
  PROVE  FilingInv'
<1>1. /\ thread[t] \in ThreadType /\ thread[t].jobs # <<>> /\ thread[t].jobs \in Seq(Job)
      /\ UNCHANGED <<broker, trades, stored, file, memory>> /\ HandInv(thread[t])
  BY DEF Load, UnchangedByThreads, TypeInv, Thread, ThreadType, FilingInv
<1>2. \A u \in Threads \ {t} : thread[u] = Resting
  BY <1>1, AtWork
<1>3. PICK job : job = Head(thread[t].jobs) /\ job = thread[t].jobs[1]
  BY <1>1
<1>4. CASE ~(job.do = "touch" /\ file.active[job.sym] = None)
  <2>1. PICK c : c = IF job.do = "store" THEN stored ELSE file
    OBVIOUS
  <2> DEFINE r == [thread[t] EXCEPT !.copy = c]
  <2>2. Moves(t, r)
    BY <1>3, <1>4, <2>1 DEF Load
  <2>3. /\ r.at = thread[t].at /\ r.jobs = thread[t].jobs /\ r.view = thread[t].view
        /\ r.order = thread[t].order /\ r.phase = thread[t].phase
    BY <1>1 DEF ThreadType
  <2> HIDE DEF r
  <2>4. HandInv(r)
    BY <1>1, <2>3 DEF HandInv, OnOrder
  <2>5. Behind(t) => Behind(t)'
    <3>1. thread'[t] = r
      BY <2>2 DEF Moves, TypeInv
    <3>. QED  BY <2>3, <3>1 DEF Behind
  <2>. QED  BY <1>1, <1>2, <2>2, <2>4, <2>5, SameMemory, HandFiles
<1>5. CASE job.do = "touch" /\ file.active[job.sym] = None
  <2> DEFINE r == [thread[t] EXCEPT !.jobs = Tail(thread[t].jobs)]
  <2>1. Moves(t, r)
    BY <1>3, <1>5 DEF Load
  <2>2. /\ r.at = thread[t].at /\ r.jobs = Tail(thread[t].jobs) /\ r.view = thread[t].view
        /\ r.order = thread[t].order /\ r.phase = thread[t].phase
    BY <1>1 DEF ThreadType
  <2> HIDE DEF r
  <2>3. HandInv(r)
    BY <1>1, <1>3, <1>5, <2>2, TailInHand
  <2>4. Behind(t) => Behind(t)'
    <3>1. thread'[t] = r
      BY <2>1 DEF Moves, TypeInv
    <3>. QED  BY <1>3, <1>5, <2>2, <3>1 DEF Behind
  <2>. QED  BY <1>1, <1>2, <2>1, <2>3, <2>4, SameMemory, HandFiles
<1>. QED
  BY <1>4, <1>5

\* Whose the first write of a thread is.
LEMMA WritesWhat ==
  ASSUME TypeInv, LedgerInv, NEW t \in Threads, thread[t].jobs # <<>>,
         NEW job, job = thread[t].jobs[1]
  PROVE  /\ job \in Job
         /\ job.do = "archive" => ArchiveInv(job)
         /\ job.do = "upsert" => UpsertInv(job)
         /\ job.do = "count" => /\ t = Scanner /\ OnOrder(Me) /\ Me.order.thesis # None
                                /\ job = ToCount(Me.order.sym, Me.order.thesis)
         /\ job.do = "remove" => Len(thread[t].jobs) = 1
<1>1. thread[t].jobs \in Seq(Job) /\ job \in Job
  <2>1. thread[t].jobs \in Seq(Job)
    BY DEF TypeInv, Thread, ThreadType
  <2>2. Len(thread[t].jobs) \in Nat \ {0}
    BY <2>1, EmptySeq
  <2>. QED  BY <2>1, <2>2
<1>2. JobShapes(thread[t].jobs)
  BY ShapeOfJobs
<1>3. job.do = "remove" => Len(thread[t].jobs) = 1
  <2>1. \A v, s, x : ToStore(v).do = "store" /\ ToTouch(s).do = "touch"
    BY DEF ToStore, ToTouch
  <2>2. ASSUME NEW s, NEW x, thread[t].jobs = <<ToTouch(s), ToCount(s, x)>> PROVE job.do = "touch"
    BY <2>1, <2>2
  <2>3. ASSUME NEW v, NEW s, NEW x, thread[t].jobs = <<ToStore(v), ToTouch(s), ToCount(s, x)>>
        PROVE  job.do = "store"
    BY <2>1, <2>3
  <2>. QED  BY <1>2, <2>2, <2>3 DEF JobShapes
<1>4. CASE t # Scanner
  <2>1. RequestInv(t)
    BY <1>4 DEF LedgerInv, Threads
  <2>2. CASE Files(thread[t].jobs)
    BY <1>3, <1>1, <2>2 DEF Files
  <2>3. CASE Removes(thread[t].jobs)
    BY <1>3, <1>1, <2>3 DEF Removes
  <2>4. CASE ~Files(thread[t].jobs) /\ ~Removes(thread[t].jobs)
    BY <1>3, <1>1, <2>1, <2>4 DEF RequestInv, ToChange
  <2>. QED  BY <2>2, <2>3, <2>4
<1>5. CASE t = Scanner
  <2>1. ScannerInv /\ Me.jobs # <<>> /\ Me.jobs = thread[t].jobs
    BY <1>5 DEF LedgerInv, Me
  <2>2. CASE Me.at = "list"
    <3>1. PICK s, x : s = Me.order.sym /\ x = Me.order.thesis
      OBVIOUS
    <3>2. Me.phase \in {"before", "after"} /\ ListInv
      BY <2>1, <2>2, MeIsThread DEF ScannerInv, ListInv, Thread, ThreadType
    <3>3. /\ Me.phase = "before" => Me.jobs = <<ToStore(Me.view)>>
          /\ Me.phase = "after" => Me.jobs \in CountJobs(s, x)
      BY <2>1, <3>1, <3>2 DEF ListInv
    <3>4. /\ Me.phase = "before" => job = ToStore(Me.view)
          /\ Me.phase = "after" => job \in {ToStore(Me.view), ToTouch(s), ToCount(s, x)}
      BY <2>1, <3>3 DEF CountJobs
    <3>5. Me.phase = "after" => OnOrder(Me) /\ x # None
      BY <2>2, <3>1, <3>2 DEF OnOrder, ListInv, OrderInv
    <3>6. ToStore(Me.view).do = "store" /\ ToTouch(s).do = "touch" /\ ToCount(s, x).do = "count"
      BY DEF ToStore, ToTouch, ToCount
    <3>. QED  BY <1>1, <1>3, <1>5, <3>1, <3>2, <3>4, <3>5, <3>6
  <2>3. CASE Me.at = "scale-outs"
    <3>1. ScalesOut \/ Drops
      BY <2>1, <2>3 DEF ScannerInv, SyncInv
    <3>2. CASE ScalesOut
      BY <1>1, <1>3, <2>1, <3>2 DEF ScalesOut
    <3>3. CASE Drops
      BY <1>1, <1>3, <2>1, <3>3 DEF Drops, Files, Removes
    <3>. QED  BY <3>1, <3>2, <3>3
  <2>4. CASE Me.at \notin {"list", "scale-outs"}
    BY <1>1, <1>3, <2>1, <2>4 DEF ScannerInv, DecideInv
  <2>. QED  BY <2>2, <2>3, <2>4
<1>. QED
  BY <1>4, <1>5

\* What is filed stays filed.
LEMMA NothingUnfiled ==
  ASSUME TypeInv, file # Torn, NEW job \in Job, job.do # "store", file' = Written(job, file),
         trades' = trades
  PROVE  \A u : Unfiled(u)' \subseteq Unfiled(u)
<1>1. file \in Books
  BY DEF TypeInv, BooksInv
<1>2. ASSUME NEW i \in DOMAIN trades, IsFiled(file, trades[i]) PROVE IsFiled(file', trades[i])
  <2>1. CASE job.do # "archive"
    <3>1. file'.closed = file.closed
      BY <1>1, <2>1 DEF Written, Upserted, Removed, Books, Job, Archival
    <3>. QED  BY <1>2, <3>1 DEF IsFiled
  <2>2. CASE job.do = "archive"
    <3>1. PICK e : e = [trade |-> job.trade.id, sym |-> job.sym, at |-> job.trade.at,
                        thesis |-> job.thesis, state |-> job.state]
      OBVIOUS
    <3>2. file'.closed = {x \in file.closed : x.trade # job.trade.id} \cup {e}
      BY <1>1, <2>2, <3>1 DEF Written, Archived, Books
    <3>3. e.trade = job.trade.id
      BY <3>1
    <3>4. PICK x \in file.closed : x.trade = trades[i].id
      BY <1>2 DEF IsFiled
    <3>. QED  BY <3>2, <3>3, <3>4 DEF IsFiled
  <2>. QED  BY <2>1, <2>2
<1>3. \A i \in DOMAIN trades : IsFiled(file, trades[i]) => IsFiled(file, trades[i])'
  BY <1>2 DEF IsFiled
<1>. QED
  BY <1>3 DEF Unfiled

\* A write to the file: what it must see to.
LEMMA WriteFiles ==
  ASSUME TypeInv, LedgerInv, FilingInv, file # Torn, NEW t \in Threads, Save(t),
         NEW job, job = thread[t].jobs[1], job.do # "store", EntriesDated',
         \A u \in Symbols : /\ Unfiled(u)' # {} => file'.active[u] # None
                            /\ Older(u, file'.active[u]),
         job.do = "archive" => Unfiled(job.sym)' = {}
  PROVE  FilingInv'
<1>1. /\ UNCHANGED <<broker, trades, memory, stored>> /\ file' = Written(job, file)
      /\ \A u \in Threads \ {t} : thread[u] = Resting
      /\ \A u \in Threads \ {t} : thread'[u] = thread[u]
      /\ thread[t].jobs # <<>> /\ thread[t].jobs \in Seq(Job)
  BY SaveHand DEF Moves, TypeInv, ThreadType
<1>2. \A u : Unfiled(u)' \subseteq Unfiled(u)
  BY <1>1, WritesWhat, NothingUnfiled
<1>3. \A u, x : Older(u, x) => Older(u, x)'
  BY <1>1, <1>2 DEF Older
<1>4. \A l : HasAll(l)' = HasAll(l)
  BY <1>1 DEF HasAll
<1>5. Spaced'
  BY <1>1 DEF FilingInv, Spaced
<1>6. FreshInv'
  <2>1. \A u \in Threads : ~Behind(u)
    <3>1. ~Behind(t)
      BY StoreIsKept
    <3>. QED  BY <1>1, <3>1 DEF Behind, Resting
  <2>2. PICK l : l = stored.trades /\ l = stored'.trades
    BY <1>1
  <2>3. stored.fresh => HasAll(l)
    BY <2>1, <2>2 DEF FilingInv, FreshInv
  <2>. QED  BY <1>1, <1>4, <2>2, <2>3 DEF FreshInv
<1>7. ASSUME NEW u \in Symbols PROVE WaitingInv(u)'
  <2>1. PICK x, y : x = file'.active[u] /\ y = memory[u] /\ y = memory'[u]
    BY <1>1
  <2>2. Older(u, x) /\ Older(u, y)
    BY <2>1 DEF FilingInv, WaitingInv
  <2>3. Older(u, x)' /\ Older(u, y)'
    BY <1>3, <2>2
  <2>. QED  BY <2>1, <2>3 DEF WaitingInv
<1>8. ASSUME NEW u \in Threads, u # t PROVE HandInv(thread[u])'
  <2>1. PICK x : x = Resting /\ x = thread'[u]
    BY <1>1, <1>8
  <2>2. x.at = "rest" /\ x.jobs = <<>> /\ Len(<<>>) = 0 /\ DOMAIN <<>> = {}
    BY <2>1 DEF Resting
  <2>3. HandInv(x)'
    BY <2>2 DEF HandInv, OnOrder
  <2>. QED  BY <2>1, <2>3
<1>9. HandInv(thread[t])'
  <2>1. PICK old, new : old = thread[t] /\ new = thread'[t]
    OBVIOUS
  <2>2. CASE new = Resting
    <3>1. new.at = "rest" /\ new.jobs = <<>> /\ Len(<<>>) = 0 /\ DOMAIN <<>> = {}
      BY <2>2 DEF Resting
    <3>2. HandInv(new)'
      BY <3>1 DEF HandInv, OnOrder
    <3>. QED  BY <2>1, <3>2
  <2>3. CASE new # Resting
    <3>1. /\ new.at = old.at /\ new.view = old.view /\ new.order = old.order
          /\ new.phase = old.phase /\ new.jobs = Tail(old.jobs)
      BY <2>1, <2>3, SaveHand
    <3>2. HandInv(old) /\ old.jobs # <<>> /\ old.jobs \in Seq(Job) /\ job = old.jobs[1]
      BY <1>1, <2>1 DEF FilingInv
    <3>3. PICK tl \in Seq(Job) : tl = new.jobs
      BY <3>1, <3>2, HeadTailProperties
    <3>4. JobShapes(old.jobs)
      BY <1>1, <2>1, ShapeOfJobs
    <3>5. /\ \A j \in DOMAIN tl : tl[j].do \notin {"store", "archive"}
          /\ Len(tl) = 1 /\ tl[1].do = "remove" => job.do = "archive" /\ job.sym = tl[1].sym
      BY <3>1, <3>2, <3>3, <3>4, TailWrites
    <3>6. tl # <<>> => 1 \in DOMAIN tl
      <4>1. tl # <<>> => Len(tl) \in Nat \ {0}
        BY EmptySeq
      <4>. QED  BY <4>1, LenProperties
    <3>7. Len(tl) = 1 /\ tl[1].do = "remove" => Unfiled(tl[1].sym)' = {}
      BY <3>5
    <3>8. HandInv(new)'
      BY <1>3, <1>4, <3>1, <3>2, <3>3, <3>5, <3>6, <3>7 DEF HandInv, OnOrder
    <3>. QED  BY <2>1, <3>8
  <2>. QED  BY <2>2, <2>3
<1>. QED
  BY <1>5, <1>6, <1>7, <1>8, <1>9 DEF FilingInv

LEMMA SaveFileFiles ==
  ASSUME TypeInv, LedgerInv, FilingInv, file # Torn, NEW t \in Threads, Save(t),
         thread[t].jobs[1].do # "store"
  PROVE  FilingInv'
<1>1. /\ UNCHANGED <<broker, trades, memory, stored>> /\ thread[t].jobs # <<>>
      /\ file' = Written(thread[t].jobs[1], file)
  BY SaveHand
<1>2. PICK job \in Job : job = thread[t].jobs[1]
  BY <1>1, WritesWhat
<1>3. file' = Written(job, file) /\ job.do # "store" /\ file \in Books
  BY <1>1, <1>2 DEF TypeInv, BooksInv
<1>4. \A u \in Symbols : /\ Unfiled(u) # {} => file.active[u] # None
                         /\ Older(u, file.active[u]) /\ Older(u, memory[u])
  BY DEF FilingInv, WaitingInv
<1>5. \A u : Unfiled(u)' \subseteq Unfiled(u)
  BY <1>1, <1>2, <1>3, NothingUnfiled
<1>6. CASE job.do = "archive"
  <2>1. ArchiveInv(job) /\ job.sym \in Symbols
    BY <1>1, <1>2, <1>6, WritesWhat DEF Job, Archival
  <2>2. PICK e : e = [trade |-> job.trade.id, sym |-> job.sym, at |-> job.trade.at,
                      thesis |-> job.thesis, state |-> job.state]
    OBVIOUS
  <2>3. /\ file'.closed = {x \in file.closed : x.trade # job.trade.id} \cup {e}
        /\ file'.active = file.active
    BY <1>3, <1>6, <2>2 DEF Written, Archived, Books
  <2>4. job.thesis.since <= job.trade.at
    <3>1. HandInv(thread[t]) /\ thread[t].jobs \in Seq(Job)
      BY DEF FilingInv, TypeInv, Thread, ThreadType
    <3>2. Len(thread[t].jobs) \in Nat \ {0}
      BY <1>1, <3>1, EmptySeq
    <3>3. 1 \in DOMAIN thread[t].jobs
      BY <3>1, <3>2, LenProperties
    <3>. QED  BY <1>2, <1>6, <3>1, <3>3 DEF HandInv
  <2>5. EntriesDated'
    <3>1. e.thesis = job.thesis /\ e.at = job.trade.at
      BY <2>2
    <3>. QED  BY <2>3, <2>4, <3>1 DEF EntriesDated, FilingInv
  <2>6. Unfiled(job.sym)' = {}
    <3>1. Unfiled(job.sym) = {job.trade.id}
      BY <2>1 DEF ArchiveInv
    <3>2. job.trade.id \in DOMAIN trades /\ trades[job.trade.id] = job.trade
      BY <2>1, InLedger DEF ArchiveInv
    <3>3. e \in file'.closed /\ e.trade = job.trade.id
      BY <2>2, <2>3
    <3>4. job.trade.id \notin Unfiled(job.sym)'
      BY <1>1, <3>2, <3>3 DEF Unfiled, IsFiled
    <3>. QED  BY <1>5, <3>1, <3>4
  <2>7. \A u \in Symbols : /\ Unfiled(u)' # {} => file'.active[u] # None
                           /\ Older(u, file'.active[u])
    BY <1>4, <1>5, <2>3
  <2>. QED  BY <1>2, <1>3, <2>5, <2>6, <2>7, WriteFiles
<1>7. ASSUME job.do # "archive"
      PROVE  EntriesDated'
  <2>1. file'.closed = file.closed
    BY <1>3, <1>7 DEF Written, Upserted, Removed, Books, Job, Archival
  <2>. QED  BY <2>1 DEF EntriesDated, FilingInv
<1>8. CASE job.do \in {"touch", "change"}
  <2>1. file' = file
    BY <1>3, <1>8 DEF Written
  <2>2. \A u \in Symbols : /\ Unfiled(u)' # {} => file'.active[u] # None
                           /\ Older(u, file'.active[u])
    BY <1>4, <1>5, <2>1
  <2>. QED  BY <1>2, <1>3, <1>7, <1>8, <2>2, WriteFiles
<1>9. ASSUME NEW s \in Symbols, NEW x, file'.active = [file.active EXCEPT ![s] = x],
             Older(s, x), Unfiled(s) # {} => x # None, job.do # "archive"
      PROVE  FilingInv'
  <2>1. file.active \in [Symbols -> Thesis]
    BY <1>3 DEF Books
  <2>2. \A u \in Symbols : file'.active[u] = IF u = s THEN x ELSE file.active[u]
    BY <1>9, <2>1
  <2>3. \A u \in Symbols : /\ Unfiled(u)' # {} => file'.active[u] # None
                           /\ Older(u, file'.active[u])
    BY <1>4, <1>5, <1>9, <2>2
  <2>. QED  BY <1>2, <1>3, <1>7, <1>9, <2>3, WriteFiles
<1>10. CASE job.do = "upsert"
  <2>1. UpsertInv(job) /\ job.sym \in Symbols
    BY <1>1, <1>2, <1>10, WritesWhat DEF Job, Archival
  <2>2. file'.active = [file.active EXCEPT ![job.sym] = job.thesis]
    BY <1>3, <1>10 DEF Written, Upserted, Books
  <2>3. Older(job.sym, job.thesis) /\ job.thesis # None
    BY <1>4, <2>1 DEF UpsertInv
  <2>. QED  BY <1>9, <1>10, <2>1, <2>2, <2>3
<1>11. CASE job.do = "remove"
  <2>1. Len(thread[t].jobs) = 1 /\ job.sym \in Symbols
    BY <1>1, <1>2, <1>11, WritesWhat DEF Job, Archival
  <2>2. Unfiled(job.sym) = {}
    BY <1>2, <1>11, <2>1 DEF FilingInv, HandInv
  <2>3. file'.active = [file.active EXCEPT ![job.sym] = None]
    BY <1>3, <1>11 DEF Written, Removed, Books
  <2>4. Older(job.sym, None)
    BY <2>2 DEF Older
  <2>. QED  BY <1>9, <1>11, <2>1, <2>2, <2>3, <2>4
<1>12. CASE job.do = "count"
  <2>1. PICK s, x : s = Me.order.sym /\ x = Me.order.thesis
    OBVIOUS
  <2>2. t = Scanner /\ OnOrder(Me) /\ x # None /\ job = ToCount(s, x)
    BY <1>1, <1>2, <1>12, <2>1, WritesWhat
  <2>3. job.sym = s /\ job.thesis = x /\ s \in Symbols /\ x \in Thesis
    BY <1>2, <1>12, <2>2 DEF ToCount, Job, Archival
  <2>4. PICK y : y = Counted(file, s, x)
    OBVIOUS
  <2>5. y.since = x.since /\ y.filed \in {x.filed, file.active[s].filed} /\ y.id = x.id /\ y.out = x.out
        /\ (y # x => y.filed # x.filed)
    <3>1. CASE file.active[s].filed > x.filed
      <4>1. y = [x EXCEPT !.filed = file.active[s].filed]
        BY <2>4, <3>1 DEF Counted
      <4>. QED  BY <2>3, <4>1 DEF Thesis
    <3>2. CASE ~(file.active[s].filed > x.filed)
      BY <2>4, <3>2 DEF Counted
    <3>. QED  BY <3>1, <3>2
  <2>6. y # None
    <3>1. CASE file.active[s].filed > x.filed
      <4>1. y = [x EXCEPT !.filed = file.active[s].filed]
        BY <2>4, <3>1 DEF Counted
      <4>2. file.active[s].filed \in Nat /\ x.filed \in Nat
        BY <1>3, <2>3 DEF Books, Thesis
      <4>3. y.filed # 0
        BY <2>3, <3>1, <4>1, <4>2 DEF Thesis
      <4>. QED  BY <4>3 DEF None
    <3>2. CASE ~(file.active[s].filed > x.filed)
      BY <2>2, <2>4, <3>2 DEF Counted
    <3>. QED  BY <3>1, <3>2
  <2>7. Older(s, y)
    <3>1. Older(s, x)
      <4>1. HandInv(Me)
        BY Constants DEF FilingInv, Me
      <4>. QED  BY <2>1, <2>2, <4>1 DEF HandInv
    <3>. QED  BY <2>5, <3>1 DEF Older
  <2>8. file'.active = [file.active EXCEPT ![s] = y]
    BY <1>3, <1>12, <2>3, <2>4 DEF Written, Upserted, Books
  <2>. QED  BY <1>9, <1>12, <2>3, <2>6, <2>7, <2>8
<1>. QED
  BY <1>2, <1>3, <1>6, <1>8, <1>10, <1>11, <1>12 DEF Job, Archival

\* The broker's trades, under a broker that lets them be told apart.
LEMMA LedgerToldApart ==
  ASSUME TypeInv, LedgerInv, Spaced, broker.pace > MatchWindow
  PROVE  ToldApart(Ledger)
<1>1. SUFFICES ASSUME NEW x \in Ledger, NEW y \in Ledger, Match(x, y) PROVE x = y
  BY DEF ToldApart
<1>2. PICK i, j : /\ i = x.id /\ j = y.id /\ i \in DOMAIN trades /\ j \in DOMAIN trades
                  /\ trades[i] = x /\ trades[j] = y
  BY InLedger
<1>3. CASE i = j
  BY <1>2, <1>3
<1>4. CASE i # j
  <2>1. Distance(x.at, y.at) <= MatchWindow
    BY <1>1, <1>2, <1>4 DEF Match
  <2>2. DOMAIN trades = 1..Len(trades) /\ Len(trades) \in Nat
    BY LenProperties DEF TypeInv, BrokerInv
  <2>3. i \in Nat /\ j \in Nat /\ (i < j \/ j < i)
    BY <1>2, <1>4, <2>2
  <2>4. x.at \in Nat /\ y.at \in Nat /\ MatchWindow \in Nat /\ broker.pace \in Nat
    BY <1>2, TimesAreNat, Constants, MatchWindowAssumption DEF TypeInv, BrokerInv
  <2>5. x.at + broker.pace <= y.at \/ y.at + broker.pace <= x.at
    BY <1>2, <2>3 DEF Spaced
  <2>. QED  BY <2>1, <2>4, <2>5 DEF Distance
<1>. QED
  BY <1>3, <1>4

LEMMA SaveStoreFiles ==
  ASSUME TypeInv, LedgerInv, FilingInv, broker.pace > MatchWindow,
         NEW t \in Threads, Save(t), thread[t].jobs[1].do = "store"
  PROVE  FilingInv'
<1>1. /\ UNCHANGED <<broker, trades, memory, file>> /\ thread[t].jobs # <<>>
      /\ stored' = Written(thread[t].jobs[1], thread[t].copy)
      /\ thread[t].copy.trades \in Seq(Ledger) /\ thread[t].jobs \in Seq(Job)
      /\ \A u \in Threads \ {t} : thread'[u] = thread[u]
  BY SaveHand DEF Moves, TypeInv, ThreadType
<1>2. PICK job \in Job : job = thread[t].jobs[1]
  BY <1>1, WritesWhat
<1>3. job.do = "store" /\ job.view.trades \in Seq(Ledger) /\ job.view \in Portfolio
  BY <1>1, <1>2, StoresWhat DEF Job, Archival
<1>4. HasAll(job.view.trades) /\ HandInv(thread[t])
  BY <1>1, <1>2, <1>3 DEF FilingInv, HandInv
<1>5. PICK all : all = Merge(thread[t].copy.trades, job.view.trades)
  OBVIOUS
<1>6. stored'.trades = all
  BY <1>1, <1>2, <1>3, <1>5 DEF Written, Portfolio
<1>7. HasAll(all)
  <2>1. ToldApart(Ledger)
    BY LedgerToldApart DEF FilingInv
  <2>2. \A i \in DOMAIN job.view.trades : \E k \in DOMAIN all : all[k] = job.view.trades[i]
    BY <1>1, <1>3, <1>5, <2>1, MergeKeeps
  <2>. QED  BY <1>4, <2>2 DEF HasAll
<1>8. FreshInv'
  <2>1. HasAll(all)'
    BY <1>1, <1>7, TradesStay
  <2>2. HasAll(stored.trades)'
    BY <1>6, <2>1
  <2>. QED  BY <2>2 DEF FreshInv
<1>9. Spaced' /\ EntriesDated'
  BY <1>1, TradesStay DEF FilingInv
<1>10. ASSUME NEW s \in Symbols PROVE WaitingInv(s)'
  <2>1. WaitingInv(s)
    BY DEF FilingInv
  <2>. QED  BY <1>1, <2>1, TradesStay DEF WaitingInv, Older
<1>11. ASSUME NEW u \in Threads PROVE HandInv(thread[u])'
  <2>1. PICK x : x = thread'[u]
    OBVIOUS
  <2>2. HandInv(x)
    <3>1. CASE u # t
      BY <1>1, <2>1, <3>1 DEF FilingInv
    <3>2. CASE u = t /\ x = Resting
      BY <3>2, RestHasNothing
    <3>3. CASE u = t /\ x # Resting
      <4>1. /\ x.at = thread[t].at /\ x.view = thread[t].view /\ x.order = thread[t].order
            /\ x.phase = thread[t].phase /\ x.jobs = Tail(thread[t].jobs)
        BY <2>1, <3>3, SaveHand
      <4>. QED  BY <1>1, <1>2, <1>3, <1>4, <4>1, TailInHand
    <3>. QED  BY <3>1, <3>2, <3>3
  <2>3. HandInv(x)'
    BY <1>1, <2>2, TradesStay
  <2>. QED  BY <2>1, <2>3
<1>. QED
  BY <1>8, <1>9, <1>10, <1>11 DEF FilingInv

-----------------------------------------------------------------------------
(* Orders.                                                                 *)

\* When a scan comes to decide there is nothing left to file.
LEMMA DecidedFiled ==
  ASSUME TypeInv, LedgerInv, FilingInv, Me.at = "decide"
  PROVE  \A s \in Symbols : Unfiled(s) = {}
<1>1. DecideInv
  BY DEF LedgerInv, ScannerInv
<1>2. SUFFICES ASSUME NEW s \in Symbols PROVE Unfiled(s) = {}
  OBVIOUS
<1>3. CASE held[s] = 0
  <2>1. file.active[s] = None
    BY <1>1, <1>3 DEF DecideInv
  <2>. QED  BY <2>1 DEF FilingInv, WaitingInv
<1>4. CASE held[s] # 0
  <2>1. ~After(s)
    BY DEF After
  <2>. QED  BY <1>4, <2>1 DEF LedgerInv, SymbolInv
<1>. QED
  BY <1>3, <1>4

\* No trade is later than the youngest.
LEMMA NotLater ==
  ASSUME TypeInv, Spaced
  PROVE  \A i \in DOMAIN trades : trades[i].at <= Clock
<1>1. /\ trades \in Seq(Trade) /\ DOMAIN trades = 1..Len(trades) /\ Len(trades) \in Nat
      /\ broker.pace \in Nat
  BY LenProperties, Constants DEF TypeInv, BrokerInv
<1>2. SUFFICES ASSUME NEW i \in DOMAIN trades PROVE trades[i].at <= Clock
  OBVIOUS
<1>3. PICK n \in DOMAIN trades : n = Len(trades) /\ i <= n
  BY <1>1
<1>4. Clock = trades[n].at
  <2>1. trades # <<>>
    BY <1>1
  <2>. QED  BY <1>3, <2>1 DEF Clock, Last
<1>5. trades[i].at \in Nat /\ trades[n].at \in Nat
  BY TimesAreNat
<1>6. i < n => trades[i].at + broker.pace <= trades[n].at
  BY <1>2 DEF Spaced
<1>7. i = n \/ i < n
  BY <1>1, <1>3
<1>. QED
  BY <1>1, <1>4, <1>5, <1>6, <1>7

\* An order is executed. What was written down before it is older than the trade
\* that it closes.
LEMMA ExecutedFiles ==
  ASSUME TypeInv, LedgerInv, FilingInv, NEW sym \in Symbols, NEW does \in Int,
         Execute(sym, does), ~Orphans(sym), file # Torn, UNCHANGED <<broker, file, memory>>,
         orders' \in {orders, orders + 1}
  PROVE  /\ Spaced' /\ EntriesDated'
         /\ \A s \in Symbols : WaitingInv(s)'
         /\ \A x \in Thesis : x.since <= Clock + 1 /\ Older(sym, x) => Older(sym, x)'
<1>1. /\ Grows(sym)
      /\ \A i \in DOMAIN trades : i \in DOMAIN trades' /\ trades'[i] = trades[i]
      /\ \A u \in Symbols \ {sym} : Unfiled(u)' = Unfiled(u)
  BY ExecutedBooks
<1>2. PICK now \in Nat, pace \in Nat : now = Clock /\ pace = broker.pace /\ pace > 0
  BY ClockIsNat, Constants DEF TypeInv, BrokerInv
<1>3. trades \in Seq(Trade) /\ DOMAIN trades = 1..Len(trades) /\ Len(trades) \in Nat
  BY LenProperties DEF TypeInv, BrokerInv
<1>4. trades' # trades => /\ trades' \in Seq(Trade) /\ DOMAIN trades' = 1..(Len(trades) + 1)
                          /\ Len(trades') = Len(trades) + 1
  <2>1. SUFFICES ASSUME trades' # trades
                 PROVE  DOMAIN trades' = 1..(Len(trades) + 1) /\ Len(trades') = Len(trades) + 1
                        /\ trades' \in Seq(Trade)
    OBVIOUS
  <2>2. trades' = Append(trades, Closing(sym, does)) /\ Reduces(sym, does)
    BY <2>1 DEF Execute
  <2>3. Closing(sym, does) \in Trade
    <3>1. held[sym] \in Int /\ Sign(held[sym]) \in Int /\ Smaller(Abs(held[sym]), Abs(does)) \in Int
      BY DEF TypeInv, BrokerInv, Sign, Smaller, Abs
    <3>2. Sign(held[sym]) * Smaller(Abs(held[sym]), Abs(does)) \in Int
      <4>1. \A a, b \in Int : a * b \in Int
        OBVIOUS
      <4>. QED  BY <3>1, <4>1
    <3>. QED  BY <1>2, <1>3, <3>2 DEF Closing, Trade
  <2>. QED  BY <1>3, <2>2, <2>3, AppendProperties, LenProperties
<1>5. \A i \in DOMAIN trades : trades[i].at <= now /\ trades[i].at \in Nat
  BY <1>2, NotLater, TimesAreNat DEF FilingInv
<1>6. trades' # trades => trades'[Len(trades) + 1].at = now + pace
  BY <1>1, <1>2, <1>4 DEF Grows
<1>7. \A i, j \in DOMAIN trades : i < j => trades[i].at + pace <= trades[j].at
  BY <1>2 DEF FilingInv, Spaced
<1>8. Spaced'
  <2>1. CASE trades' = trades
    BY <1>2, <1>7, <2>1 DEF Spaced
  <2>2. CASE trades' # trades
    <3>1. SUFFICES ASSUME NEW i \in DOMAIN trades', NEW j \in DOMAIN trades', i < j
                   PROVE  trades'[i].at + pace <= trades'[j].at
      BY <1>2 DEF Spaced
    <3>2. i \in DOMAIN trades /\ (j \in DOMAIN trades \/ j = Len(trades) + 1)
      BY <1>3, <1>4, <2>2, <3>1
    <3>3. CASE j \in DOMAIN trades
      BY <1>1, <1>7, <3>1, <3>2, <3>3
    <3>4. CASE j = Len(trades) + 1
      <4>1. trades'[j].at = now + pace /\ trades'[i].at = trades[i].at
        BY <1>1, <1>6, <2>2, <3>2, <3>4
      <4>. QED  BY <1>2, <1>5, <3>2, <4>1
    <3>. QED  BY <3>2, <3>3, <3>4
  <2>. QED  BY <2>1, <2>2
<1>9. EntriesDated'
  BY DEF EntriesDated, FilingInv
<1>10. ASSUME NEW x \in Thesis, x.since <= Clock + 1, Older(sym, x) PROVE Older(sym, x)'
  <2>1. SUFFICES ASSUME NEW i \in Unfiled(sym)' PROVE x.since <= trades'[i].at
    BY DEF Older
  <2>2. i \in Unfiled(sym) \/ (trades' # trades /\ i = Len(trades) + 1)
    BY <1>1, <1>3 DEF Grows
  <2>3. CASE i \in Unfiled(sym)
    BY <1>1, <1>10, <2>3 DEF Older, Unfiled
  <2>4. CASE trades' # trades /\ i = Len(trades) + 1
    BY <1>2, <1>6, <1>10, <2>4 DEF Thesis
  <2>. QED  BY <2>2, <2>3, <2>4
<1>11. ASSUME NEW s \in Symbols PROVE WaitingInv(s)'
  <2>1. PICK x \in Thesis, y \in Thesis : /\ x = file.active[s] /\ x = file'.active[s]
                                          /\ y = memory[s] /\ y = memory'[s]
    BY DEF TypeInv, BooksInv, Books
  <2>2. Older(s, x) /\ Older(s, y) /\ (Unfiled(s) # {} => x # None)
    BY <2>1 DEF FilingInv, WaitingInv
  <2>3. CASE s = sym
    <3>1. x.since <= Clock + 1 /\ y.since <= Clock + 1
      BY <2>1 DEF LedgerInv, SymbolInv, Past
    <3>2. Older(s, x)' /\ Older(s, y)'
      BY <1>10, <2>2, <2>3, <3>1
    <3>3. Unfiled(s)' # {} => x # None
      <4>1. trades' = trades => Unfiled(s)' = Unfiled(s)
        BY DEF Unfiled
      <4>. QED  BY <2>1, <2>2, <2>3, <4>1 DEF Orphans
    <3>. QED  BY <2>1, <3>2, <3>3 DEF WaitingInv
  <2>4. CASE s # sym
    <3>1. Unfiled(s)' = Unfiled(s)
      BY <1>1, <2>4
    <3>2. \A i \in Unfiled(s) : trades'[i] = trades[i]
      BY <1>1 DEF Unfiled
    <3>3. Older(s, x)' /\ Older(s, y)'
      BY <2>2, <3>1, <3>2 DEF Older
    <3>. QED  BY <2>1, <2>2, <3>1, <3>3 DEF WaitingInv
  <2>. QED  BY <2>3, <2>4
<1>. QED
  BY <1>8, <1>9, <1>10, <1>11

\* A thread has executed an order: the books wait for it.
LEMMA ExecutedHand ==
  ASSUME TypeInv, FilingInv, NEW t \in Threads, NEW r, Moves(t, r),
         \A u \in Threads \ {t} : thread[u] = Resting,
         Spaced', EntriesDated', \A s \in Symbols : WaitingInv(s)',
         r.at \in {"sent", "closed"}, r.jobs = <<>>,
         OnOrder(r) => Older(r.order.sym, r.order.thesis)'
  PROVE  FilingInv'
<1>1. thread'[t] = r /\ \A u \in Threads \ {t} : thread'[u] = Resting
  BY DEF Moves, TypeInv
<1>2. FreshInv'
  <2>1. Behind(t)'
    BY <1>1 DEF Behind
  <2>. QED  BY <2>1 DEF FreshInv
<1>3. HandInv(r)'
  <2>1. Len(<<>>) = 0 /\ DOMAIN <<>> = {}
    OBVIOUS
  <2>. QED  BY <2>1 DEF HandInv
<1>4. HandInv(Resting)'
  <2>1. Resting.at = "rest" /\ Resting.jobs = <<>>
    BY DEF Resting
  <2>2. Len(<<>>) = 0 /\ DOMAIN <<>> = {}
    OBVIOUS
  <2>. QED  BY <2>1, <2>2 DEF HandInv, OnOrder
<1>5. ASSUME NEW u \in Threads PROVE HandInv(thread[u])'
  <2>1. CASE u = t
    <3>1. thread'[u] = r
      BY <1>1, <2>1
    <3>. QED  BY <1>3, <3>1
  <2>2. CASE u # t
    <3>1. thread'[u] = Resting
      BY <1>1, <2>2
    <3>. QED  BY <1>4, <3>1
  <2>. QED  BY <2>1, <2>2
<1>. QED
  BY <1>2, <1>5 DEF FilingInv

LEMMA OrderFiles ==
  ASSUME TypeInv, LedgerInv, FilingInv, file # Torn, broker.reports, ~orphaned',
         NEW sym \in Symbols, NEW thesis \in Thesis, NEW delta \in Int,
         Order(sym, delta, thesis), thesis.since <= Clock + 1
  PROVE  FilingInv'
<1> DEFINE r == [Me EXCEPT !.at = "sent", !.phase = "after",
                           !.order = [sym |-> sym, thesis |-> thesis, delta |-> delta]]
<1>1. PICK does \in Int : does = Allowed(sym, delta, FALSE)
  BY AllowedIsInt DEF TypeInv
<1>2. /\ Me.at = "decide" /\ Me.jobs = <<>> /\ Me \in ThreadType
      /\ orders' = orders + 1 /\ Execute(sym, does) /\ Moves(Scanner, r) /\ ~Orphans(sym)
      /\ UNCHANGED <<broker, file, memory>>
  BY <1>1, MeIsThread, ReporterTraits
  DEF Order, Submit, At, Me, UnchangedByThreads, Thread
<1>3. \A u \in Threads \ {Scanner} : thread[u] = Resting
  BY <1>2, AtWork, Constants DEF Me
<1>4. Older(sym, thesis)
  BY <1>2, DecidedFiled DEF Older
<1>5. Spaced' /\ EntriesDated' /\ (\A s \in Symbols : WaitingInv(s)') /\ Older(sym, thesis)'
  BY <1>2, <1>4, ExecutedFiles
<1>6. r.at = "sent" /\ r.jobs = <<>> /\ r.order.sym = sym /\ r.order.thesis = thesis
  BY <1>2 DEF ThreadType
<1>7. PICK q : q = r
  OBVIOUS
<1> HIDE DEF r
<1>8. q.order.sym = sym /\ q.order.thesis = thesis
  BY <1>6, <1>7
<1>9. Older(q.order.sym, q.order.thesis)'
  BY <1>5, <1>8
<1>. QED
  BY <1>2, <1>3, <1>5, <1>6, <1>7, <1>9, ExecutedHand, Constants

LEMMA OrdersFile ==
  ASSUME TypeInv, LedgerInv, FilingInv, file # Torn, broker.reports, ~orphaned',
         NEW sym \in Symbols, Signal(sym) \/ Exit(sym) \/ ScaleOut(sym)
  PROVE  FilingInv'
<1>1. Me.view.pos[sym] \in Int
  <2>1. Me.at = "decide"
    BY DEF Signal, Exit, ScaleOut, Order, At, Me
  <2>. QED  BY <2>1 DEF LedgerInv, ScannerInv, DecideInv, ViewInv, TypeInv, BrokerInv
<1>2. orders \in Nat /\ Clock \in Nat /\ Lot \in Int
  BY ClockIsNat, Constants DEF TypeInv, CountInv
<1>3. PICK k \in Thesis : k = Selected(sym) /\ k.since <= Clock + 1
  BY SelectedIsKept DEF Past
<1>4. CASE Signal(sym)
  <2>1. NewThesis \in Thesis /\ NewThesis.since <= Clock + 1
    BY <1>2 DEF NewThesis, Thesis
  <2>2. PICK d \in Int : Order(sym, d, NewThesis)
    BY <1>1, <1>2, <1>4 DEF Signal
  <2>. QED  BY <2>1, <2>2, OrderFiles
<1>5. CASE Exit(sym)
  <2>1. PICK d \in Int : Order(sym, d, k)
    BY <1>1, <1>3, <1>5 DEF Exit
  <2>. QED  BY <1>3, <2>1, OrderFiles
<1>6. CASE ScaleOut(sym)
  <2>1. PICK x : x = [k EXCEPT !.out = k.out + 1]
    OBVIOUS
  <2>2. x \in Thesis /\ x.since <= Clock + 1
    BY <1>3, <2>1 DEF Thesis
  <2>3. PICK d \in Int : Order(sym, d, x)
    <3>1. -Sign(Me.view.pos[sym]) \in Int
      BY <1>1 DEF Sign
    <3>. QED  BY <1>3, <1>6, <2>1, <3>1 DEF ScaleOut
  <2>. QED  BY <2>2, <2>3, OrderFiles
<1>. QED
  BY <1>4, <1>5, <1>6

LEMMA ClosePositionFiles ==
  ASSUME TypeInv, LedgerInv, FilingInv, file # Torn, broker.reports,
         ~overlapped', ~orphaned', NEW t, NEW sym \in Symbols, ClosePosition(t, sym)
  PROVE  FilingInv'
<1>1. /\ t \in Requesters /\ t \in Threads
      /\ Submit(sym, -stored.pos[sym], TRUE) /\ stored.pos[sym] # 0 /\ ~Orphans(sym)
      /\ UNCHANGED <<broker, stored, file, memory, orders>>
      /\ \A u \in Threads : thread[u] = Resting
  BY DEF ClosePosition, Request, Begins, Alongside, Busy, Threads
<1>2. PICK d \in Int : d = -held[sym] /\ held[sym] # 0 /\ d = -stored.pos[sym]
  <2>1. stored.pos[sym] = held[sym] /\ held[sym] \in Int
    BY <1>1, StoredIsCurrent DEF TypeInv, BrokerInv
  <2>. QED  BY <1>1, <2>1
<1>3. Allowed(sym, d, TRUE) = d
  BY <1>2, AgainstPosition
<1>4. Execute(sym, d)
  BY <1>1, <1>2, <1>3, ReporterTraits DEF Submit
<1>5. held'[sym] # held[sym]
  <2>1. held[sym] \in Int /\ held'[sym] = held[sym] + d
    BY <1>4 DEF TypeInv, BrokerInv, Execute
  <2>. QED  BY <1>2, <2>1
<1>6. Spaced' /\ EntriesDated' /\ \A s \in Symbols : WaitingInv(s)'
  BY <1>1, <1>4, ExecutedFiles
<1> DEFINE r == [Resting EXCEPT !.at = "closed",
                     !.order = [sym |-> sym, thesis |-> None, delta |-> stored.pos[sym]]]
<1>7. Moves(t, r)
  BY <1>1, <1>5, ReporterTraits DEF ClosePosition
<1>8. r.at = "closed" /\ r.jobs = <<>>
  BY DEF Resting
<1> HIDE DEF r
<1>9. ~OnOrder(r)
  BY <1>8 DEF OnOrder
<1>. QED
  BY <1>1, <1>6, <1>7, <1>8, <1>9, ExecutedHand

-----------------------------------------------------------------------------
(* The journal of a broker whose trades are told apart.                    *)

LEMMA FilingStep ==
  ASSUME TypeInv, LedgerInv, FilingInv, file # Torn, TellsApart, Next,
         ~overlapped', ~orphaned'
  PROVE  FilingInv'
<1>1. broker.reports /\ broker.pace > MatchWindow
  BY DEF TellsApart
<1>2. CASE Scan
  <2>1. ~Lose
    BY <1>1, ReporterTraits DEF Lose, Fault
  <2>. QED  BY <1>1, <1>2, <2>1, BeginScanFiles, ListThesesFiles, FileScaleOutFiles, DropStaleFiles,
               SynchronisedFiles, HoldFiles, RecordFiles, MoveStopFiles, OrdersFile DEF Scan
<1>3. CASE \E t \in Threads : Write(t)
  <2>1. PICK t \in Threads : Load(t) \/ Save(t)
    BY <1>3 DEF Write
  <2>. QED  BY <1>1, <2>1, LoadFiles, SaveFileFiles, SaveStoreFiles
<1>4. CASE \E t \in Requesters : Handle(t)
  <2>1. PICK t \in Requesters : Handle(t)
    BY <1>4
  <2>2. RequestInv(t)
    BY DEF LedgerInv
  <2>3. ~RequestFails(t) /\ ~ListBackfilled(t) /\ ~Recover(t)
    BY <1>1, <2>2, ReporterTraits DEF RequestFails, Fault, ListBackfilled, Recover, At, RequestInv
  <2>. QED  BY <1>1, <2>1, <2>3, RecordCloseFiles, FileCloseFiles DEF Handle
<1>5. CASE \E t \in Requesters : \/ Backfill(t) \/ ChangeState(t)
                                 \/ \E s \in Symbols : ClosePosition(t, s)
  <2>1. \A t \in Requesters : ~Backfill(t)
    BY <1>1, ReporterTraits DEF Backfill, Request
  <2>. QED  BY <1>1, <1>5, <2>1, ChangeStateFiles, ClosePositionFiles
<1>6. CASE \E s \in Symbols : Fill(s)
  BY <1>6 DEF Fill, LedgerInv, SymbolInv
<1>7. CASE Age
  BY <1>7, AgeFiles
<1>8. CASE Crash
  BY <1>1, <1>8, ReporterTraits DEF Crash, Fault
<1>. QED
  BY <1>2, <1>3, <1>4, <1>5, <1>6, <1>7, <1>8 DEF Next, Threads

LEMMA FilingStutter ==
  ASSUME FilingInv, UNCHANGED vars
  PROVE  FilingInv'
<1>1. UNCHANGED <<broker, trades, stored, file, memory, thread>>
  BY DEF vars
<1>2. Spaced' /\ EntriesDated'
  BY <1>1, TradesStay DEF FilingInv
<1>3. FreshInv'
  BY <1>1 DEF FilingInv, FreshInv, Behind, HasAll
<1>4. ASSUME NEW s \in Symbols PROVE WaitingInv(s)'
  <2>1. Unfiled(s)' = Unfiled(s)
    BY <1>1, TradesStay
  <2>. QED  BY <1>1, <2>1 DEF FilingInv, WaitingInv, Older
<1>5. ASSUME NEW t \in Threads PROVE HandInv(thread[t])'
  <2>1. PICK x : x = thread[t] /\ x = thread'[t]
    BY <1>1
  <2>2. HandInv(x)'
    BY <1>1, <2>1, TradesStay DEF FilingInv
  <2>. QED  BY <2>1, <2>2
<1>. QED
  BY <1>2, <1>3, <1>4, <1>5 DEF FilingInv

LEMMA FilingHolds == Spec => [](Undisturbed /\ TellsApart => FilingInv)
<1>1. Init => FilingInv
  BY FilingInit
<1>2. TypeInv /\ Inv /\ (Undisturbed /\ TellsApart => FilingInv) /\ [Next]_vars
        => (Undisturbed /\ TellsApart => FilingInv)'
  <2> SUFFICES ASSUME TypeInv, Inv, Undisturbed /\ TellsApart => FilingInv, [Next]_vars,
                      Undisturbed', TellsApart'
               PROVE  FilingInv'
    OBVIOUS
  <2>1. CASE Next
    <3>1. ~overlapped' /\ ~orphaned' /\ file' # Torn
      BY DEF Undisturbed
    <3>2. TellsApart /\ ~overlapped /\ ~orphaned /\ file # Torn
      BY <2>1, <3>1, DisturbedStays, TornStays DEF Inv, TellsApart
    <3>3. LedgerInv /\ FilingInv
      BY <3>2 DEF Inv, Undisturbed, TellsApart
    <3>. QED  BY <2>1, <3>1, <3>2, <3>3, FilingStep
  <2>2. CASE UNCHANGED vars
    <3>1. Undisturbed /\ TellsApart
      BY <2>2 DEF vars, Undisturbed, TellsApart
    <3>. QED  BY <2>2, <3>1, FilingStutter
  <2>. QED  BY <2>1, <2>2
<1>. QED
  BY <1>1, <1>2, TypeInvHolds, InvHolds, PTL DEF Spec

\* With a broker that reports its trades, none so close to another that the store
\* takes the two for one, each trade that a scan knows when it comes to decide has
\* been filed, with a thesis made before the trade closed (_sync_trade_thesis_state
\* of the scanner, close_position of the API): the portfolio a scan works on lacks
\* no trade, a trade waits only for a thesis that is still written down, and a
\* thesis is not removed while a trade waits for it.
THEOREM TradesAreAllFiled == Spec => []TradesAreFiled
<1>1. TypeInv /\ Inv /\ (Undisturbed /\ TellsApart => FilingInv) => TradesAreFiled
  <2> SUFFICES ASSUME TypeInv, Inv, FilingInv, Undisturbed, TellsApart, At(Scanner, "decide"),
                      NEW i \in DOMAIN Me.view.trades
               PROVE  \E e \in file.closed : /\ e.trade = Me.view.trades[i].id
                                             /\ e.thesis.since <= e.at
    BY DEF TradesAreFiled
  <2>1. LedgerInv /\ Me.at = "decide"
    BY DEF Inv, TellsApart, At, Me
  <2>2. Me.view.trades \in Seq(Ledger)
    BY <2>1 DEF LedgerInv, ScannerInv, DecideInv, ViewInv
  <2>3. PICK trade \in Ledger : trade = Me.view.trades[i]
    BY <2>2, ElementOfSeq, LenProperties
  <2>4. /\ trade.id \in DOMAIN trades /\ trades[trade.id] = trade
        /\ Symbol(trade) \in Symbols
    BY <2>1, InLedger
  <2>5. trade.id \notin Unfiled(Symbol(trade))
    BY <2>1, <2>4, DecidedFiled
  <2>6. PICK e \in file.closed : e.trade = trade.id
    BY <2>4, <2>5 DEF Unfiled, IsFiled
  <2>. QED  BY <2>3, <2>6 DEF FilingInv, EntriesDated
<1>. QED
  BY <1>1, TypeInvHolds, InvHolds, FilingHolds, PTL

-----------------------------------------------------------------------------
(* What is filed stays, with any broker, through failures and restarts.    *)

\* Trades of the broker, and those made up for closes.
Upto(n) == {x \in Trade : -n <= x.id /\ x.id <= n}
Lists == Seq(Upto(Len(trades)))

\* A broker that fills at once has closed a position of the symbol, and nothing
\* has been filed since.
JustClosed(s) ==
    /\ broker.fillsAtOnce
    /\ trades # <<>> /\ Symbol(trades[Len(trades)]) = s
    /\ \A e \in file.closed : -Len(trades) < e.trade /\ e.trade < Len(trades)

\* Writes under way: a trade that is to be filed has not been.
JobsInv(jobs) ==
    \A i \in DOMAIN jobs :
      /\ jobs[i].do = "store" => jobs[i].view.trades \in Lists
      /\ jobs[i].do = "archive" =>
           i = 1 /\ jobs[i].trade \in Upto(Len(trades)) /\ ~IsFiled(file, jobs[i].trade)

\* What has been loaded is as it was.
LoadedInv(r) ==
    r.copy # None =>
        IF Head(r.jobs).do = "store" THEN r.copy.trades \in Lists ELSE r.copy = file

\* What a thread has in hand: lists of trades there are, and for a close the trade
\* to file, which has not been.
InHand(r) ==
    /\ r.view.trades \in Lists /\ r.left \in Lists
    /\ JobsInv(r.jobs) /\ LoadedInv(r)
    /\ r.at = "closed" => JustClosed(r.order.sym) /\ r.jobs = <<>>
    /\ r.at = "file" => /\ ~IsFiled(file, r.left[1])
                        /\ \A i \in DOMAIN r.jobs : r.jobs[i].do = "store"

\* Trades are numbered; made-up ones count down, from the number of trades that
\* there are when the close is recorded.
ListedInv ==
    /\ \A i \in DOMAIN trades : trades[i].id = i
    /\ broker.fillsAtOnce => \A s \in Symbols : working[s] = 0
    /\ \A e \in file.closed : -Len(trades) <= e.trade /\ e.trade <= Len(trades)
    /\ stored.trades \in Lists

\* What each thread is about to archive is a trade that the journal lacks.
StayInv == AloneInv /\ ListedInv /\ \A t \in Threads : InHand(thread[t])

LEMMA NobodyElse ==
  ASSUME AloneInv, NEW t \in Threads, Busy(t) \/ (Begins(t) /\ ~overlapped')
  PROVE  \A u \in Threads \ {t} : thread[u] = Resting
<1>1. CASE Busy(t)
  BY <1>1, OthersRest
<1>2. CASE Begins(t) /\ ~overlapped'
  BY <1>2 DEF Begins, Alongside, Busy
<1>. QED
  BY <1>1, <1>2

LEMMA EmptyLists ==
  ASSUME BrokerInv
  PROVE  Len(trades) \in Nat /\ <<>> \in Lists /\ Lists \subseteq Seq(Trade) /\ InHand(Resting)
<1>1. Len(trades) \in Nat
  BY LenProperties DEF BrokerInv
<1>2. <<>> \in Lists
  BY EmptySeq DEF Lists
<1>3. Lists \subseteq Seq(Trade)
  <2>1. Upto(Len(trades)) \subseteq Trade
    BY DEF Upto
  <2>. QED  BY <2>1, SeqGrows DEF Lists
<1>4. InHand(Resting)
  <2>1. DOMAIN <<>> = {}
    OBVIOUS
  <2>2. /\ Resting.view.trades = <<>> /\ Resting.left = <<>> /\ Resting.jobs = <<>>
        /\ Resting.copy = None /\ Resting.at = "rest"
    BY DEF Resting, NoView
  <2>. QED  BY <1>2, <2>1, <2>2 DEF InHand, JobsInv, LoadedInv
<1>. QED
  BY <1>1, <1>2, <1>3, <1>4

\* The broker's trades, in any order.
LEMMA TradesAreListed ==
  ASSUME BrokerInv, \A i \in DOMAIN trades : trades[i].id = i
  PROVE  /\ trades \in Lists /\ NewestFirst(trades) \in Lists /\ Reconciled.trades \in Lists
         /\ \A s \in Lists : NewestFirst(s) \in Lists
<1>1. Len(trades) \in Nat /\ DOMAIN trades = 1..Len(trades) /\ trades \in [1..Len(trades) -> Trade]
  BY LenProperties DEF BrokerInv
<1>2. \A i \in 1..Len(trades) : trades[i] \in Upto(Len(trades))
  BY <1>1 DEF Upto
<1>3. trades = [i \in 1..Len(trades) |-> trades[i]]
  BY <1>1
<1>4. trades \in Lists
  BY <1>1, <1>2, <1>3, IsASeq DEF Lists
<1>5. \A s \in Lists : NewestFirst(s) \in Lists
  BY NewestFirstIsIn DEF Lists
<1>6. Reconciled.trades \in Lists
  BY <1>4, EmptyLists DEF Reconciled
<1>. QED
  BY <1>4, <1>5, <1>6

\* A step that changes what one thread has in hand and neither trades, store nor
\* file.
LEMMA HandStays ==
  ASSUME TypeInv, ListedInv, NEW t \in Threads, NEW r, Moves(t, r), InHand(r),
         \A u \in Threads \ {t} : thread[u] = Resting,
         UNCHANGED <<broker, working, trades, stored, file>>
  PROVE  StayInv'
<1>1. thread'[t] = r /\ \A u \in Threads \ {t} : thread'[u] = Resting
  BY DEF Moves, TypeInv
<1>2. AloneInv'
  BY <1>1 DEF AloneInv, Busy
<1>3. ListedInv'
  BY DEF ListedInv, Lists
<1>4. ASSUME NEW u \in Threads PROVE InHand(thread[u])'
  <2>1. PICK x : x = thread'[u] /\ InHand(x)
    BY <1>1, EmptyLists DEF TypeInv
  <2>2. InHand(x)'
    BY <2>1 DEF InHand, JobsInv, LoadedInv, JustClosed, Lists, IsFiled
  <2>. QED  BY <2>1, <2>2
<1>. QED
  BY <1>2, <1>3, <1>4 DEF StayInv

-----------------------------------------------------------------------------
(* Steps of the scanner.                                                   *)

\* One write, or none, begun by a thread.
LEMMA FewJobs ==
  ASSUME NEW a, NEW b
  PROVE  /\ DOMAIN <<>> = {} /\ DOMAIN <<a>> = {1} /\ <<a>>[1] = a
         /\ DOMAIN <<a, b>> = {1, 2} /\ <<a, b>>[1] = a /\ <<a, b>>[2] = b
OBVIOUS

LEMMA ScanHands ==
  ASSUME TypeInv, StayInv, file # Torn,
         BeginScan \/ ListTheses \/ Hold \/ Lose \/ Record
           \/ (\E s \in Symbols : MoveStop(s)),
         ~overlapped'
  PROVE  StayInv'
<1>1. /\ Me \in ThreadType /\ InHand(Me) /\ Scanner \in Threads /\ ListedInv /\ AloneInv /\ BrokerInv
      /\ Me.jobs = <<>> => Me.copy = None
  BY MeIsThread DEF StayInv, Me, Thread, TypeInv
<1>2. /\ Resting \in ThreadType /\ Resting.view.trades = <<>> /\ Resting.left = <<>>
      /\ Resting.copy = None /\ <<>> \in Lists /\ InHand(Resting)
  BY <1>1, SmallTypes, EmptyLists DEF Resting, NoView, Thread
<1>3. /\ stored.trades \in Lists /\ Reconciled.trades \in Lists
      /\ \A s \in Lists : NewestFirst(s) \in Lists
  BY <1>1, TradesAreListed DEF ListedInv
<1>4. Me.at # "rest" => \A u \in Threads \ {Scanner} : thread[u] = Resting
  BY <1>1, NobodyElse DEF Busy, Me, Resting
<1>5. CASE BeginScan
  <2>1. \A u \in Threads \ {Scanner} : thread[u] = Resting
    BY <1>1, <1>5, NobodyElse DEF BeginScan
  <2>2. PICK view : /\ view \in {[stored EXCEPT !.fresh = FALSE], Reconciled}
                    /\ Moves(Scanner, [Resting EXCEPT !.at = "list", !.phase = "before",
                                         !.view = view, !.jobs = <<ToStore(view)>>])
    BY <1>5 DEF BeginScan
  <2>3. view.trades \in Lists
    <3>1. [stored EXCEPT !.fresh = FALSE].trades = stored.trades
      BY DEF TypeInv, BooksInv, Portfolio
    <3>. QED  BY <1>3, <2>2, <3>1
  <2> DEFINE r == [Resting EXCEPT !.at = "list", !.phase = "before", !.view = view,
                                  !.jobs = <<ToStore(view)>>]
  <2>4. /\ r.at = "list" /\ r.view = view /\ r.left = <<>> /\ r.copy = None
        /\ r.jobs = <<ToStore(view)>>
    BY <1>2 DEF ThreadType
  <2> HIDE DEF r
  <2>5. JobsInv(r.jobs)
    BY <2>3, <2>4, FewJobs DEF JobsInv, ToStore
  <2>6. InHand(r)
    BY <1>2, <2>3, <2>4, <2>5 DEF InHand, LoadedInv
  <2>7. Moves(Scanner, r)
    BY <2>2 DEF r
  <2>. QED  BY <1>1, <1>5, <2>1, <2>6, <2>7, HandStays DEF BeginScan
<1>6. CASE ListTheses
  <2> DEFINE r == [Me EXCEPT !.at = "scale-outs", !.active = file.active,
                             !.left = NewestFirst(Me.view.trades)]
  <2>1. Moves(Scanner, r) /\ Me.at = "list" /\ Me.jobs = <<>>
    BY <1>6 DEF ListTheses, At, Me
  <2>2. /\ r.at = "scale-outs" /\ r.view = Me.view /\ r.left = NewestFirst(Me.view.trades)
        /\ r.copy = Me.copy /\ r.jobs = Me.jobs
    BY <1>1 DEF ThreadType
  <2> HIDE DEF r
  <2>3. InHand(r)
    BY <1>1, <1>3, <2>2 DEF InHand, LoadedInv
  <2>. QED  BY <1>1, <1>4, <1>6, <2>1, <2>3, HandStays DEF ListTheses, UnchangedByThreads
<1>7. CASE Hold \/ Lose
  <2>1. Moves(Scanner, Resting) /\ Me.at # "rest" /\ UNCHANGED <<broker, working, trades, stored, file>>
    BY <1>7 DEF Hold, Lose, At, Me, UnchangedByThreads
  <2>. QED  BY <1>1, <1>2, <1>4, <2>1, HandStays
<1>8. CASE Record
  <2>1. PICK s, x : Moves(Scanner, [Me EXCEPT !.at = "list", !.view = Reconciled,
                       !.jobs = <<ToStore(Reconciled), ToTouch(s), ToCount(s, x)>>])
    BY <1>8 DEF Record
  <2> DEFINE jobs == <<ToStore(Reconciled), ToTouch(s), ToCount(s, x)>>
             r == [Me EXCEPT !.at = "list", !.view = Reconciled, !.jobs = jobs]
  <2>2. Me.at = "sent" /\ Me.jobs = <<>> /\ Me.copy = None
    BY <1>1, <1>8 DEF Record, At, Me
  <2>3. /\ DOMAIN jobs = {1, 2, 3} /\ jobs[1].do = "store" /\ jobs[1].view = Reconciled
        /\ jobs[2].do = "touch" /\ jobs[3].do = "count"
    BY DEF ToStore, ToTouch, ToCount
  <2>4. JobsInv(jobs)
    BY <1>3, <2>3 DEF JobsInv
  <2> HIDE DEF jobs
  <2>5. r.at = "list" /\ r.view = Reconciled /\ r.left = Me.left /\ r.copy = Me.copy /\ r.jobs = jobs
    BY <1>1 DEF ThreadType
  <2>6. Moves(Scanner, r)
    BY <2>1 DEF jobs
  <2> HIDE DEF r
  <2>7. InHand(r)
    BY <1>1, <1>3, <2>2, <2>4, <2>5 DEF InHand, LoadedInv
  <2>. QED  BY <1>1, <1>4, <1>8, <2>2, <2>6, <2>7, HandStays DEF Record, UnchangedByThreads
<1>9. CASE \E s \in Symbols : MoveStop(s)
  <2>1. PICK s \in Symbols : MoveStop(s)
    BY <1>9
  <2> DEFINE r == [Resting EXCEPT !.jobs = <<ToUpsert(s, Selected(s))>>]
  <2>2. Moves(Scanner, r) /\ Me.at = "decide"
    BY <2>1 DEF MoveStop, At, Me
  <2>3. /\ r.at = "rest" /\ r.view.trades = <<>> /\ r.left = <<>> /\ r.copy = None
        /\ r.jobs = <<ToUpsert(s, Selected(s))>>
    BY <1>2 DEF ThreadType, Resting
  <2> HIDE DEF r
  <2>4. JobsInv(r.jobs)
    BY <2>3, FewJobs DEF JobsInv, ToUpsert
  <2>5. InHand(r)
    BY <1>2, <2>3, <2>4 DEF InHand, LoadedInv
  <2>. QED  BY <1>1, <1>4, <2>1, <2>2, <2>5, HandStays DEF MoveStop, UnchangedByThreads
<1>. QED
  BY <1>5, <1>6, <1>7, <1>8, <1>9

LEMMA FileScaleOutHand ==
  ASSUME TypeInv, StayInv, file # Torn, FileScaleOut
  PROVE  StayInv'
<1>1. /\ Me \in ThreadType /\ InHand(Me) /\ Scanner \in Threads /\ ListedInv /\ AloneInv /\ BrokerInv
      /\ Me.at = "scale-outs" /\ Me.jobs = <<>> /\ Me.copy = None /\ Me.left # <<>>
      /\ InHand(Resting)
  BY MeIsThread, EmptyLists DEF StayInv, Me, Thread, TypeInv, FileScaleOut, At
<1>2. \A u \in Threads \ {Scanner} : thread[u] = Resting
  BY <1>1, NobodyElse DEF Busy, Me, Resting
<1>3. Me.left \in Seq(Upto(Len(trades)))
  BY <1>1 DEF InHand, Lists
<1>4. Head(Me.left) \in Upto(Len(trades)) /\ Tail(Me.left) \in Lists
  BY <1>1, <1>3, HeadTailProperties DEF Lists
<1>5. UNCHANGED <<broker, working, trades, stored, file>>
  BY DEF FileScaleOut, UnchangedByThreads
<1>6. PICK trade, x, y, z : /\ trade = Head(Me.left)
                            /\ \/ /\ IsScaleOut(trade)
                                  /\ Moves(Scanner, [Me EXCEPT !.left = Tail(Me.left), !.active[x] = z,
                                       !.jobs = <<ToArchive(x, trade, y, "scaled-out"), ToUpsert(x, z)>>])
                               \/ Moves(Scanner, [Me EXCEPT !.left = Tail(Me.left)])
  BY DEF FileScaleOut
<1>7. CASE Moves(Scanner, [Me EXCEPT !.left = Tail(Me.left)])
  <2> DEFINE r == [Me EXCEPT !.left = Tail(Me.left)]
  <2>1. /\ r.at = "scale-outs" /\ r.view = Me.view /\ r.left = Tail(Me.left)
        /\ r.copy = Me.copy /\ r.jobs = Me.jobs
    BY <1>1 DEF ThreadType
  <2> HIDE DEF r
  <2>2. InHand(r)
    BY <1>1, <1>4, <2>1 DEF InHand, LoadedInv
  <2>3. Moves(Scanner, r)
    BY <1>7 DEF r
  <2>. QED  BY <1>1, <1>2, <1>5, <2>2, <2>3, HandStays
<1>8. CASE /\ IsScaleOut(trade)
           /\ Moves(Scanner, [Me EXCEPT !.left = Tail(Me.left), !.active[x] = z,
                       !.jobs = <<ToArchive(x, trade, y, "scaled-out"), ToUpsert(x, z)>>])
  <2> DEFINE jobs == <<ToArchive(x, trade, y, "scaled-out"), ToUpsert(x, z)>>
             r == [Me EXCEPT !.left = Tail(Me.left), !.active[x] = z, !.jobs = jobs]
  <2>1. /\ DOMAIN jobs = {1, 2} /\ jobs[1].do = "archive" /\ jobs[1].trade = trade /\ jobs[2].do = "upsert"
    BY DEF ToArchive, ToUpsert
  <2>2. ~IsFiled(file, trade) /\ trade \in Upto(Len(trades))
    BY <1>4, <1>6, <1>8 DEF IsScaleOut
  <2>3. JobsInv(jobs)
    BY <2>1, <2>2 DEF JobsInv
  <2> HIDE DEF jobs
  <2>4. /\ r.at = "scale-outs" /\ r.view = Me.view /\ r.left = Tail(Me.left)
        /\ r.copy = Me.copy /\ r.jobs = jobs
    BY <1>1 DEF ThreadType
  <2>5. Moves(Scanner, r)
    BY <1>8 DEF jobs
  <2> HIDE DEF r
  <2>6. InHand(r)
    BY <1>1, <1>4, <2>3, <2>4 DEF InHand, LoadedInv
  <2>. QED  BY <1>1, <1>2, <1>5, <2>5, <2>6, HandStays
<1>. QED
  BY <1>6, <1>7, <1>8

LEMMA DropStaleHand ==
  ASSUME TypeInv, StayInv, file # Torn, DropStale
  PROVE  StayInv'
<1>1. /\ Me \in ThreadType /\ InHand(Me) /\ Scanner \in Threads /\ ListedInv /\ AloneInv /\ BrokerInv
      /\ Me.at = "scale-outs" /\ Me.jobs = <<>> /\ Me.copy = None
  BY MeIsThread DEF StayInv, Me, Thread, TypeInv, DropStale, At
<1>2. \A u \in Threads \ {Scanner} : thread[u] = Resting
  BY <1>1, NobodyElse DEF Busy, Me, Resting
<1>3. PICK s : Moves(Scanner, [Me EXCEPT !.active[s] = None, !.jobs = Filing(s)])
  BY DEF DropStale
<1>4. JobsInv(Filing(s))
  <2>1. CASE Candidates(s) = {}
    <3>1. Filing(s) = <<ToRemove(s)>>
      BY <2>1 DEF Filing
    <3>. QED  BY <3>1, FewJobs DEF JobsInv, ToRemove
  <2>2. CASE Candidates(s) # {}
    <3>1. Me.view.trades \in Seq(Upto(Len(trades)))
      BY <1>1 DEF InHand, Lists
    <3>2. Candidates(s) \in SUBSET DOMAIN Me.view.trades
      BY DEF Candidates
    <3>3. LastOf(Candidates(s)) \in Candidates(s)
      BY <2>2, <3>1, <3>2, LastIsIn
    <3>4. PICK i \in DOMAIN Me.view.trades : i = LastOf(Candidates(s)) /\ ~IsFiled(file, Me.view.trades[i])
      BY <3>3 DEF Candidates
    <3>5. Me.view.trades[i] \in Upto(Len(trades))
      BY <3>1, <3>4, ElementOfSeq, LenProperties
    <3> DEFINE jobs == <<ToArchive(s, Me.view.trades[i], Known(s), "closed"), ToRemove(s)>>
    <3>6. Filing(s) = jobs
      BY <2>2, <3>4 DEF Filing
    <3>7. /\ DOMAIN jobs = {1, 2} /\ jobs[1].do = "archive" /\ jobs[1].trade = Me.view.trades[i]
          /\ jobs[2].do = "remove"
      BY DEF ToArchive, ToRemove
    <3> HIDE DEF jobs
    <3>. QED  BY <3>4, <3>5, <3>6, <3>7 DEF JobsInv
  <2>. QED  BY <2>1, <2>2
<1> DEFINE r == [Me EXCEPT !.active[s] = None, !.jobs = Filing(s)]
<1>5. r.at = "scale-outs" /\ r.view = Me.view /\ r.left = Me.left /\ r.copy = None /\ r.jobs = Filing(s)
  BY <1>1 DEF ThreadType
<1> HIDE DEF r
<1>6. InHand(r)
  BY <1>1, <1>4, <1>5 DEF InHand, LoadedInv
<1>7. Moves(Scanner, r)
  BY <1>3 DEF r
<1>. QED
  BY <1>1, <1>2, <1>6, <1>7, HandStays DEF DropStale, UnchangedByThreads

LEMMA SynchronisedHand ==
  ASSUME TypeInv, StayInv, file # Torn, Synchronised
  PROVE  StayInv'
<1>1. /\ Me \in ThreadType /\ InHand(Me) /\ Scanner \in Threads /\ ListedInv /\ AloneInv /\ BrokerInv
      /\ Me.at = "scale-outs" /\ Me.jobs = <<>> /\ Me.copy = None
  BY MeIsThread DEF StayInv, Me, Thread, TypeInv, Synchronised, At
<1>2. \A u \in Threads \ {Scanner} : thread[u] = Resting
  BY <1>1, NobodyElse DEF Busy, Me, Resting
<1>3. /\ Resting \in ThreadType /\ Resting.view.trades = <<>> /\ Resting.left = <<>>
      /\ Resting.copy = None /\ <<>> \in Lists /\ InHand(Resting)
  BY <1>1, SmallTypes, EmptyLists DEF Resting, NoView, Thread
<1>4. PICK s, x : \/ Moves(Scanner, [Me EXCEPT !.at = "decide"])
                  \/ Moves(Scanner, [Resting EXCEPT !.jobs = <<ToUpsert(s, x)>>])
                  \/ Moves(Scanner, Resting)
  BY DEF Synchronised
<1>5. UNCHANGED <<broker, working, trades, stored, file>>
  BY DEF Synchronised, UnchangedByThreads
<1>6. CASE Moves(Scanner, [Me EXCEPT !.at = "decide"])
  <2> DEFINE r == [Me EXCEPT !.at = "decide"]
  <2>1. r.at = "decide" /\ r.view = Me.view /\ r.left = Me.left /\ r.copy = Me.copy /\ r.jobs = Me.jobs
    BY <1>1 DEF ThreadType
  <2>2. Moves(Scanner, r)
    BY <1>6
  <2> HIDE DEF r
  <2>3. InHand(r)
    BY <1>1, <2>1 DEF InHand, LoadedInv
  <2>. QED  BY <1>1, <1>2, <1>5, <2>2, <2>3, HandStays
<1>7. CASE Moves(Scanner, [Resting EXCEPT !.jobs = <<ToUpsert(s, x)>>])
  <2> DEFINE r == [Resting EXCEPT !.jobs = <<ToUpsert(s, x)>>]
  <2>1. /\ r.at = "rest" /\ r.view.trades = <<>> /\ r.left = <<>> /\ r.copy = None
        /\ r.jobs = <<ToUpsert(s, x)>>
    BY <1>3 DEF ThreadType, Resting
  <2>2. Moves(Scanner, r)
    BY <1>7
  <2> HIDE DEF r
  <2>3. JobsInv(r.jobs)
    BY <2>1, FewJobs DEF JobsInv, ToUpsert
  <2>4. InHand(r)
    BY <1>3, <2>1, <2>3 DEF InHand, LoadedInv
  <2>. QED  BY <1>1, <1>2, <1>5, <2>2, <2>4, HandStays
<1>8. CASE Moves(Scanner, Resting)
  BY <1>1, <1>2, <1>3, <1>5, <1>8, HandStays
<1>. QED
  BY <1>4, <1>6, <1>7, <1>8

-----------------------------------------------------------------------------
(* Steps of the broker.                                                    *)

\* The broker's trades grow by one, or not.
LEMMA ExecutedLists ==
  ASSUME BrokerInv, \A i \in DOMAIN trades : trades[i].id = i,
         NEW sym \in Symbols, NEW does \in Int, Execute(sym, does)
  PROVE  /\ \A i \in DOMAIN trades' : trades'[i].id = i
         /\ Len(trades) \in Nat /\ Len(trades') \in Nat /\ Len(trades) <= Len(trades')
         /\ Reduces(sym, does) => /\ Len(trades') = Len(trades) + 1
                                  /\ trades' # <<>> /\ Symbol(trades'[Len(trades')]) = sym
<1> DEFINE n == Len(trades)
           c == Closing(sym, does)
<1>1. n \in Nat /\ DOMAIN trades = 1..n
  BY LenProperties DEF BrokerInv
<1>2. CASE ~Reduces(sym, does)
  <2>1. trades' = trades
    BY <1>2 DEF Execute
  <2>2. n <= n
    BY <1>1
  <2>. QED  BY <1>1, <1>2, <2>1, <2>2
<1>3. CASE Reduces(sym, does)
  <2>1. trades' = Append(trades, c)
    BY <1>3 DEF Execute
  <2>2. c.id = n + 1 /\ Symbol(c) = sym
    BY DEF Closing, Symbol
  <2> HIDE DEF c, n
  <2>3. /\ Len(trades') = n + 1 /\ DOMAIN trades' = 1..(n + 1)
        /\ trades'[n + 1] = c /\ \A i \in 1..n : trades'[i] = trades[i]
    BY <1>1, <2>1 DEF n, BrokerInv
  <2>4. \A i \in 1..(n + 1) : i = n + 1 \/ i \in 1..n
    BY <1>1
  <2>5. \A i \in DOMAIN trades' : trades'[i].id = i
    BY <1>1, <2>2, <2>3, <2>4
  <2>6. trades' # <<>>
    <3>1. Len(<<>>) = 0
      OBVIOUS
    <3>. QED  BY <1>1, <2>3, <3>1
  <2>7. Len(trades) = n
    BY DEF n
  <2>8. n <= n + 1 /\ n + 1 \in Nat
    BY <1>1
  <2>. QED  BY <1>1, <2>2, <2>3, <2>5, <2>6, <2>7, <2>8
<1>. QED
  BY <1>2, <1>3

LEMMA ListsGrow ==
  ASSUME Len(trades) \in Nat, Len(trades') \in Nat, Len(trades) <= Len(trades')
  PROVE  Upto(Len(trades)) \subseteq Upto(Len(trades')) /\ Lists \subseteq Lists'
<1>1. \A x \in Trade : x.id \in Int
  BY DEF Trade
<1>2. ASSUME NEW x \in Upto(Len(trades)) PROVE x \in Upto(Len(trades'))
  <2>1. x \in Trade /\ -Len(trades) <= x.id /\ x.id <= Len(trades)
    BY DEF Upto
  <2>2. x.id \in Int
    BY <1>1, <2>1
  <2>3. -Len(trades') <= x.id /\ x.id <= Len(trades')
    BY <2>1, <2>2
  <2>. QED  BY <2>1, <2>3 DEF Upto
<1>3. Upto(Len(trades)) \subseteq Upto(Len(trades'))
  BY <1>2
<1>4. \A s \in Seq(Upto(Len(trades))) : s \in Seq(Upto(Len(trades')))
  BY <1>3, SeqGrows
<1>. QED
  BY <1>3, <1>4 DEF Lists

LEMMA HandGrows ==
  ASSUME Upto(Len(trades)) \subseteq Upto(Len(trades')), Lists \subseteq Lists', file' = file,
         NEW r, InHand(r), r.at # "closed"
  PROVE  InHand(r)'
<1>1. JobsInv(r.jobs)'
  BY DEF InHand, JobsInv, IsFiled
<1>2. LoadedInv(r)'
  BY DEF InHand, LoadedInv
<1>3. r.view.trades \in Lists' /\ r.left \in Lists'
  BY DEF InHand
<1>4. r.at = "file" => /\ ~IsFiled(file, r.left[1])'
                       /\ \A i \in DOMAIN r.jobs : r.jobs[i].do = "store"
  BY DEF InHand, IsFiled
<1>. QED
  BY <1>1, <1>2, <1>3, <1>4 DEF InHand

LEMMA ExecutedListed ==
  ASSUME TypeInv, ListedInv, file # Torn, NEW sym \in Symbols, NEW does \in Int, Execute(sym, does),
         UNCHANGED <<broker, file, stored>>, broker.fillsAtOnce => working' = working
  PROVE  ListedInv'
<1>1. BrokerInv /\ \A i \in DOMAIN trades : trades[i].id = i
  BY DEF TypeInv, ListedInv
<1>2. /\ \A i \in DOMAIN trades' : trades'[i].id = i
      /\ Len(trades) \in Nat /\ Len(trades') \in Nat /\ Len(trades) <= Len(trades')
  BY <1>1, ExecutedLists
<1>3. stored'.trades \in Lists'
  BY <1>2, ListsGrow DEF ListedInv
<1>4. ASSUME NEW e \in file.closed PROVE -Len(trades') <= e.trade /\ e.trade <= Len(trades')
  <2>1. e.trade \in Int
    BY DEF TypeInv, BooksInv, Books, Entry
  <2>2. -Len(trades) <= e.trade /\ e.trade <= Len(trades)
    BY DEF ListedInv
  <2>. QED  BY <1>2, <2>1, <2>2
<1>. QED
  BY <1>2, <1>3, <1>4 DEF ListedInv

\* A thread that has sent an order.
LEMMA SubmittedHand ==
  ASSUME TypeInv, StayInv, file # Torn, NEW t \in Threads, NEW r, Moves(t, r), InHand(r),
         r.at # "closed", \A u \in Threads \ {t} : thread[u] = Resting,
         NEW sym \in Symbols, NEW delta \in Int, NEW manual \in BOOLEAN,
         Submit(sym, delta, manual), UNCHANGED <<broker, stored, file>>
  PROVE  StayInv'
<1>1. thread'[t] = r /\ \A u \in Threads \ {t} : thread'[u] = Resting
  BY DEF Moves, TypeInv
<1>2. AloneInv' /\ BrokerInv /\ ListedInv
  BY <1>1 DEF AloneInv, Busy, TypeInv, StayInv
<1>3. /\ ListedInv' /\ Upto(Len(trades)) \subseteq Upto(Len(trades')) /\ Lists \subseteq Lists'
  <2>1. CASE ~broker.fillsAtOnce
    <3>1. trades' = trades
      BY <2>1 DEF Submit
    <3>. QED  BY <1>2, <2>1, <3>1 DEF ListedInv, Lists
  <2>2. CASE broker.fillsAtOnce
    <3>1. PICK does \in Int : Execute(sym, does) /\ working' = working
      BY <1>2, <2>2, AllowedIsInt DEF Submit
    <3>2. ListedInv'
      BY <1>2, <3>1, ExecutedListed
    <3>3. Len(trades) \in Nat /\ Len(trades') \in Nat /\ Len(trades) <= Len(trades')
      BY <1>2, <3>1, ExecutedLists DEF ListedInv
    <3>. QED  BY <3>2, <3>3, ListsGrow
  <2>. QED  BY <2>1, <2>2
<1>4. InHand(Resting) /\ Resting.at # "closed"
  BY <1>2, EmptyLists DEF Resting
<1>5. ASSUME NEW u \in Threads PROVE InHand(thread[u])'
  <2>1. PICK x : x = thread'[u] /\ InHand(x) /\ x.at # "closed"
    BY <1>1, <1>4
  <2>2. InHand(x)'
    BY <1>3, <2>1, HandGrows
  <2>. QED  BY <2>1, <2>2
<1>. QED
  BY <1>2, <1>3, <1>5 DEF StayInv

LEMMA OrderHand ==
  ASSUME TypeInv, StayInv, file # Torn, NEW sym \in Symbols, NEW delta \in Int, NEW thesis,
         Order(sym, delta, thesis)
  PROVE  StayInv'
<1>1. /\ Me \in ThreadType /\ InHand(Me) /\ Scanner \in Threads /\ AloneInv
      /\ Me.at = "decide" /\ Me.jobs = <<>> /\ Me.copy = None
  BY MeIsThread DEF StayInv, Me, Thread, TypeInv, Order, At
<1>2. \A u \in Threads \ {Scanner} : thread[u] = Resting
  BY <1>1, NobodyElse DEF Busy, Me, Resting
<1> DEFINE r == [Me EXCEPT !.at = "sent", !.phase = "after",
                           !.order = [sym |-> sym, thesis |-> thesis, delta |-> delta]]
<1>3. r.at = "sent" /\ r.view = Me.view /\ r.left = Me.left /\ r.copy = None /\ r.jobs = <<>>
  BY <1>1 DEF ThreadType
<1>4. Moves(Scanner, r)
  BY DEF Order
<1> HIDE DEF r
<1>5. InHand(r)
  BY <1>1, <1>3 DEF InHand, LoadedInv
<1>6. Submit(sym, delta, FALSE) /\ UNCHANGED <<broker, stored, file>>
  BY DEF Order, UnchangedByThreads
<1>. QED
  BY <1>1, <1>2, <1>3, <1>4, <1>5, <1>6, SubmittedHand

LEMMA OrdersHand ==
  ASSUME TypeInv, StayInv, file # Torn, NEW sym \in Symbols,
         Signal(sym) \/ Exit(sym) \/ ScaleOut(sym)
  PROVE  StayInv'
<1>1. Me.view.pos[sym] \in Int
  BY MeIsThread DEF Thread, ThreadType, Portfolio
<1>2. /\ (IF Me.view.pos[sym] = 0 THEN Lot ELSE -Me.view.pos[sym]) \in Int
      /\ -Me.view.pos[sym] \in Int /\ -Sign(Me.view.pos[sym]) \in Int
  BY <1>1, Constants DEF Sign
<1>3. PICK d, x : d \in Int /\ Order(sym, d, x)
  BY <1>2 DEF Signal, Exit, ScaleOut
<1>. QED
  BY <1>3, OrderHand

LEMMA FillHands ==
  ASSUME TypeInv, StayInv, file # Torn, NEW sym \in Symbols, Fill(sym)
  PROVE  StayInv'
<1>1. /\ BrokerInv /\ ListedInv /\ working[sym] \in Int /\ working[sym] # 0
      /\ Execute(sym, working[sym]) /\ UNCHANGED <<broker, stored, file, thread>>
  BY DEF Fill, StayInv, TypeInv, BrokerInv
<1>2. ~broker.fillsAtOnce
  BY <1>1 DEF ListedInv
<1>3. ListedInv'
  BY <1>1, <1>2, ExecutedListed
<1>4. Upto(Len(trades)) \subseteq Upto(Len(trades')) /\ Lists \subseteq Lists'
  <2>1. Len(trades) \in Nat /\ Len(trades') \in Nat /\ Len(trades) <= Len(trades')
    BY <1>1, ExecutedLists DEF ListedInv
  <2>. QED  BY <2>1, ListsGrow
<1>5. ASSUME NEW u \in Threads PROVE InHand(thread[u])'
  <2>1. PICK x : x = thread[u] /\ x = thread'[u] /\ InHand(x)
    BY <1>1 DEF StayInv
  <2>2. x.at # "closed"
    BY <1>2, <2>1 DEF InHand, JustClosed
  <2>3. InHand(x)'
    BY <1>1, <1>4, <2>1, <2>2, HandGrows
  <2>. QED  BY <2>1, <2>3
<1>6. AloneInv'
  BY <1>1 DEF StayInv, AloneInv, Busy
<1>. QED
  BY <1>3, <1>5, <1>6 DEF StayInv

\* A close that clips an order against the position is against it.
LEMMA ClipReduces ==
  ASSUME NEW p \in Int, NEW d \in Int, p * d < 0
  PROVE  p * (-Sign(p) * Smaller(Abs(p), Abs(d))) < 0
<1>1. p # 0 /\ d # 0
  OBVIOUS
<1>2. Abs(p) \in Nat /\ Abs(p) > 0 /\ Abs(d) \in Nat /\ Abs(d) > 0
  BY <1>1 DEF Abs
<1>3. PICK m \in Nat : m > 0 /\ m = Smaller(Abs(p), Abs(d))
  BY <1>2 DEF Smaller
<1>4. CASE p > 0
  <2>1. -Sign(p) * m = -m
    BY <1>4 DEF Sign
  <2>2. \A a \in Nat, b \in Nat : a > 0 /\ b > 0 => a * (-b) < 0
    OBVIOUS
  <2>. QED  BY <1>3, <1>4, <2>1, <2>2
<1>5. CASE p < 0
  <2>1. -Sign(p) * m = m
    BY <1>5 DEF Sign
  <2>2. \A a \in Nat, b \in Nat : a > 0 /\ b > 0 => (-a) * b < 0
    OBVIOUS
  <2>3. -p \in Nat /\ -p > 0 /\ -(-p) = p
    BY <1>5
  <2>. QED  BY <1>3, <2>1, <2>2, <2>3
<1>. QED
  BY <1>1, <1>4, <1>5

\* A close by hand that changes a position closes a trade.
LEMMA CloseReduces ==
  ASSUME TypeInv, broker.served, broker.fillsAtOnce, NEW sym \in Symbols, NEW delta \in Int,
         NEW does, does = Allowed(sym, delta, TRUE), does # 0
  PROVE  Reduces(sym, does)
<1>1. broker.clips \/ broker.clipsManual
  BY ClosesAssumption DEF TypeInv, BrokerInv
<1>2. Reduces(sym, delta) /\ does = -Sign(held[sym]) * Smaller(Abs(held[sym]), Abs(delta))
  BY <1>1 DEF Allowed
<1>3. held[sym] \in Int
  BY DEF TypeInv, BrokerInv
<1>. QED
  BY <1>2, <1>3, ClipReduces DEF Reduces

LEMMA ClosePositionHand ==
  ASSUME TypeInv, StayInv, file # Torn, NEW t, NEW sym \in Symbols, ClosePosition(t, sym),
         ~overlapped'
  PROVE  StayInv'
<1>1. /\ t \in Threads /\ AloneInv /\ ListedInv /\ BrokerInv
      /\ UNCHANGED <<broker, stored, file>>
      /\ broker.served
  BY DEF ClosePosition, Request, Threads, StayInv, TypeInv
<1>2. \A u \in Threads \ {t} : thread[u] = Resting
  BY <1>1, NobodyElse DEF ClosePosition, Request
<1>3. PICK delta \in Int : Submit(sym, delta, TRUE)
  <2>1. -stored.pos[sym] \in Int
    BY DEF TypeInv, BooksInv, Portfolio
  <2>. QED  BY <2>1 DEF ClosePosition
<1>4. InHand(Resting) /\ Resting.at # "closed" /\ Resting \in ThreadType /\ Resting.view.trades = <<>>
      /\ Resting.left = <<>> /\ Resting.copy = None /\ Resting.jobs = <<>> /\ <<>> \in Lists
  BY <1>1, EmptyLists, SmallTypes DEF Resting, NoView, Thread
<1>5. CASE ~(broker.fillsAtOnce /\ held'[sym] # held[sym])
  <2>1. Moves(t, Resting)
    BY <1>5 DEF ClosePosition
  <2>. QED  BY <1>1, <1>2, <1>3, <1>4, <2>1, SubmittedHand
<1>6. CASE broker.fillsAtOnce /\ held'[sym] # held[sym]
  <2>1. PICK x : Moves(t, [Resting EXCEPT !.at = "closed",
                             !.order = [sym |-> sym, thesis |-> None, delta |-> x]])
    BY <1>6 DEF ClosePosition
  <2> DEFINE order == [sym |-> sym, thesis |-> None, delta |-> x]
             r == [Resting EXCEPT !.at = "closed", !.order = order]
  <2>2. /\ r.at = "closed" /\ r.order = order /\ r.view.trades = <<>> /\ r.left = <<>>
        /\ r.copy = None /\ r.jobs = <<>> /\ order.sym = sym
    BY <1>4 DEF ThreadType
  <2>3. thread'[t] = r /\ \A u \in Threads \ {t} : thread'[u] = Resting
    BY <1>1, <1>2, <2>1 DEF Moves, TypeInv
  <2> HIDE DEF r, order
  <2>4. PICK does \in Int : /\ does = Allowed(sym, delta, TRUE)
                            /\ Execute(sym, does) /\ working' = working
    BY <1>1, <1>3, <1>6, AllowedIsInt DEF Submit
  <2>5. Reduces(sym, does)
    <3>1. held'[sym] = held[sym] + does /\ held[sym] \in Int
      BY <1>1, <2>4 DEF Execute, BrokerInv
    <3>2. does # 0
      BY <1>6, <3>1
    <3>. QED  BY <1>1, <1>6, <2>4, <3>2, CloseReduces
  <2>6. /\ Len(trades) \in Nat /\ Len(trades') = Len(trades) + 1
        /\ trades' # <<>> /\ Symbol(trades'[Len(trades')]) = sym
    BY <1>1, <2>4, <2>5, ExecutedLists DEF ListedInv
  <2>7. ListedInv'
    BY <1>1, <2>4, ExecutedListed
  <2>8. Upto(Len(trades)) \subseteq Upto(Len(trades')) /\ Lists \subseteq Lists'
    <3>1. Len(trades') \in Nat /\ Len(trades) <= Len(trades')
      BY <2>6
    <3>. QED  BY <2>6, <3>1, ListsGrow
  <2>9. JustClosed(sym)'
    <3>1. ASSUME NEW e \in file.closed PROVE -Len(trades') < e.trade /\ e.trade < Len(trades')
      <4>1. e.trade \in Int
        BY DEF TypeInv, BooksInv, Books, Entry
      <4>2. -Len(trades) <= e.trade /\ e.trade <= Len(trades)
        BY <1>1 DEF ListedInv
      <4>. QED  BY <2>6, <4>1, <4>2
    <3>. QED  BY <1>1, <1>6, <2>6, <3>1 DEF JustClosed
  <2>10. InHand(r)'
    <3>1. DOMAIN <<>> = {}
      OBVIOUS
    <3>2. <<>> \in Lists'
      BY <1>4, <2>8
    <3>3. JobsInv(r.jobs)' /\ LoadedInv(r)'
      BY <2>2, <3>1 DEF JobsInv, LoadedInv
    <3>. QED  BY <2>2, <2>9, <3>2, <3>3 DEF InHand
  <2>11. InHand(Resting)'
    BY <1>1, <1>4, <2>8, HandGrows
  <2>12. AloneInv'
    BY <2>3 DEF AloneInv, Busy
  <2>13. ASSUME NEW u \in Threads PROVE InHand(thread[u])'
    BY <2>3, <2>10, <2>11
  <2>. QED  BY <2>7, <2>12, <2>13 DEF StayInv
<1>. QED
  BY <1>5, <1>6

-----------------------------------------------------------------------------
(* Steps of the operator's requests.                                       *)

\* A request begins with everybody at rest.
LEMMA RequestAlone ==
  ASSUME TypeInv, StayInv, NEW t, Request(t), ~overlapped'
  PROVE  /\ t \in Threads /\ \A u \in Threads \ {t} : thread[u] = Resting
         /\ AloneInv /\ ListedInv /\ BrokerInv
<1>1. t \in Threads /\ AloneInv /\ ListedInv /\ BrokerInv
  BY DEF Request, Threads, StayInv, TypeInv
<1>. QED
  BY <1>1, NobodyElse DEF Request

\* What a request that is under way has.
LEMMA RequestHas ==
  ASSUME TypeInv, StayInv, NEW t \in Threads, NEW place, At(t, place), place # "rest"
  PROVE  /\ thread[t] \in Thread /\ thread[t] \in ThreadType /\ InHand(thread[t])
         /\ thread[t].at = place /\ thread[t].jobs = <<>> /\ thread[t].copy = None
         /\ \A u \in Threads \ {t} : thread[u] = Resting
         /\ AloneInv /\ ListedInv /\ BrokerInv
<1>1. /\ thread[t] \in Thread /\ InHand(thread[t]) /\ AloneInv /\ ListedInv /\ BrokerInv
      /\ thread[t].at = place /\ thread[t].jobs = <<>>
  BY DEF TypeInv, StayInv, At
<1>2. thread[t] \in ThreadType /\ thread[t].copy = None
  BY <1>1 DEF Thread
<1>3. Busy(t)
  BY <1>1 DEF Busy, Resting
<1>. QED
  BY <1>1, <1>2, <1>3, OthersRest

LEMMA RestHas ==
  ASSUME BrokerInv
  PROVE  /\ Resting \in ThreadType /\ Resting.view.trades = <<>> /\ Resting.left = <<>>
         /\ Resting.jobs = <<>> /\ Resting.copy = None /\ Resting.at = "rest"
         /\ <<>> \in Lists /\ InHand(Resting)
BY SmallTypes, EmptyLists DEF Resting, NoView, Thread

LEMMA RecordCloseHand ==
  ASSUME TypeInv, StayInv, file # Torn, NEW t \in Threads, RecordClose(t)
  PROVE  StayInv'
<1>1. /\ thread[t] \in Thread /\ thread[t] \in ThreadType /\ InHand(thread[t])
      /\ thread[t].at = "closed" /\ thread[t].jobs = <<>> /\ thread[t].copy = None
      /\ \A u \in Threads \ {t} : thread[u] = Resting
      /\ AloneInv /\ ListedInv /\ BrokerInv
  BY RequestHas DEF RecordClose
<1> DEFINE sym == thread[t].order.sym
           made == MadeUp(sym, thread[t].order.delta)
           view == IF Ours(sym) # {} THEN Reconciled
                   ELSE [Reconciled EXCEPT !.trades = Append(Reconciled.trades, made)]
           trade == IF Ours(sym) # {} THEN Reconciled.trades[LastOf(Ours(sym))] ELSE made
           r == [thread[t] EXCEPT !.at = "file", !.left = <<trade>>, !.jobs = <<ToStore(view)>>]
<1>2. Moves(t, r)
  BY DEF RecordClose
<1>3. JustClosed(sym) /\ sym \in Symbols /\ thread[t].order.delta \in Int
  BY <1>1 DEF InHand, Thread, Sent
<1>4. /\ made \in Upto(Len(trades)) /\ made.id = -Len(trades)
      /\ Len(trades) \in Nat /\ DOMAIN trades = 1..Len(trades)
  <2>1. Clock \in Nat /\ Len(trades) \in Nat /\ DOMAIN trades = 1..Len(trades)
    BY <1>1, ClockIsNat, LenProperties DEF BrokerInv
  <2>2. -Len(trades) \in Int /\ -Len(trades) <= Len(trades)
    BY <2>1
  <2>. QED  BY <1>3, <2>1, <2>2 DEF MadeUp, Trade, Upto
<1> HIDE DEF sym, made
<1>5. /\ Reconciled.trades \in Lists /\ Reconciled \in Portfolio
      /\ Reconciled.trades \in Seq(Upto(Len(trades)))
  BY <1>1, TradesAreListed, ReconciledType DEF ListedInv, Lists
<1>6. view.trades \in Lists
  <2>1. CASE Ours(sym) # {}
    BY <1>5, <2>1
  <2>2. CASE Ours(sym) = {}
    <3>1. view.trades = Append(Reconciled.trades, made)
      BY <1>5, <2>2 DEF Portfolio
    <3>2. Append(Reconciled.trades, made) \in Seq(Upto(Len(trades)))
      BY <1>4, <1>5, AppendProperties
    <3>. QED  BY <3>1, <3>2 DEF Lists
  <2>. QED  BY <2>1, <2>2
<1>7. trade \in Upto(Len(trades)) /\ ~IsFiled(file, trade)
  <2>1. CASE Ours(sym) = {}
    <3>1. \A e \in file.closed : e.trade # -Len(trades)
      <4>1. \A e \in file.closed : -Len(trades) < e.trade /\ e.trade \in Int
        BY <1>3 DEF JustClosed, TypeInv, BooksInv, Books, Entry
      <4>. QED  BY <1>4, <4>1
    <3>. QED  BY <1>4, <2>1, <3>1 DEF IsFiled
  <2>2. CASE Ours(sym) # {}
    <3>1. Reconciled.trades = trades
      <4>1. CASE ~broker.reports
        <5>1. DOMAIN <<>> = {}
          OBVIOUS
        <5>2. Reconciled.trades = <<>>
          BY <4>1 DEF Reconciled
        <5>. QED  BY <2>2, <5>1, <5>2 DEF Ours
      <4>. QED  BY <4>1 DEF Reconciled
    <3>2. Len(trades) \in Ours(sym)
      <4>1. Len(trades) # 0
        BY <1>1, <1>3, EmptySeq DEF JustClosed, BrokerInv
      <4>. QED  BY <1>3, <1>4, <3>1, <4>1 DEF Ours, JustClosed
    <3>3. Ours(sym) \in SUBSET DOMAIN trades
      BY <3>1 DEF Ours
    <3>4. LastOf(Ours(sym)) \in Ours(sym) /\ \A j \in Ours(sym) : j <= LastOf(Ours(sym))
      BY <1>1, <2>2, <3>3, LastIsIn DEF BrokerInv
    <3>5. LastOf(Ours(sym)) = Len(trades)
      BY <1>4, <3>2, <3>3, <3>4
    <3>6. trade = trades[Len(trades)] /\ trade.id = Len(trades)
      BY <1>1, <2>2, <3>1, <3>2, <3>3, <3>5 DEF ListedInv
    <3>7. \A e \in file.closed : e.trade # Len(trades)
      <4>1. \A e \in file.closed : e.trade < Len(trades) /\ e.trade \in Int
        BY <1>3 DEF JustClosed, TypeInv, BooksInv, Books, Entry
      <4>. QED  BY <1>4, <4>1
    <3>8. trade \in Upto(Len(trades))
      BY <1>4, <1>5, <3>1, <3>2, <3>3, <3>6, ElementOfSeq
    <3>. QED  BY <3>6, <3>7, <3>8 DEF IsFiled
  <2>. QED  BY <2>1, <2>2
<1> HIDE DEF view, trade
<1>8. r.at = "file" /\ r.view = thread[t].view /\ r.left = <<trade>> /\ r.copy = None
      /\ r.jobs = <<ToStore(view)>>
  BY <1>1 DEF ThreadType
<1> HIDE DEF r
<1>9. InHand(r)
  <2>1. DOMAIN <<ToStore(view)>> = {1} /\ <<ToStore(view)>>[1] = ToStore(view) /\ <<trade>>[1] = trade
    OBVIOUS
  <2>2. ToStore(view).do = "store" /\ ToStore(view).view = view
    BY DEF ToStore
  <2>3. JobsInv(r.jobs) /\ LoadedInv(r)
    BY <1>6, <1>8, <2>1, <2>2 DEF JobsInv, LoadedInv
  <2>4. <<trade>> \in Lists
    BY <1>7 DEF Lists
  <2>. QED  BY <1>1, <1>7, <1>8, <2>1, <2>2, <2>3, <2>4 DEF InHand
<1>. QED
  BY <1>1, <1>2, <1>9, HandStays DEF RecordClose, UnchangedByThreads

LEMMA FileCloseHand ==
  ASSUME TypeInv, StayInv, file # Torn, NEW t \in Threads, FileClose(t)
  PROVE  StayInv'
<1>1. /\ thread[t] \in Thread /\ thread[t] \in ThreadType /\ InHand(thread[t])
      /\ thread[t].at = "file"
      /\ \A u \in Threads \ {t} : thread[u] = Resting
      /\ AloneInv /\ ListedInv /\ BrokerInv
  BY RequestHas DEF FileClose
<1>2. PICK s, x, trade : /\ trade = thread[t].left[1]
        /\ \/ Moves(t, Resting)
           \/ Moves(t, [Resting EXCEPT !.jobs =
                          <<ToArchive(s, trade, x, "manual-closed"), ToRemove(s)>>])
  BY DEF FileClose
<1>3. UNCHANGED <<broker, working, trades, stored, file>>
  BY DEF FileClose, UnchangedByThreads
<1>4. /\ Resting \in ThreadType /\ Resting.view.trades = <<>> /\ Resting.left = <<>>
      /\ Resting.copy = None /\ Resting.at = "rest" /\ <<>> \in Lists /\ InHand(Resting)
  BY <1>1, RestHas
<1>5. CASE Moves(t, Resting)
  BY <1>1, <1>3, <1>4, <1>5, HandStays
<1>6. CASE Moves(t, [Resting EXCEPT !.jobs =
                          <<ToArchive(s, trade, x, "manual-closed"), ToRemove(s)>>])
  <2>1. trade \in Upto(Len(trades)) /\ ~IsFiled(file, trade)
    <3>1. thread[t].left \in Seq(Upto(Len(trades))) /\ thread[t].left # <<>>
      BY <1>1 DEF InHand, Lists, Thread
    <3>2. 1 \in 1..Len(thread[t].left)
      BY <3>1, EmptySeq
    <3>3. trade \in Upto(Len(trades))
      BY <1>2, <3>1, <3>2, ElementOfSeq
    <3>. QED  BY <1>1, <1>2, <3>3 DEF InHand
  <2> DEFINE jobs == <<ToArchive(s, trade, x, "manual-closed"), ToRemove(s)>>
             r == [Resting EXCEPT !.jobs = jobs]
  <2>2. /\ DOMAIN jobs = {1, 2} /\ jobs[1].do = "archive" /\ jobs[1].trade = trade
        /\ jobs[2].do = "remove"
    BY DEF ToArchive, ToRemove
  <2>3. JobsInv(jobs)
    BY <2>1, <2>2 DEF JobsInv
  <2> HIDE DEF jobs
  <2>4. /\ r.at = "rest" /\ r.view.trades = <<>> /\ r.left = <<>> /\ r.copy = None /\ r.jobs = jobs
    BY <1>4 DEF ThreadType
  <2>5. Moves(t, r)
    BY <1>6 DEF jobs
  <2> HIDE DEF r
  <2>6. InHand(r)
    BY <1>4, <2>3, <2>4 DEF InHand, LoadedInv
  <2>. QED  BY <1>1, <1>3, <2>5, <2>6, HandStays
<1>. QED
  BY <1>2, <1>5, <1>6

LEMMA BackfillHand ==
  ASSUME TypeInv, StayInv, file # Torn, NEW t, Backfill(t) \/ ChangeState(t), ~overlapped'
  PROVE  StayInv'
<1>1. /\ t \in Threads /\ \A u \in Threads \ {t} : thread[u] = Resting
      /\ AloneInv /\ ListedInv /\ BrokerInv
  BY RequestAlone DEF Backfill, ChangeState
<1>2. /\ Resting \in ThreadType /\ Resting.view.trades = <<>> /\ Resting.left = <<>>
      /\ Resting.copy = None /\ Resting.at = "rest" /\ <<>> \in Lists
  BY <1>1, RestHas
<1>3. UNCHANGED <<broker, working, trades, stored, file>>
  BY DEF Backfill, ChangeState
<1> DEFINE view == [pos |-> held, trades |-> NewestFirst(trades), fresh |-> TRUE]
<1>4. PICK place \in {"merged", "rest"}, job \in {ToStore(view), ToChange} :
        Moves(t, [Resting EXCEPT !.at = place, !.jobs = <<job>>])
  <2>1. CASE Backfill(t)
    BY <2>1 DEF Backfill
  <2>2. CASE ChangeState(t)
    <3>1. [Resting EXCEPT !.jobs = <<ToChange>>] = [Resting EXCEPT !.at = "rest", !.jobs = <<ToChange>>]
      BY <1>2 DEF ThreadType
    <3>. QED  BY <2>2, <3>1 DEF ChangeState
  <2>. QED  BY <2>1, <2>2
<1>5. job.do = "store" => job.view.trades \in Lists
  <2>1. NewestFirst(trades) \in Lists
    BY <1>1, TradesAreListed DEF ListedInv
  <2>2. view.trades \in Lists
    BY <2>1
  <2> HIDE DEF view
  <2>. QED  BY <2>2 DEF ToStore, ToChange
<1>6. job.do # "archive"
  BY DEF ToStore, ToChange
<1> HIDE DEF view
<1> DEFINE r == [Resting EXCEPT !.at = place, !.jobs = <<job>>]
<1>7. /\ r.at = place /\ r.view.trades = <<>> /\ r.left = <<>> /\ r.copy = None /\ r.jobs = <<job>>
  BY <1>2 DEF ThreadType
<1>8. Moves(t, r)
  BY <1>4
<1> HIDE DEF r
<1>9. JobsInv(r.jobs)
  <2>1. DOMAIN <<job>> = {1} /\ <<job>>[1] = job
    BY FewJobs
  <2>. QED  BY <1>5, <1>6, <1>7, <2>1 DEF JobsInv
<1>10. InHand(r)
  BY <1>2, <1>4, <1>7, <1>9 DEF InHand, LoadedInv
<1>. QED
  BY <1>1, <1>3, <1>8, <1>10, HandStays

LEMMA ListBackfilledHand ==
  ASSUME TypeInv, StayInv, file # Torn, NEW t \in Threads, ListBackfilled(t)
  PROVE  StayInv'
<1>1. /\ thread[t] \in Thread /\ thread[t] \in ThreadType /\ InHand(thread[t])
      /\ thread[t].at = "merged" /\ thread[t].jobs = <<>> /\ thread[t].copy = None
      /\ \A u \in Threads \ {t} : thread[u] = Resting
      /\ AloneInv /\ ListedInv /\ BrokerInv
  BY RequestHas DEF ListBackfilled
<1>2. UNCHANGED <<broker, working, trades, stored, file>>
  BY DEF ListBackfilled, UnchangedByThreads
<1> DEFINE r == [thread[t] EXCEPT !.at = "recover", !.view = stored, !.active = file.active,
                                  !.left = NewestFirst(stored.trades)]
<1>3. Moves(t, r)
  BY DEF ListBackfilled
<1>4. /\ r.at = "recover" /\ r.view = stored /\ r.left = NewestFirst(stored.trades)
      /\ r.copy = None /\ r.jobs = <<>>
  BY <1>1 DEF ThreadType
<1> HIDE DEF r
<1>5. stored.trades \in Lists /\ NewestFirst(stored.trades) \in Lists
  BY <1>1, TradesAreListed DEF ListedInv
<1>6. InHand(r)
  BY <1>1, <1>4, <1>5 DEF InHand, LoadedInv
<1>. QED
  BY <1>1, <1>2, <1>3, <1>6, HandStays

LEMMA RecoverHand ==
  ASSUME TypeInv, StayInv, file # Torn, NEW t \in Threads, Recover(t)
  PROVE  StayInv'
<1>1. /\ thread[t] \in Thread /\ thread[t] \in ThreadType /\ InHand(thread[t])
      /\ thread[t].at = "recover" /\ thread[t].jobs = <<>> /\ thread[t].copy = None
      /\ \A u \in Threads \ {t} : thread[u] = Resting
      /\ AloneInv /\ ListedInv /\ BrokerInv
  BY RequestHas DEF Recover
<1>2. UNCHANGED <<broker, working, trades, stored, file>>
  BY DEF Recover, UnchangedByThreads
<1>3. CASE thread[t].left = <<>>
  <2>1. Moves(t, Resting) /\ InHand(Resting)
    BY <1>1, <1>3, RestHas DEF Recover
  <2>. QED  BY <1>1, <1>2, <2>1, HandStays
<1>4. CASE thread[t].left # <<>>
  <2>1. thread[t].left \in Seq(Upto(Len(trades)))
    BY <1>1 DEF InHand, Lists
  <2>2. Head(thread[t].left) \in Upto(Len(trades)) /\ Tail(thread[t].left) \in Lists
    BY <1>4, <2>1, HeadTailProperties DEF Lists
  <2>3. PICK trade, x, y : /\ trade = Head(thread[t].left)
          /\ \/ Moves(t, [thread[t] EXCEPT !.left = Tail(thread[t].left)])
             \/ /\ ~IsFiled(file, trade)
                /\ Moves(t, [thread[t] EXCEPT !.left = Tail(thread[t].left), !.active[x] = None,
                        !.jobs = <<ToArchive(x, trade, y, "recovered-closed"), ToRemove(x)>>])
    BY <1>4 DEF Recover
  <2>4. CASE Moves(t, [thread[t] EXCEPT !.left = Tail(thread[t].left)])
    <3> DEFINE r == [thread[t] EXCEPT !.left = Tail(thread[t].left)]
    <3>1. /\ r.at = "recover" /\ r.view = thread[t].view /\ r.left = Tail(thread[t].left)
          /\ r.copy = None /\ r.jobs = <<>>
      BY <1>1 DEF ThreadType
    <3>2. Moves(t, r)
      BY <2>4
    <3> HIDE DEF r
    <3>3. InHand(r)
      BY <1>1, <2>2, <3>1 DEF InHand, LoadedInv
    <3>. QED  BY <1>1, <1>2, <3>2, <3>3, HandStays
  <2>5. CASE /\ ~IsFiled(file, trade)
             /\ Moves(t, [thread[t] EXCEPT !.left = Tail(thread[t].left), !.active[x] = None,
                        !.jobs = <<ToArchive(x, trade, y, "recovered-closed"), ToRemove(x)>>])
    <3> DEFINE jobs == <<ToArchive(x, trade, y, "recovered-closed"), ToRemove(x)>>
               r == [thread[t] EXCEPT !.left = Tail(thread[t].left), !.active[x] = None, !.jobs = jobs]
    <3>1. /\ DOMAIN jobs = {1, 2} /\ jobs[1].do = "archive" /\ jobs[1].trade = trade
          /\ jobs[2].do = "remove"
      BY DEF ToArchive, ToRemove
    <3>2. JobsInv(jobs)
      BY <2>2, <2>3, <2>5, <3>1 DEF JobsInv
    <3>3. Moves(t, r)
      BY <2>5
    <3> HIDE DEF jobs
    <3>4. /\ r.at = "recover" /\ r.view = thread[t].view /\ r.left = Tail(thread[t].left)
          /\ r.copy = None /\ r.jobs = jobs
      BY <1>1 DEF ThreadType
    <3> HIDE DEF r
    <3>5. InHand(r)
      BY <1>1, <2>2, <3>2, <3>4 DEF InHand, LoadedInv
    <3>. QED  BY <1>1, <1>2, <3>3, <3>5, HandStays
  <2>. QED  BY <2>3, <2>4, <2>5
<1>. QED
  BY <1>3, <1>4

LEMMA RequestFailsHand ==
  ASSUME TypeInv, StayInv, file # Torn, NEW t \in Threads, RequestFails(t)
  PROVE  StayInv'
<1>1. /\ \A u \in Threads \ {t} : thread[u] = Resting
      /\ AloneInv /\ ListedInv /\ BrokerInv
  BY RequestHas DEF RequestFails
<1>2. /\ Moves(t, Resting) /\ InHand(Resting)
      /\ UNCHANGED <<broker, working, trades, stored, file>>
  BY <1>1, RestHas DEF RequestFails
<1>. QED
  BY <1>1, <1>2, HandStays

-----------------------------------------------------------------------------
(* Loads and saves, restarts and the whole.                                *)

\* The writes after the first.
LEMMA LaterWrites ==
  ASSUME NEW js \in Seq(Job), js # <<>>, JobsInv(js)
  PROVE  /\ Head(js) = js[1] /\ 1 \in DOMAIN js /\ Tail(js) \in Seq(Job) /\ JobsInv(Tail(js))
         /\ \A i \in DOMAIN Tail(js) : /\ i + 1 \in DOMAIN js /\ Tail(js)[i] = js[i + 1]
                                       /\ Tail(js)[i].do # "archive"
<1>1. PICK tl \in Seq(Job) : tl = Tail(js)
  BY HeadTailProperties
<1>2. Head(js) = js[1] /\ Len(tl) = Len(js) - 1 /\ \A i \in 1..Len(tl) : tl[i] = js[i + 1]
  BY <1>1, HeadTailProperties
<1>3. DOMAIN js = 1..Len(js) /\ DOMAIN tl = 1..Len(tl) /\ Len(js) \in Nat /\ Len(tl) \in Nat
  BY LenProperties
<1>4. 1 \in DOMAIN js
  BY <1>2, <1>3
<1>5. ASSUME NEW i \in DOMAIN tl
      PROVE  /\ i + 1 \in DOMAIN js /\ tl[i] = js[i + 1] /\ tl[i].do # "archive"
             /\ tl[i].do = "store" => tl[i].view.trades \in Lists
  <2>1. i + 1 \in DOMAIN js /\ tl[i] = js[i + 1] /\ i + 1 # 1
    BY <1>2, <1>3
  <2>. QED  BY <2>1 DEF JobsInv
<1>. QED
  BY <1>1, <1>2, <1>4, <1>5 DEF JobsInv

LEMMA LoadHand ==
  ASSUME TypeInv, StayInv, file # Torn, NEW t \in Threads, Load(t)
  PROVE  StayInv'
<1>1. /\ thread[t] \in ThreadType /\ InHand(thread[t]) /\ thread[t].jobs # <<>>
      /\ thread[t].copy = None /\ thread[t].jobs \in Seq(Job)
      /\ AloneInv /\ ListedInv
  BY DEF TypeInv, StayInv, Load, Thread, ThreadType
<1>2. \A u \in Threads \ {t} : thread[u] = Resting
  <2>1. Busy(t)
    BY <1>1 DEF Busy, Resting
  <2>. QED  BY <1>1, <2>1, OthersRest
<1>3. UNCHANGED <<broker, working, trades, stored, file>>
  BY DEF Load, UnchangedByThreads
<1>4. PICK js : js = thread[t].jobs
  OBVIOUS
<1>5. /\ js \in Seq(Job) /\ js # <<>> /\ JobsInv(js) /\ thread[t].at # "closed"
      /\ Head(js) = js[1] /\ 1 \in DOMAIN js /\ Tail(js) \in Seq(Job) /\ JobsInv(Tail(js))
      /\ \A i \in DOMAIN Tail(js) : i + 1 \in DOMAIN js /\ Tail(js)[i] = js[i + 1]
  BY <1>1, <1>4, LaterWrites DEF InHand
<1> DEFINE c == IF Head(js).do = "store" THEN stored ELSE file
<1>6. Moves(t, [thread[t] EXCEPT !.jobs = Tail(js)]) \/ Moves(t, [thread[t] EXCEPT !.copy = c])
  BY <1>4 DEF Load
<1>7. CASE Moves(t, [thread[t] EXCEPT !.jobs = Tail(js)])
  <2> DEFINE r == [thread[t] EXCEPT !.jobs = Tail(js)]
  <2>1. /\ r.at = thread[t].at /\ r.view = thread[t].view /\ r.left = thread[t].left
        /\ r.copy = None /\ r.jobs = Tail(js)
    BY <1>1 DEF ThreadType
  <2>2. Moves(t, r)
    BY <1>7
  <2> HIDE DEF r
  <2>3. r.at = "file" => /\ ~IsFiled(file, r.left[1])
                         /\ \A i \in DOMAIN r.jobs : r.jobs[i].do = "store"
    BY <1>1, <1>4, <1>5, <2>1 DEF InHand
  <2>4. InHand(r)
    BY <1>1, <1>5, <2>1, <2>3 DEF InHand, LoadedInv
  <2>. QED  BY <1>1, <1>2, <1>3, <2>2, <2>4, HandStays
<1>8. CASE Moves(t, [thread[t] EXCEPT !.copy = c])
  <2> DEFINE r == [thread[t] EXCEPT !.copy = c]
  <2>1. /\ r.at = thread[t].at /\ r.view = thread[t].view /\ r.left = thread[t].left
        /\ r.copy = c /\ r.jobs = js
    BY <1>1, <1>4 DEF ThreadType
  <2>2. Moves(t, r)
    BY <1>8
  <2>3. IF Head(js).do = "store" THEN c.trades \in Lists ELSE c = file
    BY <1>1 DEF ListedInv
  <2> HIDE DEF r, c
  <2>4. LoadedInv(r)
    BY <2>1, <2>3 DEF LoadedInv
  <2>5. InHand(r)
    BY <1>1, <1>4, <1>5, <2>1, <2>4 DEF InHand
  <2>. QED  BY <1>1, <1>2, <1>3, <2>2, <2>5, HandStays
<1>. QED
  BY <1>6, <1>7, <1>8

\* What a save leaves in the file and in the store.
LEMMA SavedBooks ==
  ASSUME TypeInv, StayInv, file # Torn, NEW t \in Threads, Save(t)
  PROVE  /\ file' # Torn /\ file.closed \subseteq file'.closed
         /\ stored'.trades \in Lists
         /\ \A e \in file'.closed : -Len(trades) <= e.trade /\ e.trade <= Len(trades)
         /\ thread[t].jobs[1].do = "store" => file' = file
<1>1. /\ thread[t] \in Thread /\ InHand(thread[t]) /\ ListedInv
      /\ thread[t].jobs # <<>> /\ thread[t].jobs \in Seq(Job) /\ thread[t].copy # None
  BY DEF TypeInv, StayInv, Save, Thread, ThreadType
<1>2. PICK job, copy : /\ job = Head(thread[t].jobs) /\ job = thread[t].jobs[1] /\ job \in Job
                       /\ 1 \in DOMAIN thread[t].jobs /\ copy = thread[t].copy
  BY <1>1, HeadTailProperties, LaterWrites DEF InHand
<1>3. IF job.do = "store" THEN copy \in Portfolio /\ copy.trades \in Lists ELSE copy = file
  BY <1>1, <1>2 DEF Thread, InHand, LoadedInv
<1>4. IF job.do = "store"
      THEN stored' = Written(job, copy) /\ file' = file
      ELSE file' = Written(job, copy) /\ stored' = stored
  BY <1>2 DEF Save
<1>5. file \in Books /\ stored \in Portfolio
  BY DEF TypeInv, BooksInv
<1>6. CASE job.do = "store"
  <2>1. job.view \in Portfolio /\ job.view.trades \in Lists
    BY <1>1, <1>2, <1>6 DEF InHand, JobsInv, Job, Archival
  <2>2. Merge(copy.trades, job.view.trades) \in Lists
    BY <1>3, <1>6, <2>1, MergeIsIn DEF Lists
  <2>3. Written(job, copy) = [job.view EXCEPT !.trades = Merge(copy.trades, job.view.trades),
                                              !.fresh = job.view.fresh \/ stored.fresh]
    BY <1>6 DEF Written
  <2>4. stored'.trades = Merge(copy.trades, job.view.trades)
    BY <1>4, <1>6, <2>1, <2>3 DEF Portfolio
  <2>. QED  BY <1>1, <1>2, <1>4, <1>6, <2>2, <2>4 DEF ListedInv
<1>7. CASE job.do = "archive"
  <2>1. job.trade \in Upto(Len(trades)) /\ ~IsFiled(file, job.trade)
    BY <1>1, <1>2, <1>7 DEF InHand, JobsInv
  <2> DEFINE e == [trade |-> job.trade.id, sym |-> job.sym, at |-> job.trade.at,
                   thesis |-> job.thesis, state |-> job.state]
  <2>2. file' = [file EXCEPT !.closed = {x \in file.closed : x.trade # job.trade.id} \cup {e}]
    BY <1>3, <1>4, <1>7 DEF Written, Archived
  <2>3. file'.closed = {x \in file.closed : x.trade # job.trade.id} \cup {e} /\ e.trade = job.trade.id
    BY <1>5, <2>2 DEF Books
  <2> HIDE DEF e
  <2>4. file.closed \subseteq file'.closed
    BY <2>1, <2>3 DEF IsFiled
  <2>5. \A x \in file'.closed : -Len(trades) <= x.trade /\ x.trade <= Len(trades)
    BY <1>1, <2>1, <2>3 DEF ListedInv, Upto
  <2>6. file' # Torn
    <3>1. file' \in Books
      BY <1>2, <1>3, <1>4, <1>5, <1>7, WrittenType
    <3>. QED  BY <3>1, TornIsNoBook
  <2>7. stored'.trades \in Lists
    BY <1>1, <1>4, <1>7 DEF ListedInv
  <2>. QED  BY <1>2, <1>7, <2>4, <2>5, <2>6, <2>7
<1>8. CASE job.do \notin {"store", "archive"}
  <2>1. file'.closed = file.closed
    <3>1. CASE job.do \in {"upsert", "count", "remove"}
      BY <1>3, <1>4, <1>5, <1>8, <3>1 DEF Written, Upserted, Removed, Books
    <3>2. CASE job.do \in {"touch", "change"}
      BY <1>3, <1>4, <1>8, <3>2 DEF Written
    <3>. QED  BY <1>2, <1>8, <3>1, <3>2 DEF Job, Archival
  <2>2. file' # Torn
    <3>1. file' \in Books
      BY <1>2, <1>3, <1>4, <1>5, <1>8, WrittenType
    <3>. QED  BY <3>1, TornIsNoBook
  <2>. QED  BY <1>1, <1>2, <1>4, <1>8, <2>1, <2>2 DEF ListedInv
<1>. QED
  BY <1>6, <1>7, <1>8

LEMMA SaveStays ==
  ASSUME TypeInv, StayInv, file # Torn, NEW t \in Threads, Save(t)
  PROVE  StayInv'
<1>1. /\ thread[t] \in ThreadType /\ InHand(thread[t]) /\ thread[t].jobs # <<>>
      /\ thread[t].jobs \in Seq(Job) /\ AloneInv /\ ListedInv /\ BrokerInv
  BY DEF TypeInv, StayInv, Save, Thread, ThreadType
<1>2. \A u \in Threads \ {t} : thread[u] = Resting
  <2>1. Busy(t)
    BY <1>1 DEF Busy, Resting
  <2>. QED  BY <1>1, <2>1, OthersRest
<1>3. UNCHANGED <<broker, working, trades>>
  BY DEF Save, UnchangedByThreads
<1>4. PICK js : js = thread[t].jobs
  OBVIOUS
<1>5. /\ JobsInv(js) /\ thread[t].at # "closed" /\ 1 \in DOMAIN js /\ JobsInv(Tail(js))
      /\ \A i \in DOMAIN Tail(js) : /\ i + 1 \in DOMAIN js /\ Tail(js)[i] = js[i + 1]
                                    /\ Tail(js)[i].do # "archive"
  BY <1>1, <1>4, LaterWrites DEF InHand
<1>50. PICK rest : rest = [thread[t] EXCEPT !.jobs = Tail(js), !.copy = None]
  OBVIOUS
<1>6. Moves(t, IF rest.jobs = <<>> /\ rest.at = "rest" THEN Resting ELSE rest)
  BY <1>4, <1>50 DEF Save
<1>7. /\ rest.at = thread[t].at /\ rest.view = thread[t].view /\ rest.left = thread[t].left
      /\ rest.copy = None /\ rest.jobs = Tail(js)
  BY <1>1, <1>50 DEF ThreadType
<1>8. Lists' = Lists
  BY <1>3 DEF Lists
<1>9. /\ ListedInv'
      /\ js[1].do = "store" => file' = file
  BY <1>1, <1>3, <1>4, <1>8, SavedBooks DEF ListedInv
<1>10. JobsInv(Tail(js))'
  BY <1>3, <1>5, <1>8 DEF JobsInv
<1>11. rest.at = "file" => /\ ~IsFiled(file, rest.left[1])'
                           /\ \A i \in DOMAIN rest.jobs : rest.jobs[i].do = "store"
  <2>1. ASSUME rest.at = "file"
        PROVE  ~IsFiled(file, rest.left[1]) /\ \A i \in DOMAIN js : js[i].do = "store"
    BY <1>1, <1>4, <1>7, <2>1 DEF InHand
  <2>2. ASSUME rest.at = "file" PROVE ~IsFiled(file, rest.left[1])'
    BY <1>5, <1>9, <2>1, <2>2 DEF IsFiled
  <2>. QED  BY <1>5, <1>7, <2>1, <2>2
<1>12. InHand(rest)'
  BY <1>1, <1>5, <1>7, <1>8, <1>10, <1>11 DEF InHand, LoadedInv
<1>13. InHand(Resting)'
  <2>1. DOMAIN <<>> = {}
    OBVIOUS
  <2>2. /\ Resting.view.trades = <<>> /\ Resting.left = <<>> /\ Resting.jobs = <<>>
        /\ Resting.copy = None /\ Resting.at = "rest" /\ <<>> \in Lists
    BY <1>1, RestHas
  <2>. QED  BY <1>8, <2>1, <2>2 DEF InHand, JobsInv, LoadedInv
<1>14. thread'[t] \in {rest, Resting} /\ \A u \in Threads \ {t} : thread'[u] = Resting
  BY <1>2, <1>6 DEF Moves, TypeInv
<1>15. AloneInv'
  BY <1>14 DEF AloneInv, Busy
<1>16. \A u \in Threads : InHand(thread[u])'
  BY <1>12, <1>13, <1>14
<1>. QED
  BY <1>9, <1>15, <1>16 DEF StayInv

LEMMA AgeStays ==
  ASSUME TypeInv, StayInv, Age
  PROVE  StayInv'
<1>1. stored'.trades = stored.trades /\ UNCHANGED <<broker, working, trades, file, thread>>
  BY DEF Age, TypeInv, BooksInv, Portfolio
<1>2. Lists' = Lists
  BY <1>1 DEF Lists
<1>3. AloneInv' /\ ListedInv'
  BY <1>1, <1>2 DEF StayInv, AloneInv, Busy, ListedInv
<1>4. ASSUME NEW u \in Threads PROVE InHand(thread[u])'
  <2>1. PICK x : x = thread[u] /\ x = thread'[u] /\ InHand(x)
    BY <1>1 DEF StayInv
  <2>2. InHand(x)'
    BY <1>1, <1>2, <2>1 DEF InHand, JobsInv, LoadedInv, JustClosed, IsFiled
  <2>. QED  BY <2>1, <2>2
<1>. QED
  BY <1>3, <1>4 DEF StayInv

LEMMA CrashStays ==
  ASSUME TypeInv, StayInv, Crash, file' # Torn
  PROVE  StayInv' /\ file' = file
<1>1. UNCHANGED <<broker, working, trades, stored, file>> /\ \A u \in Threads : thread'[u] = Resting
  BY DEF Crash
<1>2. Lists' = Lists /\ Upto(Len(trades))' = Upto(Len(trades))
  BY <1>1 DEF Lists
<1>3. AloneInv' /\ ListedInv'
  BY <1>1, <1>2 DEF StayInv, AloneInv, Busy, ListedInv
<1>4. InHand(Resting)'
  <2>1. InHand(Resting) /\ Resting.at # "closed"
    BY RestHas DEF TypeInv
  <2>. QED  BY <1>1, <1>2, <2>1, HandGrows
<1>. QED
  BY <1>1, <1>3, <1>4 DEF StayInv

LEMMA StayStep ==
  ASSUME TypeInv, StayInv, file # Torn, Next, ~overlapped', file' # Torn
  PROVE  StayInv' /\ file.closed \subseteq file'.closed
<1>1. CASE Scan
  <2>1. file' = file
    BY <1>1 DEF Scan, BeginScan, ListTheses, FileScaleOut, DropStale, Synchronised, Hold, Lose,
                Record, MoveStop, Signal, Exit, ScaleOut, Order
  <2>. QED  BY <1>1, <2>1, ScanHands, FileScaleOutHand, DropStaleHand, SynchronisedHand, OrdersHand
            DEF Scan
<1>2. CASE \E t \in Threads : Write(t)
  <2>1. ASSUME NEW t \in Threads, Load(t) PROVE StayInv' /\ file' = file
    BY <2>1, LoadHand DEF Load
  <2>. QED  BY <1>2, <2>1, SaveStays, SavedBooks DEF Write
<1>3. CASE \E t \in Requesters : Handle(t)
  <2>1. file' = file
    BY <1>3 DEF Handle, RecordClose, FileClose, ListBackfilled, Recover, RequestFails
  <2>. QED  BY <1>3, <2>1, RecordCloseHand, FileCloseHand, ListBackfilledHand, RecoverHand,
               RequestFailsHand DEF Handle, Threads
<1>4. CASE \E t \in Requesters : \/ Backfill(t) \/ ChangeState(t)
                                 \/ \E s \in Symbols : ClosePosition(t, s)
  <2>1. file' = file
    BY <1>4 DEF Backfill, ChangeState, ClosePosition
  <2>. QED  BY <1>4, <2>1, BackfillHand, ClosePositionHand
<1>5. CASE \E s \in Symbols : Fill(s)
  BY <1>5, FillHands DEF Fill
<1>6. CASE Age
  BY <1>6, AgeStays DEF Age
<1>7. CASE Crash
  BY <1>7, CrashStays
<1>. QED
  BY <1>1, <1>2, <1>3, <1>4, <1>5, <1>6, <1>7 DEF Next, Threads

LEMMA StayInit ==
  ASSUME Init
  PROVE  StayInv
<1>1. BrokerInv
  BY InitType DEF TypeInv
<1>2. \A t \in Threads : thread[t] = Resting
  BY DEF Init
<1>3. InHand(Resting) /\ <<>> \in Lists
  BY <1>1, RestHas
<1>4. DOMAIN <<>> = {}
  OBVIOUS
<1>5. ListedInv
  BY <1>3, <1>4 DEF Init, ListedInv
<1>. QED
  BY <1>2, <1>3, <1>5 DEF StayInv, AloneInv, Busy

LEMMA StayStutter ==
  ASSUME StayInv, UNCHANGED vars
  PROVE  StayInv'
<1>1. UNCHANGED <<broker, working, trades, stored, file, thread>>
  BY DEF vars
<1>2. Lists' = Lists
  BY <1>1 DEF Lists
<1>3. AloneInv' /\ ListedInv'
  BY <1>1, <1>2 DEF StayInv, AloneInv, Busy, ListedInv
<1>4. ASSUME NEW u \in Threads PROVE InHand(thread[u])'
  <2>1. PICK x : x = thread[u] /\ x = thread'[u] /\ InHand(x)
    BY <1>1 DEF StayInv
  <2>2. InHand(x)'
    BY <1>1, <1>2, <2>1 DEF InHand, JobsInv, LoadedInv, JustClosed, IsFiled
  <2>. QED  BY <2>1, <2>2
<1>. QED
  BY <1>3, <1>4 DEF StayInv

\* With any broker the thesis that a trade has been filed with is never replaced,
\* through lost answers and restarts, unless requests overlap or the file is
\* torn: what is about to be archived is a trade the journal does not have
\* (_sync_trade_thesis_state, close_position, recover).
THEOREM FiledTradesAreKept == Spec => FiledTradesStay
<1> DEFINE Kept == TornInv /\ (~overlapped /\ file # Torn => StayInv)
<1>1. Init => Kept
  <2> SUFFICES ASSUME Init PROVE Kept
    OBVIOUS
  <2>1. TornInv
    BY DEF Init, TornInv, Resting
  <2>. QED  BY <2>1, StayInit
<1>2. TypeInv /\ Kept /\ [Next]_vars
        => /\ Kept'
           /\ UNCHANGED vars \/ (~overlapped' /\ file' # Torn => file.closed \subseteq file'.closed)
  <2> SUFFICES ASSUME TypeInv, Kept, [Next]_vars
               PROVE  /\ Kept'
                      /\ UNCHANGED vars \/ (~overlapped' /\ file' # Torn => file.closed \subseteq file'.closed)
    OBVIOUS
  <2>1. CASE Next
    <3>1. TornInv' /\ (file = Torn => file' = Torn)
      BY <2>1, TornStays
    <3>2. ASSUME ~overlapped', file' # Torn PROVE StayInv' /\ file.closed \subseteq file'.closed
      <4>1. ~overlapped /\ file # Torn
        BY <2>1, <3>1, <3>2, DisturbedStays
      <4>. QED  BY <2>1, <3>2, <4>1, StayStep
    <3>. QED  BY <3>1, <3>2
  <2>2. CASE UNCHANGED vars
    <3>1. TornInv' /\ overlapped' = overlapped /\ file' = file
      BY <2>2 DEF vars, TornInv
    <3>. QED  BY <2>2, <3>1, StayStutter
  <2>. QED  BY <2>1, <2>2
<1> HIDE DEF Kept
<1>3. TypeInv /\ Kept /\ [Next]_vars 
      => [~overlapped' /\ file' # Torn =>
            \A e \in file.closed : \E f \in file'.closed :
                /\ f.trade = e.trade
                /\ f.sym = e.sym
                /\ f.thesis.id = e.thesis.id]_vars
  <2> SUFFICES ASSUME TypeInv, Kept, [Next]_vars, vars' # vars, ~overlapped', file' # Torn,
                      NEW e \in file.closed
               PROVE  \E f \in file'.closed :
                        f.trade = e.trade /\ f.sym = e.sym /\ f.thesis.id = e.thesis.id
    OBVIOUS
  <2>1. e \in file'.closed
    BY <1>2
  <2>. QED  BY <2>1
<1>. QED
  BY <1>1, <1>2, <1>3, TypeInvHolds, PTL DEF Spec, FiledTradesStay
=============================================================================
