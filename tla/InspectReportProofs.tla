------------------------- MODULE InspectReportProofs -------------------------
(***************************************************************************)
(* Proofs about InspectReport, for any checkpoints whose processes form a    *)
(* forest, lacking any files, and any flags.                                 *)
(***************************************************************************)
EXTENDS InspectReport, FiniteSetTheorems, SequenceTheorems, TLAPS

-----------------------------------------------------------------------------
(***************************************************************************)
(* Process trees                                                           *)
(***************************************************************************)

(* What the model says of the archive, of any archive c.                      *)
Pids(c) == DOMAIN c.parent
Lives(c, p) == c.state[p] \in {"Alive", "Stopped"}
Kids(c, p) == {q \in Pids(c) : c.parent[q] = p}
ClosedIn(c, S) == \A p \in S : Lives(c, p) => Kids(c, p) \subseteq S
Under(c, p) == {q \in Pids(c) : \A S \in SUBSET Pids(c) : p \in S /\ ClosedIn(c, S) => q \in S}

LEMMA OfContent ==
  ASSUME NEW c, content = c
  PROVE  /\ Procs = Pids(c)
         /\ \A p : Alive(p) <=> Lives(c, p)
         /\ \A p : ChildrenOf(p) = Kids(c, p)
         /\ \A p : Below(p) = Under(c, p)
<1>1. Procs = Pids(c) /\ (\A p : Alive(p) <=> Lives(c, p)) /\ (\A p : ChildrenOf(p) = Kids(c, p))
  BY DEF Procs, Pids, Alive, Lives, ChildrenOf, Kids
<1>2. \A S : ClosedBelow(S) <=> ClosedIn(c, S)
  BY <1>1 DEF ClosedBelow, ClosedIn
<1>3. \A p : Below(p) = Under(c, p)
  BY <1>1, <1>2 DEF Below, Under
<1> QED BY <1>1, <1>3

LEMMA OfContentNext ==
  ASSUME NEW c, content' = c
  PROVE  /\ Procs' = Pids(c)
         /\ \A p : Alive(p)' <=> Lives(c, p)
         /\ \A p : ChildrenOf(p)' = Kids(c, p)
         /\ \A p : Below(p)' = Under(c, p)
<1>1. Procs' = Pids(c) /\ (\A p : Alive(p)' <=> Lives(c, p)) /\ (\A p : ChildrenOf(p)' = Kids(c, p))
  BY DEF Procs, Pids, Alive, Lives, ChildrenOf, Kids
<1>2. \A S : ClosedBelow(S)' <=> ClosedIn(c, S)
  BY <1>1 DEF ClosedBelow, ClosedIn
<1>3. \A p : Below(p)' = Under(c, p)
  BY <1>1, <1>2 DEF Below, Under
<1> QED BY <1>1, <1>3

LEMMA UnderIsClosed ==
  ASSUME NEW c, NEW start \in Pids(c)
  PROVE  /\ start \in Under(c, start)
         /\ \A p \in Under(c, start) : Lives(c, p) => Kids(c, p) \subseteq Under(c, start)
         /\ Under(c, start) \subseteq Pids(c)
<1>1. start \in Under(c, start) /\ Under(c, start) \subseteq Pids(c)
  BY DEF Under
<1>2. ASSUME NEW p \in Under(c, start), Lives(c, p), NEW q \in Kids(c, p)
      PROVE  q \in Under(c, start)
  <2> SUFFICES ASSUME NEW S \in SUBSET Pids(c), start \in S, ClosedIn(c, S)
               PROVE  q \in S
    BY <1>2 DEF Under, Kids
  <2>1. p \in S
    BY DEF Under
  <2> QED BY <1>2, <2>1 DEF ClosedIn
<1> QED BY <1>1, <1>2

(* The elements of a finite set in some order.                               *)
LEMMA Orders ==
  ASSUME NEW S, IsFiniteSet(S), NEW order \in SetToSeqs(S)
  PROVE  order \in Seq(S) /\ IsInjective(order) /\ ToSet(order) = S
<1>1. PICK n \in Nat : n = Cardinality(S)
  BY FS_CardinalityType
<1>2. order \in [1..n -> S] /\ \A i, j \in 1..n : i # j => order[i] # order[j]
  BY <1>1 DEF SetToSeqs
<1>3. order \in Injection(1..n, S)
  BY <1>2 DEF Injection, IsInjective
<1>4. IsFiniteSet(1..n) /\ Cardinality(1..n) = n
  BY FS_Interval
<1>5. order \in Surjection(1..n, S)
  BY <1>1, <1>3, <1>4, FS_Injection
<1>6. ToSet(order) = S
  BY <1>2, <1>5 DEF Surjection, ToSet
<1> QED BY <1>2, <1>6 DEF IsInjective

(***************************************************************************)
(* A traversal that has been through the processes in done and has those in  *)
(* todo to visit, and that may drop processes without children.              *)
(***************************************************************************)

Known(done, todo) == ToSet(done) \union ToSet(todo)

(* Everything known hangs below start, and was come to once.                 *)
Hangs(c, start, done, todo) ==
  \A p \in Known(done, todo) : p = start \/ (c.parent[p] \in ToSet(done) /\ Lives(c, c.parent[p]))
Once(done, todo) ==
  IsInjective(done) /\ IsInjective(todo) /\ ToSet(done) \intersect ToSet(todo) = {}
ParentsFirst(c, start, done) ==
  \A i \in DOMAIN done : done[i] = start \/ \E j \in 1..(i - 1) : done[j] = c.parent[done[i]]
(* Nothing below start is forgotten, and there is nothing else.               *)
Covers(c, start, done, todo, dropped) ==
  /\ start \in Known(done, todo) \union dropped
  /\ \A p \in ToSet(done) : Lives(c, p) => Kids(c, p) \subseteq Known(done, todo) \union dropped
Within(c, start, done, todo) == Known(done, todo) \subseteq Under(c, start)

Traversed(c, start, done, todo, dropped) ==
  /\ done \in Seq(Pids(c)) /\ todo \in Seq(Pids(c))
  /\ Hangs(c, start, done, todo) /\ Once(done, todo) /\ ParentsFirst(c, start, done)
  /\ Covers(c, start, done, todo, dropped) /\ Within(c, start, done, todo)

LEMMA TraverseInit ==
  ASSUME NEW c, NEW start \in Pids(c), NEW dropped
  PROVE  Traversed(c, start, <<>>, <<start>>, dropped)
<1>1. ToSet(<<>>) = {} /\ ToSet(<<start>>) = {start}
  BY DEF ToSet
<1>2. IsInjective(<<>>) /\ IsInjective(<<start>>)
  BY DEF IsInjective
<1>3. start \in Under(c, start)
  BY UnderIsClosed
<1> QED BY <1>1, <1>2, <1>3
        DEF Traversed, Hangs, Once, ParentsFirst, Covers, Within, Known

(* Nobody known is a child of one that is still to be visited, or the parent  *)
(* of start.                                                                 *)
LEMMA NoReturn ==
  ASSUME NEW c, Forest(c.parent), NEW start \in Pids(c), NEW done, NEW todo, NEW dropped,
         Traversed(c, start, done, todo, dropped)
  PROVE  /\ c.parent[start] \notin Known(done, todo)
         /\ \A p \in ToSet(todo) : \A q \in Known(done, todo) : c.parent[q] # p
<1>0. Known(done, todo) \subseteq Pids(c)
  BY UnderIsClosed DEF Traversed, Within
<1>1. ASSUME c.parent[start] \in Known(done, todo) PROVE FALSE
  <2> DEFINE C == ToSet(done) \union {c.parent[start], start}
  <2>1. C \in SUBSET DOMAIN c.parent /\ C # {}
    BY <1>0, <1>1 DEF Known, Pids
  <2>2. PICK x \in C : c.parent[x] \notin C
    <3> HIDE DEF C
    <3> QED BY <2>1 DEF Forest
  <2>3. x \in Known(done, todo) \/ x = start
    BY <1>1 DEF Known
  <2> QED BY <2>2, <2>3 DEF Traversed, Hangs
<1>2. ASSUME NEW p \in ToSet(todo), NEW q \in Known(done, todo), c.parent[q] = p PROVE FALSE
  <2>1. p \in Known(done, todo) /\ p \notin ToSet(done)
    BY DEF Known, Traversed, Once
  <2> QED BY <1>1, <1>2, <2>1 DEF Traversed, Hangs
<1> QED BY <1>1, <1>2

(* The process visited is known no more as one to visit.                      *)
LEMMA Visited ==
  ASSUME NEW P, NEW todo \in Seq(P), todo # <<>>, IsInjective(todo)
  PROVE  /\ Tail(todo) \in Seq(P) /\ IsInjective(Tail(todo))
         /\ Head(todo) \in P /\ Head(todo) \in ToSet(todo)
         /\ ToSet(Tail(todo)) = ToSet(todo) \ {Head(todo)}
<1>1. Len(todo) \in Nat \ {0} /\ DOMAIN todo = 1..Len(todo)
  OBVIOUS
<1>2. Tail(todo) \in Seq(P) /\ Head(todo) = todo[1] /\ DOMAIN Tail(todo) = 1..(Len(todo) - 1)
      /\ \A i \in 1..(Len(todo) - 1) : Tail(todo)[i] = todo[i + 1]
  BY <1>1
<1>3. IsInjective(Tail(todo))
  <2> SUFFICES ASSUME NEW i \in 1..(Len(todo) - 1), NEW j \in 1..(Len(todo) - 1),
                      Tail(todo)[i] = Tail(todo)[j]
               PROVE  i = j
    BY <1>2 DEF IsInjective
  <2>1. todo[i + 1] = todo[j + 1] /\ i + 1 \in DOMAIN todo /\ j + 1 \in DOMAIN todo
    BY <1>1, <1>2
  <2>2. i + 1 = j + 1
    BY <2>1 DEF IsInjective
  <2> QED BY <1>1, <2>2
<1>4. Head(todo) \in P /\ Head(todo) \in ToSet(todo)
  BY <1>1, <1>2 DEF ToSet
<1>5. ToSet(Tail(todo)) \subseteq ToSet(todo) \ {Head(todo)}
  <2> SUFFICES ASSUME NEW i \in 1..(Len(todo) - 1)
               PROVE  Tail(todo)[i] \in ToSet(todo) /\ Tail(todo)[i] # Head(todo)
    BY <1>2 DEF ToSet
  <2>1. i + 1 \in DOMAIN todo /\ 1 \in DOMAIN todo /\ i + 1 # 1 /\ Tail(todo)[i] = todo[i + 1]
    BY <1>1, <1>2
  <2> QED BY <1>2, <2>1 DEF ToSet, IsInjective
<1>6. ToSet(todo) \ {Head(todo)} \subseteq ToSet(Tail(todo))
  <2> SUFFICES ASSUME NEW i \in DOMAIN todo, i # 1
               PROVE  todo[i] \in ToSet(Tail(todo))
    BY <1>2 DEF ToSet
  <2>1. i - 1 \in 1..(Len(todo) - 1) /\ Tail(todo)[i - 1] = todo[i]
    BY <1>1, <1>2
  <2> QED BY <1>2, <2>1 DEF ToSet
<1> QED BY <1>2, <1>3, <1>4, <1>5, <1>6

LEMMA Joined ==
  ASSUME NEW P, NEW s \in Seq(P), NEW t \in Seq(P), IsInjective(s), IsInjective(t),
         ToSet(s) \intersect ToSet(t) = {}
  PROVE  s \o t \in Seq(P) /\ IsInjective(s \o t) /\ ToSet(s \o t) = ToSet(s) \union ToSet(t)
<1> PICK u : u = s \o t
  OBVIOUS
<1>1. /\ Len(s) \in Nat /\ Len(t) \in Nat /\ DOMAIN s = 1..Len(s) /\ DOMAIN t = 1..Len(t)
      /\ u \in Seq(P) /\ DOMAIN u = 1..(Len(s) + Len(t))
      /\ \A i \in 1..Len(s) : u[i] = s[i]
      /\ \A i \in (Len(s) + 1)..(Len(s) + Len(t)) : u[i] = t[i - Len(s)]
  OBVIOUS
<1>2. \A i \in DOMAIN u : \/ i \in DOMAIN s /\ u[i] = s[i]
                          \/ i - Len(s) \in DOMAIN t /\ i \in Nat /\ u[i] = t[i - Len(s)]
  BY <1>1
<1>3. \A i \in DOMAIN t : i + Len(s) \in DOMAIN u /\ u[i + Len(s)] = t[i]
  BY <1>1
<1>4. \A i \in DOMAIN s : i \in DOMAIN u /\ u[i] = s[i]
  BY <1>1
<1>5. ToSet(u) = ToSet(s) \union ToSet(t)
  <2>1. ToSet(u) \subseteq ToSet(s) \union ToSet(t)
    BY <1>2 DEF ToSet
  <2>2. ToSet(s) \subseteq ToSet(u)
    BY <1>4 DEF ToSet
  <2>3. ToSet(t) \subseteq ToSet(u)
    BY <1>3 DEF ToSet
  <2> QED BY <2>1, <2>2, <2>3
<1>6. IsInjective(u)
  <2> SUFFICES ASSUME NEW i \in DOMAIN u, NEW j \in DOMAIN u, u[i] = u[j] PROVE i = j
    BY DEF IsInjective
  <2>1. CASE i \in DOMAIN s /\ u[i] = s[i] /\ j \in DOMAIN s /\ u[j] = s[j]
    BY <2>1 DEF IsInjective
  <2>2. CASE /\ i - Len(s) \in DOMAIN t /\ i \in Nat /\ u[i] = t[i - Len(s)]
             /\ j - Len(s) \in DOMAIN t /\ j \in Nat /\ u[j] = t[j - Len(s)]
    <3>1. i - Len(s) = j - Len(s)
      BY <2>2 DEF IsInjective
    <3> QED BY <1>1, <2>2, <3>1
  <2>3. \A k \in DOMAIN s : \A l \in DOMAIN t : s[k] # t[l]
    BY DEF ToSet
  <2> QED BY <1>2, <2>1, <2>2, <2>3
<1> QED BY <1>1, <1>5, <1>6

LEMMA Added ==
  ASSUME NEW P, NEW s \in Seq(P), NEW x \in P, IsInjective(s), x \notin ToSet(s)
  PROVE  /\ Append(s, x) \in Seq(P) /\ IsInjective(Append(s, x))
         /\ ToSet(Append(s, x)) = ToSet(s) \union {x}
<1> PICK u : u = Append(s, x)
  OBVIOUS
<1>1. /\ Len(s) \in Nat /\ DOMAIN s = 1..Len(s) /\ u \in Seq(P) /\ DOMAIN u = 1..(Len(s) + 1)
      /\ \A i \in 1..Len(s) : u[i] = s[i]
      /\ u[Len(s) + 1] = x
  OBVIOUS
<1>2. \A i \in DOMAIN u : i \in DOMAIN s \/ i = Len(s) + 1
  BY <1>1
<1>3. ToSet(u) = ToSet(s) \union {x}
  BY <1>1, <1>2 DEF ToSet
<1>4. IsInjective(u)
  BY <1>1, <1>2 DEF IsInjective, ToSet
<1> QED BY <1>1, <1>3, <1>4

LEMMA TraverseVisit ==
  ASSUME NEW c, Forest(c.parent), NEW start \in Pids(c), NEW done, NEW todo, NEW dropped,
         Traversed(c, start, done, todo, dropped), todo # <<>>,
         NEW kids \in Seq(Pids(c)), IsInjective(kids),
         ToSet(kids) = IF Lives(c, Head(todo)) THEN Kids(c, Head(todo)) ELSE {}
  PROVE  Traversed(c, start, Append(done, Head(todo)), kids \o Tail(todo), dropped)
<1> PICK p : p = Head(todo)
  OBVIOUS
<1> PICK rest : rest = Tail(todo)
  OBVIOUS
<1> PICK done2 : done2 = Append(done, p)
  OBVIOUS
<1> PICK todo2 : todo2 = kids \o rest
  OBVIOUS
<1>1. /\ done \in Seq(Pids(c)) /\ todo \in Seq(Pids(c)) /\ IsInjective(done) /\ IsInjective(todo)
      /\ ToSet(done) \intersect ToSet(todo) = {}
  BY DEF Traversed, Once
<1>2. /\ rest \in Seq(Pids(c)) /\ IsInjective(rest) /\ p \in Pids(c) /\ p \in ToSet(todo)
      /\ ToSet(rest) = ToSet(todo) \ {p}
  BY <1>1, Visited
<1>3. p \notin ToSet(done)
  BY <1>1, <1>2
<1>4. \A q \in ToSet(kids) : c.parent[q] = p /\ Lives(c, p) /\ q \in Kids(c, p)
  BY DEF Kids
<1>5. ToSet(kids) \intersect Known(done, todo) = {}
  BY <1>2, <1>4, NoReturn
<1>6. done2 \in Seq(Pids(c)) /\ IsInjective(done2) /\ ToSet(done2) = ToSet(done) \union {p}
  BY <1>1, <1>2, <1>3, Added
<1>7. todo2 \in Seq(Pids(c)) /\ IsInjective(todo2) /\ ToSet(todo2) = ToSet(kids) \union ToSet(rest)
  <2>1. ToSet(kids) \intersect ToSet(rest) = {}
    BY <1>2, <1>5 DEF Known
  <2> QED BY <1>2, <2>1, Joined
<1>8. Known(done2, todo2) = Known(done, todo) \union ToSet(kids)
  BY <1>2, <1>6, <1>7 DEF Known
<1>9. Hangs(c, start, done2, todo2)
  BY <1>4, <1>6, <1>8 DEF Hangs, Traversed
<1>10. Once(done2, todo2)
  BY <1>1, <1>2, <1>5, <1>6, <1>7 DEF Once, Known
<1>11. ParentsFirst(c, start, done2)
  <2>1. /\ Len(done) \in Nat /\ DOMAIN done = 1..Len(done) /\ DOMAIN done2 = 1..(Len(done) + 1)
        /\ \A i \in 1..Len(done) : done2[i] = done[i]
        /\ done2[Len(done) + 1] = p
    BY <1>1, <1>2
  <2> SUFFICES ASSUME NEW i \in DOMAIN done2, done2[i] # start
               PROVE  \E j \in 1..(i - 1) : done2[j] = c.parent[done2[i]]
    BY DEF ParentsFirst
  <2>2. CASE i \in DOMAIN done
    <3>1. PICK j \in 1..(i - 1) : done[j] = c.parent[done[i]]
      BY <2>1, <2>2 DEF Traversed, ParentsFirst
    <3> QED BY <2>1, <2>2, <3>1
  <2>3. CASE i = Len(done) + 1
    <3>1. c.parent[p] \in ToSet(done)
      BY <1>2, <2>1, <2>3 DEF Traversed, Hangs, Known
    <3>2. PICK j \in DOMAIN done : done[j] = c.parent[p]
      BY <3>1 DEF ToSet
    <3> QED BY <2>1, <2>3, <3>2
  <2> QED BY <2>1, <2>2, <2>3
<1>12. Covers(c, start, done2, todo2, dropped)
  <2>1. start \in Known(done2, todo2) \union dropped
    BY <1>8 DEF Traversed, Covers
  <2>2. ASSUME NEW q \in ToSet(done2), Lives(c, q)
        PROVE  Kids(c, q) \subseteq Known(done2, todo2) \union dropped
    <3>1. CASE q \in ToSet(done)
      BY <1>8, <2>2, <3>1 DEF Traversed, Covers
    <3>2. CASE q = p
      BY <1>8, <2>2, <3>2
    <3> QED BY <1>6, <3>1, <3>2
  <2> QED BY <2>1, <2>2 DEF Covers
<1>13. Within(c, start, done2, todo2)
  <2>1. p \in Under(c, start) /\ Known(done, todo) \subseteq Under(c, start)
    BY <1>2 DEF Traversed, Within, Known
  <2>2. ToSet(kids) \subseteq Under(c, start)
    BY <1>4, <2>1, UnderIsClosed
  <2> QED BY <1>8, <2>1, <2>2 DEF Within
<1> QED BY <1>6, <1>7, <1>9, <1>10, <1>11, <1>12, <1>13 DEF Traversed

(* A process that is dropped leaves no trace.                                *)
LEMMA TraverseDrop ==
  ASSUME NEW c, NEW start \in Pids(c), NEW done, NEW todo, NEW dropped,
         Traversed(c, start, done, todo, dropped), todo # <<>>, Head(todo) \in dropped
  PROVE  Traversed(c, start, done, Tail(todo), dropped)
<1> PICK p : p = Head(todo)
  OBVIOUS
<1> PICK rest : rest = Tail(todo)
  OBVIOUS
<1>1. /\ done \in Seq(Pids(c)) /\ todo \in Seq(Pids(c)) /\ IsInjective(done) /\ IsInjective(todo)
      /\ ToSet(done) \intersect ToSet(todo) = {}
  BY DEF Traversed, Once
<1>2. rest \in Seq(Pids(c)) /\ IsInjective(rest) /\ ToSet(rest) = ToSet(todo) \ {p}
  BY <1>1, Visited
<1>3. /\ Known(done, rest) \subseteq Known(done, todo)
      /\ Known(done, todo) \subseteq Known(done, rest) \union dropped
  BY <1>2 DEF Known
<1>4. Hangs(c, start, done, rest) /\ Within(c, start, done, rest)
  BY <1>3 DEF Traversed, Hangs, Within
<1>5. Once(done, rest)
  BY <1>1, <1>2 DEF Once
<1>6. Covers(c, start, done, rest, dropped)
  BY <1>3 DEF Traversed, Covers
<1> QED BY <1>1, <1>2, <1>4, <1>5, <1>6 DEF Traversed

(* With nothing left to visit, the processes below start have been visited.   *)
LEMMA TraverseEnd ==
  ASSUME NEW c, NEW start \in Pids(c), NEW done, NEW dropped \in SUBSET Pids(c),
         \A p \in dropped : ~Lives(c, p), Traversed(c, start, done, <<>>, dropped)
  PROVE  ToSet(done) \subseteq Under(c, start) /\ Under(c, start) \subseteq ToSet(done) \union dropped
<1>1. Known(done, <<>>) = ToSet(done)
  BY DEF Known, ToSet
<1>2. ToSet(done) \subseteq Under(c, start)
  BY <1>1 DEF Traversed, Within
<1>3. ToSet(done) \union dropped \in SUBSET Pids(c)
  BY <1>2, UnderIsClosed
<1>4. ClosedIn(c, ToSet(done) \union dropped)
  BY <1>1 DEF Traversed, Covers, ClosedIn
<1>5. start \in ToSet(done) \union dropped
  BY <1>1 DEF Traversed, Covers
<1>6. Under(c, start) \subseteq ToSet(done) \union dropped
  BY <1>3, <1>4, <1>5 DEF Under
<1> QED BY <1>2, <1>6

-----------------------------------------------------------------------------
(***************************************************************************)
(* Trees drawn by indentation                                              *)
(***************************************************************************)

Item(c) == [pid : Pids(c), depth : Nat]
Row(c) == [pid : Pids(c), depth : Nat, files : BOOLEAN, sockets : BOOLEAN]
PidsOf(s) == [i \in DOMAIN s |-> s[i].pid]

(* The reader of a line looks for the last line above that is less indented:  *)
(* its parent.  Whoever waits to be drawn will be read so, too, below the     *)
(* lines that there are.                                                     *)
Above(rs, n, depth) == {j \in 1..n : rs[j].depth < depth}
ReadsBack(c, rs, n, x) ==
  LET above == Max(Above(rs, n, x.depth))
  IN above \in 1..n /\ rs[above].pid = c.parent[x.pid]

Indented(c, rs, w) ==
  /\ \A i \in 2..Len(rs) : ReadsBack(c, rs, i - 1, rs[i])
  /\ rs # <<>> => \A k \in DOMAIN w : ReadsBack(c, rs, Len(rs), w[k])
  /\ \A k, l \in DOMAIN w : k < l => w[l].depth <= w[k].depth
  /\ rs = <<>> => Len(w) = 1

Siblings(c, x, y) == c.parent[x.pid] = c.parent[y.pid]
Ascending(c, rs, w) ==
  /\ \A i, j \in DOMAIN rs : i < j /\ Siblings(c, rs[i], rs[j]) => rs[i].pid < rs[j].pid
  /\ \A i \in DOMAIN rs : \A k \in DOMAIN w : Siblings(c, rs[i], w[k]) => rs[i].pid < w[k].pid
  /\ \A k, l \in DOMAIN w : k < l /\ Siblings(c, w[k], w[l]) => w[k].pid < w[l].pid

Marked(c, fds, sks, rs) ==
  \A i \in DOMAIN rs :
    /\ rs[i].files <=> Lives(c, rs[i].pid) /\ rs[i].pid \in fds
    /\ rs[i].sockets <=> Lives(c, rs[i].pid) /\ rs[i].pid \in sks

Drawn(c, start, fds, sks, rs, w) ==
  /\ rs \in Seq(Row(c)) /\ w \in Seq(Item(c))
  /\ Traversed(c, start, PidsOf(rs), PidsOf(w), {})
  /\ Indented(c, rs, w) /\ Ascending(c, rs, w) /\ Marked(c, fds, sks, rs)

LEMMA PidsOfItems ==
  ASSUME NEW c, NEW s \in Seq(Item(c))
  PROVE  /\ PidsOf(s) \in Seq(Pids(c)) /\ Len(PidsOf(s)) = Len(s)
         /\ DOMAIN PidsOf(s) = DOMAIN s /\ Len(s) \in Nat /\ DOMAIN s = 1..Len(s)
         /\ \A i \in 1..Len(s) : PidsOf(s)[i] = s[i].pid /\ s[i].pid \in Pids(c) /\ s[i].depth \in Nat
<1>1. Len(s) \in Nat /\ DOMAIN s = 1..Len(s)
  OBVIOUS
<1>2. \A i \in 1..Len(s) : s[i] \in Item(c)
  BY <1>1
<1>3. \A i \in 1..Len(s) : s[i].pid \in Pids(c) /\ s[i].depth \in Nat
  BY <1>2 DEF Item
<1>4. PidsOf(s) = [i \in 1..Len(s) |-> s[i].pid]
  BY <1>1 DEF PidsOf
<1> QED BY <1>1, <1>3, <1>4

LEMMA PidsOfRows ==
  ASSUME NEW c, NEW s \in Seq(Row(c))
  PROVE  /\ PidsOf(s) \in Seq(Pids(c)) /\ Len(PidsOf(s)) = Len(s)
         /\ DOMAIN PidsOf(s) = DOMAIN s /\ Len(s) \in Nat /\ DOMAIN s = 1..Len(s)
         /\ \A i \in 1..Len(s) : PidsOf(s)[i] = s[i].pid /\ s[i].pid \in Pids(c) /\ s[i].depth \in Nat
<1>1. Len(s) \in Nat /\ DOMAIN s = 1..Len(s)
  OBVIOUS
<1>2. \A i \in 1..Len(s) : s[i] \in Row(c)
  BY <1>1
<1>3. \A i \in 1..Len(s) : s[i].pid \in Pids(c) /\ s[i].depth \in Nat
  BY <1>2 DEF Row
<1>4. PidsOf(s) = [i \in 1..Len(s) |-> s[i].pid]
  BY <1>1 DEF PidsOf
<1> QED BY <1>1, <1>3, <1>4

LEMMA PidsOfAppend ==
  ASSUME NEW c, NEW rs \in Seq(Row(c)), NEW r \in Row(c)
  PROVE  PidsOf(Append(rs, r)) = Append(PidsOf(rs), r.pid)
<1> PICK rs2 : rs2 = Append(rs, r)
  OBVIOUS
<1> PICK ps : ps = PidsOf(rs)
  OBVIOUS
<1>1. /\ ps \in Seq(Pids(c)) /\ Len(ps) = Len(rs) /\ Len(rs) \in Nat
      /\ \A i \in 1..Len(rs) : ps[i] = rs[i].pid
  BY PidsOfRows
<1>2. /\ rs2 \in Seq(Row(c)) /\ Len(rs2) = Len(rs) + 1 /\ rs2[Len(rs) + 1] = r
      /\ \A i \in 1..Len(rs) : rs2[i] = rs[i]
  OBVIOUS
<1>3. /\ PidsOf(rs2) \in Seq(Pids(c)) /\ Len(PidsOf(rs2)) = Len(rs) + 1
      /\ \A i \in 1..(Len(rs) + 1) : PidsOf(rs2)[i] = rs2[i].pid
  BY <1>2, PidsOfRows
<1>4. r.pid \in Pids(c)
  BY DEF Row
<1>5. /\ Append(ps, r.pid) \in Seq(Pids(c)) /\ Len(Append(ps, r.pid)) = Len(rs) + 1
      /\ Append(ps, r.pid)[Len(rs) + 1] = r.pid
      /\ \A i \in 1..Len(rs) : Append(ps, r.pid)[i] = ps[i]
  BY <1>1, <1>4
<1>6. \A i \in 1..(Len(rs) + 1) : PidsOf(rs2)[i] = Append(ps, r.pid)[i]
  BY <1>1, <1>2, <1>3, <1>5
<1> QED BY <1>3, <1>5, <1>6, SeqEqual

LEMMA Concat ==
  ASSUME NEW P, NEW s \in Seq(P), NEW t \in Seq(P)
  PROVE  /\ Len(s) \in Nat /\ Len(t) \in Nat /\ s \o t \in Seq(P)
         /\ Len(s \o t) = Len(s) + Len(t)
         /\ \A i \in 1..Len(s) : (s \o t)[i] = s[i]
         /\ \A i \in 1..Len(t) : (s \o t)[Len(s) + i] = t[i]
<1>1. /\ Len(s) \in Nat /\ Len(t) \in Nat /\ s \o t \in Seq(P)
      /\ Len(s \o t) = Len(s) + Len(t)
  OBVIOUS
<1>2. \A i \in 1..Len(s) : (s \o t)[i] = s[i]
  BY <1>1
<1>3. ASSUME NEW i \in 1..Len(t) PROVE (s \o t)[Len(s) + i] = t[i]
  <2>1. /\ Len(s) + i \in (Len(s) + 1)..(Len(s) + Len(t))
        /\ (Len(s) + i) - Len(s) = i
    BY <1>1
  <2> QED BY <1>1, <2>1
<1> QED BY <1>1, <1>2, <1>3

(* What waits to be drawn after the first of w has been, with children kids.   *)
Spread(kids, depth, w) == [i \in DOMAIN kids |-> [pid |-> kids[i], depth |-> depth]] \o Tail(w)

(* Of n children below a line indented by d, before which l others will be drawn. *)
Spreads(c, kids, w, n, l, d, w2) ==
  /\ kids \in Seq(Pids(c)) /\ w \in Seq(Item(c)) /\ w # <<>>
  /\ n = Len(kids) /\ l = Len(w) - 1 /\ d = Head(w).depth
  /\ w2 = Spread(kids, d + 1, w)

LEMMA Branched ==
  ASSUME NEW c, NEW kids, NEW w, NEW n, NEW l, NEW d, NEW w2, Spreads(c, kids, w, n, l, d, w2)
  PROVE  /\ w2 \in Seq(Item(c)) /\ Len(w2) = n + l
         /\ n \in Nat /\ l \in Nat /\ Len(w) = l + 1 /\ Head(w) = w[1] /\ Head(w) \in Item(c)
         /\ \A k \in 1..n : w2[k].pid = kids[k] /\ w2[k].depth = d + 1
         /\ \A k \in 1..l : w2[n + k] = w[k + 1]
         /\ PidsOf(w) # <<>> /\ Head(PidsOf(w)) = Head(w).pid
         /\ PidsOf(w2) = kids \o Tail(PidsOf(w))
<1> PICK more : more = [i \in DOMAIN kids |-> [pid |-> kids[i], depth |-> d + 1]]
  OBVIOUS
<1> PICK rest : rest = Tail(w)
  OBVIOUS
<1>0. /\ kids \in Seq(Pids(c)) /\ w \in Seq(Item(c)) /\ w # <<>>
      /\ n = Len(kids) /\ l = Len(w) - 1 /\ d = Head(w).depth
      /\ w2 = Spread(kids, d + 1, w)
  BY DEF Spreads
<1>1. /\ n \in Nat /\ Len(w) \in Nat /\ Len(w) # 0 /\ DOMAIN kids = 1..n /\ Head(w) = w[1]
      /\ \A i \in 1..Len(w) : w[i] \in Item(c)
      /\ \A i \in 1..n : kids[i] \in Pids(c)
  BY <1>0, EmptySeq
<1>2. l \in Nat /\ Len(w) = l + 1 /\ Head(w) \in Item(c)
  BY <1>0, <1>1
<1>3. d \in Nat
  BY <1>0, <1>2 DEF Item
<1>4. more \in Seq(Item(c)) /\ Len(more) = n
      /\ \A i \in 1..n : more[i].pid = kids[i] /\ more[i].depth = d + 1
  <2>1. \A i \in 1..n : [pid |-> kids[i], depth |-> d + 1] \in Item(c)
    BY <1>0, <1>1, <1>3 DEF Item
  <2>2. more = [i \in 1..n |-> [pid |-> kids[i], depth |-> d + 1]]
    BY <1>0, <1>1
  <2> QED BY <1>0, <1>1, <2>1, <2>2
<1>5. rest \in Seq(Item(c)) /\ Len(rest) = l /\ \A i \in 1..l : rest[i] = w[i + 1]
  BY <1>0, <1>1, <1>2, HeadTailProperties
<1>6. w2 = more \o rest
  BY <1>0 DEF Spread
<1>7. /\ w2 \in Seq(Item(c)) /\ Len(w2) = n + l
      /\ \A k \in 1..n : w2[k] = more[k]
      /\ \A k \in 1..l : w2[n + k] = rest[k]
  <2>1. w2 \in Seq(Item(c)) /\ Len(w2) = Len(more) + Len(rest)
    BY ONLY <1>4, <1>5, <1>6, Concat
  <2>2. \A k \in 1..Len(more) : w2[k] = more[k]
    BY ONLY <1>4, <1>5, <1>6, Concat
  <2>3. \A k \in 1..Len(rest) : w2[Len(more) + k] = rest[k]
    BY ONLY <1>4, <1>5, <1>6, Concat
  <2> QED BY <1>0, <1>4, <1>5, <2>1, <2>2, <2>3
<1>8. \A k \in 1..l : w2[n + k] = w[k + 1]
  BY <1>0, <1>5, <1>7
<1> PICK ps : ps = PidsOf(w)
  OBVIOUS
<1> PICK t : t = Tail(ps)
  OBVIOUS
<1>9. /\ ps \in Seq(Pids(c)) /\ Len(ps) = l + 1 /\ \A i \in 1..(l + 1) : ps[i] = w[i].pid
  BY <1>0, <1>2, PidsOfItems
<1>10. ps # <<>> /\ Head(ps) = w[1].pid /\ t \in Seq(Pids(c)) /\ Len(t) = l
       /\ \A i \in 1..l : t[i] = w[i + 1].pid
  <2>1. ps # <<>>
    BY <1>0, <1>2, <1>9
  <2>2. Head(ps) = ps[1] /\ t \in Seq(Pids(c)) /\ Len(t) = l /\ \A i \in 1..l : t[i] = ps[i + 1]
    BY <1>0, <1>2, <1>9, <2>1, HeadTailProperties
  <2>3. 1 \in 1..(l + 1) /\ \A i \in 1..l : i + 1 \in 1..(l + 1)
    BY <1>0, <1>2
  <2> QED BY <1>0, <1>9, <2>1, <2>2, <2>3
<1>11. PidsOf(w2) = kids \o t
  <2> PICK ps2 : ps2 = PidsOf(w2)
    OBVIOUS
  <2>0. PICK qs : qs = kids \o t
    OBVIOUS
  <2>1. ps2 \in Seq(Pids(c)) /\ Len(ps2) = n + l /\ \A i \in 1..(n + l) : ps2[i] = w2[i].pid
    <3>1. w2 \in Seq(Item(c))
      BY <1>0, <1>7
    <3>2. ps2 \in Seq(Pids(c)) /\ Len(ps2) = Len(w2)
      BY ONLY <3>1, ps2 = PidsOf(w2), PidsOfItems
    <3>3. \A i \in 1..Len(w2) : ps2[i] = w2[i].pid
      BY <1>0, <3>1, PidsOfItems
    <3>4. Len(w2) = n + l
      BY <1>0, <1>7
    <3> QED BY <1>0, <3>2, <3>3, <3>4
  <2>2. qs \in Seq(Pids(c)) /\ Len(qs) = n + l
    <3>1. t \in Seq(Pids(c)) /\ Len(t) = l
      BY <1>0, <1>10
    <3>2. Len(qs) = Len(kids) + Len(t)
      BY ONLY <1>0, <2>0, <3>1, Concat
    <3>3. qs \in Seq(Pids(c))
      BY ONLY <1>0, <2>0, <3>1, Concat
    <3> QED BY <1>0, <3>1, <3>2, <3>3
  <2>3. ASSUME NEW i \in 1..n PROVE qs[i] = ps2[i]
    <3>1. qs[i] = kids[i]
      BY <1>0, <1>10, <2>0, Concat
    <3>2. i \in 1..(n + l)
      BY <1>0, <1>1, <1>2
    <3>3. w2[i] = more[i] /\ more[i].pid = kids[i]
      BY <1>0, <1>4, <1>7
    <3>4. ps2[i] = w2[i].pid
      BY <1>0, <2>1, <3>2
    <3> QED BY <1>0, <3>1, <3>3, <3>4
  <2>4. ASSUME NEW j \in 1..l PROVE qs[n + j] = ps2[n + j]
    <3>1. qs[Len(kids) + j] = t[j]
      <4>1. \A i \in 1..Len(t) : qs[Len(kids) + i] = t[i]
        BY ONLY <1>0, <1>10, <2>0, Concat
      <4> QED BY <1>10, <4>1
    <3>2. n + j \in 1..(n + l)
      BY <1>0, <1>1, <1>2
    <3>3. ps2[n + j] = w[j + 1].pid
      BY <1>0, <1>8, <2>1, <3>2
    <3> QED BY <1>0, <1>10, <3>1, <3>3
  <2>5. ASSUME NEW i \in 1..(n + l) PROVE ps2[i] = qs[i]
    <3>1. i \in 1..n \/ (i - n \in 1..l /\ i = n + (i - n))
      BY <1>0, <1>1, <1>2
    <3> QED BY <1>0, <2>3, <2>4, <3>1
  <2> HIDE DEF PidsOf
  <2>6. ps2 = qs
    BY ONLY <2>1, <2>2, <2>5, SeqEqual
  <2> QED BY <2>0, <2>6
<1> QED BY <1>0, <1>1, <1>2, <1>4, <1>7, <1>8, <1>10, <1>11

(* Who waits then is a child, or waited before.                              *)
LEMMA Waiting ==
  ASSUME NEW c, NEW kids, NEW w, NEW n, NEW l, NEW d, NEW w2, Spreads(c, kids, w, n, l, d, w2),
         NEW k \in DOMAIN w2
  PROVE  \/ k \in 1..n /\ w2[k].pid = kids[k] /\ w2[k].depth = d + 1
         \/ \E j \in 1..l : k = n + j /\ w2[k] = w[j + 1]
<1>1. w2 \in Seq(Item(c)) /\ Len(w2) = n + l /\ n \in Nat /\ l \in Nat
  BY Branched
<1>a. \A i \in 1..n : w2[i].pid = kids[i] /\ w2[i].depth = d + 1
  BY Branched
<1>b. \A i \in 1..l : w2[n + i] = w[i + 1]
  BY Branched
<1>2. k \in 1..(n + l)
  BY <1>1
<1>3. k \in 1..n \/ (k - n \in 1..l /\ k = n + (k - n))
  BY <1>1, <1>2
<1> QED BY <1>a, <1>b, <1>3

(* A process is drawn below its parent, and so will its children be.          *)
LEMMA IndentStep ==
  ASSUME NEW c, NEW rs \in Seq(Row(c)), NEW w \in Seq(Item(c)), w # <<>>, Indented(c, rs, w),
         NEW r \in Row(c), r.pid = Head(w).pid, r.depth = Head(w).depth,
         NEW kids \in Seq(Pids(c)), \A k \in 1..Len(kids) : c.parent[kids[k]] = Head(w).pid,
         NEW w2, w2 = Spread(kids, Head(w).depth + 1, w)
  PROVE  Indented(c, Append(rs, r), w2)
<1> PICK n : n = Len(kids)
  OBVIOUS
<1> PICK l : l = Len(w) - 1
  OBVIOUS
<1> PICK q : q = Len(rs)
  OBVIOUS
<1> PICK d : d = Head(w).depth
  OBVIOUS
<1> PICK rs2 : rs2 = Append(rs, r)
  OBVIOUS
<1>0. Spreads(c, kids, w, n, l, d, w2)
  BY DEF Spreads
<1>1. /\ n \in Nat /\ l \in Nat /\ Len(w) = l + 1 /\ Head(w) = w[1] /\ Head(w) \in Item(c)
      /\ w2 \in Seq(Item(c))
  BY <1>0, Branched
<1>2. /\ q \in Nat /\ Len(rs2) = q + 1 /\ rs2[q + 1] = r /\ \A i \in 1..q : rs2[i] = rs[i]
      /\ rs2 # <<>> /\ DOMAIN w = 1..(l + 1) /\ (rs = <<>> <=> q = 0)
  <2>1. q \in Nat /\ Len(rs2) = q + 1 /\ rs2[q + 1] = r /\ \A i \in 1..q : rs2[i] = rs[i]
    OBVIOUS
  <2>2. rs2 # <<>>
    BY AppendProperties
  <2>3. rs = <<>> <=> q = 0
    BY EmptySeq
  <2> QED BY <1>1, <2>1, <2>2, <2>3
<1>3. d \in Nat /\ w[1].depth = d /\ r.depth = d /\ w[1].pid = r.pid
  BY <1>1 DEF Item
<1>4. \A i \in DOMAIN w : w[i].depth \in Nat
  <2>1. \A i \in DOMAIN w : w[i] \in Item(c)
    BY <1>1, <1>2
  <2> QED BY <2>1 DEF Item
<1>5. \A i \in 0..q : \A depth : Above(rs2, i, depth) = Above(rs, i, depth)
  BY <1>2 DEF Above
<1>6. ASSUME NEW i \in 0..q, NEW x, ReadsBack(c, rs, i, x) PROVE ReadsBack(c, rs2, i, x)
  <2>1. Max(Above(rs, i, x.depth)) \in 1..q /\ Above(rs2, i, x.depth) = Above(rs, i, x.depth)
    BY <1>2, <1>5, <1>6 DEF ReadsBack
  <2> QED BY <1>2, <1>6, <2>1 DEF ReadsBack
<1>7. ASSUME NEW i \in 2..(q + 1) PROVE ReadsBack(c, rs2, i - 1, rs2[i])
  <2>0. i - 1 \in 0..q
    BY <1>2
  <2>1. CASE i \in 2..q
    <3>1. rs2[i] = rs[i] /\ ReadsBack(c, rs, i - 1, rs[i])
      BY <1>2, <2>1 DEF Indented
    <3> QED BY <1>6, <2>0, <3>1
  <2>2. CASE i = q + 1
    <3>0. rs # <<>> /\ 1 \in DOMAIN w
      BY <1>1, <1>2, <2>2
    <3>1. ReadsBack(c, rs, q, w[1])
      BY <3>0 DEF Indented
    <3>2. ReadsBack(c, rs, q, r)
      BY <1>3, <3>1 DEF ReadsBack
    <3>3. i - 1 = q /\ rs2[i] = r
      BY <1>2, <2>2
    <3> QED BY <1>6, <2>0, <3>2, <3>3
  <2> QED BY <1>2, <2>1, <2>2
<1>8. ASSUME NEW x, NEW k \in 1..n, x.pid = kids[k], x.depth = d + 1
      PROVE  ReadsBack(c, rs2, q + 1, x)
  <2> PICK A : A = Above(rs2, q + 1, d + 1)
    OBVIOUS
  <2>1. q + 1 \in A /\ \A i \in A : i \in Nat /\ i <= q + 1
    BY <1>2, <1>3 DEF Above
  <2>2. Max(A) = q + 1
    <3>1. \A y : y \in A /\ (\A i \in A : y >= i) => y = q + 1
      BY <1>2, <2>1
    <3>2. \A i \in A : q + 1 >= i
      BY <1>2, <2>1
    <3> QED BY <2>1, <3>1, <3>2 DEF Max
  <2>3. rs2[q + 1].pid = c.parent[x.pid]
    BY <1>2, <1>8
  <2>4. q + 1 \in 1..(q + 1)
    BY <1>2
  <2> QED BY <1>8, <2>2, <2>3, <2>4 DEF ReadsBack
<1>9. ASSUME NEW j \in 1..l PROVE ReadsBack(c, rs2, q + 1, w[j + 1])
  <2>1. 1 \in DOMAIN w /\ j + 1 \in DOMAIN w /\ 1 < j + 1 /\ Len(w) # 1
    <3>1. \A i \in 1..l : i + 1 \in 1..(l + 1) /\ 1 < i + 1 /\ 1 \in 1..(l + 1) /\ l + 1 # 1
      BY ONLY <1>1
    <3> QED BY <1>1, <1>2, <3>1
  <2>2. rs # <<>>
    BY <2>1 DEF Indented
  <2>3. ReadsBack(c, rs, q, w[j + 1])
    BY <2>1, <2>2 DEF Indented
  <2>4. w[j + 1].depth <= d /\ w[j + 1].depth \in Nat
    BY <1>3, <1>4, <2>1 DEF Indented
  <2>5. Above(rs2, q + 1, w[j + 1].depth) = Above(rs2, q, w[j + 1].depth)
    <3>1. ~(rs2[q + 1].depth < w[j + 1].depth)
      BY <1>2, <1>3, <2>4
    <3>2. \A i \in 1..(q + 1) : i \in 1..q \/ i = q + 1
      BY <1>2
    <3>3. \A i \in 1..q : i \in 1..(q + 1)
      BY <1>2
    <3> QED BY <3>1, <3>2, <3>3 DEF Above
  <2>6. ReadsBack(c, rs2, q, w[j + 1])
    BY <1>2, <1>6, <2>3
  <2>7. 1..q \subseteq 1..(q + 1)
    BY <1>2
  <2> QED BY <2>5, <2>6, <2>7 DEF ReadsBack
<1>10. ASSUME NEW k \in DOMAIN w2 PROVE ReadsBack(c, rs2, q + 1, w2[k])
  <2>1. \/ k \in 1..n /\ w2[k].pid = kids[k] /\ w2[k].depth = d + 1
        \/ \E j \in 1..l : k = n + j /\ w2[k] = w[j + 1]
    BY <1>0, Waiting
  <2> QED BY <1>8, <1>9, <2>1
<1>11. \A i \in DOMAIN w : w[i].depth <= d
  <2> SUFFICES ASSUME NEW i \in DOMAIN w, i # 1 PROVE w[i].depth <= d
    BY <1>3
  <2>1. 1 < i /\ 1 \in DOMAIN w
    BY <1>1, <1>2
  <2> QED BY <1>3, <2>1 DEF Indented
<1>12. ASSUME NEW k \in DOMAIN w2, NEW k2 \in DOMAIN w2, k < k2
       PROVE  w2[k2].depth <= w2[k].depth
  <2>1. /\ \/ k \in 1..n /\ w2[k].depth = d + 1
           \/ \E j \in 1..l : k = n + j /\ w2[k] = w[j + 1]
        /\ \/ k2 \in 1..n /\ w2[k2].depth = d + 1
           \/ \E j \in 1..l : k2 = n + j /\ w2[k2] = w[j + 1]
    BY ONLY <1>0, k \in DOMAIN w2, k2 \in DOMAIN w2, Waiting
  <2>2. CASE k2 \in 1..n /\ w2[k2].depth = d + 1
    <3>1. w2[k].depth = d + 1
      BY <1>1, <1>12, <2>1, <2>2
    <3> QED BY <1>3, <2>2, <3>1
  <2>3. ASSUME NEW j2 \in 1..l, k2 = n + j2, w2[k2] = w[j2 + 1]
        PROVE  w2[k2].depth <= w2[k].depth
    <3>1. j2 + 1 \in DOMAIN w
      BY <1>1, <1>2
    <3>2. CASE w2[k].depth = d + 1
      <4>1. w[j2 + 1].depth <= d /\ w[j2 + 1].depth \in Nat
        BY <1>4, <1>11, <3>1
      <4> QED BY <1>3, <2>3, <3>2, <4>1
    <3>3. ASSUME NEW j \in 1..l, k = n + j, w2[k] = w[j + 1]
          PROVE  w2[k2].depth <= w2[k].depth
      <4>1. j + 1 \in DOMAIN w /\ j + 1 < j2 + 1
        BY <1>1, <1>2, <1>12, <2>3, <3>3
      <4> QED BY <2>3, <3>1, <3>3, <4>1 DEF Indented
    <3> QED BY <2>1, <3>2, <3>3
  <2> QED BY <2>1, <2>2, <2>3
<1> QED BY <1>2, <1>7, <1>10, <1>12 DEF Indented

(* Nobody known has the process drawn for a parent, so its children come among *)
(* themselves, in their order.                                               *)
LEMMA AscendStep ==
  ASSUME NEW c, NEW rs \in Seq(Row(c)), NEW w \in Seq(Item(c)), w # <<>>, Ascending(c, rs, w),
         NEW r \in Row(c), r.pid = Head(w).pid,
         NEW kids \in Seq(Pids(c)), \A k \in 1..Len(kids) : c.parent[kids[k]] = Head(w).pid,
         \A i, j \in DOMAIN kids : i < j => kids[i] < kids[j],
         \A i \in DOMAIN rs : c.parent[rs[i].pid] # Head(w).pid,
         \A i \in DOMAIN w : c.parent[w[i].pid] # Head(w).pid,
         NEW w2, w2 = Spread(kids, Head(w).depth + 1, w)
  PROVE  Ascending(c, Append(rs, r), w2)
<1> PICK n : n = Len(kids)
  OBVIOUS
<1> PICK l : l = Len(w) - 1
  OBVIOUS
<1> PICK q : q = Len(rs)
  OBVIOUS
<1> PICK p : p = Head(w).pid
  OBVIOUS
<1> PICK d : d = Head(w).depth
  OBVIOUS
<1> PICK rs2 : rs2 = Append(rs, r)
  OBVIOUS
<1>0. Spreads(c, kids, w, n, l, d, w2)
  BY DEF Spreads
<1>1. n \in Nat /\ l \in Nat /\ Len(w) = l + 1 /\ Head(w) = w[1] /\ w2 \in Seq(Item(c))
  BY <1>0, Branched
<1>2. /\ q \in Nat /\ DOMAIN rs2 = 1..(q + 1) /\ rs2[q + 1] = r /\ \A i \in 1..q : rs2[i] = rs[i]
      /\ DOMAIN w = 1..(l + 1) /\ DOMAIN rs = 1..q /\ DOMAIN kids = 1..n
  <2>1. q \in Nat /\ DOMAIN rs2 = 1..(q + 1) /\ rs2[q + 1] = r /\ \A i \in 1..q : rs2[i] = rs[i]
        /\ DOMAIN rs = 1..q /\ DOMAIN kids = 1..n
    OBVIOUS
  <2> QED BY <1>1, <2>1
<1>3. ASSUME NEW k \in DOMAIN w2
      PROVE  \/ k \in DOMAIN kids /\ w2[k].pid = kids[k] /\ c.parent[w2[k].pid] = p
             \/ \E j \in 1..l : k = n + j /\ w2[k] = w[j + 1] /\ j + 1 \in DOMAIN w
  <2>1. \/ k \in 1..n /\ w2[k].pid = kids[k]
        \/ \E j \in 1..l : k = n + j /\ w2[k] = w[j + 1]
    BY ONLY <1>0, k \in DOMAIN w2, Waiting
  <2>2. \A j \in 1..l : j + 1 \in DOMAIN w
    BY <1>1, <1>2
  <2> QED BY <1>2, <2>1, <2>2
<1>4. \A i \in DOMAIN rs2 : \/ i \in DOMAIN rs /\ rs2[i] = rs[i]
                            \/ i = q + 1 /\ rs2[i].pid = w[1].pid
  BY <1>1, <1>2
<1>5. 1 \in DOMAIN w
  BY <1>1, <1>2
<1>6. ASSUME NEW i \in DOMAIN rs2, NEW j \in DOMAIN rs2, i < j, Siblings(c, rs2[i], rs2[j])
      PROVE  rs2[i].pid < rs2[j].pid
  <2>1. i \in DOMAIN rs /\ rs2[i] = rs[i]
    BY <1>2, <1>6
  <2>2. CASE j \in DOMAIN rs /\ rs2[j] = rs[j]
    BY <1>6, <2>1, <2>2 DEF Ascending
  <2>3. CASE rs2[j].pid = w[1].pid
    <3>1. Siblings(c, rs[i], w[1])
      BY <1>6, <2>1, <2>3 DEF Siblings
    <3> QED BY <1>5, <2>1, <2>3, <3>1 DEF Ascending
  <2> QED BY <1>4, <2>2, <2>3
<1>7. ASSUME NEW i \in DOMAIN rs2, NEW k \in DOMAIN w2, Siblings(c, rs2[i], w2[k])
      PROVE  rs2[i].pid < w2[k].pid
  <2>1. c.parent[rs2[i].pid] # p
    BY <1>1, <1>4, <1>5
  <2>2. PICK j \in 1..l : w2[k] = w[j + 1] /\ j + 1 \in DOMAIN w
    BY <1>3, <1>7, <2>1 DEF Siblings
  <2>3. 1 < j + 1
    BY <1>1
  <2>4. CASE i \in DOMAIN rs /\ rs2[i] = rs[i]
    BY <1>7, <2>2, <2>4 DEF Ascending
  <2>5. CASE rs2[i].pid = w[1].pid
    <3>1. Siblings(c, w[1], w[j + 1])
      BY <1>7, <2>2, <2>5 DEF Siblings
    <3> QED BY <1>5, <2>2, <2>3, <2>5, <3>1 DEF Ascending
  <2> QED BY <1>4, <2>4, <2>5
<1>8. ASSUME NEW k \in DOMAIN w2, NEW k2 \in DOMAIN w2, k < k2, Siblings(c, w2[k], w2[k2])
      PROVE  w2[k].pid < w2[k2].pid
  <2>1. CASE k \in DOMAIN kids /\ w2[k].pid = kids[k] /\ c.parent[w2[k].pid] = p
    <3>1. c.parent[w2[k2].pid] = p
      BY <1>8, <2>1 DEF Siblings
    <3>2. k2 \in DOMAIN kids /\ w2[k2].pid = kids[k2]
      BY <1>3, <3>1
    <3> QED BY <1>8, <2>1, <3>2
  <2>2. ASSUME NEW j \in 1..l, k = n + j, w2[k] = w[j + 1], j + 1 \in DOMAIN w
        PROVE  w2[k].pid < w2[k2].pid
    <3>1. c.parent[w2[k2].pid] # p
      BY <1>8, <2>2 DEF Siblings
    <3>2. PICK j2 \in 1..l : k2 = n + j2 /\ w2[k2] = w[j2 + 1] /\ j2 + 1 \in DOMAIN w
      BY <1>3, <3>1
    <3>3. j + 1 < j2 + 1
      BY <1>1, <1>8, <2>2, <3>2
    <3> QED BY <1>8, <2>2, <3>2, <3>3 DEF Ascending
  <2> QED BY <1>3, <2>1, <2>2
<1> QED BY <1>6, <1>7, <1>8 DEF Ascending

(* One call of addPsNodeBranch.                                              *)
LEMMA DrawStep ==
  ASSUME NEW c, Forest(c.parent), NEW start \in Pids(c), NEW fds, NEW sks, NEW rs, NEW w, w # <<>>,
         Drawn(c, start, fds, sks, rs, w),
         NEW kids, kids \in Seq(Pids(c)), IsInjective(kids),
         ToSet(kids) = IF Lives(c, Head(w).pid) THEN Kids(c, Head(w).pid) ELSE {},
         \A i, j \in DOMAIN kids : i < j => kids[i] < kids[j],
         NEW r \in Row(c), r.pid = Head(w).pid, r.depth = Head(w).depth,
         r.files <=> Lives(c, r.pid) /\ r.pid \in fds,
         r.sockets <=> Lives(c, r.pid) /\ r.pid \in sks,
         NEW w2,
         w2 = Spread(kids, Head(w).depth + 1, w)
  PROVE  Drawn(c, start, fds, sks, Append(rs, r), w2)
<1>1. rs \in Seq(Row(c)) /\ w \in Seq(Item(c)) /\ Traversed(c, start, PidsOf(rs), PidsOf(w), {})
  BY DEF Drawn
<1> PICK p : p = Head(w).pid
  OBVIOUS
<1> PICK todo : todo = PidsOf(w)
  OBVIOUS
<1> PICK done : done = PidsOf(rs)
  OBVIOUS
<1>2. /\ w2 \in Seq(Item(c)) /\ todo # <<>> /\ Head(todo) = p /\ PidsOf(w2) = kids \o Tail(todo)
  <2>1. PICK n, l, d : Spreads(c, kids, w, n, l, d, w2)
    BY <1>1 DEF Spreads
  <2> QED BY ONLY <2>1, todo = PidsOf(w), p = Head(w).pid, Branched
<1>3. PidsOf(Append(rs, r)) = Append(done, p)
  BY <1>1, PidsOfAppend
<1>4. Traversed(c, start, Append(done, p), kids \o Tail(todo), {})
  BY <1>1, <1>2, TraverseVisit
<1>5. /\ todo \in Seq(Pids(c)) /\ DOMAIN todo = DOMAIN w /\ \A i \in DOMAIN w : todo[i] = w[i].pid
      /\ DOMAIN done = DOMAIN rs /\ \A i \in DOMAIN rs : done[i] = rs[i].pid
  BY <1>1, PidsOfRows, PidsOfItems
<1>6. p \in ToSet(todo)
  BY <1>2, <1>5, EmptySeq DEF ToSet
<1>7. \A q \in Known(done, todo) : c.parent[q] # p
  BY <1>1, <1>6, NoReturn
<1>8. /\ \A i \in DOMAIN rs : c.parent[rs[i].pid] # p
      /\ \A i \in DOMAIN w : c.parent[w[i].pid] # p
  BY <1>5, <1>7 DEF Known, ToSet
<1>9. \A k \in 1..Len(kids) : c.parent[kids[k]] = p
  <2>1. \A k \in 1..Len(kids) : kids[k] \in ToSet(kids)
    BY DEF ToSet
  <2> QED BY <2>1 DEF Kids
<1>10. Indented(c, Append(rs, r), w2)
  BY <1>1, <1>9, IndentStep DEF Drawn
<1>11. Ascending(c, Append(rs, r), w2)
  BY <1>1, <1>8, <1>9, AscendStep DEF Drawn
<1>12. Marked(c, fds, sks, Append(rs, r))
  <2> PICK rs2 : rs2 = Append(rs, r)
    OBVIOUS
  <2>1. /\ Len(rs) \in Nat /\ DOMAIN rs = 1..Len(rs) /\ DOMAIN rs2 = 1..(Len(rs) + 1)
        /\ rs2[Len(rs) + 1] = r /\ \A i \in 1..Len(rs) : rs2[i] = rs[i]
    BY <1>1
  <2>2. \A i \in DOMAIN rs2 : (i \in DOMAIN rs /\ rs2[i] = rs[i]) \/ rs2[i] = r
    BY <2>1
  <2> QED BY <2>2 DEF Marked, Drawn
<1>13. Append(rs, r) \in Seq(Row(c))
  BY <1>1
<1> QED BY <1>2, <1>3, <1>4, <1>10, <1>11, <1>12, <1>13 DEF Drawn

-----------------------------------------------------------------------------
(***************************************************************************)
(* The invariant                                                           *)
(***************************************************************************)

(* Every variable holds a value of its kind, and once the files to extract are *)
(* known, no reader opens one that is not among them.                        *)
ReportTypeOK ==
  /\ call \in Call /\ content \in Checkpoints
  /\ reportPc \in {"flags", "info", "stats", "pstree", "walk", "fds", "sks", "print",
                   "branch", "done", "error"}
  /\ opened \subseteq required
  /\ reportPc = "walk" => walk \in Seq(Procs)
  /\ reportPc = "branch" => walk \in Seq([pid : Procs, depth : Nat])
  /\ nodes \in Seq(Procs)
  /\ fdList \subseteq Procs /\ skList \subseteq Procs
  /\ call.command = "memparse" => rows \in Seq(Procs)
  /\ call.command # "memparse" =>
       rows \in Seq([pid : Procs, depth : Nat, files : BOOLEAN, sockets : BOOLEAN])

Early == {"flags", "info", "stats", "pstree"}
Late == {"fds", "sks", "print", "branch", "done"}

(* The flags say what the readers will open, the process tree for those of its *)
(* processes included.                                                       *)
FlagsInv ==
  /\ reportPc = "flags" => opened = {}
  /\ reportPc # "flags" =>
       /\ required = RequiredFiles(call)
       /\ call.command = "inspect" /\ (call.files \/ call.sockets \/ call.cmd \/ call.env)
            => call.psTree
  /\ reportPc = "branch" => call.command = "inspect"

(* The walk through the process tree; memparse drops those without state.    *)
Dropped == {p \in Procs : call.command = "memparse" /\ ~Alive(p)}
SoFar(todo) ==
  /\ Traversed(content, StartPid, nodes, todo, Dropped)
  /\ ToSet(nodes) \intersect Dropped = {}
WalkInv ==
  /\ reportPc \in Early => nodes = <<>>
  /\ reportPc = "walk" => ShowsTree /\ StartPid \in Procs /\ SoFar(walk)
  /\ reportPc \in Late => IF ShowsTree THEN StartPid \in Procs /\ SoFar(<<>>) ELSE nodes = <<>>

Fds == IF call.files THEN WithState(Procs) ELSE {}
Sks == IF call.sockets THEN WithState(content.sockets) ELSE {}
ListInv ==
  /\ call.command = "memparse" => reportPc \notin {"fds", "sks"}
  /\ reportPc \in Early \union {"walk", "fds"} => fdList = {} /\ skList = {}
  /\ reportPc = "sks" => fdList = Fds /\ skList = {}
  /\ reportPc \in {"print", "branch", "done"} /\ call.command # "memparse" =>
       fdList = Fds /\ skList = Sks

RowInv ==
  /\ reportPc \in Early \union {"walk", "fds", "sks", "print"} => rows = <<>>
  /\ reportPc = "branch" => ShowsTree /\ Drawn(content, StartPid, fdList, skList, rows, walk)
  /\ reportPc = "done" /\ call.command = "inspect" /\ rows # <<>> =>
       ShowsTree /\ Drawn(content, StartPid, fdList, skList, rows, <<>>)

ReportInv ==
  ReportTypeOK /\ FlagsInv /\ WalkInv /\ ListInv /\ RowInv /\ WholeArchiveReported

RootOf(c) == CHOOSE p \in DOMAIN c.parent : c.parent[p] = 0

(* What stays when neither the flags nor the archive changes.                 *)
LEMMA Frame ==
  ASSUME call' = call, content' = content, required' = required
  PROVE  /\ Procs' = Procs /\ StartPid' = StartPid /\ (ShowsTree' <=> ShowsTree)
         /\ Dropped' = Dropped /\ Fds' = Fds /\ Sks' = Sks
         /\ \A p : Alive(p)' <=> Alive(p)
<1>1. Procs' = Procs /\ \A p : Alive(p)' <=> Alive(p)
  BY DEF Procs, Alive
<1>2. StartPid' = StartPid
  <2>1. Root = RootOf(content)
    BY DEF Root, Procs, RootOf
  <2>2. Root' = RootOf(content')
    BY DEF Root, Procs, RootOf
  <2>3. Root' = Root
    BY <2>1, <2>2
  <2> QED BY <2>3 DEF StartPid
<1>3. ShowsTree' <=> ShowsTree
  BY DEF ShowsTree, Extracted
<1>4. Dropped' = Dropped
  BY <1>1 DEF Dropped
<1>5. Fds' = Fds /\ Sks' = Sks
  BY <1>1 DEF Fds, Sks, WithState
<1> QED BY <1>1, <1>2, <1>3, <1>4, <1>5

LEMMA OfArchive ==
  ASSUME ReportTypeOK
  PROVE  /\ Forest(content.parent) /\ content.sockets \subseteq Procs
         /\ Procs \subseteq Nat \ {0} /\ IsFiniteSet(Procs)
         /\ \A p : ChildrenOf(p) \subseteq Procs /\ IsFiniteSet(ChildrenOf(p))
<1>1. Forest(content.parent) /\ content.sockets \subseteq Procs
  BY ReportAssumption DEF ReportTypeOK, Procs
<1>2. Procs \subseteq Nat \ {0} /\ IsFiniteSet(Procs)
  BY <1>1 DEF Forest, Procs
<1>3. \A p : ChildrenOf(p) \subseteq Procs
  BY DEF ChildrenOf
<1> QED BY <1>1, <1>2, <1>3, FS_Subset

(* Whatever a reader opens was asked for.                                    *)
LEMMA AskedFor ==
  ASSUME ReportTypeOK, FlagsInv, reportPc # "flags"
  PROVE  /\ {"config.dump", "spec.dump"} \subseteq required \ {"network.status"}
         /\ call.stats => {"stats-dump"} \subseteq required \ {"network.status"}
         /\ ShowsTree => {"pstree.img", "core-"} \subseteq required \ {"network.status"}
         /\ \A p : ImagesOf(p) \subseteq required \ {"network.status"}
         /\ call.files => {"pstree.img", "core-", "ids-", "fdinfo-", "files.img", "fs-"}
                            \subseteq required \ {"network.status"}
         /\ call.sockets => {"pstree.img", "core-", "ids-", "fdinfo-", "files.img"}
                              \subseteq required \ {"network.status"}
<1>1. /\ required = RequiredFiles(call)
      /\ call.command = "inspect" /\ (call.files \/ call.sockets \/ call.cmd \/ call.env)
            => call.psTree
  BY DEF FlagsInv
<1>2. {"config.dump", "spec.dump"} \subseteq required
  BY <1>1 DEF RequiredFiles
<1>3. call.stats => {"stats-dump"} \subseteq required
  BY <1>1 DEF RequiredFiles, Files
<1>4. call.psTree \/ call.command # "inspect" => {"pstree.img", "core-"} \subseteq required
  BY <1>1 DEF RequiredFiles, Files
<1>5. ShowsTree => {"pstree.img", "core-"} \subseteq required
  BY <1>4 DEF ShowsTree
<1>6. call.files => {"ids-", "fdinfo-", "files.img", "fs-"} \subseteq required
  BY <1>1 DEF RequiredFiles, Files
<1>7. call.sockets => {"ids-", "fdinfo-", "files.img"} \subseteq required
  BY <1>1 DEF RequiredFiles, Files
<1>8. call.cmd \/ call.env => {"pagemap-", "pages-", "mm-"} \subseteq required
  BY <1>1 DEF RequiredFiles, Files
<1>9. call.command = "memparse" => {"pagemap-", "mm-"} \subseteq required
  BY <1>1 DEF RequiredFiles, Files
<1>10. \A p : ImagesOf(p) \subseteq required \ {"network.status"}
  BY <1>8, <1>9 DEF ImagesOf, Files
<1> QED BY <1>1, <1>2, <1>3, <1>4, <1>5, <1>6, <1>7, <1>10

(* Opening files that were asked for: what is missing is what the archive lacks. *)
LEMMA Opening ==
  ASSUME NEW F, NEW next, OpenFiles(F, next), F \subseteq required \ {"network.status"},
         opened \subseteq required, required' = required, content' = content
  PROVE  /\ opened' \subseteq required'
         /\ reportPc' = next \/ (reportPc' = "error" /\ WholeArchiveReported')
<1>1. opened' \subseteq required'
  BY DEF OpenFiles
<1>2. CASE F \subseteq Extracted
  BY <1>1, <1>2 DEF OpenFiles
<1>3. CASE ~(F \subseteq Extracted)
  <2>1. content.lacks \intersect (required \ {"network.status"}) # {}
    BY <1>3 DEF Extracted
  <2>2. content'.lacks \intersect (required' \ {"network.status"}) # {}
    BY <2>1
  <2>3. reportPc' = "error"
    BY <1>3 DEF OpenFiles
  <2> QED BY <1>1, <2>2, <2>3 DEF WholeArchiveReported
<1> QED BY <1>2, <1>3

(* The command line has been looked at: Prepare is the only step that changes  *)
(* it, or the files to extract.                                              *)
LEMMA Prepared ==
  ASSUME ReportTypeOK, Prepare
  PROVE  /\ call' \in Call /\ call'.command = call.command
         /\ reportPc' # "flags" /\ required' = RequiredFiles(call')
         /\ call'.command = "inspect" /\ (call'.files \/ call'.sockets \/ call'.cmd \/ call'.env)
              => call'.psTree
<1> PICK c : c = call
  OBVIOUS
<1> PICK all : all = (c.all /\ c.command = "inspect")
  OBVIOUS
<1>1. c \in Call
  BY DEF ReportTypeOK
<1>2. call' = Expanded(c) /\ required' = RequiredFiles(call') /\ reportPc' # "flags"
  BY DEF Prepare
<1>3. Expanded(c) = [c EXCEPT !.stats = @ \/ all, !.cmd = @ \/ all, !.env = @ \/ all,
                              !.files = @ \/ all, !.sockets = @ \/ all,
                              !.psTree = @ \/ c.pid # 0
                                           \/ (c.files \/ c.sockets \/ c.cmd \/ c.env) \/ all]
  BY DEF Expanded
<1>4. /\ c.command \in {"inspect", "diff", "memparse"}
      /\ c.all \in BOOLEAN /\ c.stats \in BOOLEAN /\ c.psTree \in BOOLEAN /\ c.cmd \in BOOLEAN
      /\ c.env \in BOOLEAN /\ c.files \in BOOLEAN /\ c.sockets \in BOOLEAN
  BY <1>1 DEF Call
<1>5. all \in BOOLEAN
  BY <1>4
<1>6. Expanded(c) \in Call
  <2> PICK stats, cmd, env, files, sockets, psTree :
        /\ stats = (c.stats \/ all) /\ cmd = (c.cmd \/ all) /\ env = (c.env \/ all)
        /\ files = (c.files \/ all) /\ sockets = (c.sockets \/ all)
        /\ psTree = (c.psTree \/ c.pid # 0 \/ (c.files \/ c.sockets \/ c.cmd \/ c.env) \/ all)
    OBVIOUS
  <2>1. /\ stats \in BOOLEAN /\ cmd \in BOOLEAN /\ env \in BOOLEAN /\ files \in BOOLEAN
        /\ sockets \in BOOLEAN /\ psTree \in BOOLEAN
    BY <1>4, <1>5
  <2>2. Expanded(c) = [c EXCEPT !.stats = stats, !.cmd = cmd, !.env = env, !.files = files,
                                !.sockets = sockets, !.psTree = psTree]
    BY <1>3
  <2>3. Expanded(c) = [command |-> c.command, all |-> c.all, stats |-> stats, psTree |-> psTree,
                       cmd |-> cmd, env |-> env, files |-> files, sockets |-> sockets,
                       pid |-> c.pid, format |-> c.format]
    BY <1>1, <2>2 DEF Call
  <2> QED BY <1>1, <2>1, <2>3 DEF Call
<1>7. /\ Expanded(c).command = c.command
      /\ Expanded(c).files <=> c.files \/ all
      /\ Expanded(c).sockets <=> c.sockets \/ all
      /\ Expanded(c).cmd <=> c.cmd \/ all
      /\ Expanded(c).env <=> c.env \/ all
      /\ Expanded(c).psTree <=> c.psTree \/ c.pid # 0
                                \/ (c.files \/ c.sockets \/ c.cmd \/ c.env) \/ all
  BY <1>1, <1>3 DEF Call
<1> QED BY <1>2, <1>6, <1>7

LEMMA Untouched ==
  ASSUME ReportNext, ~Prepare
  PROVE  call' = call /\ content' = content /\ required' = required /\ reportPc # "flags"
BY DEF ReportNext, ReadInfo, ReadStats, ReadPsTree, VisitProcess, WalkEnds, ReadFds, ReadSks,
       StartView, Branch, BranchesEnd

(* One step of a reader: it goes on to the next, or fails over what the archive *)
(* lacks.                                                                    *)
LEMMA Reads ==
  ASSUME ReportTypeOK, FlagsInv, ReportNext
  PROVE  /\ ReadInfo => /\ opened' \subseteq required'
                        /\ reportPc' = "stats" \/ (reportPc' = "error" /\ WholeArchiveReported')
         /\ ReadStats => /\ opened' \subseteq required'
                         /\ reportPc' = "pstree" \/ (reportPc' = "error" /\ WholeArchiveReported')
         /\ ReadPsTree =>
              /\ opened' \subseteq required'
              /\ \/ ~ShowsTree /\ reportPc' = "fds" /\ walk' = walk
                 \/ ShowsTree /\ StartPid \in Procs /\ reportPc' = "walk" /\ walk' = <<StartPid>>
                 \/ reportPc' = "error" /\ WholeArchiveReported'
         /\ ReadFds =>
              /\ opened' \subseteq required'
              /\ \/ reportPc' = "sks" /\ fdList' = IF call.files THEN WithState(Procs) ELSE fdList
                 \/ reportPc' = "error" /\ fdList' = fdList /\ WholeArchiveReported'
         /\ ReadSks =>
              /\ opened' \subseteq required'
              /\ \/ /\ reportPc' = "print"
                    /\ skList' = IF call.sockets THEN WithState(content.sockets) ELSE skList
                 \/ reportPc' = "error" /\ skList' = skList /\ WholeArchiveReported'
<1>0. opened \subseteq required
  BY DEF ReportTypeOK
<1>1. ASSUME ReadInfo
      PROVE  /\ opened' \subseteq required'
             /\ reportPc' = "stats" \/ (reportPc' = "error" /\ WholeArchiveReported')
  <2>1. required' = required /\ content' = content /\ reportPc # "flags"
    BY <1>1 DEF ReadInfo
  <2>2. CASE call.command = "memparse"
    BY <1>0, <1>1, <2>1, <2>2 DEF ReadInfo
  <2>3. CASE call.command # "memparse"
    <3>1. OpenFiles({"config.dump", "spec.dump"}, "stats")
      BY <1>1, <2>3 DEF ReadInfo
    <3>2. {"config.dump", "spec.dump"} \subseteq required \ {"network.status"}
      BY <2>1, AskedFor
    <3> QED BY <1>0, <2>1, <3>1, <3>2, Opening
  <2> QED BY <2>2, <2>3
<1>2. ASSUME ReadStats
      PROVE  /\ opened' \subseteq required'
             /\ reportPc' = "pstree" \/ (reportPc' = "error" /\ WholeArchiveReported')
  <2>1. required' = required /\ content' = content /\ reportPc # "flags"
    BY <1>2 DEF ReadStats
  <2>2. CASE ~call.stats
    BY <1>0, <1>2, <2>1, <2>2 DEF ReadStats
  <2>3. CASE call.stats
    <3>1. OpenFiles({"stats-dump"}, "pstree")
      BY <1>2, <2>3 DEF ReadStats
    <3>2. {"stats-dump"} \subseteq required \ {"network.status"}
      BY <2>1, <2>3, AskedFor
    <3> QED BY <1>0, <2>1, <3>1, <3>2, Opening
  <2> QED BY <2>2, <2>3
<1>3. ASSUME ReadPsTree
      PROVE  /\ opened' \subseteq required'
             /\ \/ ~ShowsTree /\ reportPc' = "fds" /\ walk' = walk
                \/ ShowsTree /\ StartPid \in Procs /\ reportPc' = "walk" /\ walk' = <<StartPid>>
                \/ reportPc' = "error" /\ WholeArchiveReported'
  <2>1. call' = call /\ required' = required /\ content' = content /\ reportPc # "flags"
    BY <1>3 DEF ReadPsTree
  <2>2. CASE ~ShowsTree
    BY <1>0, <1>3, <2>1, <2>2 DEF ReadPsTree
  <2>3. CASE ShowsTree
    <3>1. /\ OpenFiles({"pstree.img", "core-"}, IF StartPid \in Procs THEN "walk" ELSE "error")
          /\ walk' = <<StartPid>>
      BY <1>3, <2>3 DEF ReadPsTree
    <3>2. {"pstree.img", "core-"} \subseteq required \ {"network.status"}
      BY <2>1, <2>3, AskedFor
    <3>3. /\ opened' \subseteq required'
          /\ \/ reportPc' = (IF StartPid \in Procs THEN "walk" ELSE "error")
             \/ reportPc' = "error" /\ WholeArchiveReported'
      BY <1>0, <2>1, <3>1, <3>2, Opening
    <3>4. StartPid \notin Procs => WholeArchiveReported'
      <4>1. StartPid' = StartPid /\ Procs' = Procs
        BY <2>1, Frame
      <4> QED BY <4>1 DEF WholeArchiveReported
    <3> QED BY <2>3, <3>1, <3>3, <3>4
  <2> QED BY <2>2, <2>3
<1>4. ASSUME ReadFds
      PROVE  /\ opened' \subseteq required'
             /\ \/ reportPc' = "sks" /\ fdList' = IF call.files THEN WithState(Procs) ELSE fdList
                \/ reportPc' = "error" /\ fdList' = fdList /\ WholeArchiveReported'
  <2>1. required' = required /\ content' = content /\ reportPc # "flags"
    BY <1>4 DEF ReadFds
  <2>2. CASE ~call.files
    BY <1>0, <1>4, <2>1, <2>2 DEF ReadFds
  <2>3. CASE call.files
    <3>1. /\ OpenFiles({"pstree.img", "core-", "ids-", "fdinfo-", "files.img", "fs-"}, "sks")
          /\ fdList' = IF reportPc' = "sks" THEN WithState(Procs) ELSE fdList
      BY <1>4, <2>3 DEF ReadFds
    <3>2. {"pstree.img", "core-", "ids-", "fdinfo-", "files.img", "fs-"}
            \subseteq required \ {"network.status"}
      BY <2>1, <2>3, AskedFor
    <3>3. opened' \subseteq required'
          /\ (reportPc' = "sks" \/ (reportPc' = "error" /\ WholeArchiveReported'))
      BY <1>0, <2>1, <3>1, <3>2, Opening
    <3> QED BY <2>3, <3>1, <3>3
  <2> QED BY <2>2, <2>3
<1>5. ASSUME ReadSks
      PROVE  /\ opened' \subseteq required'
             /\ \/ /\ reportPc' = "print"
                   /\ skList' = IF call.sockets THEN WithState(content.sockets) ELSE skList
                \/ reportPc' = "error" /\ skList' = skList /\ WholeArchiveReported'
  <2>1. required' = required /\ content' = content /\ reportPc # "flags"
    BY <1>5 DEF ReadSks
  <2>2. CASE ~call.sockets
    BY <1>0, <1>5, <2>1, <2>2 DEF ReadSks
  <2>3. CASE call.sockets
    <3>1. /\ OpenFiles({"pstree.img", "core-", "ids-", "fdinfo-", "files.img"}, "print")
          /\ skList' = IF reportPc' = "print" THEN WithState(content.sockets) ELSE skList
      BY <1>5, <2>3 DEF ReadSks
    <3>2. {"pstree.img", "core-", "ids-", "fdinfo-", "files.img"}
            \subseteq required \ {"network.status"}
      BY <2>1, <2>3, AskedFor
    <3>3. opened' \subseteq required'
          /\ (reportPc' = "print" \/ (reportPc' = "error" /\ WholeArchiveReported'))
      BY <1>0, <2>1, <3>1, <3>2, Opening
    <3> QED BY <2>3, <3>1, <3>3
  <2> QED BY <2>2, <2>3
<1> QED BY <1>1, <1>2, <1>3, <1>4, <1>5

(* The walk goes on with the children of the process visited, in some order,   *)
(* or fails over what that process needs.                                    *)
LEMMA Visits ==
  ASSUME ReportInv, VisitProcess
  PROVE  /\ Head(walk) \in Procs /\ opened' \subseteq required'
         /\ \/ reportPc' = "error" /\ nodes' = nodes /\ WholeArchiveReported'
            \/ /\ reportPc' = "walk"
               /\ nodes' = IF Alive(Head(walk)) \/ call.command # "memparse"
                           THEN Append(nodes, Head(walk)) ELSE nodes
               /\ \E order \in Seq(Procs) :
                    /\ IsInjective(order) /\ walk' = order \o Tail(walk)
                    /\ ToSet(order) = IF Alive(Head(walk)) THEN ChildrenOf(Head(walk)) ELSE {}
<1> PICK p : p = Head(walk)
  OBVIOUS
<1> PICK S : S = IF HasState(p) THEN ChildrenOf(p) ELSE {}
  OBVIOUS
<1>1. /\ reportPc = "walk" /\ walk # <<>> /\ opened' = opened \union ImagesOf(p)
      /\ call' = call /\ content' = content /\ required' = required
      /\ IF ~(ImagesOf(p) \subseteq Extracted) \/ (HasState(p) /\ call.env /\ p \in content.badEnv)
         THEN reportPc' = "error" /\ nodes' = nodes
         ELSE /\ nodes' = IF HasState(p) \/ call.command # "memparse" THEN Append(nodes, p) ELSE nodes
              /\ \E order \in SetToSeqs(S) : walk' = order \o Tail(walk)
              /\ reportPc' = reportPc
  BY DEF VisitProcess
<1>2. walk \in Seq(Procs) /\ opened \subseteq required
  BY <1>1 DEF ReportInv, ReportTypeOK
<1>3. p \in Procs /\ p \in ToSet(walk)
  BY <1>1, <1>2 DEF ToSet
<1>4. p \in Below(StartPid) /\ StartPid \in Procs
  <2> PICK c : c = content
    OBVIOUS
  <2>1. StartPid \in Procs /\ Traversed(c, StartPid, nodes, walk, Dropped)
    BY <1>1 DEF ReportInv, WalkInv, SoFar
  <2>2. p \in Under(c, StartPid)
    BY <1>3, <2>1 DEF Traversed, Within, Known
  <2> QED BY <2>1, <2>2, OfContent
<1>5. ImagesOf(p) \subseteq required \ {"network.status"}
  BY <1>1, AskedFor DEF ReportInv
<1>6. opened' \subseteq required'
  BY <1>1, <1>2, <1>5
<1>7. CASE ~(ImagesOf(p) \subseteq Extracted)
  <2>1. content'.lacks \intersect (required' \ {"network.status"}) # {}
    BY <1>1, <1>5, <1>7 DEF Extracted
  <2>2. WholeArchiveReported'
    BY <2>1 DEF WholeArchiveReported
  <2> QED BY <1>1, <1>3, <1>6, <1>7, <2>2
<1>8. CASE HasState(p) /\ call.env /\ p \in content.badEnv
  <2> PICK c : c = content
    OBVIOUS
  <2>1. p \in Below(StartPid)' /\ Alive(p)' /\ call'.env /\ p \in content'.badEnv
    <3>1. StartPid' = StartPid /\ content' = c
      BY <1>1, Frame
    <3>2. \A x : Below(x)' = Under(c, x)
      BY <3>1, OfContentNext
    <3>3. p \in Under(c, StartPid)
      BY <1>4, OfContent
    <3>4. Alive(p)'
      BY <1>1, <1>8, Frame DEF HasState
    <3>5. Below(StartPid)' = Under(c, StartPid')
      BY <3>1, <3>2 DEF Below, ClosedBelow, Procs, Alive, ChildrenOf, Under, ClosedIn, Pids, Lives, Kids
    <3> QED BY <1>1, <1>8, <3>1, <3>3, <3>4, <3>5
  <2>2. WholeArchiveReported'
    BY <2>1 DEF WholeArchiveReported
  <2> QED BY <1>1, <1>3, <1>6, <1>8, <2>2
<1>9. CASE (ImagesOf(p) \subseteq Extracted) /\ ~(HasState(p) /\ call.env /\ p \in content.badEnv)
  <2>1. PICK order \in SetToSeqs(S) : walk' = order \o Tail(walk)
    BY <1>1, <1>9
  <2>2. S \subseteq Procs /\ IsFiniteSet(S)
    BY OfArchive, FS_EmptySet DEF ReportInv
  <2>3. order \in Seq(S) /\ IsInjective(order) /\ ToSet(order) = S
    BY <2>2, Orders
  <2>4. order \in Seq(Procs)
    BY <2>2, <2>3
  <2> QED BY <1>1, <1>3, <1>6, <1>9, <2>1, <2>3, <2>4 DEF HasState
<1> QED BY <1>7, <1>8, <1>9

(* A line is drawn for the process, and its children, ascending, come next.    *)
LEMMA Draws ==
  ASSUME ReportInv, Branch
  PROVE  /\ reportPc = "branch" /\ reportPc' = "branch" /\ walk # <<>>
         /\ rows \in Seq(Row(content)) /\ walk \in Seq(Item(content))
         /\ \E kids \in Seq(Procs), r \in Row(content) :
              /\ IsInjective(kids)
              /\ ToSet(kids) = IF Alive(Head(walk).pid) THEN ChildrenOf(Head(walk).pid) ELSE {}
              /\ \A i, j \in DOMAIN kids : i < j => kids[i] < kids[j]
              /\ r.pid = Head(walk).pid /\ r.depth = Head(walk).depth
              /\ r.files <=> Alive(r.pid) /\ r.pid \in fdList
              /\ r.sockets <=> Alive(r.pid) /\ r.pid \in skList
              /\ rows' = Append(rows, r) /\ walk' = Spread(kids, Head(walk).depth + 1, walk)
<1> PICK c : c = content
  OBVIOUS
<1> PICK p : p = Head(walk).pid
  OBVIOUS
<1> PICK d : d = Head(walk).depth
  OBVIOUS
<1> PICK files : files = (BranchGoesOn(p) /\ p \in fdList)
  OBVIOUS
<1> PICK sockets : sockets = (BranchGoesOn(p) /\ p \in skList)
  OBVIOUS
<1> PICK r : r = [pid |-> p, depth |-> d, files |-> files, sockets |-> sockets]
  OBVIOUS
<1> PICK S : S = {q \in ToSet(nodes) : BranchGoesOn(p) /\ q \in ChildrenOf(p)}
  OBVIOUS
<1>1. /\ reportPc = "branch" /\ reportPc' = "branch" /\ walk # <<>> /\ rows' = Append(rows, r)
      /\ \E children \in SortedByPid(S) :
           walk' = [i \in DOMAIN children |-> [pid |-> children[i], depth |-> d + 1]] \o Tail(walk)
  BY DEF Branch
<1>2. /\ call.command = "inspect" /\ ShowsTree /\ StartPid \in Procs
      /\ Drawn(c, StartPid, fdList, skList, rows, walk)
      /\ Traversed(c, StartPid, nodes, <<>>, Dropped)
  BY <1>1 DEF ReportInv, FlagsInv, RowInv, WalkInv, SoFar, Late
<1>3. rows \in Seq(Row(c)) /\ walk \in Seq(Item(c)) /\ Traversed(c, StartPid, PidsOf(rows), PidsOf(walk), {})
  BY <1>2 DEF Drawn
<1>4. Head(walk) \in Item(c)
  BY <1>1, <1>3
<1>5. p \in Procs /\ d \in Nat
  BY <1>4 DEF Item, Pids, Procs
<1>6. files \in BOOLEAN /\ sockets \in BOOLEAN
  OBVIOUS
<1>7. r \in Row(c)
  BY <1>5, <1>6 DEF Row, Procs, Pids
<1>8. p \in Under(c, StartPid)
  <2>1. PidsOf(walk) \in Seq(Pids(c)) /\ PidsOf(walk) # <<>> /\ Head(PidsOf(walk)) = p
    <3>1. PICK w2, n, l : Spreads(c, <<>>, walk, n, l, d, w2)
      BY <1>1, <1>3 DEF Spreads
    <3> QED BY <1>3, <3>1, Branched, PidsOfItems
  <2>2. p \in ToSet(PidsOf(walk))
    BY <2>1 DEF ToSet
  <2> QED BY <1>3, <2>2 DEF Traversed, Within, Known
<1>9. Under(c, StartPid) \subseteq ToSet(nodes)
  <2>1. Dropped = {}
    BY <1>2 DEF Dropped
  <2>2. StartPid \in Pids(c)
    BY <1>2 DEF Procs, Pids
  <2> QED BY <1>2, <2>1, <2>2, TraverseEnd
<1>10. S = IF Alive(p) THEN ChildrenOf(p) ELSE {}
  <2>1. Alive(p) => ChildrenOf(p) \subseteq Under(c, StartPid)
    <3>1. (Alive(p) <=> Lives(c, p)) /\ ChildrenOf(p) = Kids(c, p) /\ StartPid \in Pids(c)
      BY <1>2, OfContent
    <3> QED BY <1>8, <3>1, UnderIsClosed
  <2> QED BY <1>9, <2>1 DEF BranchGoesOn
<1>11. S \subseteq Procs /\ IsFiniteSet(S)
  BY <1>10, OfArchive, FS_EmptySet DEF ReportInv
<1>12. PICK kids \in SortedByPid(S) :
         walk' = [i \in DOMAIN kids |-> [pid |-> kids[i], depth |-> d + 1]] \o Tail(walk)
  BY <1>1
<1>13. kids \in SetToSeqs(S) /\ \A i, j \in DOMAIN kids : i < j => kids[i] < kids[j]
  BY DEF SortedByPid
<1>14. kids \in Seq(S) /\ IsInjective(kids) /\ ToSet(kids) = S
  BY <1>11, <1>13, Orders
<1>15. kids \in Seq(Procs)
  BY <1>11, <1>14
<1>16. walk' = Spread(kids, d + 1, walk)
  BY <1>12 DEF Spread
<1>17. /\ r.pid = p /\ r.depth = d
       /\ r.files <=> Alive(p) /\ p \in fdList
       /\ r.sockets <=> Alive(p) /\ p \in skList
  BY DEF BranchGoesOn
<1> QED BY <1>1, <1>3, <1>7, <1>10, <1>13, <1>14, <1>15, <1>16, <1>17

LEMMA TypeKept ==
  ASSUME ReportInv, ReportNext
  PROVE  ReportTypeOK' /\ FlagsInv'
<1>1. ReportTypeOK /\ FlagsInv
  BY DEF ReportInv
<1>2. CASE Prepare
  <2>1. opened' = {} /\ reportPc' \in {"error", "info"} /\ call'.command = call.command
        /\ content' = content /\ nodes' = nodes /\ fdList' = fdList /\ skList' = skList
        /\ rows' = rows
    BY <1>1, <1>2, Prepared DEF Prepare, FlagsInv
  <2>2. Procs' = Procs
    BY <2>1 DEF Procs
  <2>3. ReportTypeOK'
    BY <1>1, <1>2, <2>1, <2>2, Prepared DEF ReportTypeOK
  <2>4. FlagsInv'
    BY <1>1, <1>2, <2>1, Prepared DEF FlagsInv
  <2> QED BY <2>3, <2>4
<1>3. ASSUME ~Prepare
      PROVE  /\ call' = call /\ content' = content /\ required' = required /\ Procs' = Procs
             /\ call \in Call /\ content \in Checkpoints /\ reportPc # "flags"
             /\ WithState(Procs) \subseteq Procs /\ WithState(content.sockets) \subseteq Procs
             /\ (reportPc' # "flags" /\ (reportPc' = "branch" => call.command = "inspect") => FlagsInv')
  <2>1. /\ call' = call /\ content' = content /\ required' = required /\ Procs' = Procs
        /\ call \in Call /\ content \in Checkpoints /\ reportPc # "flags"
    BY <1>1, <1>3, Untouched, Frame DEF ReportTypeOK
  <2>2. WithState(Procs) \subseteq Procs /\ WithState(content.sockets) \subseteq Procs
    BY <1>1, OfArchive DEF WithState
  <2>3. reportPc' # "flags" /\ (reportPc' = "branch" => call.command = "inspect") => FlagsInv'
    BY <1>1, <2>1 DEF FlagsInv
  <2> QED BY <2>1, <2>2, <2>3
<1>4. ASSUME ReadInfo \/ ReadStats, ~Prepare PROVE ReportTypeOK' /\ FlagsInv'
  <2>1. /\ reportPc' \in {"stats", "pstree", "error"} /\ opened' \subseteq required'
        /\ nodes' = nodes /\ fdList' = fdList /\ skList' = skList /\ rows' = rows
    BY <1>1, <1>4, Reads DEF ReadInfo, ReadStats
  <2>2. ReportTypeOK'
    BY <1>1, <1>3, <1>4, <2>1 DEF ReportTypeOK
  <2> QED BY <1>3, <1>4, <2>1, <2>2
<1>5. ASSUME ReadPsTree, ~Prepare PROVE ReportTypeOK' /\ FlagsInv'
  <2>1. /\ reportPc' \in {"fds", "walk", "error"} /\ opened' \subseteq required'
        /\ nodes' = nodes /\ fdList' = fdList /\ skList' = skList /\ rows' = rows
    BY <1>1, <1>5, Reads DEF ReadPsTree
  <2>2. reportPc' = "walk" => walk' \in Seq(Procs)
    <3>1. reportPc' = "walk" => StartPid \in Procs /\ walk' = <<StartPid>>
      BY <1>1, <1>5, Reads
    <3>2. ASSUME NEW x \in Procs PROVE <<x>> \in Seq(Procs)
      OBVIOUS
    <3> QED BY <3>1, <3>2
  <2>3. ReportTypeOK'
    BY <1>1, <1>3, <1>5, <2>1, <2>2 DEF ReportTypeOK
  <2> QED BY <1>3, <1>5, <2>1, <2>3
<1>6. ASSUME VisitProcess, ~Prepare PROVE ReportTypeOK' /\ FlagsInv'
  <2>1. /\ reportPc' \in {"walk", "error"} /\ opened' \subseteq required'
        /\ fdList' = fdList /\ skList' = skList /\ rows' = rows
        /\ reportPc = "walk" /\ walk # <<>>
    BY <1>6, Visits DEF VisitProcess
  <2>2. nodes \in Seq(Procs) /\ walk \in Seq(Procs) /\ Head(walk) \in Procs
    BY <1>1, <1>6, <2>1, Visits DEF ReportTypeOK
  <2>3. nodes' = nodes \/ nodes' = Append(nodes, Head(walk))
    BY <1>6, Visits
  <2>4. nodes' \in Seq(Procs)
    BY <2>2, <2>3
  <2>5. reportPc' = "walk" => walk' \in Seq(Procs)
    <3> SUFFICES ASSUME reportPc' = "walk" PROVE walk' \in Seq(Procs)
      OBVIOUS
    <3>1. PICK order \in Seq(Procs) : walk' = order \o Tail(walk)
      BY <1>6, Visits
    <3>2. Tail(walk) \in Seq(Procs)
      BY <2>1, <2>2
    <3> QED BY <3>1, <3>2
  <2>6. ReportTypeOK'
    BY <1>1, <1>3, <1>6, <2>1, <2>4, <2>5 DEF ReportTypeOK
  <2> QED BY <1>3, <1>6, <2>1, <2>6
<1>7. ASSUME WalkEnds, ~Prepare PROVE ReportTypeOK' /\ FlagsInv'
  <2>1. /\ reportPc' \in {"print", "fds"} /\ opened' = opened /\ nodes' = nodes
        /\ fdList' = fdList /\ skList' = skList /\ rows' = rows
    BY <1>7 DEF WalkEnds
  <2>2. ReportTypeOK'
    BY <1>1, <1>3, <1>7, <2>1 DEF ReportTypeOK
  <2> QED BY <1>3, <1>7, <2>1, <2>2
<1>8. ASSUME ReadFds \/ ReadSks, ~Prepare PROVE ReportTypeOK' /\ FlagsInv'
  <2>1. /\ reportPc' \in {"sks", "print", "error"} /\ opened' \subseteq required'
        /\ nodes' = nodes /\ rows' = rows
        /\ fdList' \in {fdList, WithState(Procs)}
        /\ skList' \in {skList, WithState(content.sockets)}
    BY <1>1, <1>8, Reads DEF ReadFds, ReadSks
  <2>2. ReportTypeOK'
    BY <1>1, <1>3, <1>8, <2>1 DEF ReportTypeOK
  <2> QED BY <1>3, <1>8, <2>1, <2>2
<1>9. ASSUME StartView, ~Prepare PROVE ReportTypeOK' /\ FlagsInv'
  <2>1. /\ reportPc' \in {"branch", "done"} /\ opened' = opened /\ nodes' = nodes
        /\ fdList' = fdList /\ skList' = skList
        /\ rows' = rows \/ (call.command = "memparse" /\ rows' = nodes)
        /\ reportPc' = "branch" => /\ call.command = "inspect" /\ nodes # <<>>
                                   /\ walk' = <<[pid |-> Head(nodes), depth |-> 0]>>
    BY <1>9 DEF StartView
  <2>2. nodes \in Seq(Procs)
    BY <1>1 DEF ReportTypeOK
  <2>3. reportPc' = "branch" => walk' \in Seq([pid : Procs, depth : Nat])
    <3> SUFFICES ASSUME reportPc' = "branch" PROVE walk' \in Seq([pid : Procs, depth : Nat])
      OBVIOUS
    <3>1. [pid |-> Head(nodes), depth |-> 0] \in [pid : Procs, depth : Nat]
      BY <2>1, <2>2
    <3>2. ASSUME NEW T, NEW x \in T PROVE <<x>> \in Seq(T)
      OBVIOUS
    <3> QED BY <2>1, <3>1, <3>2
  <2>4. ReportTypeOK'
    BY <1>1, <1>3, <1>9, <2>1, <2>3 DEF ReportTypeOK
  <2> QED BY <1>3, <1>9, <2>1, <2>4
<1>10. ASSUME Branch, ~Prepare PROVE ReportTypeOK' /\ FlagsInv'
  <2>1. /\ reportPc = "branch" /\ reportPc' = "branch" /\ opened' = opened /\ nodes' = nodes
        /\ fdList' = fdList /\ skList' = skList /\ call.command = "inspect"
    BY <1>1, <1>10 DEF Branch, FlagsInv
  <2>2. PICK kids \in Seq(Pids(content)), r \in Row(content) :
          rows' = Append(rows, r) /\ walk' = Spread(kids, Head(walk).depth + 1, walk)
    BY <1>10, Draws DEF Procs, Pids
  <2>3. rows \in Seq(Row(content)) /\ walk \in Seq(Item(content)) /\ walk # <<>>
    BY <1>10, Draws
  <2>4. rows' \in Seq(Row(content))
    BY <2>2, <2>3
  <2>5. walk' \in Seq(Item(content))
    <3>1. PICK n, l, d : Spreads(content, kids, walk, n, l, d, walk')
      BY <2>2, <2>3 DEF Spreads
    <3> QED BY <3>1, Branched
  <2>6. Row(content) = [pid : Procs, depth : Nat, files : BOOLEAN, sockets : BOOLEAN]
        /\ Item(content) = [pid : Procs, depth : Nat]
    BY DEF Row, Item, Procs, Pids
  <2>7. ReportTypeOK'
    BY <1>1, <1>3, <1>10, <2>1, <2>4, <2>5, <2>6 DEF ReportTypeOK
  <2> QED BY <1>3, <1>10, <2>1, <2>7
<1>11. ASSUME BranchesEnd, ~Prepare PROVE ReportTypeOK' /\ FlagsInv'
  <2>1. /\ reportPc' = "done" /\ opened' = opened /\ nodes' = nodes
        /\ fdList' = fdList /\ skList' = skList /\ rows' = rows
    BY <1>11 DEF BranchesEnd
  <2>2. ReportTypeOK'
    BY <1>1, <1>3, <1>11, <2>1 DEF ReportTypeOK
  <2> QED BY <1>3, <1>11, <2>1, <2>2
<1> QED BY <1>2, <1>4, <1>5, <1>6, <1>7, <1>8, <1>9, <1>10, <1>11 DEF ReportNext

LEMMA ErrorsKept ==
  ASSUME ReportInv, ReportNext
  PROVE  WholeArchiveReported'
<1>1. ReportTypeOK /\ FlagsInv
  BY DEF ReportInv
<1>2. CASE Prepare
  <2>1. reportPc' = "error" => call'.command = "inspect" /\ call'.format = "other"
    <3>1. Expanded(call).format = call.format
      BY <1>1 DEF Expanded, ReportTypeOK, Call
    <3> QED BY <1>1, <1>2, <3>1, Prepared DEF Prepare
  <2> QED BY <2>1 DEF WholeArchiveReported
<1>3. CASE ReadInfo \/ ReadStats \/ ReadPsTree \/ ReadFds \/ ReadSks
  <2>1. reportPc' # "error" \/ WholeArchiveReported'
    BY <1>1, <1>3, Reads
  <2> QED BY <2>1 DEF WholeArchiveReported
<1>4. CASE VisitProcess
  <2>1. reportPc' # "error" \/ WholeArchiveReported'
    BY <1>4, Visits
  <2> QED BY <2>1 DEF WholeArchiveReported
<1>5. CASE WalkEnds \/ StartView \/ Branch \/ BranchesEnd
  <2>1. reportPc' # "error"
    BY <1>5 DEF WalkEnds, StartView, Branch, BranchesEnd
  <2> QED BY <2>1 DEF WholeArchiveReported
<1> QED BY <1>2, <1>3, <1>4, <1>5 DEF ReportNext

LEMMA WalkKept ==
  ASSUME ReportInv, ReportNext
  PROVE  WalkInv'
<1>1. ReportTypeOK /\ FlagsInv /\ WalkInv
  BY DEF ReportInv
<1>2. CASE Prepare
  <2>1. reportPc = "flags" /\ reportPc' \in {"error", "info"} /\ nodes' = nodes
    BY <1>2 DEF Prepare
  <2> QED BY <1>1, <2>1 DEF WalkInv, Early, Late
<1>3. ASSUME ~Prepare
      PROVE  /\ StartPid' = StartPid /\ Procs' = Procs /\ (ShowsTree' <=> ShowsTree)
             /\ Dropped' = Dropped /\ content' = content
             /\ \A todo : nodes' = nodes => (SoFar(todo)' <=> SoFar(todo))
  <2>1. /\ StartPid' = StartPid /\ Procs' = Procs /\ (ShowsTree' <=> ShowsTree)
        /\ Dropped' = Dropped /\ content' = content
    BY <1>3, Untouched, Frame
  <2> QED BY <2>1 DEF SoFar
<1>4. CASE ReadInfo \/ ReadStats
  <2>1. reportPc \in Early /\ reportPc' \in Early \union {"error"} /\ nodes' = nodes
    BY <1>1, <1>4, Reads DEF ReadInfo, ReadStats, Early
  <2> QED BY <1>1, <2>1 DEF WalkInv, Early, Late
<1>5. ASSUME ReadPsTree, ~Prepare PROVE WalkInv'
  <2>1. nodes' = nodes /\ nodes = <<>>
    BY <1>1, <1>5 DEF ReadPsTree, WalkInv, Early
  <2>2. CASE ~ShowsTree /\ reportPc' = "fds"
    BY <1>3, <1>5, <2>1, <2>2 DEF WalkInv, Early, Late
  <2>3. CASE ShowsTree /\ StartPid \in Procs /\ reportPc' = "walk" /\ walk' = <<StartPid>>
    <3>1. Traversed(content, StartPid, nodes, <<StartPid>>, Dropped)
      BY <2>1, <2>3, TraverseInit DEF Procs, Pids
    <3>2. ToSet(nodes) \intersect Dropped = {}
      BY <2>1 DEF ToSet
    <3>3. SoFar(<<StartPid>>)
      BY <3>1, <3>2 DEF SoFar
    <3>4. Traversed(content', StartPid', nodes', walk', Dropped')
          /\ ToSet(nodes') \intersect Dropped' = {}
      BY <1>3, <1>5, <2>1, <2>3, <3>1, <3>2
    <3> QED BY <1>3, <1>5, <2>1, <2>3, <3>4 DEF WalkInv, Early, Late, SoFar
  <2>4. CASE reportPc' = "error"
    BY <2>4 DEF WalkInv, Early, Late
  <2> QED BY <1>1, <1>5, <2>2, <2>3, <2>4, Reads
<1>6. ASSUME VisitProcess, ~Prepare PROVE WalkInv'
  <2>1. CASE reportPc' = "error"
    BY <2>1 DEF WalkInv, Early, Late
  <2>2. CASE reportPc' # "error"
    <3> PICK c : c = content
      OBVIOUS
    <3> PICK p : p = Head(walk)
      OBVIOUS
    <3> PICK dropped : dropped = Dropped
      OBVIOUS
    <3> PICK start : start = StartPid
      OBVIOUS
    <3>1. /\ reportPc' = "walk" /\ p \in Procs
          /\ nodes' = IF Alive(p) \/ call.command # "memparse" THEN Append(nodes, p) ELSE nodes
          /\ \E order \in Seq(Procs) :
               /\ IsInjective(order) /\ walk' = order \o Tail(walk)
               /\ ToSet(order) = IF Alive(p) THEN ChildrenOf(p) ELSE {}
      BY <1>6, <2>2, Visits
    <3>2. PICK order \in Seq(Procs) :
            /\ IsInjective(order) /\ walk' = order \o Tail(walk)
            /\ ToSet(order) = IF Alive(p) THEN ChildrenOf(p) ELSE {}
      BY <3>1
    <3>3. /\ reportPc = "walk" /\ walk # <<>> /\ ShowsTree /\ start \in Pids(c) /\ start \in Procs
          /\ Traversed(c, start, nodes, walk, dropped) /\ ToSet(nodes) \intersect dropped = {}
      BY <1>1, <1>6 DEF VisitProcess, WalkInv, SoFar, Procs, Pids
    <3>4. /\ Procs = Pids(c) /\ (Alive(p) <=> Lives(c, p)) /\ ChildrenOf(p) = Kids(c, p)
          /\ Forest(c.parent)
      BY <1>1, OfContent, OfArchive
    <3>5. CASE Alive(p) \/ call.command # "memparse"
      <4>1. nodes' = Append(nodes, p)
        BY <3>1, <3>5
      <4>2. Traversed(c, start, Append(nodes, p), order \o Tail(walk), dropped)
        <5>1. order \in Seq(Pids(c)) /\ ToSet(order) = IF Lives(c, p) THEN Kids(c, p) ELSE {}
          BY <3>2, <3>4
        <5> QED BY <3>2, <3>3, <3>4, <5>1, TraverseVisit
      <4>3. p \notin dropped
        BY <3>5 DEF Dropped
      <4>4. ToSet(Append(nodes, p)) \intersect dropped = {}
        <5>1. nodes \in Seq(Pids(c))
          BY <3>3 DEF Traversed
        <5>2. \A i \in DOMAIN Append(nodes, p) :
                Append(nodes, p)[i] = p \/ (i \in DOMAIN nodes /\ Append(nodes, p)[i] = nodes[i])
          BY <3>1, <3>4, <5>1
        <5> QED BY <3>3, <4>3, <5>2 DEF ToSet
      <4>5. Traversed(content', StartPid', nodes', walk', Dropped')
            /\ ToSet(nodes') \intersect Dropped' = {}
        BY <1>3, <1>6, <3>2, <4>1, <4>2, <4>4
      <4>6. ShowsTree' /\ StartPid' \in Procs'
        BY <1>3, <1>6, <3>3
      <4> QED BY <3>1, <4>5, <4>6 DEF WalkInv, Early, Late, SoFar
    <3>6. CASE ~(Alive(p) \/ call.command # "memparse")
      <4>1. nodes' = nodes /\ p \in dropped
        BY <3>1, <3>6 DEF Dropped
      <4>2. walk' = Tail(walk)
        <5>1. ToSet(order) = {}
          BY <3>2, <3>6
        <5>2. order = <<>>
          <6>1. ASSUME Len(order) # 0 PROVE FALSE
            <7>1. 1 \in DOMAIN order
              BY <6>1
            <7> QED BY <5>1, <7>1 DEF ToSet
          <6> QED BY <6>1, EmptySeq
        <5>3. walk \in Seq(Procs) /\ Tail(walk) \in Seq(Procs)
          BY <1>1, <3>3 DEF ReportTypeOK
        <5> QED BY <3>2, <5>2, <5>3, ConcatEmptySeq
      <4>3. Traversed(c, start, nodes, Tail(walk), dropped)
        BY <3>3, <4>1, TraverseDrop
      <4>4. Traversed(content', StartPid', nodes', walk', Dropped')
            /\ ToSet(nodes') \intersect Dropped' = {}
        BY <1>3, <1>6, <3>3, <4>1, <4>2, <4>3
      <4>5. ShowsTree' /\ StartPid' \in Procs'
        BY <1>3, <1>6, <3>3
      <4> QED BY <3>1, <4>4, <4>5 DEF WalkInv, Early, Late, SoFar
    <3> QED BY <3>5, <3>6
  <2> QED BY <2>1, <2>2
<1>7. ASSUME WalkEnds, ~Prepare PROVE WalkInv'
  <2>1. reportPc = "walk" /\ walk = <<>> /\ reportPc' \in {"print", "fds"} /\ nodes' = nodes
    BY <1>7 DEF WalkEnds
  <2>2. ShowsTree /\ StartPid \in Procs /\ SoFar(<<>>)
    BY <1>1, <2>1 DEF WalkInv
  <2>3. ShowsTree' /\ StartPid' \in Procs' /\ SoFar(<<>>)'
    BY <1>3, <1>7, <2>1, <2>2
  <2> QED BY <2>1, <2>3 DEF WalkInv, Early, Late
<1>8. ASSUME ReadFds \/ ReadSks \/ StartView \/ Branch \/ BranchesEnd, ~Prepare PROVE WalkInv'
  <2>1. reportPc \in Late /\ reportPc' \in Late \union {"error"} /\ nodes' = nodes
    <3>1. CASE ReadFds \/ ReadSks
      BY <1>1, <1>8, <3>1, Reads DEF ReadFds, ReadSks, Late
    <3>2. CASE StartView \/ Branch \/ BranchesEnd
      BY <3>2 DEF StartView, Branch, BranchesEnd, Late
    <3> QED BY <1>8, <3>1, <3>2
  <2>2. IF ShowsTree THEN StartPid \in Procs /\ SoFar(<<>>) ELSE nodes = <<>>
    BY <1>1, <2>1 DEF WalkInv
  <2>3. IF ShowsTree' THEN StartPid' \in Procs' /\ SoFar(<<>>)' ELSE nodes' = <<>>
    BY <1>3, <1>8, <2>1, <2>2
  <2> QED BY <2>1, <2>3 DEF WalkInv, Early, Late
<1>9. Prepare \/ ~Prepare
  OBVIOUS
<1> QED BY <1>2, <1>4, <1>5, <1>6, <1>7, <1>8, <1>9 DEF ReportNext

LEMMA ListKept ==
  ASSUME ReportInv, ReportNext
  PROVE  ListInv'
<1>1. ReportTypeOK /\ FlagsInv /\ ListInv
  BY DEF ReportInv
<1>2. CASE Prepare
  <2>1. reportPc = "flags" /\ reportPc' \in {"error", "info"} /\ fdList' = fdList /\ skList' = skList
    BY <1>2 DEF Prepare
  <2> QED BY <1>1, <2>1 DEF ListInv, Early
<1>3. ASSUME ~Prepare
      PROVE  call' = call /\ content' = content /\ Fds' = Fds /\ Sks' = Sks
  BY <1>3, Untouched, Frame
<1>4. ASSUME ReadInfo \/ ReadStats, ~Prepare PROVE ListInv'
  <2>1. /\ reportPc \in Early /\ reportPc' \in {"stats", "pstree", "error"}
        /\ fdList' = fdList /\ skList' = skList
    BY <1>1, <1>4, Reads DEF ReadInfo, ReadStats, Early
  <2> QED BY <1>1, <2>1 DEF ListInv, Early
<1>5. ASSUME ReadPsTree, ~Prepare PROVE ListInv'
  <2>1. reportPc = "pstree" /\ fdList' = fdList /\ skList' = skList
    BY <1>5 DEF ReadPsTree
  <2>2. reportPc' \in {"fds", "walk", "error"} /\ (reportPc' = "fds" => call.command # "memparse")
    BY <1>1, <1>5, Reads DEF ShowsTree
  <2> QED BY <1>1, <1>3, <1>5, <2>1, <2>2 DEF ListInv, Early
<1>6. ASSUME VisitProcess, ~Prepare PROVE ListInv'
  <2>1. reportPc = "walk" /\ reportPc' \in {"walk", "error"} /\ fdList' = fdList /\ skList' = skList
    BY <1>6, Visits DEF VisitProcess
  <2> QED BY <1>1, <1>3, <1>6, <2>1 DEF ListInv, Early
<1>7. ASSUME WalkEnds, ~Prepare PROVE ListInv'
  <2>1. /\ reportPc = "walk" /\ fdList' = fdList /\ skList' = skList
        /\ reportPc' = IF call.command = "memparse" THEN "print" ELSE "fds"
    BY <1>7 DEF WalkEnds
  <2> QED BY <1>1, <1>3, <1>7, <2>1 DEF ListInv, Early
<1>8. ASSUME ReadFds, ~Prepare PROVE ListInv'
  <2>1. reportPc = "fds" /\ skList' = skList /\ fdList = {} /\ skList = {} /\ call.command # "memparse"
    BY <1>1, <1>8 DEF ReadFds, ListInv
  <2>2. (reportPc' = "sks" /\ fdList' = Fds) \/ reportPc' = "error"
    BY <1>1, <1>8, <2>1, Reads DEF Fds
  <2> QED BY <1>1, <1>3, <1>8, <2>1, <2>2 DEF ListInv, Early
<1>9. ASSUME ReadSks, ~Prepare PROVE ListInv'
  <2>1. reportPc = "sks" /\ fdList' = fdList /\ fdList = Fds /\ skList = {} /\ call.command # "memparse"
    BY <1>1, <1>9 DEF ReadSks, ListInv
  <2>2. (reportPc' = "print" /\ skList' = Sks) \/ reportPc' = "error"
    BY <1>1, <1>9, <2>1, Reads DEF Sks
  <2> QED BY <1>1, <1>3, <1>9, <2>1, <2>2 DEF ListInv, Early
<1>10. ASSUME StartView \/ Branch \/ BranchesEnd, ~Prepare PROVE ListInv'
  <2>1. /\ reportPc \in {"print", "branch"} /\ reportPc' \in {"branch", "done"}
        /\ fdList' = fdList /\ skList' = skList
    BY <1>10 DEF StartView, Branch, BranchesEnd
  <2> QED BY <1>1, <1>3, <1>10, <2>1 DEF ListInv, Early
<1>11. Prepare \/ ~Prepare
  OBVIOUS
<1> QED BY <1>2, <1>4, <1>5, <1>6, <1>7, <1>8, <1>9, <1>10, <1>11 DEF ReportNext

(* The tree before its first line.                                           *)
LEMMA DrawInit ==
  ASSUME NEW c, NEW start \in Pids(c), NEW fds, NEW sks
  PROVE  Drawn(c, start, fds, sks, <<>>, <<[pid |-> start, depth |-> 0]>>)
<1> PICK x : x = [pid |-> start, depth |-> 0]
  OBVIOUS
<1>1. x \in Item(c) /\ x.pid = start
  BY DEF Item
<1>2. <<x>> \in Seq(Item(c)) /\ <<>> \in Seq(Row(c)) /\ Len(<<x>>) = 1 /\ DOMAIN <<x>> = {1}
      /\ Len(<<>>) = 0
  BY <1>1
<1>3. PidsOf(<<>>) = <<>>
  <2>1. Len(PidsOf(<<>>)) = 0 /\ PidsOf(<<>>) \in Seq(Pids(c))
    BY <1>2, PidsOfRows
  <2> QED BY <2>1, EmptySeq
<1>4. PidsOf(<<x>>) = <<start>>
  <2>1. PidsOf(<<x>>) \in Seq(Pids(c)) /\ Len(PidsOf(<<x>>)) = 1 /\ PidsOf(<<x>>)[1] = start
    <3> PICK s : s = <<x>>
      OBVIOUS
    <3>1. s \in Seq(Item(c)) /\ Len(s) = 1 /\ s[1] = x /\ 1 \in 1..Len(s)
      BY <1>2
    <3>2. /\ PidsOf(s) \in Seq(Pids(c)) /\ Len(PidsOf(s)) = Len(s)
          /\ \A i \in 1..Len(s) : PidsOf(s)[i] = s[i].pid
      BY <3>1, PidsOfItems
    <3> QED BY <1>1, <3>1, <3>2
  <2>2. <<start>> \in Seq(Pids(c)) /\ Len(<<start>>) = 1 /\ <<start>>[1] = start
    OBVIOUS
  <2>3. \A i \in 1..1 : PidsOf(<<x>>)[i] = <<start>>[i]
    BY <2>1, <2>2
  <2> QED BY <2>1, <2>2, <2>3, SeqEqual
<1>5. Traversed(c, start, PidsOf(<<>>), PidsOf(<<x>>), {})
  BY <1>3, <1>4, TraverseInit
<1>6. Indented(c, <<>>, <<x>>)
  BY <1>2 DEF Indented
<1>7. Ascending(c, <<>>, <<x>>)
  BY <1>2 DEF Ascending
<1>8. Marked(c, fds, sks, <<>>)
  BY DEF Marked
<1> QED BY <1>2, <1>5, <1>6, <1>7, <1>8 DEF Drawn

LEMMA RowKept ==
  ASSUME ReportInv, ReportNext
  PROVE  RowInv'
<1>1. ReportTypeOK /\ FlagsInv /\ WalkInv /\ RowInv
  BY DEF ReportInv
<1>2. CASE Prepare
  <2>1. reportPc = "flags" /\ reportPc' \in {"error", "info"} /\ rows' = rows
    BY <1>2 DEF Prepare
  <2> QED BY <1>1, <2>1 DEF RowInv, Early
<1>3. ASSUME ~Prepare
      PROVE  /\ call' = call /\ content' = content /\ StartPid' = StartPid
             /\ (ShowsTree' <=> ShowsTree)
  BY <1>3, Untouched, Frame
<1>4. CASE ReadInfo \/ ReadStats \/ ReadPsTree \/ VisitProcess \/ WalkEnds \/ ReadFds \/ ReadSks
  <2>1. CASE ReadInfo \/ ReadStats \/ ReadPsTree
    <3>1. /\ reportPc \in Early /\ rows' = rows
          /\ reportPc' \in {"stats", "pstree", "fds", "walk", "error"}
      BY <1>1, <1>4, <2>1, Reads DEF ReadInfo, ReadStats, ReadPsTree, Early
    <3> QED BY <1>1, <3>1 DEF RowInv, Early
  <2>2. CASE VisitProcess \/ WalkEnds
    <3>1. reportPc = "walk" /\ rows' = rows /\ reportPc' \in {"walk", "print", "fds", "error"}
      BY <2>2, Visits DEF VisitProcess, WalkEnds
    <3> QED BY <1>1, <3>1 DEF RowInv, Early
  <2>3. CASE ReadFds \/ ReadSks
    <3>1. reportPc \in {"fds", "sks"} /\ rows' = rows /\ reportPc' \in {"sks", "print", "error"}
      BY <1>1, <1>4, <2>3, Reads DEF ReadFds, ReadSks
    <3> QED BY <1>1, <3>1 DEF RowInv, Early
  <2> QED BY <1>4, <2>1, <2>2, <2>3
<1>5. ASSUME StartView, ~Prepare PROVE RowInv'
  <2>1. reportPc = "print" /\ rows = <<>> /\ nodes' = nodes /\ fdList' = fdList /\ skList' = skList
    BY <1>1, <1>5 DEF StartView, RowInv
  <2>2. CASE call.command = "inspect" /\ call.format = "tree" /\ nodes # <<>>
    <3> PICK c : c = content
      OBVIOUS
    <3> PICK start : start = StartPid
      OBVIOUS
    <3>1. /\ reportPc' = "branch" /\ rows' = rows
          /\ walk' = <<[pid |-> Head(nodes), depth |-> 0]>>
      BY <1>5, <2>2 DEF StartView
    <3>2. ShowsTree /\ start \in Pids(c) /\ Traversed(c, start, nodes, <<>>, Dropped)
      BY <1>1, <2>1, <2>2 DEF WalkInv, Late, SoFar, Procs, Pids
    <3>3. Head(nodes) = start
      <4>1. nodes \in Seq(Pids(c)) /\ ParentsFirst(c, start, nodes)
        BY <3>2 DEF Traversed
      <4>2. 1 \in DOMAIN nodes /\ Head(nodes) = nodes[1]
        BY <2>2, <4>1, EmptySeq
      <4> QED BY <4>1, <4>2 DEF ParentsFirst
    <3>4. Drawn(c, start, fdList, skList, <<>>, <<[pid |-> start, depth |-> 0]>>)
      BY <3>2, DrawInit
    <3>5. Drawn(content', StartPid', fdList', skList', rows', walk')
      BY <1>3, <1>5, <2>1, <3>1, <3>3, <3>4
    <3> QED BY <1>3, <1>5, <3>1, <3>2, <3>5 DEF RowInv, Early
  <2>3. CASE ~(call.command = "inspect" /\ call.format = "tree" /\ nodes # <<>>)
    <3>1. reportPc' = "done" /\ rows' = IF call.command = "memparse" THEN nodes ELSE rows
      BY <1>5, <2>3 DEF StartView
    <3> QED BY <1>3, <1>5, <2>1, <3>1 DEF RowInv, Early
  <2> QED BY <2>2, <2>3
<1>6. ASSUME Branch, ~Prepare PROVE RowInv'
  <2> PICK c : c = content
    OBVIOUS
  <2> PICK start : start = StartPid
    OBVIOUS
  <2>1. /\ reportPc = "branch" /\ reportPc' = "branch" /\ walk # <<>>
        /\ nodes' = nodes /\ fdList' = fdList /\ skList' = skList
    BY <1>6 DEF Branch
  <2>2. PICK kids \in Seq(Procs), r \in Row(c) :
          /\ IsInjective(kids)
          /\ ToSet(kids) = IF Alive(Head(walk).pid) THEN ChildrenOf(Head(walk).pid) ELSE {}
          /\ \A i, j \in DOMAIN kids : i < j => kids[i] < kids[j]
          /\ r.pid = Head(walk).pid /\ r.depth = Head(walk).depth
          /\ r.files <=> Alive(r.pid) /\ r.pid \in fdList
          /\ r.sockets <=> Alive(r.pid) /\ r.pid \in skList
          /\ rows' = Append(rows, r) /\ walk' = Spread(kids, Head(walk).depth + 1, walk)
    BY <1>6, Draws
  <2>3. ShowsTree /\ Drawn(c, start, fdList, skList, rows, walk)
    BY <1>1, <2>1 DEF RowInv
  <2>4. start \in Pids(c) /\ Forest(c.parent)
    BY <1>1, <2>1, <2>3, OfArchive DEF WalkInv, Late, Procs, Pids
  <2>5. /\ kids \in Seq(Pids(c))
        /\ ToSet(kids) = IF Lives(c, Head(walk).pid) THEN Kids(c, Head(walk).pid) ELSE {}
        /\ r.files <=> Lives(c, r.pid) /\ r.pid \in fdList
        /\ r.sockets <=> Lives(c, r.pid) /\ r.pid \in skList
    BY <2>2, OfContent
  <2>6. Drawn(c, start, fdList, skList, Append(rows, r), walk')
    BY <2>1, <2>2, <2>3, <2>4, <2>5, DrawStep
  <2>7. Drawn(content', StartPid', fdList', skList', rows', walk')
    BY <1>3, <1>6, <2>1, <2>2, <2>6
  <2> QED BY <1>3, <1>6, <2>1, <2>3, <2>7 DEF RowInv, Early
<1>7. ASSUME BranchesEnd, ~Prepare PROVE RowInv'
  <2>1. /\ reportPc = "branch" /\ reportPc' = "done" /\ walk = <<>>
        /\ rows' = rows /\ fdList' = fdList /\ skList' = skList
    BY <1>7 DEF BranchesEnd
  <2>2. ShowsTree /\ Drawn(content, StartPid, fdList, skList, rows, <<>>)
    BY <1>1, <2>1 DEF RowInv
  <2>3. ShowsTree' /\ Drawn(content', StartPid', fdList', skList', rows', <<>>)
    BY <1>3, <1>7, <2>1, <2>2
  <2> QED BY <2>1, <2>3 DEF RowInv, Early
<1>8. Prepare \/ ~Prepare
  OBVIOUS
<1> QED BY <1>2, <1>4, <1>5, <1>6, <1>7, <1>8 DEF ReportNext

LEMMA ReportInvariant ==
  ReportSpec => []ReportInv
<1>1. ReportInit => ReportInv
  <2> SUFFICES ASSUME ReportInit PROVE ReportInv
    OBVIOUS
  <2>1. /\ call \in Call /\ content \in Checkpoints /\ reportPc = "flags" /\ required = {}
        /\ opened = {} /\ walk = <<>> /\ nodes = <<>> /\ fdList = {} /\ skList = {} /\ rows = <<>>
    BY ReportAssumption DEF ReportInit, ReportStart
  <2>2. ReportTypeOK
    BY <2>1 DEF ReportTypeOK
  <2>3. FlagsInv /\ WalkInv /\ ListInv /\ RowInv /\ WholeArchiveReported
    BY <2>1 DEF FlagsInv, WalkInv, ListInv, RowInv, WholeArchiveReported, Early, Late
  <2> QED BY <2>2, <2>3 DEF ReportInv
<1>2. ReportInv /\ [ReportNext]_reportVars => ReportInv'
  <2> SUFFICES ASSUME ReportInv, [ReportNext]_reportVars PROVE ReportInv'
    OBVIOUS
  <2>1. CASE ReportNext
    BY <2>1, TypeKept, ErrorsKept, WalkKept, ListKept, RowKept DEF ReportInv
  <2>2. CASE UNCHANGED reportVars
    <3>1. /\ call' = call /\ content' = content /\ reportPc' = reportPc /\ required' = required
          /\ opened' = opened /\ walk' = walk /\ nodes' = nodes /\ fdList' = fdList
          /\ skList' = skList /\ rows' = rows
      BY <2>2 DEF reportVars
    <3>2. /\ Procs' = Procs /\ StartPid' = StartPid /\ (ShowsTree' <=> ShowsTree)
          /\ Dropped' = Dropped /\ Fds' = Fds /\ Sks' = Sks
          /\ \A p : Alive(p)' <=> Alive(p)
      BY <3>1, Frame
    <3>3. ReportTypeOK' /\ FlagsInv'
      BY <3>1, <3>2 DEF ReportInv, ReportTypeOK, FlagsInv
    <3>4. WalkInv'
      BY <3>1, <3>2 DEF ReportInv, WalkInv, SoFar
    <3>5. ListInv' /\ RowInv'
      BY <3>1, <3>2 DEF ReportInv, ListInv, RowInv
    <3>6. WholeArchiveReported'
      <4> PICK c : c = content
        OBVIOUS
      <4>1. Below(StartPid)' = Below(StartPid)
        <5>1. Below(StartPid)' = Under(c, StartPid')
          BY <3>1 DEF Below, ClosedBelow, Procs, Alive, ChildrenOf, Under, ClosedIn, Pids, Lives, Kids
        <5> QED BY <3>2, <5>1, OfContent
      <4>2. \A p : p \in Below(StartPid)' <=> p \in Below(StartPid)
        BY <4>1
      <4> QED BY <3>1, <3>2, <4>2 DEF ReportInv, WholeArchiveReported
    <3> QED BY <3>3, <3>4, <3>5, <3>6 DEF ReportInv
  <2> QED BY <2>1, <2>2
<1> QED BY <1>1, <1>2, PTL DEF ReportSpec

-----------------------------------------------------------------------------
(***************************************************************************)
(* Theorems                                                                *)
(***************************************************************************)

(* The variables keep their types, and no reader opens a file that CreateTasks *)
(* was not asked to extract, whatever flags were given.                       *)
THEOREM ReportTypeCorrect ==
  ReportSpec => []ReportTypeOK
<1>1. ReportInv => ReportTypeOK
  BY DEF ReportInv
<1> QED BY <1>1, ReportInvariant, PTL

(* inspect, diff and memparse fail only over a file that the archive lacks, an *)
(* unknown format or PID, or an environment they are to show and cannot.      *)
THEOREM WholeReports ==
  ReportSpec => []WholeArchiveReported
<1>1. ReportInv => WholeArchiveReported
  BY DEF ReportInv
<1> QED BY <1>1, ReportInvariant, PTL

(* The report has the process asked for and those below it, each once and after *)
(* its parent, in any tree and any order that the children are found in.      *)
THEOREM SubtreeReports ==
  ReportSpec => []SubtreeReported
<1>1. ReportInv => SubtreeReported
  <2> SUFFICES ASSUME ReportInv, reportPc \in {"branch", "done"}, ShowsTree
               PROVE  /\ IsInjective(nodes)
                      /\ ToSet(nodes) =
                           {p \in Below(StartPid) : Alive(p) \/ call.command # "memparse"}
                      /\ \A i \in DOMAIN nodes :
                           \/ nodes[i] = StartPid
                           \/ \E j \in 1..i - 1 : nodes[j] = content.parent[nodes[i]]
    BY DEF SubtreeReported
  <2> PICK c : c = content
    OBVIOUS
  <2>1. /\ StartPid \in Pids(c) /\ Traversed(c, StartPid, nodes, <<>>, Dropped)
        /\ ToSet(nodes) \intersect Dropped = {}
    BY DEF ReportInv, WalkInv, SoFar, Late, Procs, Pids
  <2>2. Dropped \in SUBSET Pids(c) /\ \A p \in Dropped : ~Lives(c, p)
    BY OfContent DEF Dropped
  <2>3. ToSet(nodes) \subseteq Under(c, StartPid) /\ Under(c, StartPid) \subseteq ToSet(nodes) \union Dropped
    BY <2>1, <2>2, TraverseEnd
  <2>4. \A p \in Under(c, StartPid) : p \in Dropped <=> ~(Alive(p) \/ call.command # "memparse")
    BY <2>1, OfContent, UnderIsClosed DEF Dropped
  <2>5. ToSet(nodes) = {p \in Below(StartPid) : Alive(p) \/ call.command # "memparse"}
    BY <2>1, <2>3, <2>4, OfContent
  <2> QED BY <2>1, <2>5 DEF Traversed, Once, ParentsFirst
<1> QED BY <1>1, ReportInvariant, PTL

(* Whoever is drawn is below the process asked for, and the reverse.          *)
LEMMA DrawnEnd ==
  ASSUME ReportInv, reportPc = "done", rows # <<>>, call.command = "inspect"
  PROVE  /\ Drawn(content, StartPid, fdList, skList, rows, <<>>)
         /\ \A i \in DOMAIN rows : rows[i].pid \in Below(StartPid)
         /\ \A p \in Below(StartPid) : \E i \in DOMAIN rows : rows[i].pid = p
         /\ Len(rows) \in Nat /\ DOMAIN rows = 1..Len(rows)
<1> PICK c : c = content
  OBVIOUS
<1>1. ShowsTree /\ Drawn(c, StartPid, fdList, skList, rows, <<>>)
  BY DEF ReportInv, RowInv
<1>2. StartPid \in Pids(c)
  BY <1>1 DEF ReportInv, WalkInv, Late, Procs, Pids
<1>3. rows \in Seq(Row(c)) /\ Traversed(c, StartPid, PidsOf(rows), <<>>, {})
  <2>1. PidsOf(<<>>) = <<>>
    <3>1. <<>> \in Seq(Row(c)) /\ Len(<<>>) = 0
      OBVIOUS
    <3>2. Len(PidsOf(<<>>)) = 0 /\ PidsOf(<<>>) \in Seq(Pids(c))
      BY <3>1, PidsOfRows
    <3> QED BY <3>2, EmptySeq
  <2> QED BY <1>1, <2>1 DEF Drawn
<1>4. ToSet(PidsOf(rows)) = Under(c, StartPid)
  <2> PICK none : none = {}
    OBVIOUS
  <2>1. none \in SUBSET Pids(c) /\ (\A p \in none : ~Lives(c, p))
        /\ Traversed(c, StartPid, PidsOf(rows), <<>>, none)
    BY <1>3
  <2>2. /\ ToSet(PidsOf(rows)) \subseteq Under(c, StartPid)
        /\ Under(c, StartPid) \subseteq ToSet(PidsOf(rows)) \union none
    BY <1>2, <2>1, TraverseEnd
  <2> QED BY <2>2
<1>5. DOMAIN PidsOf(rows) = DOMAIN rows /\ Len(rows) \in Nat /\ DOMAIN rows = 1..Len(rows)
      /\ \A i \in DOMAIN rows : PidsOf(rows)[i] = rows[i].pid
  BY <1>3, PidsOfRows
<1>6. Under(c, StartPid) = Below(StartPid)
  BY OfContent
<1> QED BY <1>1, <1>4, <1>5, <1>6 DEF ToSet

(* Processes and parents are read back from the indentation of any tree of    *)
(* inspect, and siblings ascend.                                             *)
THEOREM TreesReadBack ==
  ReportSpec => []TreeReadsBack
<1>1. ReportInv => TreeReadsBack
  <2> SUFFICES ASSUME ReportInv, reportPc = "done", rows # <<>>, call.command = "inspect"
               PROVE  /\ {rows[i].pid : i \in DOMAIN rows} = Below(StartPid)
                      /\ \A i \in 2..Len(rows) :
                           LET above == {j \in 1..i - 1 : rows[j].depth < rows[i].depth}
                           IN rows[Max(above)].pid = content.parent[rows[i].pid]
                      /\ \A i, j \in DOMAIN rows :
                           i < j /\ content.parent[rows[i].pid] = content.parent[rows[j].pid]
                             => rows[i].pid < rows[j].pid
    BY DEF TreeReadsBack
  <2>1. /\ Indented(content, rows, <<>>) /\ Ascending(content, rows, <<>>)
        /\ {rows[i].pid : i \in DOMAIN rows} = Below(StartPid)
    BY DrawnEnd DEF Drawn
  <2>2. ASSUME NEW i \in 2..Len(rows)
        PROVE  rows[Max({j \in 1..i - 1 : rows[j].depth < rows[i].depth})].pid
                 = content.parent[rows[i].pid]
    BY <2>1 DEF Indented, ReadsBack, Above
  <2>3. ASSUME NEW i \in DOMAIN rows, NEW j \in DOMAIN rows, i < j,
               content.parent[rows[i].pid] = content.parent[rows[j].pid]
        PROVE  rows[i].pid < rows[j].pid
    BY <2>1, <2>3 DEF Ascending, Siblings
  <2> QED BY <2>1, <2>2, <2>3
<1> QED BY <1>1, ReportInvariant, PTL

(* The tree shows the files and the sockets of every process it shows that has *)
(* any, with that process.                                                   *)
THEOREM FilesShown ==
  ReportSpec => []FilesWithTheirProcess
<1>1. ReportInv => FilesWithTheirProcess
  <2> SUFFICES ASSUME ReportInv, reportPc = "done", rows # <<>>, call.command = "inspect"
               PROVE  /\ {rows[i].pid : i \in {k \in DOMAIN rows : rows[k].files}} =
                           IF call.files THEN {p \in Below(StartPid) : Alive(p)} ELSE {}
                      /\ {rows[i].pid : i \in {k \in DOMAIN rows : rows[k].sockets}} =
                           IF call.sockets
                           THEN {p \in Below(StartPid) : Alive(p)} \intersect content.sockets ELSE {}
                      /\ call.files => fdList = {p \in Procs : Alive(p)}
    BY DEF FilesWithTheirProcess
  <2> PICK c : c = content
    OBVIOUS
  <2>1. fdList = Fds /\ skList = Sks
    BY DEF ReportInv, ListInv
  <2>2. fdList = (IF call.files THEN {p \in Procs : Alive(p)} ELSE {})
        /\ skList = (IF call.sockets THEN {p \in content.sockets : Alive(p)} ELSE {})
    BY <2>1 DEF Fds, Sks, WithState
  <2>3. /\ \A i \in DOMAIN rows : rows[i].pid \in Below(StartPid)
        /\ \A p \in Below(StartPid) : \E i \in DOMAIN rows : rows[i].pid = p
    BY DrawnEnd
  <2>4. \A i \in DOMAIN rows :
          /\ rows[i].files <=> Alive(rows[i].pid) /\ rows[i].pid \in fdList
          /\ rows[i].sockets <=> Alive(rows[i].pid) /\ rows[i].pid \in skList
    <3>1. Marked(c, fdList, skList, rows)
      BY DrawnEnd DEF Drawn
    <3> QED BY <3>1, OfContent DEF Marked
  <2>5. Below(StartPid) \subseteq Procs
    BY DEF Below
  <2>6. {rows[i].pid : i \in {k \in DOMAIN rows : rows[k].files}} =
          IF call.files THEN {p \in Below(StartPid) : Alive(p)} ELSE {}
    BY <2>2, <2>3, <2>4, <2>5
  <2>7. {rows[i].pid : i \in {k \in DOMAIN rows : rows[k].sockets}} =
          IF call.sockets THEN {p \in Below(StartPid) : Alive(p)} \intersect content.sockets ELSE {}
    <3>1. CASE call.sockets
      <4>1. \A i \in DOMAIN rows :
              rows[i].sockets <=> Alive(rows[i].pid) /\ rows[i].pid \in content.sockets
        BY <2>2, <2>4, <3>1
      <4>2. \A i \in DOMAIN rows : rows[i].sockets =>
              rows[i].pid \in {p \in Below(StartPid) : Alive(p)} \intersect content.sockets
        BY <2>3, <4>1
      <4>3. \A p \in {p \in Below(StartPid) : Alive(p)} \intersect content.sockets :
              \E i \in DOMAIN rows : rows[i].sockets /\ rows[i].pid = p
        BY <2>3, <4>1
      <4> QED BY <3>1, <4>2, <4>3
    <3>2. CASE ~call.sockets
      BY <2>2, <2>4, <3>2
    <3> QED BY <3>1, <3>2
  <2> QED BY <2>2, <2>6, <2>7
<1> QED BY <1>1, ReportInvariant, PTL
=============================================================================
