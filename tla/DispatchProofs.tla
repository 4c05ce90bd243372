--------------------------- MODULE DispatchProofs ----------------------------
(***************************************************************************)
(* Proofs about Dispatch for every set of nodes and every plan: the type   *)
(* invariant, that an agent repairs exactly what was planned for it in the *)
(* current round, that no list keeps anything from one round to the next,  *)
(* that the packets waited for are those of the round, and that the        *)
(* coordinator and the agents implement RepairRounds.                      *)
(***************************************************************************)
EXTENDS Dispatch, SequenceTheorems, TLAPS

-----------------------------------------------------------------------------
(***************************************************************************)
(* The order of the places of a NodeBatchTask.                             *)
(***************************************************************************)

\* a is pushed, and popped, before b.
Before(a, b) ==
  \/ a[1] < b[1]
  \/ a[1] = b[1] /\ a[2] < b[2]
  \/ a[1] = b[1] /\ a[2] = b[2] /\ a[3] < b[3]

\* Where a thread is when it has gone through all of p.
End(p) == <<Len(p) + 1, 1, 0>>

Stops(p) == Places(p) \cup {End(p)}

\* The places of p a thread at pos has gone through.
Upto(p, pos) == {q \in Places(p) : Before(q, pos)}

\* A place is an item of a task of a stripe of p.
LEMMA InPlaces ==
  ASSUME NEW p
  PROVE  \A q : q \in Places(p) <=>
           \E i \in DOMAIN p : \E t \in DOMAIN p[i].tasks :
             \E c \in 0 .. Len(p[i].tasks[t]) : q = <<i, t, c>>
BY DEF Places

LEMMA LenIsNat == \A S : \A s \in Seq(S) : Len(s) \in Nat
OBVIOUS

\* What a place of a well-formed NodeBatchTask looks like.
LEMMA PlaceOf ==
  ASSUME NEW p \in NodeTasks, NEW q \in Places(p)
  PROVE  /\ q \in Nat \X Nat \X Nat /\ q = <<q[1], q[2], q[3]>>
         /\ q[1] \in 1 .. Len(p) /\ q[2] \in 1 .. Len(p[q[1]].tasks)
         /\ q[3] \in 0 .. Len(p[q[1]].tasks[q[2]])
         /\ p[q[1]].stripe \in StripeIds
         /\ p[q[1]].tasks \in Seq(Seq(DagIdxs)) /\ p[q[1]].tasks # <<>>
         /\ p[q[1]].tasks[q[2]] \in Seq(DagIdxs)
<1>1. PICK i \in DOMAIN p : \E t \in DOMAIN p[i].tasks :
        \E c \in 0 .. Len(p[i].tasks[t]) : q = <<i, t, c>>
  BY InPlaces
<1>2. PICK t \in DOMAIN p[i].tasks : \E c \in 0 .. Len(p[i].tasks[t]) : q = <<i, t, c>>
  BY <1>1
<1>7. PICK c \in 0 .. Len(p[i].tasks[t]) : q = <<i, t, c>>
  BY <1>2
<1>3. i \in 1 .. Len(p) /\ Len(p) \in Nat /\ p[i] \in StripeTasks
  BY DEF NodeTasks
<1>4. /\ p[i].stripe \in StripeIds
      /\ p[i].tasks \in Seq(Seq(DagIdxs)) /\ p[i].tasks # <<>>
  BY <1>3 DEF StripeTasks
<1>5. t \in 1 .. Len(p[i].tasks) /\ Len(p[i].tasks) \in Nat /\ p[i].tasks[t] \in Seq(DagIdxs)
  BY <1>4
<1>6. Len(p[i].tasks[t]) \in Nat
  BY <1>5
<1> QED BY <1>7, <1>3, <1>4, <1>5, <1>6

\* Before is a strict order of the places, and total.
LEMMA Order ==
  /\ \A a \in Place : ~Before(a, a)
  /\ \A a, b, c \in Place : Before(a, b) /\ Before(b, c) => Before(a, c)
  /\ \A a, b \in Place : a = b \/ Before(a, b) \/ Before(b, a)
<1>1. \A a \in Place : a[1] \in Int /\ a[2] \in Int /\ a[3] \in Int /\ a = <<a[1], a[2], a[3]>>
  BY DEF Place
<1> QED BY <1>1 DEF Before

\* The places and the stops of a NodeBatchTask are places.
LEMMA StopsArePlaces ==
  ASSUME NEW p \in NodeTasks
  PROVE  Places(p) \subseteq Place /\ Stops(p) \subseteq Place /\ End(p) \notin Places(p)
<1>1. Len(p) \in Nat
  BY DEF NodeTasks
<1> QED BY <1>1, PlaceOf DEF Stops, End, Place

\* A thread is through with p exactly when it has left its last stripe.
LEMMA AtStop ==
  ASSUME NEW p \in NodeTasks, NEW q \in Stops(p)
  PROVE  /\ q[1] <= Len(p) <=> q \in Places(p)
         /\ q[1] > Len(p) <=> q = End(p)
<1>1. Len(p) \in Nat
  BY DEF NodeTasks
<1> QED BY <1>1, PlaceOf DEF Stops, End

\* A thread begins at the first place, with nothing before it.
LEMMA FirstStop ==
  ASSUME NEW p \in NodeTasks
  PROVE  First \in Stops(p) /\ Upto(p, First) = {} /\ Upto(p, Start) = {} /\ Start \notin Stops(p)
<1>1. Len(p) \in Nat
  BY DEF NodeTasks
<1>2. CASE Len(p) = 0
  BY <1>1, <1>2, PlaceOf DEF First, Start, Stops, End, Upto, Before
<1>3. CASE Len(p) > 0
  <2>1. p[1] \in StripeTasks /\ 1 \in DOMAIN p
    BY <1>1, <1>3 DEF NodeTasks
  <2>2. p[1].tasks \in Seq(Seq(DagIdxs)) /\ p[1].tasks # <<>>
    BY <2>1 DEF StripeTasks
  <2>3. 1 \in DOMAIN p[1].tasks /\ p[1].tasks[1] \in Seq(DagIdxs)
    BY <2>2
  <2>4. 0 \in 0 .. Len(p[1].tasks[1])
    BY <2>3
  <2>5. First \in Places(p)
    BY <2>1, <2>3, <2>4, InPlaces DEF First
  <2> QED BY <1>1, <2>5, PlaceOf DEF First, Start, Stops, End, Upto, Before
<1> QED BY <1>1, <1>2, <1>3

\* A thread at the end has gone through all places, and only there.
LEMMA EndStop ==
  ASSUME NEW p \in NodeTasks
  PROVE  /\ Upto(p, End(p)) = Places(p)
         /\ \A q \in Stops(p) : Upto(p, q) = Places(p) => q = End(p)
<1>1. Len(p) \in Nat
  BY DEF NodeTasks
<1>2. \A q \in Places(p) : Before(q, End(p))
  BY <1>1, PlaceOf DEF End, Before
<1>3. \A q \in Places(p) : q \notin Upto(p, q)
  BY Order, StopsArePlaces DEF Upto
<1> QED BY <1>2, <1>3 DEF Upto, Stops

\* sendTaskCommands and recvBatchTasks go through the places one by one, in
\* order, and leave none out.
LEMMA AfterStep ==
  ASSUME NEW p \in NodeTasks, NEW pos \in Places(p)
  PROVE  /\ AfterIn(p, pos) \in Stops(p)
         /\ Upto(p, AfterIn(p, pos)) = Upto(p, pos) \cup {pos}
         /\ pos \notin Upto(p, pos)
<1> DEFINE i == pos[1]
           t == pos[2]
           c == pos[3]
           ts == p[i].tasks
           next == AfterIn(p, pos)
<1>1. /\ i \in 1 .. Len(p) /\ t \in 1 .. Len(ts) /\ c \in 0 .. Len(ts[t])
      /\ pos = <<i, t, c>> /\ ts \in Seq(Seq(DagIdxs)) /\ Len(p) \in Nat
      /\ Len(ts) \in Nat /\ Len(ts[t]) \in Nat
  <2>1. Len(p) \in Nat
    BY DEF NodeTasks
  <2>2. ts \in Seq(Seq(DagIdxs)) /\ ts[t] \in Seq(DagIdxs)
    BY PlaceOf
  <2>3. Len(ts) \in Nat /\ Len(ts[t]) \in Nat
    BY <2>2, LenIsNat
  <2> QED BY <2>1, <2>2, <2>3, PlaceOf
<1>2. pos \notin Upto(p, pos)
  BY Order, StopsArePlaces DEF Upto
<1>3. next = IF c < Len(ts[t]) THEN <<i, t, c + 1>>
             ELSE IF t < Len(ts) THEN <<i, t + 1, 0>> ELSE <<i + 1, 1, 0>>
  <2>1. next = After(pos, ts[t], Len(ts))
    BY DEF AfterIn
  <2>2. pos[1] = i /\ pos[2] = t /\ pos[3] = c
    OBVIOUS
  <2>3. c \in Int /\ Len(ts[t]) \in Int /\ t \in Int /\ Len(ts) \in Int
    BY <1>1
  <2>4. \A dsts, n : Len(dsts) \in Int /\ n \in Int =>
          After(pos, dsts, n) = IF c < Len(dsts) THEN <<i, t, c + 1>>
                                ELSE IF t < n THEN <<i, t + 1, 0>> ELSE <<i + 1, 1, 0>>
    <3> SUFFICES ASSUME NEW dsts, NEW n, Len(dsts) \in Int, n \in Int
                 PROVE  After(pos, dsts, n) = IF c < Len(dsts) THEN <<i, t, c + 1>>
                          ELSE IF t < n THEN <<i, t + 1, 0>> ELSE <<i + 1, 1, 0>>
      OBVIOUS
    <3> DEFINE m == Len(dsts)
    <3>1. After(pos, dsts, n) =
            CASE c < m -> <<i, t, c + 1>>
              [] c >= m /\ t < n -> <<i, t + 1, 0>>
              [] OTHER -> <<i + 1, 1, 0>>
      BY DEF After
    <3>2. c \in Int /\ m \in Int
      BY <2>3
    <3> HIDE DEF i, t, c, m
    <3>3. ~(c < m) <=> c >= m
      BY <3>2
    <3> QED BY <3>1, <3>3 DEF m
  <2> HIDE DEF i, t, c, ts, next
  <2> QED BY <2>1, <2>3, <2>4
<1>4. \A q \in Places(p) : Before(q, next) <=> Before(q, pos) \/ q = pos
  <2> SUFFICES ASSUME NEW q \in Places(p)
               PROVE  Before(q, next) <=> Before(q, pos) \/ q = pos
    OBVIOUS
  <2>1. /\ q[1] \in 1 .. Len(p) /\ q[2] \in 1 .. Len(p[q[1]].tasks)
        /\ q[3] \in 0 .. Len(p[q[1]].tasks[q[2]]) /\ q = <<q[1], q[2], q[3]>>
        /\ q[1] \in Nat /\ q[2] \in Nat /\ q[3] \in Nat
    BY PlaceOf
  <2>2. q[1] = i => q[2] \in 1 .. Len(ts)
    BY <2>1
  <2>3. q[1] = i /\ q[2] = t => q[3] \in 0 .. Len(ts[t])
    BY <2>1
  <2> HIDE DEF ts, next
  <2>4. Before(q, pos) <=> \/ q[1] < i
                           \/ q[1] = i /\ q[2] < t
                           \/ q[1] = i /\ q[2] = t /\ q[3] < c
    BY DEF Before
  <2>5. q = pos <=> q[1] = i /\ q[2] = t /\ q[3] = c
    BY <1>1, <2>1
  <2>9. q[1] \in Nat /\ q[2] \in Nat /\ q[3] \in Nat
    BY <2>1
  <2>10. i \in Nat /\ t \in Nat /\ c \in Nat
    BY <1>1
  <2> HIDE DEF i, t, c
  <2>6. CASE c < Len(ts[t])
    <3>1. Before(q, next) <=> \/ q[1] < i
                              \/ q[1] = i /\ q[2] < t
                              \/ q[1] = i /\ q[2] = t /\ q[3] < c + 1
      BY <1>3, <2>6 DEF Before
    <3>2. q[3] < c + 1 <=> (q[3] < c \/ q[3] = c)
      BY <2>9, <2>10
    <3> QED BY <2>4, <2>5, <3>1, <3>2
  <2>7. CASE ~(c < Len(ts[t])) /\ t < Len(ts)
    <3>1. Before(q, next) <=> \/ q[1] < i
                              \/ q[1] = i /\ q[2] < t + 1
                              \/ q[1] = i /\ q[2] = t + 1 /\ q[3] < 0
      BY <1>3, <2>7 DEF Before
    <3>2. /\ q[2] < t + 1 <=> (q[2] < t \/ q[2] = t)
          /\ ~(q[3] < 0)
      BY <2>9, <2>10
    <3>3. q[1] = i /\ q[2] = t => q[3] < c \/ q[3] = c
      BY <1>1, <2>3, <2>7, <2>9, <2>10
    <3> QED BY <2>4, <2>5, <3>1, <3>2, <3>3
  <2>8. CASE ~(c < Len(ts[t])) /\ ~(t < Len(ts))
    <3>1. Before(q, next) <=> \/ q[1] < i + 1
                              \/ q[1] = i + 1 /\ q[2] < 1
                              \/ q[1] = i + 1 /\ q[2] = 1 /\ q[3] < 0
      BY <1>3, <2>8 DEF Before
    <3>2. /\ q[1] < i + 1 <=> (q[1] < i \/ q[1] = i)
          /\ ~(q[3] < 0) /\ ~(q[2] < 1)
      BY <2>1, <2>9, <2>10
    <3>3. q[1] = i => q[2] < t \/ q[2] = t
      BY <1>1, <2>2, <2>8, <2>9, <2>10
    <3>4. q[1] = i /\ q[2] = t => q[3] < c \/ q[3] = c
      BY <1>1, <2>3, <2>8, <2>9, <2>10
    <3> QED BY <2>4, <2>5, <3>1, <3>2, <3>3, <3>4
  <2> QED BY <2>6, <2>7, <2>8
<1>5. next \in Stops(p)
  <2>1. i \in DOMAIN p
    BY <1>1 DEF NodeTasks
  <2>2. t \in DOMAIN ts
    BY <1>1
  <2>3. CASE c < Len(ts[t])
    <3>1. c + 1 \in 0 .. Len(ts[t])
      <4> HIDE DEF i, t, c, ts
      <4> QED BY <1>1, <2>3
    <3>2. <<i, t, c + 1>> \in Places(p)
      BY <2>1, <2>2, <3>1, InPlaces
    <3> QED BY <1>3, <2>3, <3>2 DEF Stops
  <2>4. CASE ~(c < Len(ts[t])) /\ t < Len(ts)
    <3>1. t + 1 \in DOMAIN ts /\ ts[t + 1] \in Seq(DagIdxs)
      BY <1>1, <2>4
    <3>2. 0 \in 0 .. Len(ts[t + 1])
      BY <3>1
    <3>3. <<i, t + 1, 0>> \in Places(p)
      BY <2>1, <3>1, <3>2, InPlaces
    <3> QED BY <1>3, <2>4, <3>3 DEF Stops
  <2>5. CASE ~(c < Len(ts[t])) /\ ~(t < Len(ts)) /\ i < Len(p)
    <3>1. i + 1 \in DOMAIN p /\ p[i + 1] \in StripeTasks
      BY <1>1, <2>5 DEF NodeTasks
    <3>2. p[i + 1].tasks \in Seq(Seq(DagIdxs)) /\ p[i + 1].tasks # <<>>
      BY <3>1 DEF StripeTasks
    <3>3. 1 \in DOMAIN p[i + 1].tasks /\ p[i + 1].tasks[1] \in Seq(DagIdxs)
      BY <3>2
    <3>4. 0 \in 0 .. Len(p[i + 1].tasks[1])
      BY <3>3
    <3>5. <<i + 1, 1, 0>> \in Places(p)
      BY <3>1, <3>3, <3>4, InPlaces
    <3> QED BY <1>3, <2>5, <3>5 DEF Stops
  <2>6. CASE ~(c < Len(ts[t])) /\ ~(t < Len(ts)) /\ i = Len(p)
    BY <1>3, <2>6 DEF Stops, End
  <2> QED BY <1>1, <2>3, <2>4, <2>5, <2>6
<1> QED BY <1>2, <1>4, <1>5 DEF Upto

-----------------------------------------------------------------------------
(***************************************************************************)
(* What a list of commands holds.                                          *)
(***************************************************************************)
MsgAt(r, q) == [round |-> r, pos |-> q]

\* s lists the messages of round r for the places S, in their order.
Lists(s, r, S) ==
  /\ s \in Seq(Message)
  /\ \A x \in 1 .. Len(s) : s[x] = MsgAt(r, s[x].pos) /\ s[x].pos \in S
  /\ \A x, y \in 1 .. Len(s) : x < y => Before(s[x].pos, s[y].pos)
  /\ \A q \in S : \E x \in 1 .. Len(s) : s[x].pos = q

\* A list that holds messages for no place is empty, and the other way round.
LEMMA ListsNone ==
  ASSUME NEW s, NEW r, NEW S, Lists(s, r, S)
  PROVE  s = <<>> <=> S = {}
BY DEF Lists

\* The empty list holds the messages of any round for no place.
LEMMA ListsEmpty ==
  ASSUME NEW r PROVE Lists(<<>>, r, {})
BY DEF Lists

\* Pushing a message for a later place.
LEMMA ListsAppend ==
  ASSUME NEW s, NEW r \in Int, NEW S, Lists(s, r, S), NEW p \in Place,
         \A q \in S : Before(q, p)
  PROVE  Lists(Append(s, MsgAt(r, p)), r, S \cup {p})
<1> DEFINE m == MsgAt(r, p)
           u == Append(s, m)
<1>1. m \in Message /\ m.pos = p /\ m = MsgAt(r, m.pos)
  BY DEF MsgAt, Message
<1>2. s \in Seq(Message)
  BY DEF Lists
<1> HIDE DEF m
<1>3. /\ u \in Seq(Message) /\ Len(u) = Len(s) + 1 /\ u[Len(s) + 1] = m
      /\ \A x \in 1 .. Len(s) : u[x] = s[x]
  BY <1>1, <1>2
<1>4. Len(s) \in Nat
  BY <1>2
<1> HIDE DEF u
<1>5. \A x \in 1 .. Len(u) : u[x] = MsgAt(r, u[x].pos) /\ u[x].pos \in S \cup {p}
  BY <1>1, <1>3, <1>4 DEF Lists
<1>6. \A x, y \in 1 .. Len(u) : x < y => Before(u[x].pos, u[y].pos)
  BY <1>1, <1>3, <1>4 DEF Lists
<1>7. \A q \in S \cup {p} : \E x \in 1 .. Len(u) : u[x].pos = q
  <2> SUFFICES ASSUME NEW q \in S \cup {p} PROVE \E x \in 1 .. Len(u) : u[x].pos = q
    OBVIOUS
  <2>1. CASE q = p
    BY <1>1, <1>3, <1>4, <2>1
  <2>2. CASE q \in S
    BY <1>3, <1>4, <2>2 DEF Lists
  <2> QED BY <2>1, <2>2
<1> QED BY <1>3, <1>5, <1>6, <1>7 DEF Lists, u, m

\* Popping: the head is the message of the first place.
LEMMA ListsHead ==
  ASSUME NEW s, NEW r \in Int, NEW S \in SUBSET Place, Lists(s, r, S), NEW p \in S,
         \A q \in S : q = p \/ Before(p, q)
  PROVE  Head(s) = MsgAt(r, p) /\ Lists(Tail(s), r, S \ {p})
<1>1. s \in Seq(Message) /\ s # <<>> /\ Len(s) \in Nat /\ Len(s) >= 1
  BY ListsNone DEF Lists
<1>2. PICK z \in 1 .. Len(s) : s[z].pos = p
  BY DEF Lists
<1>3. s[1].pos = p
  <2>1. CASE z = 1
    BY <1>2, <2>1
  <2>2. CASE z # 1
    <3>1. 1 \in 1 .. Len(s) /\ 1 < z
      BY <1>1, <2>2
    <3>2. Before(s[1].pos, p) /\ s[1].pos \in S
      BY <1>2, <3>1 DEF Lists
    <3> QED BY <3>2, Order
  <2> QED BY <2>1, <2>2
<1>4. Head(s) = s[1] /\ s[1] = MsgAt(r, p)
  BY <1>1, <1>3 DEF Lists
<1> DEFINE u == Tail(s)
<1>5. /\ u \in Seq(Message) /\ Len(u) = Len(s) - 1
      /\ \A x \in 1 .. Len(u) : u[x] = s[x + 1]
  BY <1>1, HeadTailProperties
<1> HIDE DEF u
<1>6. \A x \in 1 .. Len(u) : u[x] = MsgAt(r, u[x].pos) /\ u[x].pos \in S \ {p}
  <2> SUFFICES ASSUME NEW x \in 1 .. Len(u)
               PROVE  u[x] = MsgAt(r, u[x].pos) /\ u[x].pos \in S \ {p}
    OBVIOUS
  <2>1. x + 1 \in 1 .. Len(s) /\ 1 \in 1 .. Len(s) /\ 1 < x + 1 /\ u[x] = s[x + 1]
    BY <1>1, <1>5
  <2>2. s[x + 1] = MsgAt(r, s[x + 1].pos) /\ s[x + 1].pos \in S /\ Before(p, s[x + 1].pos)
    BY <1>3, <2>1 DEF Lists
  <2> QED BY <2>1, <2>2, Order
<1>7. \A x, y \in 1 .. Len(u) : x < y => Before(u[x].pos, u[y].pos)
  <2> SUFFICES ASSUME NEW x \in 1 .. Len(u), NEW y \in 1 .. Len(u), x < y
               PROVE  Before(u[x].pos, u[y].pos)
    OBVIOUS
  <2>1. /\ x + 1 \in 1 .. Len(s) /\ y + 1 \in 1 .. Len(s) /\ x + 1 < y + 1
        /\ u[x] = s[x + 1] /\ u[y] = s[y + 1]
    BY <1>1, <1>5
  <2> QED BY <2>1 DEF Lists
<1>8. \A q \in S \ {p} : \E x \in 1 .. Len(u) : u[x].pos = q
  <2> SUFFICES ASSUME NEW q \in S \ {p} PROVE \E x \in 1 .. Len(u) : u[x].pos = q
    OBVIOUS
  <2>1. PICK x \in 1 .. Len(s) : s[x].pos = q
    BY DEF Lists
  <2>2. x # 1
    BY <1>3, <2>1
  <2>3. x - 1 \in 1 .. Len(u) /\ u[x - 1] = s[x]
    BY <1>1, <1>5, <2>2
  <2> QED BY <2>1, <2>3
<1> QED BY <1>4, <1>5, <1>6, <1>7, <1>8 DEF Lists, u

-----------------------------------------------------------------------------
(***************************************************************************)
(* The inductive invariant.                                                *)
(***************************************************************************)

\* The nodes with work in the current round, and the work of a node.
Working == IF phase = "end" THEN {} ELSE Workers(job, round)
Plan(n) == IF n \in Working THEN TasksOf(job, round, n) ELSE <<>>

\* The agent has taken the request of the current round, and it is done with it.
Taken(n) == ag[n].round = round
Done(n) == Taken(n) /\ apc[n] = "request"

\* The places whose messages were pushed, popped, and are still in a list.
Pushed(n) == Upto(Plan(n), sendPos[n])
Popped(n) == IF Taken(n) THEN Upto(Plan(n), recvPos[n]) ELSE {}
Pending(n) == Pushed(n) \ Popped(n)

StripeAt(n, q) == Plan(n)[q[1]].stripe
ItemAt(n, q) == Plan(n)[q[1]].tasks[q[2]][q[3]]

CommandsIn(n, k) == {q \in Pending(n) : q[3] = 0 /\ k = <<batch, StripeAt(n, q)>>}
ItemsIn(n, k) == {q \in Pending(n) : q[3] > 0 /\ k = <<batch, StripeAt(n, q), ItemAt(n, q)>>}

\* The rounds are counted up to the end; no agent is ahead of the coordinator,
\* and one that works, works in the current round.
RoundInv ==
  /\ phase = "end" <=> round = NumRounds(job) + 1
  /\ \A n \in Nodes : /\ ag[n].round <= round
                      /\ Taken(n) => n \in Working
                      /\ apc[n] # "request" => Taken(n)

\* Where the threads are: the sender is at a stop of its plan, the agent at
\* one the sender has reached.
PosInv ==
  \A n \in Nodes :
    /\ sendPos[n] = Start \/ (n \in Working /\ sendPos[n] \in Stops(Plan(n)))
    /\ Taken(n) => /\ sendPos[n] # Start /\ recvPos[n] \in Stops(Plan(n))
                   /\ Popped(n) \subseteq Pushed(n)
                   /\ ag[n].cur = curId[n]
    /\ Taken(n) /\ apc[n] # "recv" => recvPos[n] = End(Plan(n))

\* The request of the round is in its list from when it is pushed until it is
\* taken.
RequestInv ==
  \A n \in Nodes :
    agRequest[n] = IF sendPos[n] = Start \/ Taken(n) THEN <<>>
                   ELSE <<[round |-> round, cur |-> curId[n]]>>

\* Each list holds the messages pushed under its key and not yet popped.
CommandInv == \A n \in Nodes, k \in CommandKey : Lists(command[n][k], round, CommandsIn(n, k))
ComputeInv == \A n \in Nodes, k \in ComputeKey : Lists(compute[n][k], round, ItemsIn(n, k))

\* An agent has each message it popped, for the place the message was meant for.
TaskInv ==
  \A n \in Nodes :
    nbtask[n] = IF apc[n] = "request" THEN {} ELSE {<<q, MsgAt(round, q)>> : q \in Popped(n)}

\* Packets of the round that n has to send to m, were sent and were consumed.
Fed(n, m) == phase # "end" /\ <<n, m>> \in Feeds(round)
HasSent(n, m) == Fed(n, m) /\ (Done(n) \/ m \in sentTo[n])
HasConsumed(n, m) == Fed(m, n) /\ (Done(n) \/ m \in recvFrom[n])

\* The packets in a list are those sent and not consumed.
ExchangeInv ==
  /\ \A n \in Nodes : apc[n] # "repair" => sentTo[n] = {} /\ recvFrom[n] = {}
  /\ \A n \in Nodes, m \in Nodes : HasConsumed(n, m) => HasSent(m, n)
  /\ \A n \in Nodes, m \in Nodes, b \in BatchIds :
       packets[n][<<b, m>>] = IF b = batch /\ HasSent(m, n) /\ ~HasConsumed(n, m)
                              THEN <<round>> ELSE <<>>

\* The flag of a node is there from when it is done until it is waited for.
FinishInv ==
  /\ \A n \in waited : Done(n)
  /\ \A b \in BatchIds, c \in CurIds, n \in Nodes :
       finish[<<b, c, n>>] = IF b = batch /\ c = curId[n] /\ Done(n) /\ n \notin waited
                             THEN 1 ELSE 0

IInv ==
  /\ TypeOK /\ RoundInv /\ PosInv /\ RequestInv /\ CommandInv /\ ComputeInv /\ TaskInv
  /\ ExchangeInv /\ FinishInv

-----------------------------------------------------------------------------
(***************************************************************************)
(* What the parts of the invariant say of a state and of a step.           *)
(***************************************************************************)

\* The plans are well formed, and during a round the batch has its keys.
LEMMA PlanOK ==
  ASSUME job \in Jobs, round \in 1 .. NumRounds(job) + 1,
         phase = "end" <=> round = NumRounds(job) + 1
  PROVE  /\ NumRounds(job) \in Nat \ {0} /\ round \in Nat
         /\ Working \subseteq Nodes
         /\ \A n \in Nodes : Plan(n) \in NodeTasks
         /\ \A n \in Working : phase # "end" /\ Plan(n) = TasksOf(job, round, n)
         /\ phase # "end" => /\ round \in 1 .. NumRounds(job) /\ batch \in BatchIds
                             /\ Working = Workers(job, round)
                             /\ \A n, m : <<n, m>> \in Feeds(round) => n \in Working /\ m \in Working
         /\ \A n, m : Fed(n, m) => n \in Working /\ m \in Working
<1>1. NumRounds(job) \in Nat \ {0} /\ round \in Nat
  BY DispatchAssumption
<1>2. phase # "end" => round \in 1 .. NumRounds(job)
  BY <1>1
<1>3. phase # "end" =>
        /\ batch \in BatchIds /\ Working = Workers(job, round) /\ Working \subseteq Nodes
        /\ \A n \in Working : TasksOf(job, round, n) \in NodeTasks
        /\ Feeds(round) \subseteq Working \X Working
  BY <1>2, DispatchAssumption DEF Working, batch, Feeds
<1>4. <<>> \in NodeTasks
  BY DEF NodeTasks
<1>5. phase = "end" => Working = {}
  BY DEF Working
<1> QED BY <1>1, <1>2, <1>3, <1>4, <1>5 DEF Plan, Fed

\* Nothing is pending for a node without work, or with a thread at the start.
LEMMA NoPlaces ==
  /\ Places(<<>>) = {}
  /\ \A n : n \notin Working => Pending(n) = {}
<1>1. Places(<<>>) = {}
  BY DEF Places
<1> QED BY <1>1 DEF Plan, Pending, Pushed, Upto

\* What steps inside a round leave alone.
LEMMA Frames ==
  ASSUME IInv, UNCHANGED <<job, round, phase>>
  PROVE  /\ batch' = batch /\ Working' = Working
         /\ \A n : Plan(n)' = Plan(n) /\ Sending(n)' = Sending(n)
         /\ \A n, m : Fed(n, m)' = Fed(n, m)
         /\ UNCHANGED <<ag, apc>> => RoundInv'
         /\ UNCHANGED <<sendPos, ag, recvPos, apc, curId>> => PosInv'
         /\ UNCHANGED <<sendPos, ag, curId, agRequest>> => RequestInv'
         /\ UNCHANGED command /\ (\A n \in Nodes : Pending(n)' = Pending(n)) => CommandInv'
         /\ UNCHANGED compute /\ (\A n \in Nodes : Pending(n)' = Pending(n)) => ComputeInv'
         /\ UNCHANGED <<ag, recvPos, apc, nbtask>> => TaskInv'
         /\ UNCHANGED <<ag, apc, sentTo, recvFrom, packets>> => ExchangeInv'
         /\ UNCHANGED <<ag, apc, waited, finish, curId>> => FinishInv'
         /\ UNCHANGED <<sendPos, ag, recvPos>> => \A n \in Nodes : Pending(n)' = Pending(n)
<1>1. /\ batch' = batch /\ Working' = Working
      /\ \A n : Plan(n)' = Plan(n) /\ Sending(n)' = Sending(n)
      /\ \A n, m : Fed(n, m)' = Fed(n, m)
  BY DEF batch, Working, Plan, Sending, Fed, Feeds
<1>2. UNCHANGED <<ag, apc>> => RoundInv'
  BY <1>1 DEF IInv, RoundInv, Taken
<1>3. UNCHANGED <<sendPos, ag, recvPos, apc, curId>> => PosInv'
  BY <1>1 DEF IInv, PosInv, Taken, Popped, Pushed
<1>4. UNCHANGED <<sendPos, ag, curId, agRequest>> => RequestInv'
  BY <1>1 DEF IInv, RequestInv, Taken
<1>5. UNCHANGED command /\ (\A n \in Nodes : Pending(n)' = Pending(n)) => CommandInv'
  <2> SUFFICES ASSUME UNCHANGED command, \A n \in Nodes : Pending(n)' = Pending(n),
                      NEW n \in Nodes, NEW k \in CommandKey
               PROVE  Lists(command[n][k], round, CommandsIn(n, k))'
    BY DEF CommandInv
  <2>1. CommandsIn(n, k)' = CommandsIn(n, k)
    BY <1>1 DEF CommandsIn, StripeAt
  <2> QED BY <2>1 DEF IInv, CommandInv, Lists
<1>6. UNCHANGED compute /\ (\A n \in Nodes : Pending(n)' = Pending(n)) => ComputeInv'
  <2> SUFFICES ASSUME UNCHANGED compute, \A n \in Nodes : Pending(n)' = Pending(n),
                      NEW n \in Nodes, NEW k \in ComputeKey
               PROVE  Lists(compute[n][k], round, ItemsIn(n, k))'
    BY DEF ComputeInv
  <2>1. ItemsIn(n, k)' = ItemsIn(n, k)
    BY <1>1 DEF ItemsIn, StripeAt, ItemAt
  <2> QED BY <2>1 DEF IInv, ComputeInv, Lists
<1>7. UNCHANGED <<ag, recvPos, apc, nbtask>> => TaskInv'
  BY <1>1 DEF IInv, TaskInv, Popped, Taken
<1>8. UNCHANGED <<ag, apc, sentTo, recvFrom, packets>> => ExchangeInv'
  BY <1>1 DEF IInv, ExchangeInv, HasSent, HasConsumed, Done, Taken
<1>9. UNCHANGED <<ag, apc, waited, finish, curId>> => FinishInv'
  BY <1>1 DEF IInv, FinishInv, Done, Taken
<1>10. UNCHANGED <<sendPos, ag, recvPos>> => \A n \in Nodes : Pending(n)' = Pending(n)
  BY <1>1 DEF Pending, Pushed, Popped, Taken
<1> QED BY <1>1, <1>2, <1>3, <1>4, <1>5, <1>6, <1>7, <1>8, <1>9, <1>10

\* A sender that pushes the message of its place adds that place, the last, to
\* what is pending.
LEMMA PushStep ==
  ASSUME IInv, NEW n \in Nodes, phase = "send", n \in Workers(job, round), InTasks(n),
         sendPos' = [sendPos EXCEPT ![n] = AfterIn(Sending(n), @)],
         UNCHANGED <<job, round, phase, curId, ag, recvPos, apc>>
  PROVE  /\ Sending(n) = Plan(n) /\ sendPos[n] \in Places(Plan(n)) /\ batch \in BatchIds
         /\ \A q \in Pending(n) : Before(q, sendPos[n])
         /\ Pending(n)' = Pending(n) \cup {sendPos[n]}
         /\ \A m \in Nodes \ {n} : Pending(m)' = Pending(m)
         /\ sendPos' \in [Nodes -> Place] /\ sendPos[n] # Start /\ sendPos'[n] # Start
         /\ PosInv' /\ RoundInv'
<1> DEFINE p == Plan(n)
           pos == sendPos[n]
<1>1. /\ n \in Working /\ Sending(n) = p /\ p \in NodeTasks /\ batch \in BatchIds
      /\ \A m \in Nodes : Plan(m) \in NodeTasks
  BY PlanOK DEF IInv, TypeOK, RoundInv, Sending
<1>2. pos \in Stops(p) /\ pos # Start
  BY DEF IInv, PosInv, InTasks
<1>3. pos \in Places(p)
  BY <1>1, <1>2, AtStop DEF InTasks
<1>4. sendPos'[n] = AfterIn(p, pos) /\ \A m \in Nodes \ {n} : sendPos'[m] = sendPos[m]
  BY <1>1 DEF IInv, TypeOK
<1>5. /\ AfterIn(p, pos) \in Stops(p)
      /\ Upto(p, AfterIn(p, pos)) = Upto(p, pos) \cup {pos}
      /\ pos \notin Upto(p, pos)
  BY <1>1, <1>3, AfterStep
<1>6. /\ batch' = batch /\ Working' = Working /\ \A m : Plan(m)' = Plan(m) /\ Taken(m)' = Taken(m)
      /\ RoundInv'
  BY Frames DEF Taken
<1>7. Pushed(n)' = Pushed(n) \cup {pos} /\ \A m \in Nodes \ {n} : Pushed(m)' = Pushed(m)
  BY <1>4, <1>5, <1>6 DEF Pushed
<1>8. \A m \in Nodes : Popped(m)' = Popped(m)
  BY <1>6 DEF Popped
<1>9. Popped(n) \subseteq Pushed(n) /\ pos \notin Pushed(n)
  BY <1>5 DEF IInv, PosInv, Popped, Pushed
<1>10. Pending(n)' = Pending(n) \cup {pos} /\ \A m \in Nodes \ {n} : Pending(m)' = Pending(m)
  BY <1>7, <1>8, <1>9 DEF Pending
<1>11. Start \notin Stops(p)
  BY <1>1, FirstStop
<1>12. PosInv'
  <2> SUFFICES ASSUME NEW m \in Nodes
               PROVE  /\ (sendPos[m] = Start \/ (m \in Working /\ sendPos[m] \in Stops(Plan(m))))'
                      /\ Taken(m)' => /\ sendPos'[m] # Start /\ recvPos'[m] \in Stops(Plan(m)')
                                      /\ Popped(m)' \subseteq Pushed(m)'
                                      /\ ag'[m].cur = curId'[m]
                      /\ Taken(m)' /\ apc'[m] # "recv" => recvPos'[m] = End(Plan(m)')
    BY DEF PosInv
  <2>1. CASE m = n
    BY <1>1, <1>4, <1>5, <1>6, <1>7, <1>8, <1>11, <2>1 DEF IInv, PosInv
  <2>2. CASE m # n
    BY <1>4, <1>6, <1>7, <1>8, <2>2 DEF IInv, PosInv
  <2> QED BY <2>1, <2>2
<1>13. sendPos' \in [Nodes -> Place]
  BY <1>1, <1>5, StopsArePlaces DEF IInv, TypeOK
<1>14. sendPos'[n] # Start
  BY <1>4, <1>5, <1>11
<1> QED BY <1>1, <1>2, <1>3, <1>6, <1>10, <1>12, <1>13, <1>14 DEF Pending, Pushed, Upto

\* If anything is pending for an agent that is at a place, that place comes first.
LEMMA NextPending ==
  ASSUME IInv, NEW n \in Nodes, Taken(n), recvPos[n] \in Places(Plan(n)), Pending(n) # {}
  PROVE  /\ recvPos[n] \in Pending(n)
         /\ \A q \in Pending(n) : q = recvPos[n] \/ Before(recvPos[n], q)
<1>1. Plan(n) \in NodeTasks /\ Places(Plan(n)) \subseteq Place
  BY PlanOK, StopsArePlaces DEF IInv, TypeOK, RoundInv
<1>2. sendPos[n] \in Place
  BY DEF IInv, TypeOK
<1>3. \A q \in Pending(n) : q \in Place /\ Before(q, sendPos[n]) /\ ~Before(q, recvPos[n])
  BY <1>1 DEF Pending, Pushed, Popped, Upto
<1>4. \A q \in Pending(n) : q = recvPos[n] \/ Before(recvPos[n], q)
  BY <1>1, <1>3, Order
<1>5. Before(recvPos[n], sendPos[n])
  BY <1>1, <1>2, <1>3, <1>4, Order
<1>6. ~Before(recvPos[n], recvPos[n])
  BY <1>1, Order
<1> QED BY <1>4, <1>5, <1>6 DEF Pending, Pushed, Popped, Upto

\* An agent that pops the message of its place takes it from what is pending.
LEMMA PopStep ==
  ASSUME IInv, NEW n \in Nodes, apc[n] = "recv", recvPos[n] \in Pending(n),
         recvPos' = [recvPos EXCEPT ![n] = AfterIn(Plan(n), @)],
         UNCHANGED <<job, round, phase, curId, ag, sendPos, apc>>
  PROVE  /\ Popped(n)' = Popped(n) \cup {recvPos[n]}
         /\ Pending(n)' = Pending(n) \ {recvPos[n]}
         /\ \A m \in Nodes \ {n} : Pending(m)' = Pending(m) /\ Popped(m)' = Popped(m)
         /\ recvPos' \in [Nodes -> Place]
         /\ PosInv' /\ RoundInv'
<1> DEFINE p == Plan(n)
           pos == recvPos[n]
<1>1. p \in NodeTasks /\ pos \in Places(p) /\ Taken(n) /\ pos \in Pushed(n)
  BY PlanOK DEF IInv, TypeOK, RoundInv, Pending, Pushed, Upto
<1>2. recvPos'[n] = AfterIn(p, pos) /\ \A m \in Nodes \ {n} : recvPos'[m] = recvPos[m]
  BY DEF IInv, TypeOK
<1>3. /\ AfterIn(p, pos) \in Stops(p)
      /\ Upto(p, AfterIn(p, pos)) = Upto(p, pos) \cup {pos}
      /\ pos \notin Upto(p, pos)
  BY <1>1, AfterStep
<1>4. /\ batch' = batch /\ Working' = Working /\ \A m : Plan(m)' = Plan(m) /\ Taken(m)' = Taken(m)
      /\ RoundInv'
  BY Frames DEF Taken
<1>5. \A m \in Nodes : Pushed(m)' = Pushed(m)
  BY <1>4 DEF Pushed
<1>6. Popped(n)' = Popped(n) \cup {pos} /\ \A m \in Nodes \ {n} : Popped(m)' = Popped(m)
  BY <1>1, <1>2, <1>3, <1>4 DEF Popped
<1>7. /\ Pending(n)' = Pending(n) \ {pos}
      /\ \A m \in Nodes \ {n} : Pending(m)' = Pending(m)
  BY <1>5, <1>6 DEF Pending
<1>8. PosInv'
  <2> SUFFICES ASSUME NEW m \in Nodes
               PROVE  /\ (sendPos[m] = Start \/ (m \in Working /\ sendPos[m] \in Stops(Plan(m))))'
                      /\ Taken(m)' => /\ sendPos'[m] # Start /\ recvPos'[m] \in Stops(Plan(m)')
                                      /\ Popped(m)' \subseteq Pushed(m)'
                                      /\ ag'[m].cur = curId'[m]
                      /\ Taken(m)' /\ apc'[m] # "recv" => recvPos'[m] = End(Plan(m)')
    BY DEF PosInv
  <2>1. CASE m = n
    BY <1>1, <1>2, <1>3, <1>4, <1>5, <1>6, <2>1 DEF IInv, PosInv
  <2>2. CASE m # n
    BY <1>2, <1>4, <1>5, <1>6, <2>2 DEF IInv, PosInv
  <2> QED BY <2>1, <2>2
<1>9. recvPos' \in [Nodes -> Place]
  BY <1>1, <1>3, StopsArePlaces DEF IInv, TypeOK
<1> QED BY <1>4, <1>6, <1>7, <1>8, <1>9

-----------------------------------------------------------------------------
(***************************************************************************)
(* The invariant is established and preserved, one lemma per action.       *)
(***************************************************************************)

\* All lists are empty and no request was taken at the start.
LEMMA InitIInv == Init => IInv
<1> SUFFICES ASSUME Init PROVE IInv
  OBVIOUS
<1> USE DEF Init
<1>1. /\ NumRounds(job) \in Nat \ {0} /\ CurIdChoices(job, 1) \subseteq CurIds
      /\ round \in 1 .. NumRounds(job) + 1 /\ phase # "end" /\ round # NumRounds(job) + 1
  BY DispatchAssumption
<1>2. \A n \in Nodes : Plan(n) \in NodeTasks
  BY <1>1, PlanOK
<1>3. \A n \in Nodes : ~Taken(n) /\ ~Done(n) /\ Popped(n) = {}
  BY DEF Taken, Done, Popped, NoRequest
<1>4. \A n \in Nodes : Pending(n) = {}
  BY <1>2, FirstStop DEF Pending, Pushed
<1>5. TypeOK
  BY <1>1 DEF TypeOK, Place, Start, NoRequest
<1>6. RoundInv
  BY <1>1, <1>3 DEF RoundInv, NoRequest
<1>7. PosInv
  BY <1>3 DEF PosInv
<1>8. RequestInv
  BY DEF RequestInv
<1>9. CommandInv /\ ComputeInv
  BY <1>4, ListsEmpty DEF CommandInv, ComputeInv, CommandsIn, ItemsIn
<1>10. TaskInv
  BY DEF TaskInv
<1>11. ExchangeInv
  BY <1>3 DEF ExchangeInv, HasSent, HasConsumed, PacketKey
<1>12. FinishInv
  BY <1>3 DEF FinishInv, FinishKey
<1> QED BY <1>5, <1>6, <1>7, <1>8, <1>9, <1>10, <1>11, <1>12 DEF IInv

\* The request is pushed: nothing is pending yet.
LEMMA SendAGCommandStep ==
  ASSUME IInv, NEW n \in Nodes, SendAGCommand(n) PROVE IInv'
<1> USE DEF SendAGCommand, agentVars
<1>1. n \in Working /\ Plan(n) \in NodeTasks
  BY PlanOK DEF IInv, TypeOK, RoundInv
<1>2. /\ sendPos'[n] = First /\ First # Start /\ First \in Place
      /\ \A m \in Nodes \ {n} : sendPos'[m] = sendPos[m]
  BY DEF IInv, TypeOK, First, Start, Place
<1>3. ~Taken(n) /\ agRequest[n] = <<>>
  BY DEF IInv, PosInv, RequestInv
<1>4. /\ Working' = Working /\ \A m : Plan(m)' = Plan(m) /\ Taken(m)' = Taken(m)
      /\ RoundInv' /\ TaskInv' /\ ExchangeInv' /\ FinishInv'
  BY Frames DEF Taken
<1>5. \A m \in Nodes : Pushed(m)' = Pushed(m) /\ Popped(m)' = Popped(m)
  BY <1>1, <1>2, <1>4, FirstStop DEF Pushed, Popped
<1>6. CommandInv' /\ ComputeInv'
  BY <1>5, Frames DEF Pending
<1>7. First \in Stops(Plan(n))
  BY <1>1, FirstStop
<1>8. PosInv'
  BY <1>1, <1>2, <1>3, <1>4, <1>5, <1>7 DEF IInv, PosInv
<1>9. RequestInv'
  BY <1>2, <1>3, <1>4 DEF IInv, RequestInv, TypeOK
<1>10. [round |-> round, cur |-> curId[n]] \in [round : Int, cur : Int]
  <2>1. round \in Int
    BY PlanOK DEF IInv, TypeOK, RoundInv
  <2>2. curId[n] \in Int
    BY DispatchAssumption DEF IInv, TypeOK
  <2> QED BY <2>1, <2>2
<1>11. TypeOK'
  BY <1>2, <1>10 DEF IInv, TypeOK
<1> QED BY <1>4, <1>6, <1>8, <1>9, <1>11 DEF IInv

\* The message of a task is appended to the list of its stripe.
LEMMA SendTaskCommandStep ==
  ASSUME IInv, NEW n \in Nodes, SendTaskCommand(n) PROVE IInv'
<1> USE DEF SendTaskCommand, agentVars
<1> DEFINE pos == sendPos[n]
           key == <<batch, StripeAt(n, pos)>>
<1>1. /\ Sending(n) = Plan(n) /\ pos \in Places(Plan(n)) /\ batch \in BatchIds
      /\ \A q \in Pending(n) : Before(q, pos)
      /\ Pending(n)' = Pending(n) \cup {pos}
      /\ \A m \in Nodes \ {n} : Pending(m)' = Pending(m)
      /\ sendPos' \in [Nodes -> Place] /\ pos # Start /\ sendPos'[n] # Start
      /\ PosInv' /\ RoundInv'
  BY PushStep
<1>2. Plan(n) \in NodeTasks /\ pos \in Place /\ StripeAt(n, pos) \in StripeIds
  BY <1>1, PlanOK, PlaceOf, StopsArePlaces DEF IInv, TypeOK, RoundInv, StripeAt
<1>3. /\ batch' = batch /\ \A m : Plan(m)' = Plan(m)
      /\ TaskInv' /\ ExchangeInv' /\ FinishInv'
  BY Frames
<1>4. \A m \in Nodes : \A k : ItemsIn(m, k)' = ItemsIn(m, k)
  <2>1. \A m \in Nodes : \A q : StripeAt(m, q)' = StripeAt(m, q) /\ ItemAt(m, q)' = ItemAt(m, q)
    BY <1>3 DEF StripeAt, ItemAt
  <2>2. \A m \in Nodes : \A k : ItemsIn(m, k)' =
          {q \in Pending(m)' : q[3] > 0 /\ k = <<batch, StripeAt(m, q), ItemAt(m, q)>>}
    BY <1>3, <2>1 DEF ItemsIn
  <2> QED BY <1>1, <2>2 DEF ItemsIn
<1>5. ComputeInv'
  BY <1>4 DEF IInv, ComputeInv, Lists
<1>6. \A m \in Nodes : \A k : CommandsIn(m, k)' =
        IF m = n /\ k = key THEN CommandsIn(m, k) \cup {pos} ELSE CommandsIn(m, k)
  BY <1>1, <1>3 DEF CommandsIn, StripeAt
<1>7. key \in CommandKey /\ Msg(n) = MsgAt(round, pos)
  BY <1>1, <1>2 DEF CommandKey, Msg, MsgAt
<1>8. \A m \in Nodes, k \in CommandKey : command'[m][k] =
        IF m = n /\ k = key THEN Append(command[m][k], MsgAt(round, pos)) ELSE command[m][k]
  BY <1>1, <1>7 DEF IInv, TypeOK, StripeAt
<1>9. round \in Int
  BY PlanOK DEF IInv, TypeOK, RoundInv
<1>10. CommandInv'
  <2> SUFFICES ASSUME NEW m \in Nodes, NEW k \in CommandKey
               PROVE  Lists(command[m][k], round, CommandsIn(m, k))'
    BY DEF CommandInv
  <2> SUFFICES Lists(command'[m][k], round', CommandsIn(m, k)')
    BY DEF Lists
  <2>1. Lists(command[m][k], round, CommandsIn(m, k))
    BY DEF IInv, CommandInv
  <2>2. CASE m = n /\ k = key
    <3>1. \A q \in CommandsIn(m, k) : Before(q, pos)
      BY <1>1, <2>2 DEF CommandsIn
    <3>2. Lists(Append(command[m][k], MsgAt(round, pos)), round, CommandsIn(m, k) \cup {pos})
      BY <1>2, <1>9, <2>1, <3>1, ListsAppend
    <3> QED BY <1>6, <1>8, <2>2, <3>2
  <2>3. CASE ~(m = n /\ k = key)
    BY <1>6, <1>8, <2>1, <2>3
  <2> QED BY <2>2, <2>3
<1>11. RequestInv'
  BY <1>1 DEF IInv, RequestInv, Taken, TypeOK
<1>12. MsgAt(round, pos) \in Message
  BY <1>2, <1>9 DEF MsgAt, Message
<1>13. command' \in [Nodes -> [CommandKey -> Seq(Message)]]
  <2>1. Append(command[n][key], Msg(n)) \in Seq(Message)
    BY <1>7, <1>12 DEF IInv, TypeOK
  <2>2. command' = [command EXCEPT ![n][key] = Append(command[n][key], Msg(n))]
    BY <1>1 DEF StripeAt
  <2>3. command \in [Nodes -> [CommandKey -> Seq(Message)]]
    BY DEF IInv, TypeOK
  <2> HIDE DEF key, SendTaskCommand
  <2> QED BY <1>7, <2>1, <2>2, <2>3
<1>14. TypeOK'
  BY <1>1, <1>13 DEF IInv, TypeOK
<1> QED BY <1>1, <1>3, <1>5, <1>10, <1>11, <1>14 DEF IInv

\* The message of a compute item is appended to the list of its dagidx.
LEMMA SendComputeItemStep ==
  ASSUME IInv, NEW n \in Nodes, SendComputeItem(n) PROVE IInv'
<1> DEFINE pos == sendPos[n]
           key == <<batch, StripeAt(n, pos), ItemAt(n, pos)>>
<1>guard. /\ phase = "send" /\ n \in Workers(job, round) /\ InTasks(n) /\ pos[3] > 0
  BY DEF SendComputeItem
<1>item. pos[3] > 0
  BY <1>guard
<1>same. UNCHANGED <<job, round, phase, curId, waited, finish, agRequest, command, packets,
                  apc, ag, recvPos, nbtask, sentTo, recvFrom>>
  BY DEF SendComputeItem, agentVars
<1>push. /\ compute' = [compute EXCEPT ![n][<<batch, Sending(n)[pos[1]].stripe,
                        Sending(n)[pos[1]].tasks[pos[2]][pos[3]]>>] = Append(@, Msg(n))]
      /\ sendPos' = [sendPos EXCEPT ![n] = AfterIn(Sending(n), @)]
  BY DEF SendComputeItem
<1>1. /\ Sending(n) = Plan(n) /\ pos \in Places(Plan(n)) /\ batch \in BatchIds
      /\ \A q \in Pending(n) : Before(q, pos)
      /\ Pending(n)' = Pending(n) \cup {pos}
      /\ \A m \in Nodes \ {n} : Pending(m)' = Pending(m)
      /\ sendPos' \in [Nodes -> Place] /\ pos # Start /\ sendPos'[n] # Start
      /\ PosInv' /\ RoundInv'
  BY <1>guard, <1>same, <1>push, PushStep
<1>2. Plan(n) \in NodeTasks
  BY PlanOK DEF IInv, TypeOK, RoundInv
<1>3. pos \in Place /\ pos[3] # 0 /\ StripeAt(n, pos) \in StripeIds /\ ItemAt(n, pos) \in DagIdxs
  <2>1. /\ pos \in Nat \X Nat \X Nat /\ pos[3] \in 0 .. Len(Plan(n)[pos[1]].tasks[pos[2]])
        /\ Plan(n)[pos[1]].stripe \in StripeIds
        /\ Plan(n)[pos[1]].tasks[pos[2]] \in Seq(DagIdxs)
    BY <1>1, <1>2, PlaceOf
  <2>2. pos[3] \in 1 .. Len(Plan(n)[pos[1]].tasks[pos[2]])
    BY <1>item, <2>1
  <2>3. pos \in Place /\ pos[3] # 0
    BY <1>item, <1>1, <1>2, <2>1, StopsArePlaces
  <2>4. ItemAt(n, pos) \in DagIdxs
    BY <2>1, <2>2 DEF ItemAt
  <2> QED BY <2>1, <2>3, <2>4 DEF StripeAt
<1>4. /\ batch' = batch /\ \A m : Plan(m)' = Plan(m)
      /\ TaskInv' /\ ExchangeInv' /\ FinishInv'
  BY <1>same, Frames
<1>5. \A m \in Nodes : \A k : CommandsIn(m, k)' = CommandsIn(m, k)
  BY <1>1, <1>3, <1>4 DEF CommandsIn, StripeAt
<1>6. CommandInv'
  BY <1>same, <1>5 DEF IInv, CommandInv, Lists
<1>7. \A m \in Nodes : \A k : ItemsIn(m, k)' =
        IF m = n /\ k = key THEN ItemsIn(m, k) \cup {pos} ELSE ItemsIn(m, k)
  <2>1. \A m \in Nodes : \A q : StripeAt(m, q)' = StripeAt(m, q) /\ ItemAt(m, q)' = ItemAt(m, q)
    BY <1>4 DEF StripeAt, ItemAt
  <2>2. \A m \in Nodes : \A k : ItemsIn(m, k)' =
          {q \in Pending(m)' : q[3] > 0 /\ k = <<batch, StripeAt(m, q), ItemAt(m, q)>>}
    BY <1>4, <2>1 DEF ItemsIn
  <2> QED BY <1>item, <1>1, <2>2 DEF ItemsIn
<1>8. key \in ComputeKey /\ Msg(n) = MsgAt(round, pos)
  BY <1>1, <1>3 DEF ComputeKey, Msg, MsgAt
<1>9. \A m \in Nodes, k \in ComputeKey : compute'[m][k] =
        IF m = n /\ k = key THEN Append(compute[m][k], MsgAt(round, pos)) ELSE compute[m][k]
  BY <1>push, <1>1, <1>8 DEF IInv, TypeOK, StripeAt, ItemAt
<1>10. round \in Int
  BY PlanOK DEF IInv, TypeOK, RoundInv
<1>11. ComputeInv'
  <2> SUFFICES ASSUME NEW m \in Nodes, NEW k \in ComputeKey
               PROVE  Lists(compute[m][k], round, ItemsIn(m, k))'
    BY DEF ComputeInv
  <2> SUFFICES Lists(compute'[m][k], round', ItemsIn(m, k)')
    BY DEF Lists
  <2>1. Lists(compute[m][k], round, ItemsIn(m, k))
    BY DEF IInv, ComputeInv
  <2>2. CASE m = n /\ k = key
    <3>1. \A q \in ItemsIn(m, k) : Before(q, pos)
      BY <1>1, <2>2 DEF ItemsIn
    <3>2. Lists(Append(compute[m][k], MsgAt(round, pos)), round, ItemsIn(m, k) \cup {pos})
      BY <1>3, <1>10, <2>1, <3>1, ListsAppend
    <3> QED BY <1>same, <1>7, <1>9, <2>2, <3>2
  <2>3. CASE ~(m = n /\ k = key)
    BY <1>same, <1>7, <1>9, <2>1, <2>3
  <2> QED BY <2>2, <2>3
<1>12. RequestInv'
  BY <1>same, <1>push, <1>1 DEF IInv, RequestInv, Taken, TypeOK
<1>13. compute' \in [Nodes -> [ComputeKey -> Seq(Message)]]
  <2>1. MsgAt(round, pos) \in Message
    BY <1>3, <1>10 DEF MsgAt, Message
  <2>2. Append(compute[n][key], Msg(n)) \in Seq(Message)
    BY <1>8, <2>1 DEF IInv, TypeOK
  <2>3. compute' = [compute EXCEPT ![n][key] = Append(compute[n][key], Msg(n))]
    BY <1>push, <1>1 DEF StripeAt, ItemAt
  <2>4. compute \in [Nodes -> [ComputeKey -> Seq(Message)]]
    BY DEF IInv, TypeOK
  <2> HIDE DEF key
  <2> QED BY <1>8, <2>2, <2>3, <2>4
<1>14. TypeOK'
  BY <1>same, <1>1, <1>13 DEF IInv, TypeOK
<1> QED BY <1>1, <1>4, <1>6, <1>11, <1>12, <1>14 DEF IInv

\* The coordinator turns to waiting: it is still the same round.
LEMMA AllSentStep ==
  ASSUME IInv, AllSent PROVE IInv'
<1> USE DEF AllSent, listVars, agentVars
<1>1. /\ batch' = batch /\ Working' = Working
      /\ \A n : Plan(n)' = Plan(n) /\ Taken(n)' = Taken(n)
      /\ \A n, m : Fed(n, m)' = Fed(n, m)
  BY DEF batch, Working, Plan, Taken, Fed, Feeds
<1>2. RoundInv'
  BY <1>1 DEF IInv, RoundInv
<1>3. \A n : Pushed(n)' = Pushed(n) /\ Popped(n)' = Popped(n)
  BY <1>1 DEF Pushed, Popped
<1>4. PosInv'
  BY <1>1, <1>3 DEF IInv, PosInv
<1>5. RequestInv' /\ TaskInv'
  BY <1>1, <1>3 DEF IInv, RequestInv, TaskInv
<1>6. \A n, k : CommandsIn(n, k)' = CommandsIn(n, k) /\ ItemsIn(n, k)' = ItemsIn(n, k)
  BY <1>1, <1>3 DEF CommandsIn, ItemsIn, Pending, StripeAt, ItemAt
<1>7. CommandInv' /\ ComputeInv'
  BY <1>6 DEF IInv, CommandInv, ComputeInv, Lists
<1>8. ExchangeInv'
  BY <1>1 DEF IInv, ExchangeInv, HasSent, HasConsumed, Done
<1>9. FinishInv'
  BY <1>1 DEF IInv, FinishInv, Done
<1>10. TypeOK'
  BY DEF IInv, TypeOK
<1> QED BY <1>2, <1>4, <1>5, <1>7, <1>8, <1>9, <1>10 DEF IInv

\* A flag is there only for a node that is done.
LEMMA WaitFinishFlagStep ==
  ASSUME IInv, NEW n \in Nodes, WaitFinishFlag(n) PROVE IInv'
<1> USE DEF WaitFinishFlag, agentVars
<1> DEFINE key == <<batch, curId[n], n>>
<1>1. batch \in BatchIds /\ curId[n] \in CurIds
  BY PlanOK DEF IInv, TypeOK, RoundInv
<1>2. key \in FinishKey
  BY <1>1 DEF FinishKey
<1>3. finish[key] = 1 /\ Done(n)
  BY <1>1 DEF IInv, FinishInv
<1>4. /\ batch' = batch /\ \A m : Done(m)' = Done(m)
      /\ RoundInv' /\ PosInv' /\ RequestInv' /\ CommandInv' /\ ComputeInv' /\ TaskInv'
      /\ ExchangeInv'
  BY Frames DEF Done, Taken
<1>5. finish' = [finish EXCEPT ![key] = 0]
  BY <1>3
<1>6. FinishInv'
  <2>1. \A m \in waited' : Done(m)'
    BY <1>3, <1>4 DEF IInv, FinishInv
  <2>2. ASSUME NEW b \in BatchIds, NEW c \in CurIds, NEW m \in Nodes
        PROVE  finish'[<<b, c, m>>] = IF b = batch' /\ c = curId'[m] /\ Done(m)' /\ m \notin waited'
                                      THEN 1 ELSE 0
    <3>1. <<b, c, m>> \in FinishKey
      BY DEF FinishKey
    <3>2. finish'[<<b, c, m>>] = IF <<b, c, m>> = key THEN 0 ELSE finish[<<b, c, m>>]
      BY <1>5, <3>1 DEF IInv, TypeOK
    <3>3. finish[<<b, c, m>>] = IF b = batch /\ c = curId[m] /\ Done(m) /\ m \notin waited
                                THEN 1 ELSE 0
      BY DEF IInv, FinishInv
    <3> QED BY <1>4, <3>2, <3>3
  <2> QED BY <2>1, <2>2 DEF FinishInv
<1>7. TypeOK'
  <2>1. finish' \in [FinishKey -> Nat]
    BY <1>2, <1>5 DEF IInv, TypeOK
  <2> QED BY <2>1 DEF IInv, TypeOK
<1> QED BY <1>4, <1>6, <1>7 DEF IInv

\* When the waiters are joined every node of the round is done, and nothing of
\* it is left in any list.
LEMMA RoundIsOver ==
  ASSUME IInv, Working \subseteq waited
  PROVE  \A n \in Nodes :
           /\ Taken(n) <=> n \in Working
           /\ apc[n] = "request" /\ agRequest[n] = <<>> /\ Pending(n) = {}
           /\ nbtask[n] = {} /\ sentTo[n] = {} /\ recvFrom[n] = {}
           /\ \A k \in CommandKey : command[n][k] = <<>>
           /\ \A k \in ComputeKey : compute[n][k] = <<>>
           /\ \A k \in PacketKey : packets[n][k] = <<>>
           /\ \A b \in BatchIds, c \in CurIds : finish[<<b, c, n>>] = 0
<1>1. \A n \in Working : Done(n)
  BY DEF IInv, FinishInv
<1>2. \A n \in Nodes : Taken(n) <=> n \in Working
  BY <1>1 DEF IInv, RoundInv, Done
<1>3. \A n \in Nodes : apc[n] = "request"
  BY <1>1, <1>2 DEF IInv, RoundInv, Done
<1>4. \A n \in Nodes : Pending(n) = {}
  <2> SUFFICES ASSUME NEW n \in Working, n \in Nodes PROVE Pending(n) = {}
    BY NoPlaces
  <2>1. recvPos[n] = End(Plan(n)) /\ Plan(n) \in NodeTasks
    BY <1>2, <1>3, PlanOK DEF IInv, TypeOK, RoundInv, PosInv
  <2> QED BY <1>2, <2>1, EndStop DEF Pending, Pushed, Popped, Upto
<1>5. \A n \in Nodes : agRequest[n] = <<>>
  BY <1>2 DEF IInv, PosInv, RequestInv
<1>6. \A n \in Nodes : nbtask[n] = {} /\ sentTo[n] = {} /\ recvFrom[n] = {}
  BY <1>3 DEF IInv, TaskInv, ExchangeInv
<1>7. \A n \in Nodes : /\ \A k \in CommandKey : command[n][k] = <<>>
                       /\ \A k \in ComputeKey : compute[n][k] = <<>>
  <2>1. \A n \in Nodes : \A k : CommandsIn(n, k) = {} /\ ItemsIn(n, k) = {}
    BY <1>4 DEF CommandsIn, ItemsIn
  <2>2. \A n \in Nodes, k \in CommandKey : command[n][k] = <<>>
    BY <2>1, ListsNone DEF IInv, CommandInv
  <2>3. \A n \in Nodes, k \in ComputeKey : compute[n][k] = <<>>
    BY <2>1, ListsNone DEF IInv, ComputeInv
  <2> QED BY <2>2, <2>3
<1>8. \A n \in Nodes, m \in Nodes : HasSent(m, n) => HasConsumed(n, m)
  BY <1>1, PlanOK DEF IInv, TypeOK, RoundInv, HasSent, HasConsumed
<1>9. \A n \in Nodes : \A k \in PacketKey : packets[n][k] = <<>>
  BY <1>8 DEF IInv, ExchangeInv, PacketKey
<1>10. \A n \in Nodes, b \in BatchIds, c \in CurIds : finish[<<b, c, n>>] = 0
  BY <1>2 DEF IInv, FinishInv, Done
<1> QED BY <1>2, <1>3, <1>4, <1>5, <1>6, <1>7, <1>9, <1>10

\* The next round begins with empty lists and no request taken.
LEMMA RoundDoneStep ==
  ASSUME IInv, RoundDone PROVE IInv'
<1>guard. phase = "wait" /\ Workers(job, round) \subseteq waited
  BY DEF RoundDone
<1>same. UNCHANGED <<job, finish, agRequest, command, compute, packets,
                     apc, ag, recvPos, nbtask, sentTo, recvFrom>>
  BY DEF RoundDone, listVars, agentVars
<1>next. /\ round' = round + 1 /\ waited' = {} /\ sendPos' = [n \in Nodes |-> Start]
         /\ phase' = IF round < NumRounds(job) THEN "send" ELSE "end"
         /\ curId' \in IF round < NumRounds(job) THEN [Nodes -> CurIdChoices(job, round + 1)]
                       ELSE {curId}
  BY DEF RoundDone
<1>1. /\ NumRounds(job) \in Nat /\ round \in Nat /\ round \in 1 .. NumRounds(job)
      /\ Working = Workers(job, round)
  BY <1>guard, PlanOK DEF IInv, TypeOK, RoundInv
<1>2. \A n \in Nodes :
        /\ apc[n] = "request" /\ agRequest[n] = <<>>
        /\ nbtask[n] = {} /\ sentTo[n] = {} /\ recvFrom[n] = {}
        /\ \A k \in CommandKey : command[n][k] = <<>>
        /\ \A k \in ComputeKey : compute[n][k] = <<>>
        /\ \A k \in PacketKey : packets[n][k] = <<>>
        /\ \A b \in BatchIds, c \in CurIds : finish[<<b, c, n>>] = 0
  BY <1>guard, <1>1, RoundIsOver
<1>3. /\ NumRounds(job)' = NumRounds(job) /\ round' \in 1 .. NumRounds(job) + 1
      /\ phase' = "end" <=> round' = NumRounds(job) + 1
  BY <1>same, <1>next, <1>1 DEF NumRounds
<1>4. \A n \in Nodes : ag[n].round <= round /\ ag[n].round \in Int
  BY DEF IInv, RoundInv, TypeOK
<1>5. \A n \in Nodes : ~Taken(n)'
  BY <1>same, <1>next, <1>1, <1>4 DEF Taken
<1>6. \A n \in Nodes : ag'[n].round <= round'
  BY <1>same, <1>next, <1>1, <1>4
<1>7. TypeOK'
  <2>1. curId' \in [Nodes -> CurIds]
    <3>1. CASE round < NumRounds(job)
      <4>1. CurIdChoices(job, round + 1) \subseteq CurIds
        BY <1>1, <3>1, DispatchAssumption DEF IInv, TypeOK
      <4> QED BY <1>next, <3>1, <4>1
    <3>2. CASE ~(round < NumRounds(job))
      BY <1>next, <3>2 DEF IInv, TypeOK
    <3> QED BY <3>1, <3>2
  <2>2. sendPos' \in [Nodes -> Place] /\ waited' \subseteq Nodes /\ phase' \in {"send", "wait", "end"}
    BY <1>next DEF Place, Start
  <2> QED BY <1>same, <1>3, <2>1, <2>2 DEF IInv, TypeOK
<1>8. RoundInv'
  BY <1>same, <1>2, <1>3, <1>5, <1>6 DEF RoundInv
<1>9. PosInv'
  BY <1>next, <1>5 DEF PosInv
<1>10. RequestInv'
  BY <1>same, <1>next, <1>2 DEF RequestInv
<1>11. \A n \in Nodes : Plan(n)' \in NodeTasks
  <2>1. job' \in Jobs /\ round' \in 1 .. NumRounds(job') + 1
    BY <1>same, <1>3 DEF IInv, TypeOK
  <2>2. Working' = IF phase' = "end" THEN {} ELSE Workers(job', round')
    BY DEF Working
  <2>3. ASSUME NEW n \in Working' PROVE TasksOf(job', round', n) \in NodeTasks
    <3>1. round' \in 1 .. NumRounds(job') /\ n \in Workers(job', round')
      BY <1>same, <1>1, <1>3, <2>1, <2>2, <2>3
    <3> QED BY <2>1, <3>1, DispatchAssumption
  <2>4. <<>> \in NodeTasks
    BY DEF NodeTasks
  <2> QED BY <2>3, <2>4 DEF Plan
<1>12. \A n \in Nodes : Pushed(n)' = {}
  BY <1>next, <1>11, FirstStop DEF Pushed
<1>13. CommandInv' /\ ComputeInv'
  <2>1. \A n \in Nodes : \A k : CommandsIn(n, k)' = {} /\ ItemsIn(n, k)' = {}
    BY <1>12 DEF CommandsIn, ItemsIn, Pending
  <2>2. /\ \A n \in Nodes, k \in CommandKey : command'[n][k] = <<>>
        /\ \A n \in Nodes, k \in ComputeKey : compute'[n][k] = <<>>
    BY <1>same, <1>2
  <2>3. /\ \A n \in Nodes, k \in CommandKey : Lists(command'[n][k], round', CommandsIn(n, k)')
        /\ \A n \in Nodes, k \in ComputeKey : Lists(compute'[n][k], round', ItemsIn(n, k)')
    BY <2>1, <2>2, ListsEmpty
  <2> QED BY <2>3 DEF CommandInv, ComputeInv, Lists
<1>14. TaskInv'
  BY <1>same, <1>2 DEF TaskInv
<1>15. \A n \in Nodes, m \in Nodes : ~HasSent(n, m)' /\ ~HasConsumed(n, m)'
  BY <1>same, <1>2, <1>5 DEF HasSent, HasConsumed, Done
<1>16. ExchangeInv'
  BY <1>same, <1>2, <1>15 DEF ExchangeInv, PacketKey
<1>17. FinishInv'
  BY <1>same, <1>next, <1>2, <1>5 DEF FinishInv, Done
<1> QED BY <1>7, <1>8, <1>9, <1>10, <1>13, <1>14, <1>16, <1>17 DEF IInv

\* The agent takes the request of the round: nothing is popped yet.
LEMMA ReadInstructionsStep ==
  ASSUME IInv, NEW n \in Nodes, ReadInstructions(n) PROVE IInv'
<1>guard. apc[n] = "request" /\ agRequest[n] # <<>>
  BY DEF ReadInstructions
<1>same. UNCHANGED <<job, round, phase, curId, sendPos, waited, finish, command, compute, packets,
                     nbtask, sentTo, recvFrom>>
  BY DEF ReadInstructions, coorVars
<1>1. /\ sendPos[n] # Start /\ ~Taken(n) /\ agRequest[n] = <<[round |-> round, cur |-> curId[n]]>>
  BY <1>guard DEF IInv, RequestInv
<1>take. /\ ag' = [ag EXCEPT ![n] = [round |-> round, cur |-> curId[n]]]
         /\ agRequest' = [agRequest EXCEPT ![n] = <<>>]
         /\ recvPos' = [recvPos EXCEPT ![n] = First]
         /\ apc' = [apc EXCEPT ![n] = "recv"]
  BY <1>1 DEF ReadInstructions, IInv, TypeOK
<1>2. /\ n \in Working /\ Plan(n) \in NodeTasks /\ round \in Int /\ curId[n] \in Int
      /\ First \in Stops(Plan(n)) /\ Upto(Plan(n), First) = {} /\ First \in Place
  <2>1. n \in Working /\ sendPos[n] \in Stops(Plan(n))
    BY <1>1 DEF IInv, PosInv
  <2>2. Plan(n) \in NodeTasks /\ round \in Int
    BY PlanOK DEF IInv, TypeOK, RoundInv
  <2>3. curId[n] \in Int
    BY DispatchAssumption DEF IInv, TypeOK
  <2> QED BY <2>1, <2>2, <2>3, FirstStop, StopsArePlaces
<1>3. /\ batch' = batch /\ Working' = Working /\ \A m : Plan(m)' = Plan(m)
      /\ \A m, k : Fed(m, k)' = Fed(m, k)
  BY <1>same, Frames
<1>4. /\ ag'[n] = [round |-> round, cur |-> curId[n]] /\ recvPos'[n] = First /\ apc'[n] = "recv"
      /\ agRequest'[n] = <<>>
      /\ \A m \in Nodes \ {n} : /\ ag'[m] = ag[m] /\ recvPos'[m] = recvPos[m] /\ apc'[m] = apc[m]
                                /\ agRequest'[m] = agRequest[m]
  BY <1>take DEF IInv, TypeOK
<1>5. Taken(n)' /\ \A m \in Nodes \ {n} : Taken(m)' = Taken(m)
  BY <1>same, <1>4 DEF Taken
<1>6. \A m \in Nodes : Popped(m)' = Popped(m) /\ Pushed(m)' = Pushed(m) /\ Done(m)' = Done(m)
  <2>1. Popped(n)' = {} /\ Popped(n) = {} /\ ~Done(n)' /\ ~Done(n)
    BY <1>1, <1>2, <1>3, <1>4, <1>5 DEF Popped, Done
  <2> QED BY <1>same, <1>3, <1>4, <1>5, <2>1 DEF Popped, Pushed, Done
<1>7. TypeOK'
  <2>1. agRequest'[n] \in Seq([round : Int, cur : Int]) /\ ag'[n] \in [round : Int, cur : Int]
    BY <1>2, <1>4
  <2> QED BY <1>same, <1>take, <1>2, <2>1 DEF IInv, TypeOK
<1>8. RoundInv'
  BY <1>same, <1>2, <1>3, <1>4, <1>5 DEF IInv, RoundInv, NumRounds
<1>9. PosInv'
  <2> SUFFICES ASSUME NEW m \in Nodes
               PROVE  /\ sendPos'[m] = Start \/ (m \in Working' /\ sendPos'[m] \in Stops(Plan(m)'))
                      /\ Taken(m)' => /\ sendPos'[m] # Start /\ recvPos'[m] \in Stops(Plan(m)')
                                      /\ Popped(m)' \subseteq Pushed(m)'
                                      /\ ag'[m].cur = curId'[m]
                      /\ Taken(m)' /\ apc'[m] # "recv" => recvPos'[m] = End(Plan(m)')
    BY DEF PosInv
  <2>1. CASE m = n
    <3>1. Popped(n)' = {}
      BY <1>1, <1>6 DEF Popped
    <3> QED BY <1>same, <1>1, <1>2, <1>3, <1>4, <2>1, <3>1 DEF IInv, PosInv
  <2>2. CASE m # n
    BY <1>same, <1>3, <1>4, <1>5, <1>6, <2>2 DEF IInv, PosInv
  <2> QED BY <2>1, <2>2
<1>10. RequestInv'
  BY <1>same, <1>4, <1>5 DEF IInv, RequestInv
<1>11. CommandInv' /\ ComputeInv'
  BY <1>same, <1>6, Frames DEF Pending
<1>12. TaskInv'
  <2>1. nbtask'[n] = {} /\ Popped(n)' = {}
    BY <1>same, <1>guard, <1>1, <1>6 DEF IInv, TaskInv, Popped
  <2>2. \A m \in Nodes \ {n} : nbtask'[m] = IF apc'[m] = "request" THEN {}
                                         ELSE {<<q, MsgAt(round', q)>> : q \in Popped(m)'}
    <3>1. \A m \in Nodes \ {n} : nbtask[m] = IF apc[m] = "request" THEN {}
                                            ELSE {<<q, MsgAt(round, q)>> : q \in Popped(m)}
      BY DEF IInv, TaskInv
    <3>2. /\ nbtask' = nbtask /\ round' = round
          /\ \A m \in Nodes \ {n} : apc'[m] = apc[m] /\ Popped(m)' = Popped(m)
      BY <1>same, <1>4, <1>6
    <3> QED BY ONLY <3>1, <3>2
  <2> QED BY <1>4, <2>1, <2>2 DEF TaskInv
<1>13. ExchangeInv'
  BY <1>same, <1>guard, <1>3, <1>4, <1>6 DEF IInv, ExchangeInv, HasSent, HasConsumed
<1>14. FinishInv'
  BY <1>same, <1>3, <1>6 DEF IInv, FinishInv, TypeOK
<1> QED BY <1>7, <1>8, <1>9, <1>10, <1>11, <1>12, <1>13, <1>14 DEF IInv

\* An agent that receives looks at its plan of the current round.
LEMMA AnnouncedPlan ==
  ASSUME IInv, NEW n \in Nodes, apc[n] # "request"
  PROVE  /\ Taken(n) /\ n \in Working /\ Announced(n) = Plan(n) /\ AgBatch(n) = batch
         /\ batch \in BatchIds /\ Plan(n) \in NodeTasks /\ round \in Int
         /\ recvPos[n] \in Stops(Plan(n)) /\ ag[n].cur = curId[n] /\ ag[n].round = round
         /\ \A m : <<n, m>> \in Feeds(round) => Fed(n, m) /\ m \in Nodes
         /\ \A m : <<m, n>> \in Feeds(round) => Fed(m, n) /\ m \in Nodes
<1>1. Taken(n) /\ n \in Working /\ ag[n].round = round
  BY DEF IInv, RoundInv, Taken
<1>2. /\ phase # "end" /\ Plan(n) = TasksOf(job, round, n) /\ Plan(n) \in NodeTasks
      /\ batch \in BatchIds /\ round \in Int
  BY <1>1, PlanOK DEF IInv, TypeOK, RoundInv
<1>3. \A i, m : <<i, m>> \in Feeds(round) => i \in Nodes /\ m \in Nodes
  BY <1>2, PlanOK DEF IInv, TypeOK, RoundInv
<1>4. recvPos[n] \in Stops(Plan(n)) /\ ag[n].cur = curId[n]
  BY <1>1 DEF IInv, PosInv
<1> QED BY <1>1, <1>2, <1>3, <1>4 DEF Announced, AgBatch, batch, Fed

\* An agent that takes the message of its place still has the messages it popped.
LEMMA TaskGrows ==
  ASSUME IInv, NEW n \in Nodes, apc[n] = "recv", NEW pos,
         nbtask' = [nbtask EXCEPT ![n] = @ \cup {<<pos, MsgAt(round, pos)>>}],
         Popped(n)' = Popped(n) \cup {pos},
         \A m \in Nodes \ {n} : Popped(m)' = Popped(m),
         UNCHANGED <<round, apc>>
  PROVE  TaskInv'
<1> SUFFICES ASSUME NEW m \in Nodes
             PROVE  nbtask'[m] = IF apc'[m] = "request" THEN {}
                                 ELSE {<<q, MsgAt(round', q)>> : q \in Popped(m)'}
  BY DEF TaskInv
<1>1. nbtask[m] = IF apc[m] = "request" THEN {} ELSE {<<q, MsgAt(round, q)>> : q \in Popped(m)}
  BY DEF IInv, TaskInv
<1>2. CASE m = n
  <2>1. nbtask'[n] = {<<q, MsgAt(round, q)>> : q \in Popped(n)} \cup {<<pos, MsgAt(round, pos)>>}
    BY <1>1, <1>2 DEF IInv, TypeOK
  <2>2. {<<q, MsgAt(round, q)>> : q \in Popped(n)} \cup {<<pos, MsgAt(round, pos)>>}
          = {<<q, MsgAt(round, q)>> : q \in Popped(n) \cup {pos}}
    OBVIOUS
  <2> QED BY <1>2, <2>1, <2>2
<1>3. CASE m # n
  <2>1. nbtask'[m] = nbtask[m] /\ Popped(m)' = Popped(m) /\ apc'[m] = apc[m] /\ round' = round
    BY <1>3 DEF IInv, TypeOK
  <2> QED BY ONLY <1>1, <2>1
<1> QED BY <1>2, <1>3

\* The command popped is the one planned for the place the agent is at.
LEMMA RecvTaskStep ==
  ASSUME IInv, NEW n \in Nodes, RecvTask(n) PROVE IInv'
<1> DEFINE pos == recvPos[n]
           key == <<batch, StripeAt(n, pos)>>
           m0 == MsgAt(round, pos)
<1>guard. apc[n] = "recv" /\ pos[1] <= Len(Announced(n)) /\ pos[3] = 0
  BY DEF RecvTask
<1>same. UNCHANGED <<job, round, phase, curId, sendPos, waited, finish, agRequest, compute,
                     packets, apc, ag, sentTo, recvFrom>>
  BY DEF RecvTask, coorVars
<1>1. /\ Taken(n) /\ Announced(n) = Plan(n) /\ AgBatch(n) = batch /\ batch \in BatchIds
      /\ Plan(n) \in NodeTasks /\ round \in Int /\ pos \in Stops(Plan(n))
      /\ Plan(n) = TasksOf(job, round, n)
  BY <1>guard, AnnouncedPlan, PlanOK DEF IInv, TypeOK, RoundInv
<1>2. pos \in Places(Plan(n)) /\ pos \in Place /\ StripeAt(n, pos) \in StripeIds
  BY <1>guard, <1>1, AtStop, StopsArePlaces, PlaceOf DEF StripeAt
<1>3. key \in CommandKey /\ m0 \in Message /\ m0.round = round /\ m0.pos = pos
  BY <1>1, <1>2 DEF CommandKey, MsgAt, Message
<1>pop. /\ command[n][key] # <<>>
        /\ command' = [command EXCEPT ![n][key] = Tail(@)]
        /\ nbtask' = [nbtask EXCEPT ![n] = @ \cup {<<pos, Head(command[n][key])>>}]
        /\ recvPos' = [recvPos EXCEPT ![n] = After(@, DstsOf(n, Head(command[n][key])),
                                                   Len(Plan(n)[@[1]].tasks))]
  BY <1>1 DEF RecvTask, AgStripe, StripeAt
<1>4. Lists(command[n][key], round, CommandsIn(n, key))
  BY <1>3 DEF IInv, CommandInv
<1>5. Pending(n) # {}
  BY <1>pop, <1>4, ListsNone DEF CommandsIn
<1>6. pos \in Pending(n) /\ \A q \in Pending(n) : q = pos \/ Before(pos, q)
  BY <1>1, <1>2, <1>5, NextPending
<1>7. pos \in CommandsIn(n, key) /\ CommandsIn(n, key) \subseteq Pending(n)
  BY <1>guard, <1>6 DEF CommandsIn
<1>8. CommandsIn(n, key) \subseteq Place
  BY <1>1, <1>7, StopsArePlaces DEF Pending, Pushed, Upto
<1>9. /\ Head(command[n][key]) = m0
      /\ Lists(Tail(command[n][key]), round, CommandsIn(n, key) \ {pos})
  BY <1>1, <1>4, <1>6, <1>7, <1>8, ListsHead
<1>10. recvPos' = [recvPos EXCEPT ![n] = AfterIn(Plan(n), @)]
  BY <1>pop, <1>1, <1>3, <1>9 DEF AfterIn, DstsOf
<1>11. /\ Popped(n)' = Popped(n) \cup {pos}
       /\ Pending(n)' = Pending(n) \ {pos}
       /\ \A m \in Nodes \ {n} : Pending(m)' = Pending(m) /\ Popped(m)' = Popped(m)
       /\ recvPos' \in [Nodes -> Place]
       /\ PosInv' /\ RoundInv'
  BY <1>guard, <1>same, <1>6, <1>10, PopStep
<1>12. /\ batch' = batch /\ \A m : Plan(m)' = Plan(m)
       /\ RequestInv' /\ ExchangeInv' /\ FinishInv'
  BY <1>same, Frames
<1>13. \A m \in Nodes : \A k : ItemsIn(m, k)' = ItemsIn(m, k)
  <2>1. ~(pos[3] > 0)
    BY <1>guard
  <2> QED BY <1>11, <1>12, <2>1 DEF ItemsIn, StripeAt, ItemAt
<1>14. ComputeInv'
  BY <1>same, <1>13 DEF IInv, ComputeInv, Lists
<1>15. \A m \in Nodes : \A k : CommandsIn(m, k)' =
         IF m = n /\ k = key THEN CommandsIn(m, k) \ {pos} ELSE CommandsIn(m, k)
  BY <1>11, <1>12 DEF CommandsIn, StripeAt
<1>16. \A m \in Nodes, k \in CommandKey : command'[m][k] =
         IF m = n /\ k = key THEN Tail(command[m][k]) ELSE command[m][k]
  <2> HIDE DEF key
  <2> QED BY <1>pop, <1>3 DEF IInv, TypeOK
<1>17. CommandInv'
  <2> SUFFICES ASSUME NEW m \in Nodes, NEW k \in CommandKey
               PROVE  Lists(command[m][k], round, CommandsIn(m, k))'
    BY DEF CommandInv
  <2> SUFFICES Lists(command'[m][k], round', CommandsIn(m, k)')
    BY DEF Lists
  <2>1. Lists(command[m][k], round, CommandsIn(m, k))
    BY DEF IInv, CommandInv
  <2>2. CASE m = n /\ k = key
    BY <1>same, <1>9, <1>15, <1>16, <2>2
  <2>3. CASE ~(m = n /\ k = key)
    BY <1>same, <1>15, <1>16, <2>1, <2>3
  <2> QED BY <2>2, <2>3
<1>18. TaskInv'
  BY <1>guard, <1>same, <1>pop, <1>9, <1>11, TaskGrows
<1>19. TypeOK'
  <2>1. command[n][key] \in Seq(Message) /\ Tail(command[n][key]) \in Seq(Message)
    BY <1>pop, <1>3 DEF IInv, TypeOK
  <2>2. command' \in [Nodes -> [CommandKey -> Seq(Message)]]
    <3>1. command \in [Nodes -> [CommandKey -> Seq(Message)]]
      BY DEF IInv, TypeOK
    <3> HIDE DEF key
    <3> QED BY <1>pop, <1>3, <2>1, <3>1
  <2>3. nbtask' \in [Nodes -> SUBSET (Place \X Message)]
    BY <1>pop, <1>2, <1>3, <1>9 DEF IInv, TypeOK
  <2> QED BY <1>same, <1>11, <2>2, <2>3 DEF IInv, TypeOK
<1> QED BY <1>11, <1>12, <1>14, <1>17, <1>18, <1>19 DEF IInv

\* The command an agent resolves is that of the task it is at.
LEMMA CurTaskIs ==
  ASSUME IInv, NEW n \in Nodes, apc[n] = "recv", recvPos[n] \in Places(Plan(n)), recvPos[n][3] > 0
  PROVE  CurTask(n) = MsgAt(round, <<recvPos[n][1], recvPos[n][2], 0>>)
<1> DEFINE pos == recvPos[n]
           q0 == <<pos[1], pos[2], 0>>
           m0 == MsgAt(round, q0)
<1>1. Taken(n) /\ Plan(n) \in NodeTasks
  BY AnnouncedPlan
<1>2. /\ pos[1] \in DOMAIN Plan(n) /\ pos[2] \in DOMAIN Plan(n)[pos[1]].tasks
      /\ 0 \in 0 .. Len(Plan(n)[pos[1]].tasks[pos[2]])
      /\ pos \in Nat \X Nat \X Nat
  <2>1. /\ pos \in Nat \X Nat \X Nat
        /\ pos[1] \in 1 .. Len(Plan(n)) /\ pos[2] \in 1 .. Len(Plan(n)[pos[1]].tasks)
        /\ Plan(n)[pos[1]].tasks \in Seq(Seq(DagIdxs))
        /\ Plan(n)[pos[1]].tasks[pos[2]] \in Seq(DagIdxs)
    BY <1>1, PlaceOf
  <2>2. Len(Plan(n)[pos[1]].tasks[pos[2]]) \in Nat
    BY <2>1, LenIsNat
  <2> QED BY <1>1, <2>1, <2>2 DEF NodeTasks
<1>3. q0 \in Places(Plan(n))
  BY <1>2, InPlaces
<1>4. Before(q0, pos)
  BY DEF Before
<1>5. q0 \in Popped(n)
  BY <1>1, <1>3, <1>4 DEF Popped, Upto
<1> HIDE DEF q0
<1>6. nbtask[n] = {<<q, MsgAt(round, q)>> : q \in Popped(n)}
  BY DEF IInv, TaskInv
<1>7. \A m : <<q0, m>> \in nbtask[n] <=> m = m0
  BY <1>5, <1>6
<1>8. m0 \in {x[2] : x \in nbtask[n]}
  <2>1. <<q0, m0>> \in nbtask[n] /\ <<q0, m0>>[2] = m0
    BY <1>7
  <2> QED BY <2>1
<1>9. CurTask(n) = CHOOSE m \in {x[2] : x \in nbtask[n]} : <<q0, m>> \in nbtask[n]
  BY DEF CurTask, q0
<1> HIDE DEF m0
<1>10. CurTask(n) = m0
  BY <1>7, <1>8, <1>9
<1> QED BY <1>10 DEF m0, q0

\* The compute item popped is the one planned for the place the agent is at.
LEMMA RecvComputeItemStep ==
  ASSUME IInv, NEW n \in Nodes, RecvComputeItem(n) PROVE IInv'
<1> DEFINE pos == recvPos[n]
           dsts == Plan(n)[pos[1]].tasks[pos[2]]
           key == <<batch, StripeAt(n, pos), ItemAt(n, pos)>>
           m0 == MsgAt(round, pos)
<1>guard. apc[n] = "recv" /\ pos[1] <= Len(Announced(n)) /\ pos[3] > 0
  BY DEF RecvComputeItem
<1>same. UNCHANGED <<job, round, phase, curId, sendPos, waited, finish, agRequest, command,
                     packets, apc, ag, sentTo, recvFrom>>
  BY DEF RecvComputeItem, coorVars
<1>1. /\ Taken(n) /\ Announced(n) = Plan(n) /\ AgBatch(n) = batch /\ batch \in BatchIds
      /\ Plan(n) \in NodeTasks /\ round \in Int /\ pos \in Stops(Plan(n))
      /\ Plan(n) = TasksOf(job, round, n)
  BY <1>guard, AnnouncedPlan, PlanOK DEF IInv, TypeOK, RoundInv
<1>2. pos \in Places(Plan(n)) /\ pos \in Place
  BY <1>guard, <1>1, AtStop, StopsArePlaces
<1>3. /\ StripeAt(n, pos) \in StripeIds /\ dsts \in Seq(DagIdxs) /\ pos[3] \in 0 .. Len(dsts)
      /\ pos[3] \in Nat
  <2>1. pos \in Nat \X Nat \X Nat
    BY <1>1, <1>2, PlaceOf
  <2> QED BY <1>1, <1>2, <2>1, PlaceOf DEF StripeAt
<1>item. pos[3] # 0 /\ ~(pos[3] = 0)
  BY <1>guard
<1>4. ItemAt(n, pos) \in DagIdxs
  <2>1. pos[3] \in 1 .. Len(dsts)
    BY <1>item, <1>3
  <2>2. ItemAt(n, pos) = dsts[pos[3]]
    BY DEF ItemAt
  <2> HIDE DEF dsts
  <2> QED BY <1>3, <2>1, <2>2
<1>5. DstsOf(n, CurTask(n)) = dsts
  BY <1>guard, <1>1, <1>2, CurTaskIs DEF DstsOf, MsgAt
<1>6. key \in ComputeKey /\ m0 \in Message
  BY <1>1, <1>2, <1>3, <1>4 DEF ComputeKey, MsgAt, Message
<1>pop. /\ compute[n][key] # <<>>
        /\ compute' = [compute EXCEPT ![n][key] = Tail(@)]
        /\ nbtask' = [nbtask EXCEPT ![n] = @ \cup {<<pos, Head(compute[n][key])>>}]
        /\ recvPos' = [recvPos EXCEPT ![n] = After(@, dsts, Len(Plan(n)[@[1]].tasks))]
  BY <1>1, <1>5 DEF RecvComputeItem, AgStripe, StripeAt, ItemAt
<1>7. Lists(compute[n][key], round, ItemsIn(n, key))
  BY <1>6 DEF IInv, ComputeInv
<1>8. Pending(n) # {}
  BY <1>pop, <1>7, ListsNone DEF ItemsIn
<1>9. pos \in Pending(n) /\ \A q \in Pending(n) : q = pos \/ Before(pos, q)
  BY <1>1, <1>2, <1>8, NextPending
<1>10. pos \in ItemsIn(n, key) /\ ItemsIn(n, key) \subseteq Pending(n)
  BY <1>guard, <1>9 DEF ItemsIn
<1>11. ItemsIn(n, key) \subseteq Place
  BY <1>1, <1>10, StopsArePlaces DEF Pending, Pushed, Upto
<1>12. /\ Head(compute[n][key]) = m0
       /\ Lists(Tail(compute[n][key]), round, ItemsIn(n, key) \ {pos})
  BY <1>1, <1>7, <1>9, <1>10, <1>11, ListsHead
<1>13. recvPos' = [recvPos EXCEPT ![n] = AfterIn(Plan(n), @)]
  BY <1>pop DEF AfterIn
<1>14. /\ Popped(n)' = Popped(n) \cup {pos}
       /\ Pending(n)' = Pending(n) \ {pos}
       /\ \A m \in Nodes \ {n} : Pending(m)' = Pending(m) /\ Popped(m)' = Popped(m)
       /\ recvPos' \in [Nodes -> Place]
       /\ PosInv' /\ RoundInv'
  BY <1>guard, <1>same, <1>9, <1>13, PopStep
<1>15. /\ batch' = batch /\ \A m : Plan(m)' = Plan(m)
       /\ RequestInv' /\ ExchangeInv' /\ FinishInv'
  BY <1>same, Frames
<1>16. \A m \in Nodes : \A k : CommandsIn(m, k)' = CommandsIn(m, k)
  BY <1>item, <1>14, <1>15 DEF CommandsIn, StripeAt
<1>17. CommandInv'
  BY <1>same, <1>16 DEF IInv, CommandInv, Lists
<1>18. \A m \in Nodes : \A k : ItemsIn(m, k)' =
         IF m = n /\ k = key THEN ItemsIn(m, k) \ {pos} ELSE ItemsIn(m, k)
  <2>1. \A m \in Nodes : \A q : StripeAt(m, q)' = StripeAt(m, q) /\ ItemAt(m, q)' = ItemAt(m, q)
    BY <1>15 DEF StripeAt, ItemAt
  <2>2. \A m \in Nodes : \A k : ItemsIn(m, k)' =
          {q \in Pending(m)' : q[3] > 0 /\ k = <<batch, StripeAt(m, q), ItemAt(m, q)>>}
    BY <1>15, <2>1 DEF ItemsIn
  <2> QED BY <1>10, <1>14, <2>2 DEF ItemsIn
<1>19. \A m \in Nodes, k \in ComputeKey : compute'[m][k] =
         IF m = n /\ k = key THEN Tail(compute[m][k]) ELSE compute[m][k]
  <2> HIDE DEF key
  <2> QED BY <1>pop, <1>6 DEF IInv, TypeOK
<1>20. ComputeInv'
  <2> SUFFICES ASSUME NEW m \in Nodes, NEW k \in ComputeKey
               PROVE  Lists(compute[m][k], round, ItemsIn(m, k))'
    BY DEF ComputeInv
  <2> SUFFICES Lists(compute'[m][k], round', ItemsIn(m, k)')
    BY DEF Lists
  <2>1. Lists(compute[m][k], round, ItemsIn(m, k))
    BY DEF IInv, ComputeInv
  <2>2. CASE m = n /\ k = key
    BY <1>same, <1>12, <1>18, <1>19, <2>2
  <2>3. CASE ~(m = n /\ k = key)
    BY <1>same, <1>18, <1>19, <2>1, <2>3
  <2> QED BY <2>2, <2>3
<1>21. TaskInv'
  BY <1>guard, <1>same, <1>pop, <1>12, <1>14, TaskGrows
<1>22. TypeOK'
  <2>1. Tail(compute[n][key]) \in Seq(Message)
    BY <1>pop, <1>6 DEF IInv, TypeOK
  <2>2. compute' \in [Nodes -> [ComputeKey -> Seq(Message)]]
    <3>1. compute \in [Nodes -> [ComputeKey -> Seq(Message)]]
      BY DEF IInv, TypeOK
    <3> HIDE DEF key
    <3> QED BY <1>pop, <1>6, <2>1, <3>1
  <2>3. nbtask' \in [Nodes -> SUBSET (Place \X Message)]
    BY <1>pop, <1>2, <1>6, <1>12 DEF IInv, TypeOK
  <2> QED BY <1>same, <1>14, <2>2, <2>3 DEF IInv, TypeOK
<1> QED BY <1>14, <1>15, <1>17, <1>20, <1>21, <1>22 DEF IInv

\* All the commands are popped: the agent is at the end of its plan.
LEMMA StartRepairStep ==
  ASSUME IInv, NEW n \in Nodes, StartRepair(n) PROVE IInv'
<1>guard. apc[n] = "recv" /\ recvPos[n][1] > Len(Announced(n))
  BY DEF StartRepair
<1>same. UNCHANGED <<job, round, phase, curId, sendPos, waited, finish, agRequest, command, compute,
                     packets, ag, recvPos, nbtask, sentTo, recvFrom>>
  BY DEF StartRepair, coorVars, listVars
<1>1. apc' = [apc EXCEPT ![n] = "repair"]
  BY DEF StartRepair
<1>2. apc'[n] = "repair" /\ \A m \in Nodes \ {n} : apc'[m] = apc[m]
  BY <1>1 DEF IInv, TypeOK
<1>3. /\ batch' = batch /\ Working' = Working
      /\ \A m : Plan(m)' = Plan(m) /\ Taken(m)' = Taken(m) /\ Popped(m)' = Popped(m)
      /\ \A m : Pushed(m)' = Pushed(m)
      /\ \A m, k : Fed(m, k)' = Fed(m, k)
      /\ RequestInv' /\ CommandInv' /\ ComputeInv'
  BY <1>same, Frames DEF Taken, Popped, Pushed
<1>4. Taken(n) /\ recvPos[n] = End(Plan(n))
  BY <1>guard, AnnouncedPlan, AtStop
<1>5. \A m \in Nodes : Done(m)' = Done(m)
  BY <1>guard, <1>2, <1>3 DEF Done
<1>6. TypeOK'
  BY <1>same, <1>1 DEF IInv, TypeOK
<1>7. RoundInv'
  BY <1>same, <1>2, <1>3, <1>4 DEF IInv, RoundInv, NumRounds
<1>8. PosInv'
  BY <1>same, <1>2, <1>3, <1>4 DEF IInv, PosInv
<1>9. TaskInv'
  <2> SUFFICES ASSUME NEW m \in Nodes
               PROVE  nbtask'[m] = IF apc'[m] = "request" THEN {}
                                   ELSE {<<q, MsgAt(round', q)>> : q \in Popped(m)'}
    BY DEF TaskInv
  <2>1. nbtask[m] = IF apc[m] = "request" THEN {} ELSE {<<q, MsgAt(round, q)>> : q \in Popped(m)}
    BY DEF IInv, TaskInv
  <2>2. /\ nbtask' = nbtask /\ round' = round /\ Popped(m)' = Popped(m)
        /\ apc'[m] = "request" <=> apc[m] = "request"
    BY <1>guard, <1>same, <1>2, <1>3
  <2> QED BY ONLY <2>1, <2>2
<1>10. ExchangeInv'
  BY <1>same, <1>guard, <1>2, <1>3, <1>5 DEF IInv, ExchangeInv, HasSent, HasConsumed
<1>11. FinishInv'
  BY <1>same, <1>3, <1>5 DEF IInv, FinishInv, TypeOK
<1> QED BY <1>3, <1>6, <1>7, <1>8, <1>9, <1>10, <1>11 DEF IInv

\* What is said of one pair of nodes about the packets, after a step.
LEMMA ExchangeNext ==
  ASSUME \A i \in Nodes : apc'[i] # "repair" => sentTo'[i] = {} /\ recvFrom'[i] = {},
         \A i \in Nodes, k \in Nodes : HasConsumed(i, k)' => HasSent(k, i)',
         \A i \in Nodes, k \in Nodes, b \in BatchIds :
           packets'[i][<<b, k>>] = IF b = batch' /\ HasSent(k, i)' /\ ~HasConsumed(i, k)'
                                   THEN <<round'>> ELSE <<>>
  PROVE  ExchangeInv'
BY DEF ExchangeInv

\* Packets are sent once in a round, to a list that is empty.
LEMMA SendPacketsStep ==
  ASSUME IInv, NEW n \in Nodes, NEW m \in Nodes, SendPackets(n, m) PROVE IInv'
<1> DEFINE key == <<batch, n>>
<1>guard. apc[n] = "repair" /\ <<n, m>> \in Feeds(ag[n].round) /\ m \notin sentTo[n]
  BY DEF SendPackets
<1>same. UNCHANGED <<job, round, phase, curId, sendPos, waited, finish, agRequest, command, compute,
                     apc, ag, recvPos, nbtask, recvFrom>>
  BY DEF SendPackets, coorVars
<1>1. /\ batch \in BatchIds /\ round \in Int /\ ag[n].round = round /\ Fed(n, m)
      /\ AgBatch(n) = batch
  BY <1>guard, AnnouncedPlan
<1>push. /\ packets' = [packets EXCEPT ![m][key] = Append(@, round)]
         /\ sentTo' = [sentTo EXCEPT ![n] = @ \cup {m}]
  BY <1>1 DEF SendPackets
<1>2. /\ batch' = batch /\ \A i, k : Fed(i, k)' = Fed(i, k)
      /\ RoundInv' /\ PosInv' /\ RequestInv' /\ CommandInv' /\ ComputeInv' /\ TaskInv'
      /\ FinishInv'
  BY <1>same, Frames
<1>3. key \in PacketKey
  BY <1>1 DEF PacketKey
<1>4. \A i \in Nodes : sentTo'[i] = IF i = n THEN sentTo[i] \cup {m} ELSE sentTo[i]
  BY <1>push DEF IInv, TypeOK
<1>5. \A i : Done(i)' = Done(i)
  BY <1>same DEF Done, Taken
<1>6. ~Done(n)
  BY <1>guard DEF Done
<1>7. /\ \A i \in Nodes, k \in Nodes : HasSent(i, k)' = (HasSent(i, k) \/ (i = n /\ k = m))
      /\ \A i, k : HasConsumed(i, k)' = HasConsumed(i, k)
  BY <1>same, <1>1, <1>2, <1>4, <1>5 DEF HasSent, HasConsumed
<1>8. ~HasSent(n, m) /\ ~HasConsumed(m, n)
  BY <1>guard, <1>6 DEF IInv, ExchangeInv, HasSent
<1>9. packets[m][key] = <<>>
  BY <1>1, <1>8 DEF IInv, ExchangeInv
<1>10. \A i \in Nodes, k \in PacketKey :
         packets'[i][k] = IF i = m /\ k = key THEN <<round>> ELSE packets[i][k]
  <2>1. Append(<<>>, round) = <<round>>
    OBVIOUS
  <2>2. packets' = [packets EXCEPT ![m][key] = <<round>>]
    BY <1>push, <1>9, <2>1
  <2> HIDE DEF key
  <2> QED BY <1>3, <2>2 DEF IInv, TypeOK
<1>11. ExchangeInv'
  <2>1. \A i \in Nodes : apc'[i] # "repair" => sentTo'[i] = {} /\ recvFrom'[i] = {}
    BY <1>guard, <1>same, <1>4 DEF IInv, ExchangeInv
  <2>2. \A i \in Nodes, k \in Nodes : HasConsumed(i, k)' => HasSent(k, i)'
    BY <1>7 DEF IInv, ExchangeInv
  <2>3. ASSUME NEW i \in Nodes, NEW k \in Nodes, NEW b \in BatchIds
        PROVE  packets'[i][<<b, k>>] = IF b = batch' /\ HasSent(k, i)' /\ ~HasConsumed(i, k)'
                                       THEN <<round'>> ELSE <<>>
    <3>1. <<b, k>> \in PacketKey
      BY DEF PacketKey
    <3>2. packets[i][<<b, k>>] = IF b = batch /\ HasSent(k, i) /\ ~HasConsumed(i, k)
                                 THEN <<round>> ELSE <<>>
      BY DEF IInv, ExchangeInv
    <3> QED BY <1>same, <1>2, <1>7, <1>8, <1>10, <3>1, <3>2
  <2> QED BY <2>1, <2>2, <2>3, ExchangeNext
<1>12. TypeOK'
  <2>1. packets' \in [Nodes -> [PacketKey -> Seq(Int)]]
    <3>1. packets \in [Nodes -> [PacketKey -> Seq(Int)]]
      BY DEF IInv, TypeOK
    <3>2. Append(packets[m][key], round) \in Seq(Int)
      BY <1>1, <1>3, <3>1
    <3> HIDE DEF key
    <3> QED BY <1>push, <1>3, <3>1, <3>2
  <2> QED BY <1>same, <1>push, <2>1 DEF IInv, TypeOK
<1> QED BY <1>2, <1>11, <1>12 DEF IInv

\* The packets consumed are those of the round.
LEMMA RecvPacketsStep ==
  ASSUME IInv, NEW n \in Nodes, NEW m \in Nodes, RecvPackets(n, m) PROVE IInv'
<1> DEFINE key == <<batch, m>>
<1>guard. apc[n] = "repair" /\ <<m, n>> \in Feeds(ag[n].round) /\ m \notin recvFrom[n]
  BY DEF RecvPackets
<1>same. UNCHANGED <<job, round, phase, curId, sendPos, waited, finish, agRequest, command, compute,
                     apc, ag, recvPos, nbtask, sentTo>>
  BY DEF RecvPackets, coorVars
<1>1. /\ batch \in BatchIds /\ round \in Int /\ ag[n].round = round /\ Fed(m, n)
      /\ AgBatch(n) = batch
  BY <1>guard, AnnouncedPlan
<1>pop. /\ packets[n][key] # <<>>
        /\ packets' = [packets EXCEPT ![n][key] = Tail(@)]
        /\ recvFrom' = [recvFrom EXCEPT ![n] = @ \cup {m}]
  BY <1>1 DEF RecvPackets
<1>2. /\ batch' = batch /\ \A i, k : Fed(i, k)' = Fed(i, k)
      /\ RoundInv' /\ PosInv' /\ RequestInv' /\ CommandInv' /\ ComputeInv' /\ TaskInv'
      /\ FinishInv'
  BY <1>same, Frames
<1>3. key \in PacketKey
  BY <1>1 DEF PacketKey
<1>4. \A i \in Nodes : recvFrom'[i] = IF i = n THEN recvFrom[i] \cup {m} ELSE recvFrom[i]
  BY <1>pop DEF IInv, TypeOK
<1>5. \A i : Done(i)' = Done(i)
  BY <1>same DEF Done, Taken
<1>6. HasSent(m, n) /\ ~HasConsumed(n, m) /\ packets[n][key] = <<round>>
  BY <1>pop, <1>1 DEF IInv, ExchangeInv
<1>7. /\ \A i \in Nodes, k \in Nodes : HasConsumed(i, k)' = (HasConsumed(i, k) \/ (i = n /\ k = m))
      /\ \A i, k : HasSent(i, k)' = HasSent(i, k)
  BY <1>same, <1>1, <1>2, <1>4, <1>5 DEF HasSent, HasConsumed
<1>8. \A i \in Nodes, k \in PacketKey :
        packets'[i][k] = IF i = n /\ k = key THEN <<>> ELSE packets[i][k]
  <2>1. Tail(<<round>>) = <<>>
    OBVIOUS
  <2>2. packets' = [packets EXCEPT ![n][key] = <<>>]
    BY <1>pop, <1>6, <2>1
  <2> HIDE DEF key
  <2> QED BY <1>3, <2>2 DEF IInv, TypeOK
<1>9. ExchangeInv'
  <2>1. \A i \in Nodes : apc'[i] # "repair" => sentTo'[i] = {} /\ recvFrom'[i] = {}
    BY <1>guard, <1>same, <1>4 DEF IInv, ExchangeInv
  <2>2. \A i \in Nodes, k \in Nodes : HasConsumed(i, k)' => HasSent(k, i)'
    BY <1>6, <1>7 DEF IInv, ExchangeInv
  <2>3. ASSUME NEW i \in Nodes, NEW k \in Nodes, NEW b \in BatchIds
        PROVE  packets'[i][<<b, k>>] = IF b = batch' /\ HasSent(k, i)' /\ ~HasConsumed(i, k)'
                                       THEN <<round'>> ELSE <<>>
    <3>1. <<b, k>> \in PacketKey
      BY DEF PacketKey
    <3>2. packets[i][<<b, k>>] = IF b = batch /\ HasSent(k, i) /\ ~HasConsumed(i, k)
                                 THEN <<round>> ELSE <<>>
      BY DEF IInv, ExchangeInv
    <3> QED BY <1>same, <1>2, <1>7, <1>8, <3>1, <3>2
  <2> QED BY <2>1, <2>2, <2>3, ExchangeNext
<1>10. TypeOK'
  <2>1. packets' \in [Nodes -> [PacketKey -> Seq(Int)]]
    <3>1. packets \in [Nodes -> [PacketKey -> Seq(Int)]]
      BY DEF IInv, TypeOK
    <3>2. Tail(packets[n][key]) \in Seq(Int)
      BY <1>pop, <1>3, <3>1
    <3> HIDE DEF key
    <3> QED BY <1>pop, <1>3, <3>1, <3>2
  <2> QED BY <1>same, <1>pop, <2>1, SMTT(20) DEF IInv, TypeOK
<1> QED BY <1>2, <1>9, <1>10 DEF IInv

\* The agent is done once it has exchanged everything, and leaves its flag.
LEMMA FinishRepairStep ==
  ASSUME IInv, NEW n \in Nodes, FinishRepair(n) PROVE IInv'
<1> DEFINE key == <<batch, curId[n], n>>
<1>guard. apc[n] = "repair" /\ AllExchanged(n)
  BY DEF FinishRepair
<1>same. UNCHANGED <<job, round, phase, curId, sendPos, waited, agRequest, command, compute,
                     packets, ag, recvPos>>
  BY DEF FinishRepair, coorVars
<1>1. /\ batch \in BatchIds /\ round \in Int /\ ag[n].round = round /\ Taken(n)
      /\ AgBatch(n) = batch /\ ag[n].cur = curId[n] /\ curId[n] \in CurIds
  BY <1>guard, AnnouncedPlan DEF IInv, TypeOK
<1>end. /\ finish' = [finish EXCEPT ![key] = @ + 1]
        /\ apc' = [apc EXCEPT ![n] = "request"]
        /\ nbtask' = [nbtask EXCEPT ![n] = {}]
        /\ sentTo' = [sentTo EXCEPT ![n] = {}]
        /\ recvFrom' = [recvFrom EXCEPT ![n] = {}]
  BY <1>1 DEF FinishRepair
<1>2. /\ batch' = batch /\ Working' = Working
      /\ \A m : Plan(m)' = Plan(m) /\ Taken(m)' = Taken(m) /\ Popped(m)' = Popped(m)
      /\ \A m : Pushed(m)' = Pushed(m)
      /\ \A i, k : Fed(i, k)' = Fed(i, k)
      /\ RequestInv' /\ CommandInv' /\ ComputeInv'
  BY <1>same, Frames DEF Taken, Popped, Pushed
<1>3. /\ apc'[n] = "request" /\ nbtask'[n] = {} /\ sentTo'[n] = {} /\ recvFrom'[n] = {}
      /\ \A m \in Nodes \ {n} : /\ apc'[m] = apc[m] /\ nbtask'[m] = nbtask[m]
                                /\ sentTo'[m] = sentTo[m] /\ recvFrom'[m] = recvFrom[m]
  BY <1>end DEF IInv, TypeOK
<1>4. ~Done(n) /\ Done(n)' /\ \A m \in Nodes \ {n} : Done(m)' = Done(m)
  BY <1>guard, <1>1, <1>2, <1>3 DEF Done
<1>5. \A k \in Nodes : /\ Fed(n, k) => k \in sentTo[n]
                       /\ Fed(k, n) => k \in recvFrom[n]
  BY <1>guard, <1>1 DEF AllExchanged, Fed
<1>6. \A i \in Nodes, k \in Nodes : /\ HasSent(i, k)' = HasSent(i, k)
                                    /\ HasConsumed(i, k)' = HasConsumed(i, k)
  <2> SUFFICES ASSUME NEW i \in Nodes, NEW k \in Nodes
               PROVE  HasSent(i, k)' = HasSent(i, k) /\ HasConsumed(i, k)' = HasConsumed(i, k)
    OBVIOUS
  <2>1. CASE i = n
    BY <1>2, <1>4, <1>5, <2>1 DEF HasSent, HasConsumed
  <2>2. CASE i # n
    BY <1>2, <1>3, <1>4, <2>2 DEF HasSent, HasConsumed
  <2> QED BY <2>1, <2>2
<1>7. ExchangeInv'
  BY <1>same, <1>2, <1>3, <1>6 DEF IInv, ExchangeInv
<1>8. RoundInv'
  BY <1>same, <1>2, <1>3 DEF IInv, RoundInv, NumRounds
<1>9. PosInv'
  <2>1. recvPos[n] = End(Plan(n))
    BY <1>guard, <1>1 DEF IInv, PosInv
  <2> QED BY <1>same, <1>2, <1>3, <2>1 DEF IInv, PosInv
<1>10. TaskInv'
  <2> SUFFICES ASSUME NEW m \in Nodes
               PROVE  nbtask'[m] = IF apc'[m] = "request" THEN {}
                                   ELSE {<<q, MsgAt(round', q)>> : q \in Popped(m)'}
    BY DEF TaskInv
  <2>1. nbtask[m] = IF apc[m] = "request" THEN {} ELSE {<<q, MsgAt(round, q)>> : q \in Popped(m)}
    BY DEF IInv, TaskInv
  <2>2. CASE m = n
    BY <1>3, <2>2
  <2>3. CASE m # n
    <3>1. /\ nbtask'[m] = nbtask[m] /\ round' = round /\ Popped(m)' = Popped(m)
          /\ apc'[m] = apc[m]
      BY <1>same, <1>2, <1>3, <2>3
    <3> QED BY ONLY <2>1, <3>1
  <2> QED BY <2>2, <2>3
<1>11. n \notin waited /\ key \in FinishKey /\ finish[key] = 0
  <2>1. n \notin waited
    BY <1>4 DEF IInv, FinishInv
  <2>2. finish[key] = 0
    BY <1>1, <1>4 DEF IInv, FinishInv
  <2> QED BY <1>1, <2>1, <2>2 DEF FinishKey
<1>12. finish' = [finish EXCEPT ![key] = 1]
  BY <1>end, <1>11
<1>13. FinishInv'
  <2>1. \A m \in waited' : Done(m)'
    BY <1>same, <1>4 DEF IInv, FinishInv, TypeOK
  <2>2. ASSUME NEW b \in BatchIds, NEW c \in CurIds, NEW m \in Nodes
        PROVE  finish'[<<b, c, m>>] = IF b = batch' /\ c = curId'[m] /\ Done(m)' /\ m \notin waited'
                                      THEN 1 ELSE 0
    <3>1. <<b, c, m>> \in FinishKey
      BY DEF FinishKey
    <3>2. finish'[<<b, c, m>>] = IF <<b, c, m>> = key THEN 1 ELSE finish[<<b, c, m>>]
      BY <1>12, <3>1 DEF IInv, TypeOK
    <3>3. finish[<<b, c, m>>] = IF b = batch /\ c = curId[m] /\ Done(m) /\ m \notin waited
                                THEN 1 ELSE 0
      BY DEF IInv, FinishInv
    <3> QED BY <1>same, <1>2, <1>4, <1>11, <3>2, <3>3
  <2> QED BY <2>1, <2>2 DEF FinishInv
<1>14. TypeOK'
  <2>1. finish' \in [FinishKey -> Nat]
    BY <1>11, <1>12 DEF IInv, TypeOK
  <2> QED BY <1>same, <1>end, <2>1 DEF IInv, TypeOK
<1> QED BY <1>2, <1>7, <1>8, <1>9, <1>10, <1>13, <1>14 DEF IInv

\* Every step preserves the invariant.
LEMMA StepIInv == IInv /\ [Next]_vars => IInv'
<1> SUFFICES ASSUME IInv, [Next]_vars PROVE IInv'
  OBVIOUS
<1>1. CASE Coordinator
  BY <1>1, AllSentStep, RoundDoneStep DEF Coordinator
<1>2. ASSUME NEW n \in Nodes, Sender(n) PROVE IInv'
  BY <1>2, SendAGCommandStep, SendTaskCommandStep, SendComputeItemStep DEF Sender
<1>3. ASSUME NEW n \in Nodes, WaitFinishFlag(n) PROVE IInv'
  BY <1>3, WaitFinishFlagStep
<1>4. ASSUME NEW n \in Nodes, Agent(n) PROVE IInv'
  BY <1>4, ReadInstructionsStep, RecvTaskStep, RecvComputeItemStep, StartRepairStep,
     SendPacketsStep, RecvPacketsStep, FinishRepairStep DEF Agent
<1>5. CASE UNCHANGED vars
  <2>1. /\ UNCHANGED <<job, round, phase, curId, sendPos, waited>>
        /\ UNCHANGED <<finish, agRequest, command, compute, packets>>
        /\ UNCHANGED <<apc, ag, recvPos, nbtask, sentTo, recvFrom>>
    BY <1>5 DEF vars, coorVars, listVars, agentVars
  <2>2. TypeOK'
    BY <2>1 DEF IInv, TypeOK
  <2>3. /\ RoundInv' /\ PosInv' /\ RequestInv' /\ CommandInv' /\ ComputeInv' /\ TaskInv'
        /\ ExchangeInv' /\ FinishInv'
    BY <2>1, Frames
  <2> QED BY <2>2, <2>3 DEF IInv
<1>6. CASE AllIdle
  BY <1>5, <1>6 DEF AllIdle
<1> QED BY <1>1, <1>2, <1>3, <1>4, <1>5, <1>6 DEF Next

-----------------------------------------------------------------------------
(***************************************************************************)
(* The properties.                                                         *)
(***************************************************************************)

\* IInv holds in every reachable state.
THEOREM Invariance == Spec => []IInv
BY InitIInv, StepIInv, PTL DEF Spec

\* The state of the coordinator, of the lists and of the agents keeps its types.
THEOREM TypeCorrect == Spec => []TypeOK
<1>1. IInv => TypeOK
  BY DEF IInv
<1> QED BY <1>1, Invariance, PTL

\* An agent at the end of its plan has popped all its places.
LEMMA InvRunsThePlan == IInv => RunsThePlan
<1> SUFFICES ASSUME IInv, NEW n \in Nodes, apc[n] = "repair"
             PROVE  ag[n].round = round /\ nbtask[n] = Work(job, round, n)
  BY DEF RunsThePlan
<1>1. /\ Taken(n) /\ ag[n].round = round /\ Plan(n) \in NodeTasks
      /\ Plan(n) = TasksOf(job, round, n)
  BY AnnouncedPlan, PlanOK DEF IInv, TypeOK, RoundInv
<1>2. Popped(n) = Places(Plan(n))
  BY <1>1, EndStop DEF IInv, PosInv, Popped
<1>3. nbtask[n] = {<<q, MsgAt(round, q)>> : q \in Popped(n)}
  BY DEF IInv, TaskInv
<1> QED BY <1>1, <1>2, <1>3 DEF Work, MsgAt

\* An agent that repairs has the commands planned for it in the current round,
\* each in its place, although the lists are filled and emptied by threads that
\* wait only for each other's messages and the keys are used again in each round.
THEOREM PlanIsRun == Spec => []RunsThePlan
BY InvRunsThePlan, Invariance, PTL

\* No list keeps anything from one round to the next.
THEOREM NothingIsLeft == Spec => []NothingLeftBetweenRounds
<1>1. ASSUME IInv, NEW n \in Nodes, \A m \in Nodes : sendPos[m] = Start
      PROVE  /\ apc[n] = "request" /\ agRequest[n] = <<>>
             /\ \A k \in CommandKey : command[n][k] = <<>>
             /\ \A k \in ComputeKey : compute[n][k] = <<>>
             /\ \A k \in PacketKey : packets[n][k] = <<>>
             /\ \A b \in BatchIds, c \in CurIds : finish[<<b, c, n>>] = 0
  <2>1. \A m \in Nodes : ~Taken(m) /\ apc[m] = "request"
    BY <1>1 DEF IInv, PosInv, RoundInv
  <2>2. agRequest[n] = <<>>
    BY <1>1 DEF IInv, RequestInv
  <2>3. Pending(n) = {}
    <3>1. Plan(n) \in NodeTasks
      BY <1>1, PlanOK DEF IInv, TypeOK, RoundInv
    <3> QED BY <1>1, <3>1, FirstStop DEF Pending, Pushed
  <2>4. \A k : CommandsIn(n, k) = {} /\ ItemsIn(n, k) = {}
    BY <2>3 DEF CommandsIn, ItemsIn
  <2>5. \A k \in CommandKey : command[n][k] = <<>>
    BY <1>1, <2>4, ListsNone DEF IInv, CommandInv
  <2>6. \A k \in ComputeKey : compute[n][k] = <<>>
    BY <1>1, <2>4, ListsNone DEF IInv, ComputeInv
  <2>7. \A m \in Nodes : ~HasSent(m, n)
    BY <1>1, <2>1 DEF IInv, ExchangeInv, HasSent, Done
  <2>8. \A k \in PacketKey : packets[n][k] = <<>>
    BY <1>1, <2>7 DEF IInv, ExchangeInv, PacketKey
  <2>9. \A b \in BatchIds, c \in CurIds : finish[<<b, c, n>>] = 0
    BY <1>1, <2>1 DEF IInv, FinishInv, Done
  <2> QED BY <2>1, <2>2, <2>5, <2>6, <2>8, <2>9
<1>2. IInv => NothingLeftBetweenRounds
  <2> SUFFICES ASSUME IInv, RoundOver PROVE NothingLeftBetweenRounds
    BY DEF NothingLeftBetweenRounds
  <2>1. CASE phase = "end"
    <3>1. Working \subseteq waited
      BY <2>1 DEF Working
    <3> QED BY <3>1, RoundIsOver DEF NothingLeftBetweenRounds, FinishKey
  <2>2. CASE \A n \in Nodes : sendPos[n] = Start
    BY <1>1, <2>2 DEF NothingLeftBetweenRounds, FinishKey
  <2> QED BY <2>1, <2>2 DEF RoundOver
<1> QED BY <1>2, Invariance, PTL

\* The packets an agent finds are those of its round, or it has to wait.
THEOREM PacketsAreOfTheRound == Spec => []PacketsOfTheRound
<1>1. IInv => PacketsOfTheRound
  <2> SUFFICES ASSUME IInv, NEW n \in Nodes, NEW m \in Nodes, apc[n] = "repair"
               PROVE  packets[n][<<AgBatch(n), m>>] \in {<<>>, <<ag[n].round>>}
    BY DEF PacketsOfTheRound
  <2>1. AgBatch(n) = batch /\ batch \in BatchIds /\ ag[n].round = round
    BY AnnouncedPlan
  <2> QED BY <2>1 DEF IInv, ExchangeInv
<1> QED BY <1>1, Invariance, PTL

-----------------------------------------------------------------------------
(***************************************************************************)
(* Dispatch implements RepairRounds.                                       *)
(***************************************************************************)
WorkOf(n) == IF apc[n] = "repair" THEN nbtask[n] ELSE {}

\* The abstract job has not begun at the start.
LEMMA InitRefines == Init => Abstract!Init
<1> SUFFICES ASSUME Init PROVE Abstract!Init
  OBVIOUS
<1>1. \A n \in Nodes : StatusOf(n) = "idle" /\ apc[n] = "request"
  BY DEF Init, StatusOf, NoRequest
<1> QED BY <1>1 DEF Init, Abstract!Init

\* A step that leaves every status and the work at hand as they are stutters.
LEMMA Stutters ==
  ASSUME UNCHANGED <<job, round>>,
         \A n \in Nodes : StatusOf(n)' = StatusOf(n) /\ WorkOf(n)' = WorkOf(n)
  PROVE  UNCHANGED Abstract!vars
<1>1. [n \in Nodes |-> StatusOf(n)]' = [n \in Nodes |-> StatusOf(n)]
  OBVIOUS
<1>2. [n \in Nodes |-> IF apc[n] = "repair" THEN nbtask[n] ELSE {}]'
        = [n \in Nodes |-> IF apc[n] = "repair" THEN nbtask[n] ELSE {}]
  BY DEF WorkOf
<1> QED BY <1>1, <1>2 DEF Abstract!vars

\* A step that leaves the agents, or only fills their tasks, stutters.
LEMMA AgentsAlone ==
  ASSUME UNCHANGED <<job, round, apc, ag>>, \A n \in Nodes : apc[n] = "repair" => nbtask'[n] = nbtask[n]
  PROVE  UNCHANGED Abstract!vars
BY Stutters DEF StatusOf, WorkOf

\* Taking the request does not yet start the work.
LEMMA ReadInstructionsRefines ==
  ASSUME IInv, NEW n \in Nodes, ReadInstructions(n) PROVE UNCHANGED Abstract!vars
<1>1. /\ apc[n] = "request" /\ apc' = [apc EXCEPT ![n] = "recv"] /\ ~Taken(n)
      /\ \E r : ag' = [ag EXCEPT ![n] = r]
      /\ UNCHANGED <<job, round, nbtask>>
  BY DEF ReadInstructions, coorVars, IInv, RequestInv
<1>2. \A m \in Nodes : StatusOf(m)' = StatusOf(m) /\ WorkOf(m)' = WorkOf(m)
  <2> SUFFICES ASSUME NEW m \in Nodes
               PROVE  StatusOf(m)' = StatusOf(m) /\ WorkOf(m)' = WorkOf(m)
    OBVIOUS
  <2>1. CASE m = n
    BY <1>1, <2>1 DEF IInv, TypeOK, StatusOf, WorkOf, Taken
  <2>2. CASE m # n
    BY <1>1, <2>2 DEF IInv, TypeOK, StatusOf, WorkOf
  <2> QED BY <2>1, <2>2
<1> QED BY <1>1, <1>2, Stutters

\* An agent that starts to repair runs the work planned for it.
LEMMA StartRepairRefines ==
  ASSUME IInv, IInv', NEW n \in Nodes, StartRepair(n) PROVE Abstract!Run(n)
<1>1. /\ apc[n] = "recv" /\ apc' = [apc EXCEPT ![n] = "repair"] /\ UNCHANGED <<job, round, ag, nbtask>>
  BY DEF StartRepair, coorVars, listVars
<1>2. apc'[n] = "repair" /\ \A m \in Nodes \ {n} : apc'[m] = apc[m]
  BY <1>1 DEF IInv, TypeOK
<1>3. nbtask[n] = Work(job, round, n)
  <2>1. RunsThePlan'
    BY InvRunsThePlan, PTL
  <2>2. nbtask'[n] = Work(job', round', n)
    BY <1>2, <2>1 DEF RunsThePlan
  <2> QED BY <1>1, <2>2
<1>4. n \in Working /\ phase # "end" /\ Working = Workers(job, round) /\ round <= NumRounds(job)
  BY <1>1, AnnouncedPlan, PlanOK DEF IInv, TypeOK, RoundInv
<1>5. StatusOf(n) = "idle" /\ StatusOf(n)' = "running"
  BY <1>1, <1>2 DEF StatusOf
<1>6. \A m \in Nodes \ {n} : StatusOf(m)' = StatusOf(m)
  BY <1>1, <1>2 DEF StatusOf
<1>7. [m \in Nodes |-> StatusOf(m)]' = [[m \in Nodes |-> StatusOf(m)] EXCEPT ![n] = "running"]
  BY <1>5, <1>6
<1>8. [m \in Nodes |-> IF apc[m] = "repair" THEN nbtask[m] ELSE {}]'
        = [[m \in Nodes |-> IF apc[m] = "repair" THEN nbtask[m] ELSE {}]
             EXCEPT ![n] = Work(job, round, n)]
  BY <1>1, <1>2, <1>3
<1> QED BY <1>1, <1>4, <1>5, <1>7, <1>8 DEF Abstract!Run

\* An agent that leaves its flag is done with its work.
LEMMA FinishRepairRefines ==
  ASSUME IInv, NEW n \in Nodes, FinishRepair(n) PROVE Abstract!Finish(n)
<1>1. /\ apc[n] = "repair" /\ apc' = [apc EXCEPT ![n] = "request"]
      /\ nbtask' = [nbtask EXCEPT ![n] = {}] /\ UNCHANGED <<job, round, ag>>
  BY DEF FinishRepair, coorVars
<1>2. /\ apc'[n] = "request"
      /\ \A m \in Nodes \ {n} : apc'[m] = apc[m] /\ nbtask'[m] = nbtask[m]
  BY <1>1 DEF IInv, TypeOK
<1>3. StatusOf(n) = "running" /\ StatusOf(n)' = "done"
  <2>1. ag[n].round = round
    BY <1>1, AnnouncedPlan
  <2> QED BY <1>1, <1>2, <2>1 DEF StatusOf
<1>4. \A m \in Nodes \ {n} : StatusOf(m)' = StatusOf(m)
  BY <1>1, <1>2 DEF StatusOf
<1>5. [m \in Nodes |-> StatusOf(m)]' = [[m \in Nodes |-> StatusOf(m)] EXCEPT ![n] = "done"]
  BY <1>3, <1>4
<1>6. [m \in Nodes |-> IF apc[m] = "repair" THEN nbtask[m] ELSE {}]'
        = [[m \in Nodes |-> IF apc[m] = "repair" THEN nbtask[m] ELSE {}] EXCEPT ![n] = {}]
  BY <1>1, <1>2
<1> QED BY <1>1, <1>3, <1>5, <1>6 DEF Abstract!Finish

\* The waiters are joined only when every node of the round is done.
LEMMA RoundDoneRefines ==
  ASSUME IInv, IInv', RoundDone PROVE Abstract!NextRound
<1>1. /\ phase = "wait" /\ Workers(job, round) \subseteq waited /\ round' = round + 1
      /\ UNCHANGED <<job, apc, ag, nbtask>>
  BY DEF RoundDone, listVars, agentVars
<1>2. /\ round \in Nat /\ round <= NumRounds(job) /\ Working = Workers(job, round)
      /\ Working \subseteq Nodes
  BY <1>1, PlanOK DEF IInv, TypeOK, RoundInv
<1>3. \A n \in Nodes : apc[n] = "request" /\ (Taken(n) <=> n \in Working)
  BY <1>1, <1>2, RoundIsOver
<1>4. \A n \in Workers(job, round) : StatusOf(n) = "done"
  BY <1>2, <1>3 DEF StatusOf, Taken
<1>5. \A n \in Nodes : StatusOf(n)' = "idle"
  <2>1. \A n \in Nodes : ag[n].round <= round /\ ag[n].round \in Int
    BY DEF IInv, RoundInv, TypeOK
  <2>2. \A n \in Nodes : ag'[n].round # round'
    BY <1>1, <1>2, <2>1
  <2> QED BY <1>1, <1>3, <2>2 DEF StatusOf
<1>6. \A n \in Workers(job, round) : [m \in Nodes |-> StatusOf(m)][n] = "done"
  BY <1>2, <1>4
<1>7. [m \in Nodes |-> StatusOf(m)]' = [m \in Nodes |-> "idle"]
  BY <1>5
<1>8. [m \in Nodes |-> IF apc[m] = "repair" THEN nbtask[m] ELSE {}]'
        = [m \in Nodes |-> IF apc[m] = "repair" THEN nbtask[m] ELSE {}]
  BY <1>1
<1> QED BY <1>1, <1>2, <1>6, <1>7, <1>8 DEF Abstract!NextRound

\* The coordinator and the agents implement the rounds: rounds do not overlap,
\* and in each a node runs exactly the work planned for it, once.
THEOREM Refinement == Spec => ImplementsRounds
<1>1. ASSUME IInv, IInv', [Next]_vars PROVE [Abstract!Next]_(Abstract!vars)
  <2>1. ASSUME NEW n \in Nodes, Sender(n) \/ WaitFinishFlag(n)
        PROVE  UNCHANGED Abstract!vars
    BY <2>1, AgentsAlone DEF Sender, SendAGCommand, SendTaskCommand, SendComputeItem,
       WaitFinishFlag, agentVars
  <2>2. CASE AllSent
    BY <2>2, AgentsAlone DEF AllSent, agentVars
  <2>3. CASE RoundDone
    BY <1>1, <2>3, RoundDoneRefines DEF Abstract!Next
  <2>4. ASSUME NEW n \in Nodes, Agent(n) PROVE [Abstract!Next]_(Abstract!vars)
    <3>1. CASE ReadInstructions(n)
      BY <1>1, <3>1, ReadInstructionsRefines
    <3>2. CASE RecvTask(n) \/ RecvComputeItem(n)
      <4>1. /\ apc[n] = "recv" /\ UNCHANGED <<job, round, apc, ag>>
            /\ \E x : nbtask' = [nbtask EXCEPT ![n] = x]
        BY <3>2 DEF RecvTask, RecvComputeItem, coorVars
      <4>2. \A m \in Nodes : apc[m] = "repair" => nbtask'[m] = nbtask[m]
        BY <1>1, <4>1 DEF IInv, TypeOK
      <4> QED BY <4>1, <4>2, AgentsAlone
    <3>3. CASE StartRepair(n)
      BY <1>1, <3>3, StartRepairRefines DEF Abstract!Next
    <3>4. CASE \E m \in Nodes : SendPackets(n, m) \/ RecvPackets(n, m)
      <4>1. UNCHANGED <<job, round, apc, ag, nbtask>>
        BY <3>4 DEF SendPackets, RecvPackets, coorVars
      <4> QED BY <4>1, AgentsAlone
    <3>5. CASE FinishRepair(n)
      BY <1>1, <3>5, FinishRepairRefines DEF Abstract!Next
    <3> QED BY <2>4, <3>1, <3>2, <3>3, <3>4, <3>5 DEF Agent
  <2>5. CASE UNCHANGED vars
    BY <2>5, AgentsAlone DEF vars, coorVars, agentVars
  <2>6. CASE AllIdle
    BY <2>5, <2>6 DEF AllIdle
  <2> QED BY <1>1, <2>1, <2>2, <2>3, <2>4, <2>5, <2>6 DEF Next, Coordinator
<1> QED BY <1>1, InitRefines, Invariance, PTL DEF Spec, ImplementsRounds, Abstract!Spec
=============================================================================
