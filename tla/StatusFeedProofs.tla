-------------------------- MODULE StatusFeedProofs --------------------------
(***************************************************************************)
(* What TLAPS proves of StatusFeed, for any number of dashboards and of    *)
(* status changes.                                                         *)
(***************************************************************************)
EXTENDS StatusFeed, SequenceTheorems, TLAPS

FeedNext == Feed \/ Dashboards \/ StatusChanges

-----------------------------------------------------------------------------
(***************************************************************************)
(* The inductive invariant, in parts that speak of a queue q, the handlers *)
(* h, the members m, what the clients have seen sn and the status st.      *)
(***************************************************************************)

IsPush(job) == job.op \in {"waiting", "pushing"}

Handlers == {"away", "greeting", "joining", "listening", "leaving", "gone"}

\* Who stands at the lock for what.
Placed(q, h) ==
    \A i \in 1 .. Len(q) :
        /\ IsPush(q[i]) => q[i].who \in {Ticker, Broadcast}
        /\ q[i].op = "join" => q[i].who \in Clients /\ h[q[i].who] = "joining"
        /\ q[i].op = "leave" => q[i].who \in Clients /\ h[q[i].who] = "leaving"

\* Nobody stands there twice, but for the broadcasts.
OnePlace(q) ==
    \A i, j \in 1 .. Len(q) : q[i].who = q[j].who /\ q[i].who # Broadcast => i = j

\* Only the holder of the lock pushes, and only to subscribed clients.
HolderPushes(q, m) ==
    \A i \in 1 .. Len(q) : q[i].op = "pushing" => i = 1 /\ q[i].todo \subseteq m

\* Nothing that is known of the status is newer than the status.
NoneNewer(q, gr, sn, st) ==
    /\ \A c \in Clients : sn[c] <= st /\ gr[c] <= st
    /\ \A i \in 1 .. Len(q) : q[i].snapshot <= st

\* A client that has not been greeted has seen nothing, and only clients between
\* their joining and the end of their leaving are subscribed.
Unsubscribed(h, m, sn) ==
    \A c \in Clients :
        /\ h[c] \in {"away", "greeting"} => sn[c] = -1
        /\ c \in m => h[c] \in {"listening", "leaving"}

\* Snapshots queue up in the order in which they were taken.
InOrder(q) ==
    \A i, j \in 1 .. Len(q) :
        i < j /\ IsPush(q[i]) /\ IsPush(q[j]) => q[i].snapshot <= q[j].snapshot

\* A push brings nothing older than what they have seen to those who are
\* subscribed or will be before its turn.
NoneOlder(q, m, sn) ==
    \A i \in 1 .. Len(q) : \A c \in Clients :
        /\ IsPush(q[i])
        /\ c \in m \/ \E j \in 1 .. i - 1 : q[j].op = "join" /\ q[j].who = c
        => sn[c] <= q[i].snapshot

Inv ==
    /\ FeedTypeOK
    /\ Placed(queue, handler)
    /\ OnePlace(queue)
    /\ HolderPushes(queue, members)
    /\ NoneNewer(queue, greeting, seen, status)
    /\ Unsubscribed(handler, members, seen)
    /\ InOrder(queue)
    /\ NoneOlder(queue, members, seen)

-----------------------------------------------------------------------------
(***************************************************************************)
(* The lock's queue: what an action does to it.                            *)
(***************************************************************************)

\* r is what is left of q when its head, and perhaps others, have gone.
Later(q, r) ==
    \E f \in [1 .. Len(r) -> 2 .. Len(q)] :
        /\ \A a, b \in 1 .. Len(r) : a < b => f[a] < f[b]
        /\ \A a \in 1 .. Len(r) : r[a] = q[f[a]]

\* A new job stands at the end.
LEMMA AtTheEnd ==
    ASSUME NEW q \in Seq(Jobs), NEW job \in Jobs, NEW r, r = Append(q, job)
    PROVE  /\ r \in Seq(Jobs)
           /\ Len(r) = Len(q) + 1
           /\ \A i \in 1 .. Len(q) : r[i] = q[i]
           /\ r[Len(q) + 1] = job
  BY AppendProperties

\* The holder's job is replaced.
LEMMA AtTheHead ==
    ASSUME NEW q \in Seq(Jobs), q # <<>>, NEW job \in Jobs, NEW r, r = <<job>> \o Tail(q)
    PROVE  /\ r \in Seq(Jobs)
           /\ Len(r) = Len(q)
           /\ r[1] = job
           /\ \A i \in 2 .. Len(q) : r[i] = q[i]
<1>1. Tail(q) \in Seq(Jobs) /\ Len(Tail(q)) = Len(q) - 1 /\ Len(q) \in Nat \ {0}
  BY HeadTailProperties, EmptySeq
<1>2. \A i \in 1 .. Len(Tail(q)) : Tail(q)[i] = q[i + 1]
  BY HeadTailProperties
<1>3. <<job>> \in Seq(Jobs) /\ Len(<<job>>) = 1 /\ <<job>>[1] = job
  OBVIOUS
<1>4. /\ r \in Seq(Jobs)
      /\ Len(r) = 1 + Len(Tail(q))
      /\ \A i \in 1 .. 1 + Len(Tail(q)) :
           r[i] = IF i <= 1 THEN <<job>>[i] ELSE Tail(q)[i - 1]
  BY <1>1, <1>3, ConcatProperties
<1>5. \A i \in 2 .. Len(q) : r[i] = Tail(q)[i - 1] /\ Tail(q)[i - 1] = q[i]
  BY <1>1, <1>2, <1>4
<1>6. QED
  BY <1>1, <1>3, <1>4, <1>5

\* The holder gives the lock up.
LEMMA HolderGone ==
    ASSUME NEW q \in Seq(Jobs), q # <<>>
    PROVE  Tail(q) \in Seq(Jobs) /\ Later(q, Tail(q))
<1>1. /\ Tail(q) \in Seq(Jobs)
      /\ Len(Tail(q)) = Len(q) - 1
      /\ \A i \in 1 .. Len(Tail(q)) : Tail(q)[i] = q[i + 1]
  BY HeadTailProperties
<1>2. Len(q) \in Nat
  OBVIOUS
<1> DEFINE f == [i \in 1 .. Len(Tail(q)) |-> i + 1]
<1>3. f \in [1 .. Len(Tail(q)) -> 2 .. Len(q)]
  BY <1>1, <1>2
<1>4. \A a, b \in 1 .. Len(Tail(q)) : a < b => f[a] < f[b]
  BY <1>1, <1>2
<1>5. \A a \in 1 .. Len(Tail(q)) : Tail(q)[a] = q[f[a]]
  BY <1>1, <1>2
<1>6. QED
  BY <1>1, <1>3, <1>4, <1>5 DEF Later

\* The holder gives the lock up, and the ticker its place.
LEMMA TickerGone ==
    ASSUME NEW q \in Seq(Jobs), q # <<>>, OnePlace(q)
    PROVE  /\ TickerCancelled(Tail(q)) \in Seq(Jobs)
           /\ Later(q, TickerCancelled(Tail(q)))
           /\ \A i \in 1 .. Len(TickerCancelled(Tail(q))) :
                TickerCancelled(Tail(q))[i].who # Ticker
<1> DEFINE t == Tail(q)
           r == TickerCancelled(t)
<1>1. /\ t \in Seq(Jobs)
      /\ Len(t) = Len(q) - 1
      /\ \A i \in 1 .. Len(t) : t[i] = q[i + 1]
  BY HeadTailProperties
<1>2. Len(q) \in Nat /\ Len(t) \in Nat
  BY <1>1
<1>3. CASE ~ \E i \in 1 .. Len(t) : t[i].who = Ticker
  <2>1. r = t
    BY <1>3 DEF TickerCancelled
  <2>2. QED
    BY <2>1, <1>1, <1>3, HolderGone
<1>4. CASE \E i \in 1 .. Len(t) : t[i].who = Ticker
  <2> DEFINE k == CHOOSE i \in 1 .. Len(t) : t[i].who = Ticker
  <2>1. k \in 1 .. Len(t) /\ t[k].who = Ticker
    BY <1>4
  <2>2. r = SubSeq(t, 1, k - 1) \o SubSeq(t, k + 1, Len(t))
    BY <1>4 DEF TickerCancelled
  <2> HIDE DEF k, t, r
  <2>3. /\ SubSeq(t, 1, k - 1) \in Seq(Jobs)
        /\ Len(SubSeq(t, 1, k - 1)) = k - 1
        /\ \A i \in 1 .. k - 1 : SubSeq(t, 1, k - 1)[i] = t[i]
    BY <1>1, <1>2, <2>1, SubSeqProperties
  <2>4. /\ SubSeq(t, k + 1, Len(t)) \in Seq(Jobs)
        /\ Len(SubSeq(t, k + 1, Len(t))) = Len(t) - k
        /\ \A i \in 1 .. Len(t) - k : SubSeq(t, k + 1, Len(t))[i] = t[k + i]
    BY <1>1, <1>2, <2>1, SubSeqProperties
  <2>5. /\ r \in Seq(Jobs)
        /\ Len(r) = Len(t) - 1
        /\ \A i \in 1 .. Len(t) - 1 : r[i] = IF i < k THEN t[i] ELSE t[i + 1]
    <3> DEFINE u == SubSeq(t, 1, k - 1)
               v == SubSeq(t, k + 1, Len(t))
    <3>0. u \in Seq(Jobs) /\ v \in Seq(Jobs) /\ Len(u) = k - 1 /\ Len(v) = Len(t) - k
      BY <2>3, <2>4
    <3>1. /\ r \in Seq(Jobs)
          /\ Len(r) = (k - 1) + (Len(t) - k)
          /\ \A i \in 1 .. (k - 1) + (Len(t) - k) :
               r[i] = IF i <= k - 1 THEN u[i] ELSE v[i - (k - 1)]
      <4>1. r = u \o v
        BY <2>2
      <4> HIDE DEF u, v
      <4>2. /\ u \o v \in Seq(Jobs)
            /\ Len(u \o v) = Len(u) + Len(v)
            /\ \A i \in 1 .. Len(u) + Len(v) :
                 (u \o v)[i] = IF i <= Len(u) THEN u[i] ELSE v[i - Len(u)]
        BY <3>0, ConcatProperties
      <4>3. QED
        BY <3>0, <4>1, <4>2
    <3>2. \A i \in 1 .. Len(t) - 1 : i < k => r[i] = t[i]
      BY <3>1, <2>1, <2>3, <1>2
    <3>3. ASSUME NEW i \in 1 .. Len(t) - 1, ~(i < k) PROVE r[i] = t[i + 1]
      <4>1. i - (k - 1) \in 1 .. Len(t) - k /\ k + (i - (k - 1)) = i + 1
        BY <3>3, <2>1, <1>2
      <4>2. r[i] = SubSeq(t, k + 1, Len(t))[i - (k - 1)]
        BY <3>1, <3>3, <2>1, <1>2
      <4>3. QED
        BY <4>1, <4>2, <2>4
    <3>4. QED
      BY <3>1, <3>2, <3>3, <2>1, <1>2
  <2> DEFINE f == [i \in 1 .. Len(r) |-> IF i < k THEN i + 1 ELSE i + 2]
  <2>6. f \in [1 .. Len(r) -> 2 .. Len(q)]
    BY <2>1, <2>5, <1>1, <1>2
  <2>7. \A a, b \in 1 .. Len(r) : a < b => f[a] < f[b]
    BY <2>1, <2>5, <1>2
  <2>8. \A a \in 1 .. Len(r) : r[a] = q[f[a]]
    BY <2>1, <2>5, <1>1, <1>2
  <2>9. ASSUME NEW a \in 1 .. Len(r), r[a].who = Ticker PROVE FALSE
    <3>1. f[a] \in 1 .. Len(q) /\ k + 1 \in 1 .. Len(q)
      BY <2>1, <2>6, <2>9, <1>1, <1>2
    <3>2. f[a] # k + 1
      BY <2>1, <2>5, <2>9, <1>2
    <3>3. q[f[a]].who = Ticker
      BY <2>8, <2>9
    <3>4. q[k + 1].who = Ticker
      BY <2>1, <1>1
    <3>5. QED
      BY <3>1, <3>2, <3>3, <3>4, ClientsAssumption DEF OnePlace
  <2>10. QED
    BY <2>5, <2>6, <2>7, <2>8, <2>9 DEF Later, r, t
<1>5. QED
  BY <1>3, <1>4

-----------------------------------------------------------------------------
(***************************************************************************)
(* What each kind of change of the queue leaves true of it.                *)
(***************************************************************************)

\* The jobs that stay when the holder has gone are nobody's who has.
LEMMA OthersStay ==
    ASSUME NEW q \in Seq(Jobs), q # <<>>, NEW r \in Seq(Jobs), Later(q, r),
           OnePlace(q), NEW i \in 1 .. Len(r)
    PROVE  \E k \in 2 .. Len(q) :
             /\ r[i] = q[k]
             /\ q[k].who = Head(q).who => q[k].who = Broadcast
<1>1. Len(q) \in Nat \ {0} /\ Head(q) = q[1]
  BY HeadTailProperties, EmptySeq
<1>2. PICK k \in 2 .. Len(q) : r[i] = q[k]
  BY DEF Later
<1>3. 1 \in 1 .. Len(q) /\ k \in 1 .. Len(q) /\ k # 1
  BY <1>1, <1>2
<1>4. QED
  BY <1>1, <1>2, <1>3 DEF OnePlace

\* What holds of all places of the queue still does when the holder has gone.
LEMMA LaterKeeps ==
    ASSUME NEW q \in Seq(Jobs), q # <<>>, NEW r \in Seq(Jobs), Later(q, r),
           NEW h, NEW h2, NEW m, NEW m2,
           Placed(q, h), OnePlace(q), HolderPushes(q, m), InOrder(q),
           \A c \in Clients : c # Head(q).who => h2[c] = h[c]
    PROVE  Placed(r, h2) /\ OnePlace(r) /\ HolderPushes(r, m2) /\ InOrder(r)
<1>1. PICK f \in [1 .. Len(r) -> 2 .. Len(q)] :
        /\ \A a, b \in 1 .. Len(r) : a < b => f[a] < f[b]
        /\ \A a \in 1 .. Len(r) : r[a] = q[f[a]]
  BY DEF Later
<1>2. Len(q) \in Nat /\ Len(r) \in Nat
  OBVIOUS
<1>3. \A a \in 1 .. Len(r) : f[a] \in 1 .. Len(q) /\ f[a] # 1
  BY <1>1, <1>2
<1>4. Placed(r, h2)
  <2> SUFFICES ASSUME NEW i \in 1 .. Len(r)
               PROVE  /\ IsPush(r[i]) => r[i].who \in {Ticker, Broadcast}
                      /\ r[i].op = "join" => r[i].who \in Clients /\ h2[r[i].who] = "joining"
                      /\ r[i].op = "leave" => r[i].who \in Clients /\ h2[r[i].who] = "leaving"
    BY DEF Placed
  <2>1. PICK k \in 2 .. Len(q) :
          r[i] = q[k] /\ (q[k].who = Head(q).who => q[k].who = Broadcast)
    BY OthersStay
  <2>2. /\ IsPush(q[k]) => q[k].who \in {Ticker, Broadcast}
        /\ q[k].op = "join" => q[k].who \in Clients /\ h[q[k].who] = "joining"
        /\ q[k].op = "leave" => q[k].who \in Clients /\ h[q[k].who] = "leaving"
    BY <1>2 DEF Placed
  <2>3. q[k].who \in Clients => h2[q[k].who] = h[q[k].who]
    BY <2>1, ClientsAssumption
  <2>4. QED
    BY <2>1, <2>2, <2>3
<1>5. OnePlace(r)
  <2> SUFFICES ASSUME NEW i \in 1 .. Len(r), NEW j \in 1 .. Len(r),
                      r[i].who = r[j].who, r[i].who # Broadcast
               PROVE  i = j
    BY DEF OnePlace
  <2>1. f[i] = f[j]
    <3>1. f[i] \in 1 .. Len(q) /\ f[j] \in 1 .. Len(q)
      BY <1>3
    <3>2. r[i] = q[f[i]] /\ r[j] = q[f[j]]
      BY <1>1
    <3>3. QED
      BY <3>1, <3>2 DEF OnePlace
  <2>2. ~(i < j) /\ ~(j < i)
    BY <1>1, <1>2, <2>1
  <2>3. QED
    BY <2>2, <1>2
<1>6. HolderPushes(r, m2)
  BY <1>1, <1>3 DEF HolderPushes
<1>7. InOrder(r)
  BY <1>1, <1>3 DEF InOrder
<1>8. QED
  BY <1>4, <1>5, <1>6, <1>7

\* Nobody is brought anything older when the holder has gone, if at most the
\* client the holder stood for is newly subscribed.
LEMMA LaterNoneOlder ==
    ASSUME NEW q \in Seq(Jobs), q # <<>>, NEW r \in Seq(Jobs), Later(q, r),
           NEW m, NEW m2, NEW sn, NoneOlder(q, m, sn),
           \A c \in Clients :
             c \in m2 => c \in m \/ (Head(q).op = "join" /\ Head(q).who = c)
    PROVE  NoneOlder(r, m2, sn)
<1>1. PICK f \in [1 .. Len(r) -> 2 .. Len(q)] :
        /\ \A a, b \in 1 .. Len(r) : a < b => f[a] < f[b]
        /\ \A a \in 1 .. Len(r) : r[a] = q[f[a]]
  BY DEF Later
<1>2. Len(q) \in Nat /\ Len(r) \in Nat /\ Head(q) = q[1]
  BY HeadTailProperties
<1> SUFFICES ASSUME NEW i \in 1 .. Len(r), NEW c \in Clients, IsPush(r[i]),
                    c \in m2 \/ \E j \in 1 .. i - 1 : r[j].op = "join" /\ r[j].who = c
             PROVE  sn[c] <= r[i].snapshot
  BY DEF NoneOlder
<1>3. f[i] \in 2 .. Len(q) /\ r[i] = q[f[i]]
  BY <1>1
<1>4. c \in m \/ \E j \in 1 .. f[i] - 1 : q[j].op = "join" /\ q[j].who = c
  <2>1. CASE c \in m2
    BY <2>1, <1>2, <1>3
  <2>2. CASE \E j \in 1 .. i - 1 : r[j].op = "join" /\ r[j].who = c
    <3>1. PICK j \in 1 .. i - 1 : r[j].op = "join" /\ r[j].who = c
      BY <2>2
    <3>2. j \in 1 .. Len(r) /\ j < i
      BY <1>2
    <3>3. f[j] \in 1 .. f[i] - 1 /\ r[j] = q[f[j]]
      BY <3>2, <1>1, <1>2
    <3>4. QED
      BY <3>1, <3>3
  <2>3. QED
    BY <2>1, <2>2
<1>5. f[i] \in 1 .. Len(q) /\ IsPush(q[f[i]])
  BY <1>3, <1>2
<1>6. QED
  BY <1>3, <1>4, <1>5 DEF NoneOlder

\* Nothing newer than the status comes in when the holder goes.
LEMMA LaterNoneNewer ==
    ASSUME NEW q \in Seq(Jobs), q # <<>>, NEW r \in Seq(Jobs), Later(q, r),
           NEW gr, NEW sn, NEW st, NoneNewer(q, gr, sn, st)
    PROVE  NoneNewer(r, gr, sn, st)
<1>1. \A i \in 1 .. Len(r) : \E k \in 1 .. Len(q) : r[i] = q[k]
  BY DEF Later
<1>2. QED
  BY <1>1 DEF NoneNewer

\* A job that is nobody's who stands there already and brings nothing old.
Appendable(q, h, h2, job) ==
    /\ job.who # Broadcast => \A i \in 1 .. Len(q) : q[i].who # job.who
    /\ \A c \in Clients : c # job.who => h2[c] = h[c]
    /\ IsPush(job) => job.who \in {Ticker, Broadcast}
    /\ IsPush(job) => \A i \in 1 .. Len(q) : q[i].snapshot <= job.snapshot
    /\ job.op = "join" => job.who \in Clients /\ h2[job.who] = "joining"
    /\ job.op = "leave" => job.who \in Clients /\ h2[job.who] = "leaving"
    /\ job.op # "pushing"

\* Appended, it keeps the order.
LEMMA AppendKeeps ==
    ASSUME NEW q \in Seq(Jobs), NEW job \in Jobs, NEW r, r = Append(q, job),
           NEW h, NEW h2, NEW m,
           Placed(q, h), OnePlace(q), HolderPushes(q, m), InOrder(q),
           Appendable(q, h, h2, job)
    PROVE  Placed(r, h2) /\ OnePlace(r) /\ HolderPushes(r, m) /\ InOrder(r)
<1>1. /\ r \in Seq(Jobs)
      /\ Len(r) = Len(q) + 1
      /\ \A i \in 1 .. Len(q) : r[i] = q[i]
      /\ r[Len(q) + 1] = job
  BY AtTheEnd
<1>2. Len(q) \in Nat
  OBVIOUS
<1>3. \A i \in 1 .. Len(r) : i \in 1 .. Len(q) \/ i = Len(q) + 1
  BY <1>1, <1>2
<1>4. Placed(r, h2)
  <2> SUFFICES ASSUME NEW i \in 1 .. Len(r)
               PROVE  /\ IsPush(r[i]) => r[i].who \in {Ticker, Broadcast}
                      /\ r[i].op = "join" => r[i].who \in Clients /\ h2[r[i].who] = "joining"
                      /\ r[i].op = "leave" => r[i].who \in Clients /\ h2[r[i].who] = "leaving"
    BY DEF Placed
  <2>1. CASE i = Len(q) + 1
    BY <2>1, <1>1 DEF Appendable
  <2>2. CASE i \in 1 .. Len(q)
    <3>1. q[i].who \in Clients => h2[q[i].who] = h[q[i].who]
      BY <2>2, ClientsAssumption DEF Appendable
    <3>2. r[i] = q[i]
      BY <2>2, <1>1
    <3>3. QED
      BY <2>2, <3>1, <3>2 DEF Placed
  <2>3. QED
    BY <1>3, <2>1, <2>2
<1>5. OnePlace(r)
  BY <1>1, <1>2, <1>3 DEF OnePlace, Appendable
<1>6. HolderPushes(r, m)
  BY <1>1, <1>3 DEF HolderPushes, Appendable
<1>7. InOrder(r)
  BY <1>1, <1>2, <1>3 DEF InOrder, Appendable
<1>8. QED
  BY <1>4, <1>5, <1>6, <1>7

\* Nobody is brought anything older by a job that is appended, if that brings a
\* snapshot no older than what anybody has seen, or none.
LEMMA AppendNoneOlder ==
    ASSUME NEW q \in Seq(Jobs), NEW job \in Jobs, NEW r, r = Append(q, job),
           NEW m, NEW sn, NoneOlder(q, m, sn),
           IsPush(job) => \A c \in Clients : sn[c] <= job.snapshot
    PROVE  NoneOlder(r, m, sn)
<1>1. /\ Len(r) = Len(q) + 1
      /\ \A i \in 1 .. Len(q) : r[i] = q[i]
      /\ r[Len(q) + 1] = job
  BY AtTheEnd
<1>2. Len(q) \in Nat
  OBVIOUS
<1> SUFFICES ASSUME NEW i \in 1 .. Len(r), NEW c \in Clients, IsPush(r[i]),
                    c \in m \/ \E j \in 1 .. i - 1 : r[j].op = "join" /\ r[j].who = c
             PROVE  sn[c] <= r[i].snapshot
  BY DEF NoneOlder
<1>3. CASE i = Len(q) + 1
  BY <1>1, <1>3
<1>4. CASE i \in 1 .. Len(q)
  <2>1. r[i] = q[i] /\ \A j \in 1 .. i - 1 : r[j] = q[j]
    BY <1>1, <1>2, <1>4
  <2>2. QED
    BY <1>4, <2>1 DEF NoneOlder
<1>5. QED
  BY <1>1, <1>2, <1>3, <1>4

\* The holder's turn with a push changes neither its task nor its snapshot.
LEMMA HolderKeeps ==
    ASSUME NEW q \in Seq(Jobs), q # <<>>, NEW job \in Jobs, NEW r, r = <<job>> \o Tail(q),
           NEW h, NEW m,
           Placed(q, h), OnePlace(q), HolderPushes(q, m), InOrder(q),
           IsPush(Head(q)), job.op = "pushing", job.todo \subseteq m,
           job.who = Head(q).who, job.snapshot = Head(q).snapshot
    PROVE  /\ Placed(r, h) /\ OnePlace(r) /\ HolderPushes(r, m) /\ InOrder(r)
           /\ r \in Seq(Jobs) /\ Len(r) = Len(q)
           /\ \A i \in 1 .. Len(q) :
                /\ r[i].who = q[i].who /\ r[i].snapshot = q[i].snapshot
                /\ IsPush(r[i]) = IsPush(q[i])
                /\ r[i].op = "join" => q[i].op = "join"
<1>1. /\ r \in Seq(Jobs)
      /\ Len(r) = Len(q)
      /\ r[1] = job
      /\ \A i \in 2 .. Len(q) : r[i] = q[i]
  BY AtTheHead
<1>2. Len(q) \in Nat \ {0} /\ Head(q) = q[1]
  BY HeadTailProperties, EmptySeq
<1>3. \A i \in 1 .. Len(q) : i = 1 \/ i \in 2 .. Len(q)
  BY <1>2
<1>4. IsPush(job) /\ job.op # "join" /\ job.op # "leave"
  BY DEF IsPush
<1>5. ASSUME NEW i \in 1 .. Len(q)
      PROVE  /\ r[i].who = q[i].who /\ r[i].snapshot = q[i].snapshot
             /\ IsPush(r[i]) = IsPush(q[i])
             /\ r[i].op = "join" => q[i].op = "join"
             /\ r[i].op = "leave" => q[i].op = "leave"
  <2>1. CASE i = 1
    BY <2>1, <1>1, <1>2, <1>4 DEF IsPush
  <2>2. CASE i \in 2 .. Len(q)
    BY <2>2, <1>1
  <2>3. QED
    BY <2>1, <2>2, <1>3
<1>6. Placed(r, h)
  BY <1>1, <1>5 DEF Placed
<1>7. OnePlace(r)
  BY <1>1, <1>5 DEF OnePlace
<1>8. HolderPushes(r, m)
  BY <1>1, <1>3 DEF HolderPushes
<1>9. InOrder(r)
  BY <1>1, <1>5 DEF InOrder
<1>10. QED
  BY <1>1, <1>5, <1>6, <1>7, <1>8, <1>9

\* With such a turn, nobody is brought anything newer than the status, or older
\* than what they have seen, if that holds of the snapshots that stood there.
LEMMA HolderNoneOlder ==
    ASSUME NEW q \in Seq(Jobs), NEW r \in Seq(Jobs), Len(r) = Len(q),
           NEW gr, NEW m, NEW sn, NEW st,
           NoneOlder(q, m, sn), NoneNewer(q, gr, sn, st),
           \A i \in 1 .. Len(q) :
                /\ r[i].who = q[i].who /\ r[i].snapshot = q[i].snapshot
                /\ IsPush(r[i]) = IsPush(q[i])
                /\ r[i].op = "join" => q[i].op = "join"
    PROVE  NoneOlder(r, m, sn) /\ NoneNewer(r, gr, sn, st)
<1>1. NoneNewer(r, gr, sn, st)
  BY DEF NoneNewer
<1>2. Len(q) \in Nat
  OBVIOUS
<1>3. ASSUME NEW i \in 1 .. Len(r), NEW c \in Clients, IsPush(r[i]),
             c \in m \/ \E j \in 1 .. i - 1 : r[j].op = "join" /\ r[j].who = c
      PROVE  sn[c] <= r[i].snapshot
  <2>1. \A j \in 1 .. i - 1 : j \in 1 .. Len(q)
    BY <1>2, <1>3
  <2>2. c \in m \/ \E j \in 1 .. i - 1 : q[j].op = "join" /\ q[j].who = c
    BY <1>3, <2>1
  <2>3. QED
    BY <1>3, <2>2 DEF NoneOlder
<1>4. NoneOlder(r, m, sn)
  BY <1>3 DEF NoneOlder
<1>5. QED
  BY <1>1, <1>4

\* A push that is the holder's turn brings a subscribed client its snapshot:
\* nothing that comes after is older.
LEMMA PushedNoneOlder ==
    ASSUME NEW q \in Seq(Jobs), q # <<>>, NEW m, NEW sn, NEW sn2, NEW c0 \in Clients,
           NoneOlder(q, m, sn), InOrder(q), IsPush(Head(q)),
           \A c \in Clients : c # c0 => sn2[c] = sn[c],
           sn2[c0] = Head(q).snapshot
    PROVE  NoneOlder(q, m, sn2)
<1>1. Len(q) \in Nat \ {0} /\ Head(q) = q[1]
  BY HeadTailProperties, EmptySeq
<1> SUFFICES ASSUME NEW i \in 1 .. Len(q), NEW c \in Clients, IsPush(q[i]),
                    c \in m \/ \E j \in 1 .. i - 1 : q[j].op = "join" /\ q[j].who = c
             PROVE  sn2[c] <= q[i].snapshot
  BY DEF NoneOlder
<1>2. CASE c # c0
  BY <1>2 DEF NoneOlder
<1>3. CASE c = c0
  <2>1. q[1].snapshot <= q[i].snapshot
    <3>1. q[1] \in Jobs
      BY <1>1, ElementOfSeq
    <3>2. q[1].snapshot \in Int
      BY <3>1, StatusesAssumption DEF Jobs, Statuses
    <3>3. CASE i = 1
      BY <3>2, <3>3
    <3>4. CASE i # 1
      BY <1>1, <3>4 DEF InOrder
    <3>5. QED
      BY <3>3, <3>4
  <2>2. QED
    BY <1>1, <1>3, <2>1
<1>4. QED
  BY <1>2, <1>3

-----------------------------------------------------------------------------
(***************************************************************************)
(* The invariant.                                                          *)
(***************************************************************************)

\* The types alone, and the place of the ticker at the lock.
Types ==
    /\ status \in Statuses
    /\ handler \in [Clients -> Handlers]
    /\ greeting \in [Clients -> Statuses]
    /\ dead \subseteq Clients
    /\ seen \in [Clients -> Statuses \cup {-1}]
    /\ members \subseteq Clients
    /\ ticker \in {"none", "asleep", "pushing"}
    /\ scheduled \in Nat
    /\ queue \in Seq(Jobs)

TickerAt(q) == \E i \in 1 .. Len(q) : q[i].who = Ticker

LEMMA TypesOf == FeedTypeOK <=> Types /\ (ticker = "pushing" <=> TickerAt(queue))
  BY DEF FeedTypeOK, Types, TickerAt, Handlers

LEMMA JobTyped ==
    ASSUME NEW op \in {"join", "leave", "waiting", "pushing"},
           NEW who \in Clients \cup {Ticker, Broadcast}, NEW s \in Statuses
    PROVE  /\ Job(op, who) \in Jobs
           /\ [Job(op, who) EXCEPT !.snapshot = s] \in Jobs
  BY StatusesAssumption DEF Job, Jobs, Statuses

\* The holder of the lock and its job.
LEMMA HolderTyped ==
    ASSUME Types, queue # <<>>
    PROVE  /\ Head(queue) = queue[1] /\ Head(queue) \in Jobs /\ 1 \in 1 .. Len(queue)
           /\ Tail(queue) \in Seq(Jobs)
           /\ Len(queue) \in Nat
  BY HeadTailProperties, EmptySeq DEF Types

\* A client that has no job yet has no place at the lock.
LEMMA NotThere ==
    ASSUME Inv, NEW c \in Clients, handler[c] \in {"away", "greeting", "listening", "gone"}
    PROVE  \A i \in 1 .. Len(queue) : queue[i].who # c
<1> SUFFICES ASSUME NEW i \in 1 .. Len(queue), queue[i].who = c PROVE FALSE
  OBVIOUS
<1>1. queue[i] \in Jobs
  BY ElementOfSeq DEF Inv, FeedTypeOK
<1>2. IsPush(queue[i]) \/ queue[i].op = "join" \/ queue[i].op = "leave"
  BY <1>1 DEF Jobs, IsPush
<1>3. c \notin {Ticker, Broadcast}
  BY ClientsAssumption
<1>4. QED
  BY <1>2, <1>3 DEF Inv, Placed

\* The ticker keeps its place when the holder of the lock was another.
LEMMA HeadGone ==
    ASSUME NEW q \in Seq(Jobs), q # <<>>, Head(q).who # Ticker
    PROVE  TickerAt(q) <=> TickerAt(Tail(q))
<1>1. /\ Len(Tail(q)) = Len(q) - 1 /\ Len(q) \in Nat /\ Head(q) = q[1]
      /\ \A i \in 1 .. Len(Tail(q)) : Tail(q)[i] = q[i + 1]
  BY HeadTailProperties
<1>2. ASSUME TickerAt(q) PROVE TickerAt(Tail(q))
  <2>1. PICK i \in 1 .. Len(q) : q[i].who = Ticker
    BY <1>2 DEF TickerAt
  <2>2. i - 1 \in 1 .. Len(Tail(q)) /\ (i - 1) + 1 = i
    BY <1>1, <2>1
  <2>3. QED
    BY <1>1, <2>1, <2>2 DEF TickerAt
<1>3. ASSUME TickerAt(Tail(q)) PROVE TickerAt(q)
  <2>1. PICK i \in 1 .. Len(Tail(q)) : Tail(q)[i].who = Ticker
    BY <1>3 DEF TickerAt
  <2>2. i + 1 \in 1 .. Len(q)
    BY <1>1
  <2>3. QED
    BY <1>1, <2>1, <2>2 DEF TickerAt
<1>4. QED
  BY <1>2, <1>3

LEMMA InitInv == InitFeed => Inv
<1> SUFFICES ASSUME InitFeed PROVE Inv
  OBVIOUS
<1>1. Types
  BY StatusesAssumption DEF InitFeed, Types, Statuses, Handlers
<1>2. Len(queue) = 0 /\ 1 .. Len(queue) = {}
  BY DEF InitFeed
<1>3. FeedTypeOK
  BY <1>1, <1>2, TypesOf DEF TickerAt, InitFeed
<1>4. /\ Placed(queue, handler) /\ OnePlace(queue) /\ HolderPushes(queue, members)
      /\ InOrder(queue) /\ NoneOlder(queue, members, seen)
  BY <1>2 DEF Placed, OnePlace, HolderPushes, InOrder, NoneOlder
<1>5. NoneNewer(queue, greeting, seen, status)
  BY <1>2 DEF NoneNewer, InitFeed
<1>6. Unsubscribed(handler, members, seen)
  BY DEF Unsubscribed, InitFeed
<1>7. QED
  BY <1>3, <1>4, <1>5, <1>6 DEF Inv

\* It stands or falls with its parts after a step.
LEMMA InvThen ==
    ASSUME Types', (ticker = "pushing")' <=> TickerAt(queue'),
           Placed(queue', handler'), OnePlace(queue'), HolderPushes(queue', members'),
           NoneNewer(queue', greeting', seen', status'),
           Unsubscribed(handler', members', seen'),
           InOrder(queue'), NoneOlder(queue', members', seen')
    PROVE  Inv'
<1>1. FeedTypeOK'
  BY DEF FeedTypeOK, Types, TickerAt, Handlers
<1>2. QED
  BY <1>1 DEF Inv

\* The parts of it that follow whenever the holder gives the lock up.
LEMMA GoneKeeps ==
    ASSUME Inv, queue # <<>>, queue' \in Seq(Jobs), Later(queue, queue'),
           status' = status, greeting' = greeting, seen' = seen,
           \A c \in Clients : c # Head(queue).who => handler'[c] = handler[c],
           \A c \in Clients :
             c \in members' => c \in members \/ (Head(queue).op = "join" /\ Head(queue).who = c)
    PROVE  /\ Placed(queue', handler') /\ OnePlace(queue') /\ HolderPushes(queue', members')
           /\ NoneNewer(queue', greeting', seen', status')
           /\ InOrder(queue') /\ NoneOlder(queue', members', seen')
<1>1. /\ Placed(queue, handler) /\ OnePlace(queue) /\ HolderPushes(queue, members)
      /\ NoneNewer(queue, greeting, seen, status)
      /\ InOrder(queue) /\ NoneOlder(queue, members, seen)
      /\ queue \in Seq(Jobs)
  BY DEF Inv, FeedTypeOK
<1>2. /\ Placed(queue', handler') /\ OnePlace(queue')
      /\ HolderPushes(queue', members') /\ InOrder(queue')
  BY <1>1, LaterKeeps
<1>3. NoneOlder(queue', members', seen)
  BY <1>1, LaterNoneOlder
<1>4. NoneNewer(queue', greeting, seen, status)
  BY <1>1, LaterNoneNewer
<1>5. QED
  BY <1>2, <1>3, <1>4

LEMMA TurnQueue ==
    ASSUME queue \in Seq(Jobs), queue # <<>>,
           NEW job \in Jobs, queue' = <<job>> \o Tail(queue),
           Placed(queue, handler), OnePlace(queue), HolderPushes(queue, members),
           InOrder(queue),
           IsPush(Head(queue)), job.op = "pushing", job.todo \subseteq members,
           job.who = Head(queue).who, job.snapshot = Head(queue).snapshot
    PROVE  /\ Placed(queue', handler) /\ OnePlace(queue') /\ HolderPushes(queue', members)
           /\ InOrder(queue') /\ queue' \in Seq(Jobs) /\ Len(queue') = Len(queue)
           /\ \A i \in 1 .. Len(queue) :
                /\ queue'[i].who = queue[i].who /\ queue'[i].snapshot = queue[i].snapshot
                /\ IsPush(queue'[i]) = IsPush(queue[i])
                /\ queue'[i].op = "join" => queue[i].op = "join"
<1>1. Placed(queue', handler)
  BY HolderKeeps
<1>2. OnePlace(queue')
  BY HolderKeeps
<1>3. HolderPushes(queue', members)
  BY HolderKeeps
<1>4. InOrder(queue')
  BY HolderKeeps
<1>5. queue' \in Seq(Jobs) /\ Len(queue') = Len(queue)
  BY HolderKeeps
<1>6. ASSUME NEW i \in 1 .. Len(queue)
      PROVE  /\ queue'[i].who = queue[i].who /\ queue'[i].snapshot = queue[i].snapshot
             /\ IsPush(queue'[i]) = IsPush(queue[i])
             /\ queue'[i].op = "join" => queue[i].op = "join"
  BY HolderKeeps
<1>7. QED
  BY <1>1, <1>2, <1>3, <1>4, <1>5, <1>6

\* What a turn of the holder with its push does to it.
LEMMA TurnKeeps ==
    ASSUME Inv, queue # <<>>, NEW job \in Jobs, queue' = <<job>> \o Tail(queue),
           IsPush(Head(queue)), job.op = "pushing", job.todo \subseteq members,
           job.who = Head(queue).who, job.snapshot = Head(queue).snapshot,
           UNCHANGED <<status, handler, greeting, dead, members, ticker, scheduled>>,
           \/ seen' = seen
           \/ /\ seen' \in [Clients -> Statuses \cup {-1}]
              /\ NoneOlder(queue, members, seen') /\ NoneNewer(queue, greeting, seen', status)
              /\ Unsubscribed(handler, members, seen')
    PROVE  Inv'
<1>1. Types /\ (ticker = "pushing" <=> TickerAt(queue)) /\ queue \in Seq(Jobs)
  BY TypesOf DEF Inv, Types
<1>2. /\ NoneOlder(queue, members, seen') /\ NoneNewer(queue, greeting, seen', status)
      /\ Unsubscribed(handler, members, seen') /\ seen' \in [Clients -> Statuses \cup {-1}]
  BY <1>1 DEF Inv, Types
<1>3. /\ Placed(queue, handler) /\ OnePlace(queue) /\ HolderPushes(queue, members)
      /\ InOrder(queue)
  BY DEF Inv
<1>4. /\ Placed(queue', handler) /\ OnePlace(queue') /\ HolderPushes(queue', members)
      /\ InOrder(queue') /\ queue' \in Seq(Jobs) /\ Len(queue') = Len(queue)
      /\ \A i \in 1 .. Len(queue) :
           /\ queue'[i].who = queue[i].who /\ queue'[i].snapshot = queue[i].snapshot
           /\ IsPush(queue'[i]) = IsPush(queue[i])
           /\ queue'[i].op = "join" => queue[i].op = "join"
  BY <1>1, <1>3, TurnQueue
<1>5. NoneOlder(queue', members, seen') /\ NoneNewer(queue', greeting, seen', status)
  BY <1>1, <1>2, <1>4, HolderNoneOlder
<1>6. Types'
  BY <1>1, <1>2, <1>4 DEF Types
<1>7. (ticker = "pushing")' <=> TickerAt(queue')
  BY <1>1, <1>4 DEF TickerAt
<1>8. QED
  BY <1>2, <1>4, <1>5, <1>6, <1>7, InvThen

\* What a job that is appended does to it.
LEMMA AppendedKeeps ==
    ASSUME Inv, NEW job \in Jobs, queue' = Append(queue, job),
           UNCHANGED <<status, greeting, dead, members>>, scheduled' \in Nat,
           ticker' \in {"none", "asleep", "pushing"},
           IF job.who = Ticker THEN ticker' = "pushing" ELSE ticker' = ticker,
           handler' \in [Clients -> Handlers], seen' \in [Clients -> Statuses \cup {-1}],
           job.who # Broadcast => \A i \in 1 .. Len(queue) : queue[i].who # job.who,
           \A c \in Clients : c # job.who => handler'[c] = handler[c],
           IsPush(job) => job.who \in {Ticker, Broadcast} /\ job.snapshot = status,
           job.op = "join" => job.who \in Clients /\ handler'[job.who] = "joining",
           job.op = "leave" => job.who \in Clients /\ handler'[job.who] = "leaving",
           job.op # "pushing", job.snapshot <= status,
           NoneOlder(queue, members, seen'), NoneNewer(queue, greeting, seen', status),
           Unsubscribed(handler', members, seen')
    PROVE  Inv'
<1>1. Types /\ (ticker = "pushing" <=> TickerAt(queue)) /\ queue \in Seq(Jobs)
  BY TypesOf DEF Inv, Types
<1>2. /\ Placed(queue, handler) /\ OnePlace(queue) /\ HolderPushes(queue, members)
      /\ InOrder(queue)
  BY DEF Inv
<1>3. IsPush(job) => /\ \A i \in 1 .. Len(queue) : queue[i].snapshot <= job.snapshot
                     /\ \A c \in Clients : seen'[c] <= job.snapshot
  BY DEF NoneNewer
<1>4. /\ Placed(queue', handler') /\ OnePlace(queue') /\ HolderPushes(queue', members)
      /\ InOrder(queue')
  <2>1. Appendable(queue, handler, handler', job)
    BY <1>3 DEF Appendable
  <2>2. QED
    BY <1>1, <1>2, <2>1, AppendKeeps
<1>5. NoneOlder(queue', members, seen')
  BY <1>1, <1>3, AppendNoneOlder
<1>6. /\ queue' \in Seq(Jobs) /\ Len(queue') = Len(queue) + 1
      /\ \A i \in 1 .. Len(queue) : queue'[i] = queue[i]
      /\ queue'[Len(queue) + 1] = job
  BY <1>1, AtTheEnd
<1>7. \A i \in 1 .. Len(queue') : i \in 1 .. Len(queue) \/ i = Len(queue) + 1
  BY <1>1, <1>6
<1>8. NoneNewer(queue', greeting, seen', status)
  BY <1>6, <1>7 DEF NoneNewer
<1>9. (ticker = "pushing")' <=> TickerAt(queue')
  <2>1. TickerAt(queue') <=> TickerAt(queue) \/ job.who = Ticker
    <3>1. Len(queue) + 1 \in 1 .. Len(queue') /\ 1 .. Len(queue) \subseteq 1 .. Len(queue')
      BY <1>1, <1>6
    <3>2. QED
      BY <3>1, <1>6, <1>7 DEF TickerAt
  <2>2. QED
    BY <2>1, <1>1
<1>10. Types'
  BY <1>1, <1>6 DEF Types
<1>11. QED
  BY <1>4, <1>5, <1>8, <1>9, <1>10, InvThen

LEMMA JoinedKeeps == ASSUME Inv, Joined PROVE Inv'
<1>1. Types /\ (ticker = "pushing" <=> TickerAt(queue))
  BY TypesOf DEF Inv
<1> DEFINE c == Head(queue).who
<1>2. /\ queue # <<>> /\ Head(queue).op = "join" /\ queue' = Tail(queue)
      /\ members' = members \cup {c} /\ handler' = [handler EXCEPT ![c] = "listening"]
      /\ ticker' = TickerEnsured
      /\ UNCHANGED <<status, greeting, dead, seen, scheduled>>
  BY DEF Joined, Holds
<1>3. /\ Head(queue) = queue[1] /\ 1 \in 1 .. Len(queue) /\ queue \in Seq(Jobs)
      /\ queue' \in Seq(Jobs) /\ Later(queue, queue')
  BY <1>1, <1>2, HolderTyped, HolderGone DEF Types
<1>4. c \in Clients /\ handler[c] = "joining"
  BY <1>2, <1>3 DEF Inv, Placed
<1>5. \A d \in Clients : d # Head(queue).who => handler'[d] = handler[d]
  BY <1>1, <1>2 DEF Types
<1>6. \A d \in Clients :
        d \in members' => d \in members \/ (Head(queue).op = "join" /\ Head(queue).who = d)
  BY <1>2
<1>7. /\ Placed(queue', handler') /\ OnePlace(queue') /\ HolderPushes(queue', members')
      /\ NoneNewer(queue', greeting', seen', status')
      /\ InOrder(queue') /\ NoneOlder(queue', members', seen')
  BY <1>2, <1>3, <1>5, <1>6, GoneKeeps
<1>8. Unsubscribed(handler', members', seen')
  <2> SUFFICES ASSUME NEW d \in Clients
               PROVE  /\ handler'[d] \in {"away", "greeting"} => seen'[d] = -1
                      /\ d \in members' => handler'[d] \in {"listening", "leaving"}
    BY DEF Unsubscribed
  <2>1. CASE d = c
    BY <2>1, <1>1, <1>2 DEF Types
  <2>2. CASE d # c
    BY <2>2, <1>2, <1>5 DEF Inv, Unsubscribed
  <2>3. QED
    BY <2>1, <2>2
<1>9. Types'
  BY <1>1, <1>2, <1>3, <1>4 DEF Types, Handlers, TickerEnsured
<1>10. (ticker = "pushing")' <=> TickerAt(queue')
  <2>1. (ticker = "pushing")' <=> ticker = "pushing"
    BY <1>2 DEF TickerEnsured
  <2>2. TickerAt(queue) <=> TickerAt(queue')
    BY <1>2, <1>3, <1>4, HeadGone, ClientsAssumption
  <2>3. QED
    BY <2>1, <2>2, <1>1
<1>11. QED
  BY <1>7, <1>8, <1>9, <1>10, InvThen

LEMMA LeftKeeps == ASSUME Inv, Left PROVE Inv'
<1>1. Types /\ (ticker = "pushing" <=> TickerAt(queue))
  BY TypesOf DEF Inv
<1> DEFINE c == Head(queue).who
<1>2. /\ queue # <<>> /\ Head(queue).op = "leave"
      /\ members' = members \ {c} /\ handler' = [handler EXCEPT ![c] = "gone"]
      /\ \/ members' = {} /\ ticker' = "none" /\ queue' = TickerCancelled(Tail(queue))
         \/ queue' = Tail(queue) /\ ticker' = ticker
      /\ UNCHANGED <<status, greeting, dead, seen, scheduled>>
  BY DEF Left, Holds
<1>3. Head(queue) = queue[1] /\ 1 \in 1 .. Len(queue) /\ queue \in Seq(Jobs)
  BY <1>1, <1>2, HolderTyped DEF Types
<1>4. c \in Clients /\ handler[c] = "leaving"
  BY <1>2, <1>3 DEF Inv, Placed
<1>5. \A d \in Clients : d # Head(queue).who => handler'[d] = handler[d]
  BY <1>1, <1>2 DEF Types
<1>6. /\ queue' \in Seq(Jobs) /\ Later(queue, queue')
      /\ (ticker = "pushing")' <=> TickerAt(queue')
  <2>1. CASE members' = {} /\ ticker' = "none" /\ queue' = TickerCancelled(Tail(queue))
    <3>1. OnePlace(queue)
      BY DEF Inv
    <3>2. /\ queue' \in Seq(Jobs) /\ Later(queue, queue')
          /\ \A i \in 1 .. Len(queue') : queue'[i].who # Ticker
      BY <2>1, <3>1, <1>2, <1>3, TickerGone
    <3>3. QED
      BY <3>2, <2>1 DEF TickerAt
  <2>2. CASE queue' = Tail(queue) /\ ticker' = ticker
    <3>1. queue' \in Seq(Jobs) /\ Later(queue, queue')
      BY <2>2, <1>2, <1>3, HolderGone
    <3>2. TickerAt(queue) <=> TickerAt(queue')
      BY <2>2, <1>2, <1>3, <1>4, HeadGone, ClientsAssumption
    <3>3. QED
      BY <3>1, <3>2, <2>2, <1>1
  <2>3. QED
    BY <1>2, <2>1, <2>2
<1>7. \A d \in Clients :
        d \in members' => d \in members \/ (Head(queue).op = "join" /\ Head(queue).who = d)
  BY <1>2
<1>8. /\ Placed(queue', handler') /\ OnePlace(queue') /\ HolderPushes(queue', members')
      /\ NoneNewer(queue', greeting', seen', status')
      /\ InOrder(queue') /\ NoneOlder(queue', members', seen')
  BY <1>2, <1>5, <1>6, <1>7, GoneKeeps
<1>9. Unsubscribed(handler', members', seen')
  <2> SUFFICES ASSUME NEW d \in Clients
               PROVE  /\ handler'[d] \in {"away", "greeting"} => seen'[d] = -1
                      /\ d \in members' => handler'[d] \in {"listening", "leaving"}
    BY DEF Unsubscribed
  <2>1. CASE d = c
    BY <2>1, <1>1, <1>2 DEF Types
  <2>2. CASE d # c
    BY <2>2, <1>2, <1>5 DEF Inv, Unsubscribed
  <2>3. QED
    BY <2>1, <2>2
<1>10. Types'
  BY <1>1, <1>2, <1>4, <1>6 DEF Types, Handlers
<1>11. QED
  BY <1>6, <1>8, <1>9, <1>10, InvThen

LEMMA PushEndsKeeps == ASSUME Inv, PushEnds PROVE Inv'
<1>1. Types /\ (ticker = "pushing" <=> TickerAt(queue))
  BY TypesOf DEF Inv
<1>2. /\ queue # <<>> /\ Head(queue).op = "pushing" /\ queue' = Tail(queue)
      /\ members' = members \ Head(queue).failed
      /\ ticker' = IF Head(queue).who = Ticker
                   THEN TickerAfter(Head(queue), members') ELSE ticker
      /\ UNCHANGED <<status, handler, greeting, dead, seen, scheduled>>
  BY DEF PushEnds, Holds
<1>3. /\ Head(queue) = queue[1] /\ 1 \in 1 .. Len(queue) /\ queue \in Seq(Jobs)
      /\ queue' \in Seq(Jobs) /\ Later(queue, queue')
  BY <1>1, <1>2, HolderTyped, HolderGone DEF Types
<1>4. /\ \A d \in Clients : d # Head(queue).who => handler'[d] = handler[d]
      /\ \A d \in Clients :
           d \in members' => d \in members \/ (Head(queue).op = "join" /\ Head(queue).who = d)
  BY <1>2
<1>5. /\ Placed(queue', handler') /\ OnePlace(queue') /\ HolderPushes(queue', members')
      /\ NoneNewer(queue', greeting', seen', status')
      /\ InOrder(queue') /\ NoneOlder(queue', members', seen')
  BY <1>2, <1>3, <1>4, GoneKeeps
<1>6. Unsubscribed(handler', members', seen')
  BY <1>2 DEF Inv, Unsubscribed
<1>7. Types'
  BY <1>1, <1>2, <1>3 DEF Types, TickerAfter
<1>8. (ticker = "pushing")' <=> TickerAt(queue')
  <2>1. CASE Head(queue).who = Ticker
    <3>1. ticker' # "pushing"
      BY <2>1, <1>2 DEF TickerAfter
    <3>2. ASSUME NEW i \in 1 .. Len(queue'), queue'[i].who = Ticker PROVE FALSE
      <4>1. \E k \in 2 .. Len(queue) :
              /\ queue'[i] = queue[k]
              /\ queue[k].who = Head(queue).who => queue[k].who = Broadcast
        <5>1. OnePlace(queue)
          BY DEF Inv
        <5>2. QED
          BY <5>1, <1>2, <1>3, OthersStay
      <4>2. QED
        BY <4>1, <3>2, <2>1, ClientsAssumption
    <3>3. QED
      BY <3>1, <3>2 DEF TickerAt
  <2>2. CASE Head(queue).who # Ticker
    <3>1. TickerAt(queue) <=> TickerAt(queue')
      BY <2>2, <1>2, <1>3, HeadGone
    <3>2. QED
      BY <2>2, <3>1, <1>1, <1>2
  <2>3. QED
    BY <2>1, <2>2
<1>9. QED
  BY <1>5, <1>6, <1>7, <1>8, InvThen

LEMMA PushBeginsKeeps == ASSUME Inv, PushBegins PROVE Inv'
<1>1. Types /\ (ticker = "pushing" <=> TickerAt(queue))
  BY TypesOf DEF Inv
<1> DEFINE job == [Head(queue) EXCEPT !.op = "pushing", !.todo = members]
<1>2. /\ queue # <<>> /\ Head(queue).op = "waiting" /\ queue' = <<job>> \o Tail(queue)
      /\ UNCHANGED <<status, handler, greeting, dead, seen, members, ticker, scheduled>>
  BY DEF PushBegins, Holds
<1>3. Head(queue) \in Jobs /\ queue \in Seq(Jobs)
  BY <1>1, <1>2, HolderTyped DEF Types
<1>4. /\ job \in Jobs /\ job.op = "pushing" /\ job.todo = members
      /\ job.who = Head(queue).who /\ job.snapshot = Head(queue).snapshot
  BY <1>1, <1>3 DEF Jobs, Types
<1> HIDE DEF job
<1>5. IsPush(Head(queue)) /\ job.todo \subseteq members
  BY <1>2, <1>4 DEF IsPush
<1>6. QED
  BY <1>1, <1>2, <1>3, <1>4, <1>5, TurnKeeps

LEMMA PushesKeeps == ASSUME Inv, NEW c \in Clients, Pushes(c) PROVE Inv' /\ seen'[c] >= seen[c]
<1>1. Types /\ (ticker = "pushing" <=> TickerAt(queue))
  BY TypesOf DEF Inv
<1>2. /\ queue # <<>> /\ Head(queue).op = "pushing" /\ c \in Head(queue).todo
      /\ UNCHANGED <<status, handler, greeting, dead, members, ticker, scheduled>>
  BY DEF Pushes, Holds
<1>3. /\ Head(queue) \in Jobs /\ queue \in Seq(Jobs) /\ 1 \in 1 .. Len(queue)
      /\ Head(queue) = queue[1]
  BY <1>1, <1>2, HolderTyped DEF Types
<1>4. Head(queue).todo \subseteq members /\ IsPush(Head(queue))
  BY <1>2, <1>3 DEF Inv, HolderPushes, IsPush
<1>5. CASE /\ c \notin dead
           /\ seen' = [seen EXCEPT ![c] = Head(queue).snapshot]
           /\ queue' = <<[Head(queue) EXCEPT !.todo = @ \ {c}]>> \o Tail(queue)
  <2> DEFINE job == [Head(queue) EXCEPT !.todo = @ \ {c}]
  <2>1. /\ job \in Jobs /\ job.op = "pushing" /\ job.todo \subseteq members
        /\ job.who = Head(queue).who /\ job.snapshot = Head(queue).snapshot
    BY <1>2, <1>3, <1>4 DEF Jobs
  <2>2. queue' = <<job>> \o Tail(queue)
    BY <1>5
  <2> HIDE DEF job
  <2>3. /\ Head(queue).snapshot \in Statuses /\ seen' \in [Clients -> Statuses \cup {-1}]
        /\ seen'[c] = Head(queue).snapshot
        /\ \A d \in Clients : d # c => seen'[d] = seen[d]
    BY <1>1, <1>3, <1>5 DEF Types, Jobs
  <2>4. seen[c] <= Head(queue).snapshot
    BY <1>2, <1>3, <1>4 DEF Inv, NoneOlder
  <2>5. NoneOlder(queue, members, seen')
    <3>1. NoneOlder(queue, members, seen) /\ InOrder(queue)
      BY DEF Inv
    <3>2. QED
      BY <3>1, <1>2, <1>3, <1>4, <2>3, PushedNoneOlder
  <2>6. NoneNewer(queue, greeting, seen', status)
    BY <1>3, <2>3 DEF Inv, NoneNewer
  <2>7. Unsubscribed(handler, members, seen')
    <3> SUFFICES ASSUME NEW d \in Clients, handler[d] \in {"away", "greeting"}
                 PROVE  seen'[d] = -1
      BY DEF Inv, Unsubscribed
    <3>1. d # c
      BY <1>2, <1>4 DEF Inv, Unsubscribed
    <3>2. QED
      BY <3>1, <2>3 DEF Inv, Unsubscribed
  <2>8. Inv'
    BY <1>1, <1>2, <1>3, <1>4, <2>1, <2>2, <2>3, <2>5, <2>6, <2>7, TurnKeeps
  <2>9. QED
    BY <2>3, <2>4, <2>8
<1>6. CASE /\ c \in dead
           /\ queue' = <<FailureNoted(Head(queue), c)>> \o Tail(queue)
           /\ seen' = seen
  <2> DEFINE job == FailureNoted(Head(queue), c)
  <2>1. /\ job \in Jobs /\ job.op = "pushing" /\ job.todo \subseteq members
        /\ job.who = Head(queue).who /\ job.snapshot = Head(queue).snapshot
    BY <1>2, <1>3, <1>4 DEF Jobs, FailureNoted
  <2>2. queue' = <<job>> \o Tail(queue)
    BY <1>6
  <2> HIDE DEF job
  <2>3. Inv'
    BY <1>1, <1>2, <1>3, <1>4, <1>6, <2>1, <2>2, TurnKeeps
  <2>4. seen[c] \in Int
    BY <1>1, StatusesAssumption DEF Types, Statuses
  <2>5. QED
    BY <2>3, <2>4, <1>6
<1>7. QED
  BY <1>5, <1>6 DEF Pushes

LEMMA OpensKeeps == ASSUME Inv, NEW c \in Clients, Opens(c) PROVE Inv'
<1>1. Types /\ (ticker = "pushing" <=> TickerAt(queue))
  BY TypesOf DEF Inv
<1>2. /\ handler[c] = "away" /\ handler' = [handler EXCEPT ![c] = "greeting"]
      /\ greeting' = [greeting EXCEPT ![c] = status]
      /\ UNCHANGED <<status, dead, seen, members, ticker, scheduled, queue>>
  BY DEF Opens, HandlerAt
<1>3. Types'
  BY <1>1, <1>2 DEF Types, Handlers
<1>4. \A i \in 1 .. Len(queue) : queue[i].who # c
  BY <1>2, NotThere
<1>5. Placed(queue', handler')
  <2>1. \A i \in 1 .. Len(queue) : queue[i].who \in Clients =>
          handler'[queue[i].who] = handler[queue[i].who]
    BY <1>1, <1>2, <1>4 DEF Types
  <2>2. QED
    BY <1>2, <2>1 DEF Inv, Placed
<1>6. NoneNewer(queue', greeting', seen', status')
  <2>1. \A d \in Clients : greeting'[d] = status \/ greeting'[d] = greeting[d]
    BY <1>1, <1>2 DEF Types
  <2>2. status <= status
    BY <1>1, StatusesAssumption DEF Types, Statuses
  <2>3. QED
    BY <1>2, <2>1, <2>2 DEF Inv, NoneNewer
<1>7. Unsubscribed(handler', members', seen')
  BY <1>1, <1>2 DEF Inv, Unsubscribed, Types
<1>8. QED
  BY <1>1, <1>2, <1>3, <1>5, <1>6, <1>7, InvThen DEF Inv, TickerAt

LEMMA GreetedKeeps ==
    ASSUME Inv, NEW c \in Clients, Greeted(c) PROVE Inv' /\ seen'[c] >= seen[c]
<1>1. Types /\ (ticker = "pushing" <=> TickerAt(queue))
  BY TypesOf DEF Inv
<1>2. /\ handler[c] = "greeting" /\ handler' = [handler EXCEPT ![c] = "joining"]
      /\ seen' = [seen EXCEPT ![c] = greeting[c]]
      /\ queue' = Append(queue, Job("join", c))
      /\ UNCHANGED <<status, greeting, dead, members, ticker, scheduled>>
  BY DEF Greeted, HandlerAt
<1>3. /\ \A i \in 1 .. Len(queue) : queue[i].who # c
      /\ c \notin members /\ seen[c] = -1
  BY <1>2, NotThere DEF Inv, Unsubscribed
<1>4. /\ \A d \in Clients : d # c => handler'[d] = handler[d] /\ seen'[d] = seen[d]
      /\ handler'[c] = "joining" /\ seen'[c] = greeting[c]
      /\ greeting[c] \in Statuses /\ handler' \in [Clients -> Handlers]
      /\ seen' \in [Clients -> Statuses \cup {-1}]
  BY <1>1, <1>2 DEF Types, Handlers
<1>5. NoneOlder(queue, members, seen')
  <2> SUFFICES ASSUME NEW i \in 1 .. Len(queue), NEW d \in Clients, IsPush(queue[i]),
                 d \in members \/ \E j \in 1 .. i - 1 : queue[j].op = "join" /\ queue[j].who = d
               PROVE  seen'[d] <= queue[i].snapshot
    BY DEF NoneOlder
  <2>1. Len(queue) \in Nat
    BY <1>1 DEF Types
  <2>2. \A j \in 1 .. i - 1 : j \in 1 .. Len(queue)
    BY <2>1
  <2>3. d # c
    BY <1>3, <2>2
  <2>4. QED
    BY <2>3, <1>4 DEF Inv, NoneOlder
<1>6. NoneNewer(queue, greeting, seen', status)
  BY <1>4 DEF Inv, NoneNewer
<1>7. Unsubscribed(handler', members, seen')
  BY <1>3, <1>4 DEF Inv, Unsubscribed
<1> DEFINE job == Job("join", c)
<1>8. /\ job \in Jobs /\ job.who = c /\ job.op = "join" /\ job.snapshot = 0
      /\ queue' = Append(queue, job)
  BY <1>2, StatusesAssumption DEF Job, Jobs, Statuses
<1> HIDE DEF job
<1>9. /\ job.snapshot <= status /\ job.who # Broadcast /\ job.who # Ticker
      /\ ~ IsPush(job) /\ job.op # "pushing" /\ job.op # "leave"
      /\ job.who \in Clients /\ handler'[job.who] = "joining"
      /\ \A i \in 1 .. Len(queue) : queue[i].who # job.who
      /\ \A d \in Clients : d # job.who => handler'[d] = handler[d]
      /\ scheduled' \in Nat /\ ticker' = ticker
      /\ ticker' \in {"none", "asleep", "pushing"}
  BY <1>1, <1>2, <1>3, <1>4, <1>8, ClientsAssumption, StatusesAssumption
     DEF Types, Statuses, IsPush
<1>10. Inv'
  BY <1>2, <1>4, <1>5, <1>6, <1>7, <1>8, <1>9, AppendedKeeps
<1>11. QED
  BY <1>3, <1>4, <1>10, StatusesAssumption DEF Statuses

LEMMA LeavesKeeps == ASSUME Inv, NEW c \in Clients, Leaves(c) PROVE Inv'
<1>1. Types /\ (ticker = "pushing" <=> TickerAt(queue))
  BY TypesOf DEF Inv
<1>2. /\ handler[c] \in {"greeting", "listening"}
      /\ handler' = [handler EXCEPT ![c] = "leaving"]
      /\ queue' = Append(queue, Job("leave", c))
      /\ UNCHANGED <<status, greeting, dead, seen, members, ticker, scheduled>>
  BY DEF Leaves, HandlerAt
<1>3. \A i \in 1 .. Len(queue) : queue[i].who # c
  BY <1>2, NotThere
<1>4. /\ \A d \in Clients : d # c => handler'[d] = handler[d]
      /\ handler'[c] = "leaving" /\ handler' \in [Clients -> Handlers]
  BY <1>1, <1>2 DEF Types, Handlers
<1>5. /\ NoneOlder(queue, members, seen') /\ NoneNewer(queue, greeting, seen', status)
  BY <1>2 DEF Inv
<1>6. Unsubscribed(handler', members, seen')
  BY <1>2, <1>4 DEF Inv, Unsubscribed
<1> DEFINE job == Job("leave", c)
<1>7. /\ job \in Jobs /\ job.who = c /\ job.op = "leave" /\ job.snapshot = 0
      /\ queue' = Append(queue, job)
  BY <1>2, StatusesAssumption DEF Job, Jobs, Statuses
<1> HIDE DEF job
<1>8. /\ job.snapshot <= status /\ job.who # Broadcast /\ job.who # Ticker
      /\ ~ IsPush(job) /\ job.op # "pushing" /\ job.op # "join"
      /\ job.who \in Clients /\ handler'[job.who] = "leaving"
      /\ \A i \in 1 .. Len(queue) : queue[i].who # job.who
      /\ \A d \in Clients : d # job.who => handler'[d] = handler[d]
      /\ scheduled' \in Nat /\ ticker' = ticker
      /\ ticker' \in {"none", "asleep", "pushing"}
      /\ seen' \in [Clients -> Statuses \cup {-1}]
  BY <1>1, <1>2, <1>3, <1>4, <1>7, ClientsAssumption, StatusesAssumption
     DEF Types, Statuses, IsPush
<1>9. QED
  BY <1>2, <1>4, <1>5, <1>6, <1>7, <1>8, AppendedKeeps

LEMMA BroadcastBeginsKeeps == ASSUME Inv, BroadcastBegins PROVE Inv'
<1>1. Types /\ (ticker = "pushing" <=> TickerAt(queue))
  BY TypesOf DEF Inv
<1>2. /\ scheduled > 0 /\ scheduled' = scheduled - 1
      /\ queue' = queue \/ queue' = Append(queue, Push(Broadcast))
      /\ UNCHANGED <<status, handler, greeting, dead, seen, members, ticker>>
  BY DEF BroadcastBegins
<1>3. scheduled' \in Nat
  BY <1>1, <1>2 DEF Types
<1>4. CASE queue' = queue
  <2>1. Types'
    BY <1>1, <1>2, <1>3, <1>4 DEF Types
  <2>2. QED
    BY <1>1, <1>2, <1>4, <2>1, InvThen DEF Inv, TickerAt
<1>5. CASE queue' = Append(queue, Push(Broadcast))
  <2> DEFINE job == Push(Broadcast)
  <2>1. /\ job \in Jobs /\ job.who = Broadcast /\ job.op = "waiting"
        /\ job.snapshot = status /\ queue' = Append(queue, job)
    BY <1>1, <1>5, StatusesAssumption DEF Types, Push, Job, Jobs, Statuses
  <2> HIDE DEF job
  <2>2. /\ job.who # Ticker /\ job.op # "pushing" /\ job.op # "join" /\ job.op # "leave"
        /\ job.snapshot <= status
        /\ ticker' = ticker /\ ticker' \in {"none", "asleep", "pushing"}
        /\ handler' \in [Clients -> Handlers] /\ seen' \in [Clients -> Statuses \cup {-1}]
        /\ \A c \in Clients : handler'[c] = handler[c]
    BY <1>1, <1>2, <2>1, ClientsAssumption, StatusesAssumption DEF Types, Statuses
  <2>3. /\ NoneOlder(queue, members, seen') /\ NoneNewer(queue, greeting, seen', status)
        /\ Unsubscribed(handler', members, seen')
    BY <1>2 DEF Inv
  <2>4. QED
    BY <1>2, <1>3, <2>1, <2>2, <2>3, AppendedKeeps
<1>6. QED
  BY <1>2, <1>4, <1>5

LEMMA TicksKeeps == ASSUME Inv, Ticks PROVE Inv'
<1>1. Types /\ (ticker = "pushing" <=> TickerAt(queue))
  BY TypesOf DEF Inv
<1>2. /\ ticker = "asleep"
      /\ \/ ticker' = "none" /\ queue' = queue
         \/ ticker' = "pushing" /\ queue' = Append(queue, Push(Ticker))
      /\ UNCHANGED <<status, handler, greeting, dead, seen, members, scheduled>>
  BY DEF Ticks
<1>3. CASE ticker' = "none" /\ queue' = queue
  <2>1. Types'
    BY <1>1, <1>2, <1>3 DEF Types
  <2>2. (ticker = "pushing")' <=> TickerAt(queue')
    BY <1>1, <1>2, <1>3
  <2>3. QED
    BY <1>2, <1>3, <2>1, <2>2, InvThen DEF Inv
<1>4. CASE ticker' = "pushing" /\ queue' = Append(queue, Push(Ticker))
  <2> DEFINE job == Push(Ticker)
  <2>1. /\ job \in Jobs /\ job.who = Ticker /\ job.op = "waiting"
        /\ job.snapshot = status /\ queue' = Append(queue, job)
    BY <1>1, <1>4, StatusesAssumption DEF Types, Push, Job, Jobs, Statuses
  <2> HIDE DEF job
  <2>2. /\ job.op # "pushing" /\ job.op # "join" /\ job.op # "leave"
        /\ job.snapshot <= status /\ scheduled' \in Nat
        /\ ticker' = "pushing" /\ ticker' \in {"none", "asleep", "pushing"}
        /\ handler' \in [Clients -> Handlers] /\ seen' \in [Clients -> Statuses \cup {-1}]
        /\ \A c \in Clients : handler'[c] = handler[c]
    BY <1>1, <1>2, <1>4, <2>1, StatusesAssumption DEF Types, Statuses
  <2>3. \A i \in 1 .. Len(queue) : queue[i].who # job.who
    BY <1>1, <1>2, <2>1 DEF TickerAt
  <2>4. /\ NoneOlder(queue, members, seen') /\ NoneNewer(queue, greeting, seen', status)
        /\ Unsubscribed(handler', members, seen')
    BY <1>2 DEF Inv
  <2>5. QED
    BY <1>2, <2>1, <2>2, <2>3, <2>4, AppendedKeeps
<1>5. QED
  BY <1>2, <1>3, <1>4

LEMMA StatusChangesKeeps == ASSUME Inv, StatusChanges PROVE Inv'
<1>1. Types /\ (ticker = "pushing" <=> TickerAt(queue))
  BY TypesOf DEF Inv
<1>2. /\ status < MaxStatuses /\ status' = status + 1
      /\ scheduled' \in {scheduled, scheduled + 1}
      /\ UNCHANGED <<handler, greeting, dead, seen, members, ticker, queue>>
  BY DEF StatusChanges
<1>3. Types'
  BY <1>1, <1>2, StatusesAssumption DEF Types, Statuses
<1>4. NoneNewer(queue', greeting', seen', status')
  <2>1. /\ \A c \in Clients : seen[c] \in Int /\ greeting[c] \in Int
        /\ \A i \in 1 .. Len(queue) : queue[i].snapshot \in Int
        /\ status \in Int
    <3>1. \A i \in 1 .. Len(queue) : queue[i] \in Jobs
      BY <1>1, ElementOfSeq DEF Types
    <3>2. QED
      BY <1>1, <3>1, StatusesAssumption DEF Types, Statuses, Jobs
  <2>2. NoneNewer(queue, greeting, seen, status)
    BY DEF Inv
  <2>3. QED
    BY <1>2, <2>1, <2>2 DEF NoneNewer
<1>5. QED
  BY <1>1, <1>2, <1>3, <1>4, InvThen DEF Inv, TickerAt

LEMMA BreaksKeeps == ASSUME Inv, NEW c \in Clients, Breaks(c) PROVE Inv'
<1>1. Types /\ (ticker = "pushing" <=> TickerAt(queue))
  BY TypesOf DEF Inv
<1>2. /\ dead' = dead \cup {c}
      /\ UNCHANGED <<status, handler, greeting, seen, members, ticker, scheduled, queue>>
  BY DEF Breaks
<1>3. Types'
  BY <1>1, <1>2 DEF Types
<1>4. QED
  BY <1>1, <1>2, <1>3, InvThen DEF Inv, TickerAt

\* What any step does to the invariant, to the ticker's place and to what the
\* clients have seen.
LEMMA NextInv ==
    ASSUME Inv, [FeedNext]_feedVars
    PROVE  Inv' /\ \A c \in Clients : seen'[c] >= seen[c]
<1>1. \A c \in Clients : seen[c] >= seen[c]
  BY StatusesAssumption DEF Inv, FeedTypeOK, Statuses
<1>2. CASE Joined
  BY <1>1, <1>2, JoinedKeeps DEF Joined
<1>3. CASE Left
  BY <1>1, <1>3, LeftKeeps DEF Left
<1>4. CASE PushBegins
  BY <1>1, <1>4, PushBeginsKeeps DEF PushBegins
<1>5. CASE PushEnds
  BY <1>1, <1>5, PushEndsKeeps DEF PushEnds
<1>6. ASSUME NEW c \in Clients, Pushes(c) \/ Greeted(c)
      PROVE  Inv' /\ \A d \in Clients : seen'[d] >= seen[d]
  <2>1. Inv' /\ seen'[c] >= seen[c]
    BY <1>6, PushesKeeps, GreetedKeeps
  <2>2. \A d \in Clients : d # c => seen'[d] = seen[d]
    BY <1>6 DEF Pushes, Greeted, Inv, FeedTypeOK
  <2>3. QED
    BY <1>1, <2>1, <2>2
<1>7. CASE BroadcastBegins
  BY <1>1, <1>7, BroadcastBeginsKeeps DEF BroadcastBegins
<1>8. CASE Ticks
  BY <1>1, <1>8, TicksKeeps DEF Ticks
<1>9. ASSUME NEW c \in Clients, Leaves(c)
      PROVE  Inv' /\ \A d \in Clients : seen'[d] >= seen[d]
  BY <1>1, <1>9, LeavesKeeps DEF Leaves
<1>10. ASSUME NEW c \in Clients, Opens(c)
       PROVE  Inv' /\ \A d \in Clients : seen'[d] >= seen[d]
  BY <1>1, <1>10, OpensKeeps DEF Opens
<1>11. ASSUME NEW c \in Clients, Breaks(c)
       PROVE  Inv' /\ \A d \in Clients : seen'[d] >= seen[d]
  BY <1>1, <1>11, BreaksKeeps DEF Breaks
<1>12. CASE StatusChanges
  BY <1>1, <1>12, StatusChangesKeeps DEF StatusChanges
<1>13. CASE UNCHANGED feedVars
  <2>1. Types'
    BY <1>13, TypesOf DEF Types, feedVars, Inv
  <2>2. Inv'
    BY <1>13, <2>1, TypesOf, InvThen DEF feedVars, Inv, TickerAt
  <2>3. QED
    BY <1>1, <1>13, <2>2 DEF feedVars
<1>14. QED
  BY <1>2, <1>3, <1>4, <1>5, <1>6, <1>7, <1>8, <1>9, <1>10, <1>11, <1>12, <1>13
     DEF FeedNext, Feed, LockTurns, Dashboards

-----------------------------------------------------------------------------
(***************************************************************************)
(* The theorems.                                                           *)
(***************************************************************************)

\* The variables keep their types, and the ticker is at the lock exactly while
\* it pushes: it takes its place in broadcast_status, and gives it up when its
\* push ends or unregister_status_ws cancels it.
THEOREM TypeCorrect == FeedSpec => []FeedTypeOK
<1>1. InitFeed => Inv
  BY InitInv
<1>2. Inv /\ [FeedNext]_feedVars => Inv'
  BY NextInv
<1>3. Inv => FeedTypeOK
  BY DEF Inv
<1>4. QED
  BY <1>1, <1>2, <1>3, PTL DEF FeedSpec, FeedNext

\* While a dashboard is subscribed there is a task _status_ticker: broadcasts
\* that drop broken clients, and the ends of tickers, never leave one without.
THEOREM MembersHaveTickerTheorem == FeedSpec => []MembersHaveTicker
<1>1. InitFeed => MembersHaveTicker
  BY DEF InitFeed, MembersHaveTicker
<1>2. ASSUME FeedTypeOK, MembersHaveTicker, [FeedNext]_feedVars
      PROVE  MembersHaveTicker'
  <2>1. CASE Joined
    BY <2>1, <1>2 DEF Joined, TickerEnsured, MembersHaveTicker, FeedTypeOK
  <2>2. CASE Left
    BY <2>2, <1>2 DEF Left, MembersHaveTicker
  <2>3. CASE PushEnds
    BY <2>3, <1>2 DEF PushEnds, TickerAfter, MembersHaveTicker
  <2>4. CASE Ticks
    BY <2>4, <1>2 DEF Ticks, MembersHaveTicker
  <2>5. CASE /\ UNCHANGED <<members, ticker>>
    BY <2>5, <1>2 DEF MembersHaveTicker
  <2>6. QED
    BY <1>2, <2>1, <2>2, <2>3, <2>4, <2>5
       DEF FeedNext, Feed, LockTurns, Dashboards, StatusChanges, BroadcastBegins,
           PushBegins, Pushes, Greeted, Leaves, Opens, Breaks, feedVars
<1>3. QED
  BY <1>1, <1>2, TypeCorrect, PTL DEF FeedSpec, FeedNext

\* No dashboard is set back to an older snapshot, although broadcast_status
\* takes its snapshot before the lock and delivers it after others had theirs.
THEOREM SnapshotsMoveForwardTheorem == FeedSpec => SnapshotsMoveForward
<1>1. InitFeed => Inv
  BY InitInv
<1>2. Inv /\ [FeedNext]_feedVars => Inv'
  BY NextInv
<1>3. Inv /\ [FeedNext]_feedVars => [\A c \in Clients : seen'[c] >= seen[c]]_feedVars
  BY NextInv
<1>4. QED
  BY <1>1, <1>2, <1>3, PTL DEF FeedSpec, FeedNext, SnapshotsMoveForward

=============================================================================
