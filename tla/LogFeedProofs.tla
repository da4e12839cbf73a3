--------------------------- MODULE LogFeedProofs ---------------------------
(***************************************************************************)
(* What TLAPS proves of LogFeed, for any number of viewers, of streams and *)
(* of lines, and a buffer of any size.                                     *)
(***************************************************************************)
EXTENDS LogFeed, SequenceTheorems, FiniteSetTheorems, TLAPS

-----------------------------------------------------------------------------
(***************************************************************************)
(* The inductive invariant, in parts that speak of a queue q, the members  *)
(* m, the broken d, what was shown sh and the number of lines l.           *)
(***************************************************************************)

\* Viewers stand at the lock to join or to leave, readers with a line.
ForWhom(q, l) ==
    \A i \in 1 .. Len(q) :
        /\ q[i].who \in Viewers => q[i].op \in {"join", "leave"} /\ q[i].todo = {}
        /\ q[i].who \in Streams => q[i].op \in {"waiting", "sending"} /\ q[i].line \in 1 .. l

\* No reader stands there twice, and no line.
OneEach(q) ==
    \A i, j \in 1 .. Len(q) :
        /\ q[i].who \in Streams /\ q[j].who \in Streams
        /\ q[i].who = q[j].who \/ q[i].line = q[j].line
        => i = j

\* Only the holder of the lock sends, and only broken viewers are noted.
HolderSends(q, d) ==
    \A i \in 1 .. Len(q) : (q[i].op = "sending" => i = 1) /\ q[i].failed \subseteq d

\* Only lines that are in the buffer, or were, have been shown.
NoneUnlogged(sh, l) == \A v \in Viewers : \A n \in Lines : sh[v][n] > 0 => n <= l

\* Whoever is still to be sent a line has at most seen it in the buffer.
NotTwice(q, sh) ==
    \A i \in 1 .. Len(q) : \A v \in Viewers :
        /\ q[i].who \in Streams
        /\ q[i].op = "waiting" \/ v \in q[i].todo
        => sh[v][q[i].line] <= 1

\* Who watches is subscribed, until its socket is found to be broken.
Subscribed(h, m, d) == \A v \in Viewers : h[v] = "watching" /\ v \notin d => v \in m

\* As Due, of a queue q.
DueIn(q, n, v) ==
    \E i \in 1 .. Len(q) : q[i].line = n /\ (q[i].op = "waiting" \/ v \in q[i].todo)

\* As NothingMissed, of any such state.
NoneMissed(h, d, fr, l, sh, q, c) ==
    \A v \in Viewers : h[v] = "watching" /\ v \notin d =>
        \A n \in Lines : fr[v] <= n /\ n <= l =>
            sh[v][n] > 0 \/ DueIn(q, n, v) \/ n \in c

Inv ==
    /\ TypeOK
    /\ ForWhom(queue, logged)
    /\ OneEach(queue)
    /\ HolderSends(queue, dead)
    /\ NoneUnlogged(shown, logged)
    /\ NotTwice(queue, shown)
    /\ Subscribed(handler, members, dead)
    /\ NothingMissed

-----------------------------------------------------------------------------
(***************************************************************************)
(* The lock's queue: what an action does to it.                            *)
(***************************************************************************)

\* Every job of r is one of q, and no two are the same one.
Drawn(q, r) ==
    \E f \in [1 .. Len(r) -> 1 .. Len(q)] :
        /\ \A a, b \in 1 .. Len(r) : f[a] = f[b] => a = b
        /\ \A a \in 1 .. Len(r) : r[a] = q[f[a]]

\* A new job stands at the end.
LEMMA AtTheEnd ==
    ASSUME NEW q \in Seq(Jobs), NEW job \in Jobs, NEW r, r = Append(q, job)
    PROVE  /\ r \in Seq(Jobs)
           /\ Len(r) = Len(q) + 1
           /\ \A i \in 1 .. Len(q) : r[i] = q[i]
           /\ r[Len(q) + 1] = job
           /\ \A i \in 1 .. Len(r) : i \in 1 .. Len(q) \/ i = Len(q) + 1
           /\ Len(q) \in Nat
<1>1. /\ r \in Seq(Jobs)
      /\ Len(r) = Len(q) + 1
      /\ \A i \in 1 .. Len(q) : r[i] = q[i]
      /\ r[Len(q) + 1] = job
  BY AppendProperties
<1>2. Len(q) \in Nat
  OBVIOUS
<1>3. \A i \in 1 .. Len(q) + 1 : i \in 1 .. Len(q) \/ i = Len(q) + 1
  BY <1>2
<1>4. QED
  BY <1>1, <1>2, <1>3

\* The holder's job is replaced.
LEMMA AtTheHead ==
    ASSUME NEW q \in Seq(Jobs), q # <<>>, NEW job \in Jobs, NEW r, r = <<job>> \o Tail(q)
    PROVE  /\ r \in Seq(Jobs)
           /\ Len(r) = Len(q)
           /\ r[1] = job
           /\ \A i \in 2 .. Len(q) : r[i] = q[i]
<1>1. Tail(q) \in Seq(Jobs) /\ Len(Tail(q)) = Len(q) - 1 /\ Len(q) \in Nat \ {0}
  BY HeadTailProperties, EmptySeq
<1>2. \A i \in 1 .. Len(Tail(q)) : Tail(q)[i] = q[i + 1]
  BY HeadTailProperties
<1>3. <<job>> \in Seq(Jobs) /\ Len(<<job>>) = 1 /\ <<job>>[1] = job
  OBVIOUS
<1>4. /\ r \in Seq(Jobs)
      /\ Len(r) = 1 + Len(Tail(q))
      /\ \A i \in 1 .. 1 + Len(Tail(q)) :
           r[i] = IF i <= 1 THEN <<job>>[i] ELSE Tail(q)[i - 1]
  BY <1>1, <1>3, ConcatProperties
<1>5. \A i \in 2 .. Len(q) : r[i] = Tail(q)[i - 1] /\ Tail(q)[i - 1] = q[i]
  BY <1>1, <1>2, <1>4
<1>6. QED
  BY <1>1, <1>3, <1>4, <1>5

\* The holder gives the lock up.
LEMMA HolderGone ==
    ASSUME NEW q \in Seq(Jobs), q # <<>>
    PROVE  /\ Tail(q) \in Seq(Jobs) /\ Drawn(q, Tail(q))
           /\ \A i \in 2 .. Len(q) : i - 1 \in 1 .. Len(Tail(q)) /\ Tail(q)[i - 1] = q[i]
           /\ \A a \in 1 .. Len(Tail(q)) : a + 1 \in 2 .. Len(q) /\ Tail(q)[a] = q[a + 1]
           /\ Head(q) = q[1] /\ 1 \in 1 .. Len(q) /\ Len(q) \in Nat
<1>1. /\ Tail(q) \in Seq(Jobs) /\ Len(Tail(q)) = Len(q) - 1
      /\ \A i \in 1 .. Len(Tail(q)) : Tail(q)[i] = q[i + 1]
      /\ Head(q) = q[1]
  BY HeadTailProperties
<1>2. Len(q) \in Nat \ {0}
  BY EmptySeq
<1>3. \A i \in 2 .. Len(q) : i - 1 \in 1 .. Len(Tail(q)) /\ Tail(q)[i - 1] = q[i]
  BY <1>1, <1>2
<1>4. \A a \in 1 .. Len(Tail(q)) : a + 1 \in 2 .. Len(q) /\ Tail(q)[a] = q[a + 1]
  BY <1>1, <1>2
<1> DEFINE f == [i \in 1 .. Len(Tail(q)) |-> i + 1]
<1>5. f \in [1 .. Len(Tail(q)) -> 1 .. Len(q)]
  BY <1>1, <1>2
<1>6. \A a, b \in 1 .. Len(Tail(q)) : f[a] = f[b] => a = b
  BY <1>1, <1>2
<1>7. \A a \in 1 .. Len(Tail(q)) : Tail(q)[a] = q[f[a]]
  BY <1>1, <1>2
<1>8. Drawn(q, Tail(q))
  BY <1>5, <1>6, <1>7 DEF Drawn
<1>9. QED
  BY <1>1, <1>2, <1>3, <1>4, <1>8

\* In a finite set of numbers there is an n-th one for every n up to its size.
LEMMA Ranks ==
    ASSUME NEW K \in SUBSET Nat, IsFiniteSet(K), NEW n \in 1 .. Cardinality(K)
    PROVE  \E i \in K : Cardinality({k \in K : k <= i}) = n
<1> DEFINE upTo(i) == {k \in K : k <= i}
           rank == [i \in K |-> Cardinality(upTo(i))]
<1>1. Cardinality(K) \in Nat
  BY FS_CardinalityType
<1>2. \A i \in K : /\ IsFiniteSet(upTo(i)) /\ i \in upTo(i)
                   /\ Cardinality(upTo(i)) \in Nat
                   /\ Cardinality(upTo(i)) <= Cardinality(K)
  BY FS_Subset, FS_CardinalityType
<1>3. \A i \in K : Cardinality(upTo(i)) # 0
  BY <1>2, FS_EmptySet
<1>4. rank \in [K -> 1 .. Cardinality(K)]
  BY <1>1, <1>2, <1>3
<1>5. ASSUME NEW i \in K, NEW j \in K, i < j PROVE rank[i] # rank[j]
  <2>1. upTo(i) \in SUBSET upTo(j) /\ j \in upTo(j) /\ j \notin upTo(i)
    <3>1. i \in Int /\ j \in Int /\ \A k \in K : k \in Int
      OBVIOUS
    <3>2. \A k \in K : k <= i => k <= j
      BY <1>5, <3>1
    <3>3. j <= j /\ ~(j <= i)
      BY <1>5, <3>1
    <3>4. QED
      BY <3>2, <3>3
  <2>2. upTo(j) # upTo(i)
    BY <2>1
  <2>3. Cardinality(upTo(j)) # Cardinality(upTo(i))
    BY <1>2, <2>1, <2>2, FS_Subset
  <2>4. QED
    BY <2>3
<1>6. \A i, j \in K : rank[i] = rank[j] => i = j
  <2>1. \A i, j \in K : i = j \/ i < j \/ j < i
    OBVIOUS
  <2>2. QED
    BY <1>5, <2>1
<1>7. rank \in Injection(K, 1 .. Cardinality(K))
  BY <1>4, <1>6 DEF Injection, IsInjective
<1>8. IsFiniteSet(1 .. Cardinality(K)) /\ Cardinality(1 .. Cardinality(K)) = Cardinality(K)
  BY <1>1, FS_Interval
<1>9. rank \in Surjection(K, 1 .. Cardinality(K))
  BY <1>7, <1>8, FS_Injection
<1>10. QED
  BY <1>9 DEF Surjection

\* Without the readers, the queue has just the jobs of viewers.
LEMMA ReadersGone ==
    ASSUME NEW q \in Seq(Jobs)
    PROVE  /\ ViewersOnly(q) \in Seq(Jobs)
           /\ Drawn(q, ViewersOnly(q))
           /\ \A a \in 1 .. Len(ViewersOnly(q)) : ViewersOnly(q)[a].who \in Viewers
<1> DEFINE kept == {i \in 1 .. Len(q) : OfViewer(q[i])}
           size == Cardinality(kept)
           pick == [n \in 1 .. size |->
                      CHOOSE i \in kept : Cardinality({k \in kept : k <= i}) = n]
           r == ViewersOnly(q)
<1>1. Len(q) \in Nat /\ kept \in SUBSET Nat
  OBVIOUS
<1>2. IsFiniteSet(kept)
  <2>1. IsFiniteSet(1 .. Len(q))
    BY <1>1, FS_Interval
  <2>2. kept \in SUBSET (1 .. Len(q))
    OBVIOUS
  <2>3. QED
    BY <2>1, <2>2, FS_Subset
<1>3. size \in Nat
  BY <1>2, FS_CardinalityType
<1>4. \A n \in 1 .. size :
        pick[n] \in kept /\ Cardinality({k \in kept : k <= pick[n]}) = n
  <2>1. \A n \in 1 .. size : \E i \in kept : Cardinality({k \in kept : k <= i}) = n
    BY <1>1, <1>2, Ranks
  <2> HIDE DEF kept, size
  <2>2. QED
    BY <2>1
<1>5. r = [n \in 1 .. size |-> q[pick[n]]]
  BY DEF ViewersOnly
<1>6. \A i \in kept : i \in 1 .. Len(q) /\ q[i] \in Jobs /\ q[i].who \in Viewers
  BY ElementOfSeq DEF OfViewer
<1> HIDE DEF kept, size, pick, r
<1>7. r \in Seq(Jobs) /\ Len(r) = size
  <2>1. r \in [1 .. size -> Jobs]
    BY <1>4, <1>5, <1>6
  <2>2. QED
    BY <1>3, <2>1, IsASeq, LenProperties
<1>8. \A a, b \in 1 .. Len(r) : pick[a] = pick[b] => a = b
  BY <1>4, <1>7
<1>9. pick \in [1 .. Len(r) -> 1 .. Len(q)]
  <2>1. pick \in [1 .. size -> kept]
    BY <1>4 DEF pick
  <2>2. QED
    BY <1>6, <1>7, <2>1
<1>10. \A a \in 1 .. Len(r) : r[a] = q[pick[a]] /\ r[a].who \in Viewers
  BY <1>4, <1>5, <1>6, <1>7
<1>11. QED
  BY <1>7, <1>8, <1>9, <1>10 DEF Drawn, r

-----------------------------------------------------------------------------
(***************************************************************************)
(* The invariant.                                                          *)
(***************************************************************************)

\* The types alone, and the place of the readers at the lock.
Types ==
    /\ alive \in BOOLEAN
    /\ reader \in [Streams -> {"off", "reading", "broadcasting"}]
    /\ logged \in Lines \cup {0}
    /\ cleared \in 0 .. logged
    /\ handler \in [Viewers -> {"away", "joining", "watching", "leaving", "gone"}]
    /\ dead \subseteq Viewers
    /\ members \subseteq Viewers
    /\ from \in [Viewers -> 0 .. MaxLines + 1]
    /\ shown \in [Viewers -> [Lines -> 0 .. 2]]
    /\ cut \subseteq Lines
    /\ queue \in Seq(Jobs)

AtLock(q, s) == \E i \in 1 .. Len(q) : q[i].who = s

Readers(rd, q) == \A s \in Streams : rd[s] = "broadcasting" <=> AtLock(q, s)

Parts ==
    /\ ForWhom(queue, logged)
    /\ OneEach(queue)
    /\ HolderSends(queue, dead)
    /\ NoneUnlogged(shown, logged)
    /\ NotTwice(queue, shown)
    /\ Subscribed(handler, members, dead)
    /\ NoneMissed(handler, dead, from, logged, shown, queue, cut)

LEMMA InvIs == Inv <=> Types /\ Readers(reader, queue) /\ Parts
<1>1. TypeOK <=> Types /\ Readers(reader, queue)
  BY DEF TypeOK, Types, Readers, ReaderAt, AtLock
<1>2. NothingMissed <=> NoneMissed(handler, dead, from, logged, shown, queue, cut)
  BY DEF NothingMissed, NoneMissed, Due, DueIn
<1>3. QED
  BY <1>1, <1>2 DEF Inv, Parts

LEMMA InvThen ==
    ASSUME Types', Readers(reader', queue'),
           ForWhom(queue', logged'), OneEach(queue'), HolderSends(queue', dead'),
           NoneUnlogged(shown', logged'), NotTwice(queue', shown'),
           Subscribed(handler', members', dead'),
           NoneMissed(handler', dead', from', logged', shown', queue', cut')
    PROVE  Inv'
<1>1. TypeOK'
  BY DEF TypeOK, Types, Readers, ReaderAt, AtLock
<1>2. NothingMissed'
  BY DEF NothingMissed, NoneMissed, Due, DueIn
<1>3. QED
  BY <1>1, <1>2 DEF Inv

\* What holds of every place of the queue holds of what is drawn from it.
LEMMA DrawnKeeps ==
    ASSUME NEW q \in Seq(Jobs), NEW r \in Seq(Jobs), Drawn(q, r), NEW l, NEW sh,
           ForWhom(q, l), OneEach(q), NotTwice(q, sh)
    PROVE  ForWhom(r, l) /\ OneEach(r) /\ NotTwice(r, sh)
<1>1. PICK f \in [1 .. Len(r) -> 1 .. Len(q)] :
        /\ \A a, b \in 1 .. Len(r) : f[a] = f[b] => a = b
        /\ \A a \in 1 .. Len(r) : r[a] = q[f[a]]
  BY DEF Drawn
<1>2. \A a \in 1 .. Len(r) : f[a] \in 1 .. Len(q)
  BY <1>1
<1>3. ForWhom(r, l)
  BY <1>1, <1>2 DEF ForWhom
<1>4. OneEach(r)
  <2> SUFFICES ASSUME NEW a \in 1 .. Len(r), NEW b \in 1 .. Len(r),
                      r[a].who \in Streams, r[b].who \in Streams,
                      r[a].who = r[b].who \/ r[a].line = r[b].line
               PROVE  a = b
    BY DEF OneEach
  <2>1. /\ r[a] = q[f[a]] /\ r[b] = q[f[b]]
        /\ f[a] \in 1 .. Len(q) /\ f[b] \in 1 .. Len(q)
    BY <1>1, <1>2
  <2>2. f[a] = f[b]
    BY <2>1 DEF OneEach
  <2>3. QED
    BY <1>1, <2>2
<1>5. NotTwice(r, sh)
  BY <1>1, <1>2 DEF NotTwice
<1>6. QED
  BY <1>3, <1>4, <1>5

\* A job that is due stays so when a holder goes that is not the one due.
LEMMA StillDue ==
    ASSUME NEW q \in Seq(Jobs), q # <<>>, NEW n, NEW v, DueIn(q, n, v),
           Head(q).op # "waiting", Head(q).todo = {}
    PROVE  DueIn(Tail(q), n, v)
<1>1. PICK i \in 1 .. Len(q) : q[i].line = n /\ (q[i].op = "waiting" \/ v \in q[i].todo)
  BY DEF DueIn
<1>2. Head(q) = q[1] /\ Len(q) \in Nat
  BY HolderGone
<1>3. i \in 2 .. Len(q)
  BY <1>1, <1>2
<1>4. i - 1 \in 1 .. Len(Tail(q)) /\ Tail(q)[i - 1] = q[i]
  BY <1>3, HolderGone
<1>5. QED
  BY <1>1, <1>4 DEF DueIn

\* The types of a job at the lock.
LEMMA JobTyped ==
    ASSUME NEW op \in {"join", "leave", "waiting"}, NEW who \in Viewers \cup Streams,
           NEW n \in Lines \cup {0}
    PROVE  /\ Job(op, who, n) \in Jobs /\ Job(op, who, n).op = op
           /\ Job(op, who, n).who = who /\ Job(op, who, n).line = n
           /\ Job(op, who, n).todo = {} /\ Job(op, who, n).failed = {}
  BY DEF Job, Jobs

LEMMA Numbers ==
    ASSUME Types
    PROVE  /\ logged \in Nat /\ logged <= MaxLines /\ MaxLines \in Nat /\ cleared \in Nat
           /\ \A n \in Lines : n \in Nat /\ n > 0
           /\ \A v \in Viewers : \A n \in Lines : shown[v][n] \in 0 .. 2
           /\ \A v \in Viewers : from[v] \in Nat
           /\ \A i \in 1 .. Len(queue) : queue[i] \in Jobs
           /\ Len(queue) \in Nat
<1>1. MaxLines \in Nat
  BY LogAssumption
<1>2. logged \in Nat /\ logged <= MaxLines
  BY <1>1 DEF Types, Lines
<1>3. cleared \in Nat
  BY <1>2 DEF Types
<1>4. \A n \in Lines : n \in Nat /\ n > 0
  BY <1>1 DEF Lines
<1>5. \A v \in Viewers : \A n \in Lines : shown[v][n] \in 0 .. 2
  BY DEF Types
<1>6. \A v \in Viewers : from[v] \in Nat
  BY <1>1 DEF Types
<1>7. (\A i \in 1 .. Len(queue) : queue[i] \in Jobs) /\ Len(queue) \in Nat
  BY ElementOfSeq DEF Types
<1>8. QED
  BY <1>1, <1>2, <1>3, <1>4, <1>5, <1>6, <1>7

LEMMA InitInv == Init => Inv
<1> SUFFICES ASSUME Init PROVE Inv
  OBVIOUS
<1>1. Types
  <2>1. from \in [Viewers -> 0 .. MaxLines + 1]
    BY LogAssumption DEF Init
  <2>2. shown \in [Viewers -> [Lines -> 0 .. 2]]
    BY DEF Init
  <2>3. queue \in Seq(Jobs)
    BY DEF Init
  <2>4. logged \in Lines \cup {0} /\ cleared \in 0 .. logged
    BY DEF Init
  <2>5. QED
    BY <2>1, <2>2, <2>3, <2>4 DEF Init, Types
<1>2. Len(queue) = 0 /\ 1 .. Len(queue) = {}
  BY DEF Init
<1>3. Readers(reader, queue)
  BY <1>2 DEF Readers, AtLock, Init
<1>4. /\ ForWhom(queue, logged) /\ OneEach(queue) /\ HolderSends(queue, dead)
      /\ NotTwice(queue, shown)
  BY <1>2 DEF ForWhom, OneEach, HolderSends, NotTwice
<1>5. NoneUnlogged(shown, logged)
  BY DEF NoneUnlogged, Init
<1>6. /\ Subscribed(handler, members, dead)
      /\ NoneMissed(handler, dead, from, logged, shown, queue, cut)
  BY DEF Subscribed, NoneMissed, Init
<1>7. QED
  BY <1>1, <1>3, <1>4, <1>5, <1>6, InvIs DEF Parts

-----------------------------------------------------------------------------
(***************************************************************************)
(* The process and its readers.                                            *)
(***************************************************************************)

LEMMA StartedKeeps == ASSUME Inv, Started PROVE Inv'
<1>1. Types /\ Readers(reader, queue) /\ Parts
  BY InvIs
<1>2. /\ \A s \in Streams : reader[s] = "off"
      /\ alive' = TRUE /\ reader' = [s \in Streams |-> "reading"] /\ cleared' = logged
      /\ UNCHANGED <<logged, handler, dead, members, from, shown, cut, queue>>
  BY DEF Started, ReaderAt
<1>3. Types'
  BY <1>1, <1>2, Numbers DEF Types
<1>4. Readers(reader', queue')
  BY <1>1, <1>2 DEF Readers
<1>5. QED
  BY <1>1, <1>2, <1>3, <1>4, InvThen DEF Parts

LEMMA ProcessEndsKeeps == ASSUME Inv, ProcessEnds PROVE Inv'
<1>1. Types /\ Readers(reader, queue) /\ Parts
  BY InvIs
<1>2. /\ alive' = FALSE
      /\ UNCHANGED <<reader, logged, cleared, handler, dead, members, from, shown, cut, queue>>
  BY DEF ProcessEnds
<1>3. Types'
  BY <1>1, <1>2 DEF Types
<1>4. QED
  BY <1>1, <1>2, <1>3, InvThen DEF Parts

LEMMA ReadsEndKeeps == ASSUME Inv, NEW s \in Streams, ReadsEnd(s) PROVE Inv'
<1>1. Types /\ Readers(reader, queue) /\ Parts
  BY InvIs
<1>2. /\ reader[s] = "reading" /\ reader' = [reader EXCEPT ![s] = "off"]
      /\ UNCHANGED <<alive, logged, cleared, handler, dead, members, from, shown, cut, queue>>
  BY DEF ReadsEnd, ReaderAt
<1>3. Types'
  BY <1>1, <1>2 DEF Types
<1>4. Readers(reader', queue')
  BY <1>1, <1>2 DEF Readers, Types
<1>5. QED
  BY <1>1, <1>2, <1>3, <1>4, InvThen DEF Parts

\* A line that nobody waits for, since nobody is subscribed.
LEMMA UnheardKeeps ==
    ASSUME Inv, NEW s \in Streams, ReadsLine(s), members = {} PROVE Inv'
<1>1. Types /\ Readers(reader, queue) /\ Parts
  BY InvIs
<1>2. /\ logged < MaxLines /\ logged' = logged + 1
      /\ UNCHANGED <<alive, reader, cleared, handler, dead, members, from, shown, cut, queue>>
  BY DEF ReadsLine
<1>3. /\ logged \in Nat /\ MaxLines \in Nat /\ logged' \in Lines /\ cleared' \in 0 .. logged'
      /\ \A n \in Lines : n \in Nat
  BY <1>1, <1>2, Numbers DEF Types, Lines
<1>4. Types'
  BY <1>1, <1>2, <1>3 DEF Types
<1>5. ForWhom(queue', logged')
  BY <1>1, <1>2, <1>3 DEF Parts, ForWhom
<1>6. NoneUnlogged(shown', logged')
  <2>1. NoneUnlogged(shown, logged)
    BY <1>1 DEF Parts
  <2>2. \A n \in Lines : n <= logged => n <= logged'
    BY <1>2, <1>3
  <2>3. QED
    BY <1>2, <2>1, <2>2 DEF NoneUnlogged
<1>7. NoneMissed(handler', dead', from', logged', shown', queue', cut')
  BY <1>1, <1>2 DEF Parts, Subscribed, NoneMissed
<1>8. QED
  BY <1>1, <1>2, <1>4, <1>5, <1>6, <1>7, InvThen DEF Parts

\* A line that is broadcast.
LEMMA HeardKeeps ==
    ASSUME Inv, NEW s \in Streams, ReadsLine(s), members # {} PROVE Inv'
<1>1. Types /\ Readers(reader, queue) /\ Parts
  BY InvIs
<1> DEFINE job == Job("waiting", s, logged')
<1>2. /\ reader[s] = "reading" /\ logged < MaxLines /\ logged' = logged + 1
      /\ reader' = [reader EXCEPT ![s] = "broadcasting"]
      /\ queue' = Append(queue, job)
      /\ UNCHANGED <<alive, cleared, handler, dead, members, from, shown, cut>>
  BY DEF ReadsLine, ReaderAt, Awaited
<1>3. /\ logged \in Nat /\ MaxLines \in Nat /\ logged' \in Lines /\ cleared' \in 0 .. logged'
      /\ \A n \in Lines : n \in Nat
  BY <1>1, <1>2, Numbers DEF Types, Lines
<1>4. /\ job \in Jobs /\ job.op = "waiting" /\ job.who = s /\ job.line = logged'
      /\ job.failed = {} /\ s \notin Viewers
  BY <1>3, JobTyped, LogAssumption
<1>5. queue \in Seq(Jobs)
  BY <1>1 DEF Types
<1>6. /\ queue' \in Seq(Jobs) /\ Len(queue') = Len(queue) + 1 /\ Len(queue) \in Nat
      /\ \A i \in 1 .. Len(queue) : queue'[i] = queue[i]
      /\ queue'[Len(queue) + 1] = job
      /\ \A i \in 1 .. Len(queue') : i \in 1 .. Len(queue) \/ i = Len(queue) + 1
  BY <1>2, <1>4, <1>5, AtTheEnd
<1> HIDE DEF job
<1>7. /\ Len(queue) + 1 \in 1 .. Len(queue')
      /\ \A i \in 1 .. Len(queue) : i \in 1 .. Len(queue')
  BY <1>6
<1>8. Types'
  BY <1>1, <1>2, <1>3, <1>6 DEF Types
<1>9. Readers(reader', queue')
  <2> SUFFICES ASSUME NEW u \in Streams
               PROVE  reader'[u] = "broadcasting" <=> AtLock(queue', u)
    BY DEF Readers
  <2>1. CASE u = s
    BY <2>1, <1>1, <1>2, <1>4, <1>6, <1>7 DEF AtLock, Types
  <2>2. CASE u # s
    <3>1. reader'[u] = reader[u]
      BY <2>2, <1>1, <1>2 DEF Types
    <3>2. AtLock(queue', u) <=> AtLock(queue, u)
      BY <2>2, <1>4, <1>6, <1>7 DEF AtLock
    <3>3. QED
      BY <3>1, <3>2, <1>1 DEF Readers
  <2>3. QED
    BY <2>1, <2>2
<1>10. \A i \in 1 .. Len(queue) :
         /\ queue[i].who # s
         /\ queue[i].who \in Streams => queue[i].line \in 1 .. logged
  BY <1>1, <1>2 DEF Readers, AtLock, Parts, ForWhom
<1>11. ForWhom(queue', logged')
  <2>1. logged' \in 1 .. logged' /\ \A n \in 1 .. logged : n \in 1 .. logged'
    BY <1>2, <1>3
  <2>2. QED
    BY <2>1, <1>1, <1>4, <1>6 DEF Parts, ForWhom
<1>12. OneEach(queue')
  <2>1. \A i \in 1 .. Len(queue) : queue[i].who \in Streams => queue[i].line # logged'
    BY <1>2, <1>3, <1>10
  <2>2. QED
    BY <2>1, <1>1, <1>4, <1>6, <1>10 DEF Parts, OneEach
<1>13. HolderSends(queue', dead')
  BY <1>1, <1>2, <1>4, <1>6 DEF Parts, HolderSends
<1>14. NoneUnlogged(shown', logged')
  <2>1. NoneUnlogged(shown, logged)
    BY <1>1 DEF Parts
  <2>2. \A n \in Lines : n <= logged => n <= logged'
    BY <1>2, <1>3
  <2>3. QED
    BY <1>2, <2>1, <2>2 DEF NoneUnlogged
<1>15. NotTwice(queue', shown')
  <2>1. \A v \in Viewers : shown[v][logged'] <= 1
    <3> SUFFICES ASSUME NEW v \in Viewers PROVE shown[v][logged'] <= 1
      OBVIOUS
    <3>1. shown[v][logged'] \in 0 .. 2
      BY <1>1, <1>3, Numbers
    <3>2. ~ (shown[v][logged'] > 0)
      BY <1>1, <1>2, <1>3 DEF Parts, NoneUnlogged
    <3>3. QED
      BY <3>1, <3>2
  <2>2. QED
    BY <2>1, <1>1, <1>2, <1>4, <1>6 DEF Parts, NotTwice
<1>16. NoneMissed(handler', dead', from', logged', shown', queue', cut')
  <2> SUFFICES ASSUME NEW v \in Viewers, handler[v] = "watching", v \notin dead,
                      NEW n \in Lines, from[v] <= n, n <= logged'
               PROVE  shown[v][n] > 0 \/ DueIn(queue', n, v) \/ n \in cut
    BY <1>2 DEF NoneMissed
  <2>1. CASE n = logged'
    BY <2>1, <1>4, <1>6, <1>7 DEF DueIn
  <2>2. CASE n # logged'
    <3>1. n <= logged
      BY <2>2, <1>2, <1>3
    <3>2. shown[v][n] > 0 \/ DueIn(queue, n, v) \/ n \in cut
      BY <3>1, <1>1 DEF Parts, NoneMissed
    <3>3. DueIn(queue, n, v) => DueIn(queue', n, v)
      BY <1>6, <1>7 DEF DueIn
    <3>4. QED
      BY <3>2, <3>3
  <2>3. QED
    BY <2>1, <2>2
<1>17. Subscribed(handler', members', dead')
  BY <1>1, <1>2 DEF Parts
<1>18. QED
  BY <1>8, <1>9, <1>11, <1>12, <1>13, <1>14, <1>15, <1>16, <1>17, InvThen

LEMMA ReadersCancelledKeeps == ASSUME Inv, ReadersCancelled PROVE Inv'
<1>1. Types /\ Readers(reader, queue) /\ Parts
  BY InvIs
<1>2. /\ reader' = [s \in Streams |-> "off"] /\ queue' = ViewersOnly(queue)
      /\ cut' = cut \cup {queue[i].line : i \in {j \in 1 .. Len(queue) : ~OfViewer(queue[j])}}
      /\ UNCHANGED <<alive, logged, cleared, handler, dead, members, from, shown>>
  BY DEF ReadersCancelled
<1>3. /\ queue \in Seq(Jobs) /\ queue' \in Seq(Jobs) /\ Drawn(queue, queue')
      /\ \A i \in 1 .. Len(queue') : queue'[i].who \in Viewers
  BY <1>1, <1>2, ReadersGone DEF Types
<1>4. \A i \in 1 .. Len(queue) : ~OfViewer(queue[i]) => queue[i].line \in Lines
  <2> SUFFICES ASSUME NEW i \in 1 .. Len(queue), ~OfViewer(queue[i])
               PROVE  queue[i].line \in Lines
    OBVIOUS
  <2>1. queue[i] \in Jobs
    BY <1>1, Numbers
  <2>2. queue[i].who \in Streams
    BY <2>1 DEF Jobs, OfViewer
  <2>3. queue[i].line \in 1 .. logged
    BY <1>1, <2>2 DEF Parts, ForWhom
  <2>4. QED
    BY <2>3, <1>1, Numbers DEF Lines
<1>5. Types'
  <2>1. cut' \subseteq Lines
    BY <1>1, <1>2, <1>4 DEF Types
  <2>2. QED
    BY <1>1, <1>2, <1>3, <2>1 DEF Types
<1>6. Readers(reader', queue')
  BY <1>2, <1>3, LogAssumption DEF Readers, AtLock
<1>7. ForWhom(queue', logged') /\ OneEach(queue') /\ NotTwice(queue', shown')
  BY <1>1, <1>2, <1>3, DrawnKeeps DEF Parts
<1>8. HolderSends(queue', dead')
  <2>1. \A i \in 1 .. Len(queue') : queue'[i].op # "sending"
    BY <1>3, <1>7 DEF ForWhom
  <2>2. \A i \in 1 .. Len(queue') : \E k \in 1 .. Len(queue) : queue'[i] = queue[k]
    BY <1>3 DEF Drawn
  <2>3. QED
    BY <2>1, <2>2, <1>1, <1>2 DEF Parts, HolderSends
<1>9. NoneMissed(handler', dead', from', logged', shown', queue', cut')
  <2> SUFFICES ASSUME NEW v \in Viewers, handler[v] = "watching", v \notin dead,
                      NEW n \in Lines, from[v] <= n, n <= logged
               PROVE  shown[v][n] > 0 \/ DueIn(queue', n, v) \/ n \in cut'
    BY <1>2 DEF NoneMissed
  <2>1. shown[v][n] > 0 \/ DueIn(queue, n, v) \/ n \in cut
    BY <1>1 DEF Parts, NoneMissed
  <2>2. ASSUME DueIn(queue, n, v) PROVE n \in cut'
    <3>1. PICK i \in 1 .. Len(queue) :
            queue[i].line = n /\ (queue[i].op = "waiting" \/ v \in queue[i].todo)
      BY <2>2 DEF DueIn
    <3>2. ~OfViewer(queue[i])
      BY <3>1, <1>1 DEF OfViewer, Parts, ForWhom
    <3>3. QED
      BY <3>1, <3>2, <1>2
  <2>3. QED
    BY <2>1, <2>2, <1>2
<1>10. NoneUnlogged(shown', logged') /\ Subscribed(handler', members', dead')
  BY <1>1, <1>2 DEF Parts
<1>11. QED
  BY <1>5, <1>6, <1>7, <1>8, <1>9, <1>10, InvThen

-----------------------------------------------------------------------------
(***************************************************************************)
(* broadcast_log.                                                          *)
(***************************************************************************)

\* A turn of the holder q[1] with its line: it keeps its task and its line.
Turns(q, job, d) ==
    /\ q[1].who \in Streams /\ q[1].who \notin Viewers
    /\ job.op = "sending" /\ job.failed \subseteq d
    /\ job.who = q[1].who /\ job.line = q[1].line

Turned(q, r, job) ==
    /\ r \in Seq(Jobs) /\ Len(r) = Len(q) /\ r[1] = job
    /\ \A i \in 1 .. Len(q) : i = 1 \/ (i \in 2 .. Len(q) /\ r[i] = q[i])
    /\ \A i \in 1 .. Len(q) : r[i].who = q[i].who /\ r[i].line = q[i].line
    /\ \A s : AtLock(r, s) <=> AtLock(q, s)

LEMMA TurnKeeps ==
    ASSUME NEW q \in Seq(Jobs), q # <<>>, NEW job \in Jobs, NEW r, r = <<job>> \o Tail(q),
           NEW l, NEW d, ForWhom(q, l), OneEach(q), HolderSends(q, d), Turns(q, job, d)
    PROVE  Turned(q, r, job) /\ ForWhom(r, l) /\ OneEach(r) /\ HolderSends(r, d)
<1>1. /\ r \in Seq(Jobs) /\ Len(r) = Len(q) /\ r[1] = job
      /\ \A i \in 2 .. Len(q) : r[i] = q[i]
  BY AtTheHead
<1>2. 1 \in 1 .. Len(q) /\ Len(q) \in Nat
  BY HolderGone
<1>3. \A i \in 1 .. Len(q) : i = 1 \/ (i \in 2 .. Len(q) /\ r[i] = q[i])
  BY <1>1, <1>2
<1>4. \A i \in 1 .. Len(q) : r[i].who = q[i].who /\ r[i].line = q[i].line
  BY <1>1, <1>2, <1>3 DEF Turns
<1>5. ForWhom(r, l)
  BY <1>1, <1>2, <1>3 DEF ForWhom, Turns
<1>6. OneEach(r)
  BY <1>1, <1>4 DEF OneEach
<1>7. HolderSends(r, d)
  BY <1>1, <1>3 DEF HolderSends, Turns
<1>8. \A s : AtLock(r, s) <=> AtLock(q, s)
  BY <1>1, <1>4 DEF AtLock
<1>9. QED
  BY <1>1, <1>3, <1>4, <1>5, <1>6, <1>7, <1>8 DEF Turned

\* The holder of the lock, a reader or a viewer's handler.
LEMMA HolderIs ==
    ASSUME Types, Parts, queue # <<>>
    PROVE  /\ Head(queue) = queue[1] /\ Head(queue) \in Jobs /\ 1 \in 1 .. Len(queue)
           /\ queue \in Seq(Jobs)
           /\ Head(queue).op \in {"waiting", "sending"} =>
                /\ Head(queue).who \in Streams /\ Head(queue).who \notin Viewers
                /\ Head(queue).line \in Lines /\ Head(queue).failed \subseteq dead
           /\ Head(queue).op \in {"join", "leave"} =>
                /\ Head(queue).who \in Viewers /\ Head(queue).who \notin Streams
                /\ Head(queue).todo = {}
<1>1. /\ Head(queue) = queue[1] /\ 1 \in 1 .. Len(queue) /\ queue \in Seq(Jobs)
  BY HolderGone DEF Types
<1>2. Head(queue) \in Jobs
  BY <1>1, Numbers
<1>3. Head(queue).who \in Viewers \cup Streams
  BY <1>2 DEF Jobs
<1>4. /\ Head(queue).who \in Viewers =>
           Head(queue).op \in {"join", "leave"} /\ Head(queue).todo = {}
      /\ Head(queue).who \in Streams =>
           Head(queue).op \in {"waiting", "sending"} /\ Head(queue).line \in 1 .. logged
      /\ Head(queue).failed \subseteq dead
  BY <1>1 DEF Parts, ForWhom, HolderSends
<1>5. \A n \in 1 .. logged : n \in Lines
  BY Numbers DEF Lines
<1>6. Head(queue).op \in {"waiting", "sending"} =>
        /\ Head(queue).who \in Streams /\ Head(queue).who \notin Viewers
        /\ Head(queue).line \in Lines /\ Head(queue).failed \subseteq dead
  BY <1>3, <1>4, <1>5
<1>7. Head(queue).op \in {"join", "leave"} =>
        /\ Head(queue).who \in Viewers /\ Head(queue).who \notin Streams
        /\ Head(queue).todo = {}
  BY <1>3, <1>4
<1>8. QED
  BY <1>1, <1>2, <1>6, <1>7

LEMMA SendingBeginsKeeps == ASSUME Inv, SendingBegins PROVE Inv'
<1>1. Types /\ Readers(reader, queue) /\ Parts
  BY InvIs
<1> DEFINE old == Head(queue)
           job == [old EXCEPT !.op = "sending", !.todo = members]
<1>2. /\ queue # <<>> /\ old.op = "waiting" /\ queue' = <<job>> \o Tail(queue)
      /\ UNCHANGED <<alive, reader, logged, cleared, handler, dead, members, from, shown, cut>>
  BY DEF SendingBegins, Holds
<1>3. /\ old = queue[1] /\ old \in Jobs /\ queue \in Seq(Jobs) /\ 1 \in 1 .. Len(queue)
      /\ old.who \in Streams /\ old.who \notin Viewers /\ old.line \in Lines
      /\ old.failed \subseteq dead
  BY <1>1, <1>2, HolderIs
<1>4. /\ job \in Jobs /\ job.op = "sending" /\ job.todo = members
      /\ job.who = old.who /\ job.line = old.line /\ job.failed = old.failed
  BY <1>1, <1>3 DEF Jobs, Types
<1> HIDE DEF job
<1>5. /\ Turned(queue, queue', job)
      /\ ForWhom(queue', logged) /\ OneEach(queue') /\ HolderSends(queue', dead)
  <2>1. ForWhom(queue, logged) /\ OneEach(queue) /\ HolderSends(queue, dead)
    BY <1>1 DEF Parts
  <2>2. Turns(queue, job, dead)
    BY <1>3, <1>4 DEF Turns
  <2>3. queue # <<>> /\ queue \in Seq(Jobs) /\ job \in Jobs /\ queue' = <<job>> \o Tail(queue)
    BY <1>2, <1>3, <1>4
  <2>4. QED
    BY <2>1, <2>2, <2>3, TurnKeeps
<1>6. Types'
  BY <1>1, <1>2, <1>5 DEF Types, Turned
<1>7. Readers(reader', queue')
  BY <1>1, <1>2, <1>5 DEF Readers, Turned
<1>8. NotTwice(queue', shown')
  <2>1. \A v \in Viewers : shown[v][old.line] <= 1
    BY <1>1, <1>2, <1>3 DEF Parts, NotTwice
  <2>2. \A i \in 2 .. Len(queue) : i \in 1 .. Len(queue)
    BY <1>3
  <2>3. QED
    BY <2>1, <2>2, <1>1, <1>2, <1>4, <1>5 DEF Parts, NotTwice, Turned
<1>9. NoneMissed(handler', dead', from', logged', shown', queue', cut')
  <2> SUFFICES ASSUME NEW v \in Viewers, handler[v] = "watching", v \notin dead,
                      NEW n \in Lines, from[v] <= n, n <= logged
               PROVE  shown[v][n] > 0 \/ DueIn(queue', n, v) \/ n \in cut
    BY <1>2 DEF NoneMissed
  <2>1. shown[v][n] > 0 \/ DueIn(queue, n, v) \/ n \in cut
    BY <1>1 DEF Parts, NoneMissed
  <2>2. v \in members
    BY <1>1 DEF Parts, Subscribed
  <2>3. ASSUME DueIn(queue, n, v) PROVE DueIn(queue', n, v)
    <3>1. PICK i \in 1 .. Len(queue) :
            queue[i].line = n /\ (queue[i].op = "waiting" \/ v \in queue[i].todo)
      BY <2>3 DEF DueIn
    <3>2. CASE i = 1
      BY <3>1, <3>2, <2>2, <1>3, <1>4, <1>5 DEF DueIn, Turned
    <3>3. CASE i # 1
      BY <3>1, <3>3, <1>5 DEF DueIn, Turned
    <3>4. QED
      BY <3>2, <3>3
  <2>4. QED
    BY <2>1, <2>3
<1>10. NoneUnlogged(shown', logged') /\ Subscribed(handler', members', dead')
  BY <1>1, <1>2 DEF Parts
<1>11. QED
  BY <1>2, <1>5, <1>6, <1>7, <1>8, <1>9, <1>10, InvThen

\* A viewer that is reached is shown the line; one that is not is broken.
LEMMA SendsKeeps == ASSUME Inv, NEW v \in Viewers, Sends(v) PROVE Inv'
<1>1. Types /\ Readers(reader, queue) /\ Parts
  BY InvIs
<1> DEFINE old == Head(queue)
           job == IF v \in dead THEN FailureNoted(old, v) ELSE [old EXCEPT !.todo = @ \ {v}]
<1>2. /\ queue # <<>> /\ old.op = "sending" /\ v \in old.todo
      /\ queue' = <<job>> \o Tail(queue)
      /\ IF v \in dead THEN shown' = shown
         ELSE shown' = [shown EXCEPT ![v][old.line] = @ + 1]
      /\ UNCHANGED <<alive, reader, logged, cleared, handler, dead, members, from, cut>>
  BY DEF Sends, Holds
<1>3. /\ old = queue[1] /\ old \in Jobs /\ queue \in Seq(Jobs) /\ 1 \in 1 .. Len(queue)
      /\ old.who \in Streams /\ old.who \notin Viewers /\ old.line \in Lines
      /\ old.failed \subseteq dead
  BY <1>1, <1>2, HolderIs
<1>4. /\ job \in Jobs /\ job.op = "sending" /\ job.todo = old.todo \ {v}
      /\ job.who = old.who /\ job.line = old.line
  BY <1>2, <1>3 DEF Jobs, FailureNoted
<1>5. job.failed \subseteq dead
  BY <1>3 DEF Jobs, FailureNoted
<1> HIDE DEF job
<1>6. /\ Turned(queue, queue', job)
      /\ ForWhom(queue', logged) /\ OneEach(queue') /\ HolderSends(queue', dead)
  <2>1. ForWhom(queue, logged) /\ OneEach(queue) /\ HolderSends(queue, dead)
    BY <1>1 DEF Parts
  <2>2. Turns(queue, job, dead)
    BY <1>3, <1>4, <1>5 DEF Turns
  <2>3. queue # <<>> /\ queue \in Seq(Jobs) /\ job \in Jobs /\ queue' = <<job>> \o Tail(queue)
    BY <1>2, <1>3, <1>4
  <2>4. QED
    BY <2>1, <2>2, <2>3, TurnKeeps
<1>7. shown[v][old.line] <= 1 /\ old.line <= logged
  BY <1>1, <1>2, <1>3 DEF Parts, NotTwice, ForWhom
<1>8. /\ \A u \in Viewers : \A n \in Lines :
           u # v \/ n # old.line => shown'[u][n] = shown[u][n]
      /\ shown'[v][old.line] \in 0 .. 2
      /\ v \notin dead => shown'[v][old.line] > 0
      /\ shown' \in [Viewers -> [Lines -> 0 .. 2]]
  <2>0. shown \in [Viewers -> [Lines -> 0 .. 2]]
    BY <1>1 DEF Types
  <2>1. CASE v \in dead
    BY <2>0, <2>1, <1>2, <1>3
  <2>2. CASE v \notin dead
    <3>1. shown' = [shown EXCEPT ![v] = [shown[v] EXCEPT ![old.line] = shown[v][old.line] + 1]]
      BY <2>2, <1>2
    <3>2. shown[v][old.line] + 1 \in 0 .. 2 /\ shown[v][old.line] + 1 > 0
      BY <2>0, <1>3, <1>7
    <3>3. QED
      BY <2>0, <2>2, <3>1, <3>2, <1>3
  <2>3. QED
    BY <2>1, <2>2
<1>9. \A u \in Viewers : \A n \in Lines : shown[u][n] > 0 =>
        shown'[u][n] > 0
  <2> SUFFICES ASSUME NEW u \in Viewers, NEW n \in Lines, shown[u][n] > 0
               PROVE  shown'[u][n] > 0
    OBVIOUS
  <2>1. CASE u # v \/ n # old.line
    BY <2>1, <1>8
  <2>2. CASE u = v /\ n = old.line
    BY <2>2, <1>2, <1>8
  <2>3. QED
    BY <2>1, <2>2
<1>10. Types'
  BY <1>1, <1>2, <1>6, <1>8 DEF Types, Turned
<1>11. Readers(reader', queue')
  BY <1>1, <1>2, <1>6 DEF Readers, Turned
<1>12. NoneUnlogged(shown', logged')
  <2> SUFFICES ASSUME NEW u \in Viewers, NEW n \in Lines, shown'[u][n] > 0
               PROVE  n <= logged
    BY <1>2 DEF NoneUnlogged
  <2>1. CASE u # v \/ n # old.line
    BY <2>1, <1>1, <1>8 DEF Parts, NoneUnlogged
  <2>2. CASE u = v /\ n = old.line
    BY <2>2, <1>7
  <2>3. QED
    BY <2>1, <2>2
<1>13. NotTwice(queue', shown')
  <2> SUFFICES ASSUME NEW i \in 1 .. Len(queue), NEW u \in Viewers,
                      queue'[i].who \in Streams,
                      queue'[i].op = "waiting" \/ u \in queue'[i].todo
               PROVE  shown'[u][queue'[i].line] <= 1
    BY <1>6 DEF NotTwice, Turned
  <2>1. CASE i = 1
    <3>1. u \in old.todo /\ u # v /\ queue'[i].line = old.line
      BY <2>1, <1>4, <1>6 DEF Turned
    <3>2. shown[u][old.line] <= 1
      BY <3>1, <1>1, <1>3 DEF Parts, NotTwice
    <3>3. QED
      BY <3>1, <3>2, <1>3, <1>8
  <2>2. CASE i # 1
    <3>1. queue'[i] = queue[i]
      BY <2>2, <1>6 DEF Turned
    <3>2. queue[i].line # old.line
      BY <2>2, <3>1, <1>1, <1>3 DEF Parts, OneEach
    <3>3. queue[i].line \in Lines
      <4>1. queue[i].line \in 1 .. logged
        BY <3>1, <1>1 DEF Parts, ForWhom
      <4>2. QED
        BY <4>1, <1>1, Numbers DEF Lines
    <3>4. shown[u][queue[i].line] <= 1
      BY <3>1, <1>1 DEF Parts, NotTwice
    <3>5. QED
      BY <3>1, <3>2, <3>3, <3>4, <1>8
  <2>3. QED
    BY <2>1, <2>2
<1>14. NoneMissed(handler', dead', from', logged', shown', queue', cut')
  <2> SUFFICES ASSUME NEW u \in Viewers, handler[u] = "watching", u \notin dead,
                      NEW n \in Lines, from[u] <= n, n <= logged
               PROVE  shown'[u][n] > 0 \/ DueIn(queue', n, u) \/ n \in cut
    BY <1>2 DEF NoneMissed
  <2>1. shown[u][n] > 0 \/ DueIn(queue, n, u) \/ n \in cut
    BY <1>1 DEF Parts, NoneMissed
  <2>2. ASSUME DueIn(queue, n, u) PROVE shown'[u][n] > 0 \/ DueIn(queue', n, u)
    <3>1. PICK i \in 1 .. Len(queue) :
            queue[i].line = n /\ (queue[i].op = "waiting" \/ u \in queue[i].todo)
      BY <2>2 DEF DueIn
    <3>2. CASE i = 1 /\ u = v
      BY <3>1, <3>2, <1>3, <1>8
    <3>3. CASE i = 1 /\ u # v
      <4>1. u \in job.todo /\ job.line = n
        BY <3>1, <3>3, <1>2, <1>3, <1>4
      <4>2. QED
        BY <4>1, <1>3, <1>6 DEF DueIn, Turned
    <3>4. CASE i # 1
      BY <3>1, <3>4, <1>6 DEF DueIn, Turned
    <3>5. QED
      BY <3>2, <3>3, <3>4
  <2>3. QED
    BY <2>1, <2>2, <1>9
<1>15. Subscribed(handler', members', dead')
  BY <1>1, <1>2 DEF Parts
<1>16. QED
  BY <1>2, <1>6, <1>10, <1>11, <1>12, <1>13, <1>14, <1>15, InvThen

\* What is left true when the holder has gone.
LEMMA GoneKeeps ==
    ASSUME NEW q \in Seq(Jobs), q # <<>>, NEW l, NEW d, NEW sh,
           ForWhom(q, l), OneEach(q), HolderSends(q, d), NotTwice(q, sh)
    PROVE  /\ ForWhom(Tail(q), l) /\ OneEach(Tail(q)) /\ HolderSends(Tail(q), d)
           /\ NotTwice(Tail(q), sh)
           /\ \A s \in Streams : AtLock(Tail(q), s) <=> AtLock(q, s) /\ s # Head(q).who
<1>1. Tail(q) \in Seq(Jobs) /\ Drawn(q, Tail(q))
  BY HolderGone
<1>2. /\ \A i \in 2 .. Len(q) : i - 1 \in 1 .. Len(Tail(q)) /\ Tail(q)[i - 1] = q[i]
      /\ \A a \in 1 .. Len(Tail(q)) : a + 1 \in 2 .. Len(q) /\ Tail(q)[a] = q[a + 1]
      /\ Head(q) = q[1] /\ 1 \in 1 .. Len(q) /\ Len(q) \in Nat
  BY HolderGone
<1>3. ForWhom(Tail(q), l) /\ OneEach(Tail(q)) /\ NotTwice(Tail(q), sh)
  BY <1>1, DrawnKeeps
<1>4. \A i \in 2 .. Len(q) : i \in 1 .. Len(q) /\ i # 1
  BY <1>2
<1>5. HolderSends(Tail(q), d)
  <2> SUFFICES ASSUME NEW a \in 1 .. Len(Tail(q))
               PROVE  Tail(q)[a].op # "sending" /\ Tail(q)[a].failed \subseteq d
    BY DEF HolderSends
  <2>1. Tail(q)[a] = q[a + 1] /\ a + 1 \in 2 .. Len(q)
    BY <1>2
  <2>2. q[a + 1].op # "sending" /\ q[a + 1].failed \subseteq d
    BY <2>1, <1>4 DEF HolderSends
  <2>3. QED
    BY <2>1, <2>2
<1>6. ASSUME NEW s \in Streams
      PROVE  AtLock(Tail(q), s) <=> AtLock(q, s) /\ s # Head(q).who
  <2>1. ASSUME AtLock(Tail(q), s) PROVE AtLock(q, s) /\ s # Head(q).who
    <3>1. PICK a \in 1 .. Len(Tail(q)) : Tail(q)[a].who = s
      BY <2>1 DEF AtLock
    <3>2. q[a + 1].who = s /\ a + 1 \in 1 .. Len(q) /\ a + 1 # 1
      BY <3>1, <1>2, <1>4
    <3>3. q[1].who # s
      BY <3>2, <1>2 DEF OneEach
    <3>4. QED
      BY <3>2, <3>3, <1>2 DEF AtLock
  <2>2. ASSUME AtLock(q, s), s # Head(q).who PROVE AtLock(Tail(q), s)
    <3>1. PICK i \in 1 .. Len(q) : q[i].who = s
      BY <2>2 DEF AtLock
    <3>2. i \in 2 .. Len(q)
      BY <3>1, <2>2, <1>2
    <3>3. QED
      BY <3>1, <3>2, <1>2 DEF AtLock
  <2>3. QED
    BY <2>1, <2>2
<1>7. QED
  BY <1>3, <1>5, <1>6

LEMMA SendingEndsKeeps == ASSUME Inv, SendingEnds PROVE Inv'
<1>1. Types /\ Readers(reader, queue) /\ Parts
  BY InvIs
<1> DEFINE old == Head(queue)
<1>2. /\ queue # <<>> /\ old.op = "sending" /\ old.todo = {} /\ queue' = Tail(queue)
      /\ members' = members \ old.failed
      /\ reader' = [reader EXCEPT ![old.who] = "reading"]
      /\ UNCHANGED <<alive, logged, cleared, handler, dead, from, shown, cut>>
  BY DEF SendingEnds, Holds
<1>3. /\ queue \in Seq(Jobs) /\ old.who \in Streams /\ old.failed \subseteq dead
  BY <1>1, <1>2, HolderIs
<1>4. /\ ForWhom(queue', logged) /\ OneEach(queue') /\ HolderSends(queue', dead)
      /\ NotTwice(queue', shown)
      /\ \A s \in Streams : AtLock(queue', s) <=> AtLock(queue, s) /\ s # old.who
  <2>1. /\ ForWhom(queue, logged) /\ OneEach(queue) /\ HolderSends(queue, dead)
        /\ NotTwice(queue, shown)
    BY <1>1 DEF Parts
  <2>2. /\ ForWhom(Tail(queue), logged) /\ OneEach(Tail(queue))
        /\ HolderSends(Tail(queue), dead) /\ NotTwice(Tail(queue), shown)
        /\ \A s \in Streams : AtLock(Tail(queue), s) <=> AtLock(queue, s) /\ s # old.who
    BY <1>2, <1>3, <2>1, GoneKeeps
  <2>3. QED
    BY <2>2, <1>2
<1>5. Types'
  <2>1. queue' \in Seq(Jobs)
    BY <1>2, <1>3, HolderGone
  <2>2. QED
    BY <1>1, <1>2, <2>1 DEF Types
<1>6. Readers(reader', queue')
  BY <1>1, <1>2, <1>4 DEF Readers, Types
<1>7. Subscribed(handler', members', dead')
  BY <1>1, <1>2, <1>3 DEF Parts, Subscribed
<1>8. NoneMissed(handler', dead', from', logged', shown', queue', cut')
  <2> SUFFICES ASSUME NEW v \in Viewers, handler[v] = "watching", v \notin dead,
                      NEW n \in Lines, from[v] <= n, n <= logged
               PROVE  shown[v][n] > 0 \/ DueIn(queue', n, v) \/ n \in cut
    BY <1>2 DEF NoneMissed
  <2>1. shown[v][n] > 0 \/ DueIn(queue, n, v) \/ n \in cut
    BY <1>1 DEF Parts, NoneMissed
  <2>2. DueIn(queue, n, v) => DueIn(queue', n, v)
    BY <1>2, <1>3, StillDue
  <2>3. QED
    BY <2>1, <2>2
<1>9. NoneUnlogged(shown', logged')
  BY <1>1, <1>2 DEF Parts
<1>10. QED
  BY <1>2, <1>4, <1>5, <1>6, <1>7, <1>8, <1>9, InvThen

-----------------------------------------------------------------------------
(***************************************************************************)
(* camera_ws.                                                              *)
(***************************************************************************)

\* A viewer's handler queues up for the lock.
LEMMA QueuesUp ==
    ASSUME Types, Readers(reader, queue), Parts, NEW v \in Viewers, NEW op \in {"join", "leave"},
           queue' = Append(queue, Job(op, v, 0))
    PROVE  /\ queue' \in Seq(Jobs) /\ Readers(reader, queue')
           /\ ForWhom(queue', logged) /\ OneEach(queue') /\ HolderSends(queue', dead)
           /\ NotTwice(queue', shown)
           /\ \A n, u : DueIn(queue, n, u) => DueIn(queue', n, u)
<1> DEFINE job == Job(op, v, 0)
<1>1. /\ job \in Jobs /\ job.op = op /\ job.who = v /\ job.todo = {} /\ job.failed = {}
      /\ v \notin Streams
  BY JobTyped, LogAssumption
<1>2. queue \in Seq(Jobs) /\ queue' = Append(queue, job)
  BY DEF Types
<1> HIDE DEF job
<1>3. /\ queue' \in Seq(Jobs) /\ Len(queue') = Len(queue) + 1 /\ Len(queue) \in Nat
      /\ \A i \in 1 .. Len(queue) : queue'[i] = queue[i]
      /\ queue'[Len(queue) + 1] = job
      /\ \A i \in 1 .. Len(queue') : i \in 1 .. Len(queue) \/ i = Len(queue) + 1
  BY <1>1, <1>2, AtTheEnd
<1>4. /\ Len(queue) + 1 \in 1 .. Len(queue')
      /\ \A i \in 1 .. Len(queue) : i \in 1 .. Len(queue')
  BY <1>3
<1>5. Readers(reader, queue')
  <2>1. \A s \in Streams : AtLock(queue', s) <=> AtLock(queue, s)
    BY <1>1, <1>3, <1>4 DEF AtLock
  <2>2. QED
    BY <2>1 DEF Readers
<1>6. ForWhom(queue', logged)
  BY <1>1, <1>3 DEF Parts, ForWhom
<1>7. OneEach(queue')
  BY <1>1, <1>3 DEF Parts, OneEach
<1>8. HolderSends(queue', dead)
  BY <1>1, <1>3 DEF Parts, HolderSends
<1>9. NotTwice(queue', shown)
  BY <1>1, <1>3 DEF Parts, NotTwice
<1>10. \A n, u : DueIn(queue, n, u) => DueIn(queue', n, u)
  BY <1>3, <1>4 DEF DueIn
<1>11. QED
  BY <1>3, <1>5, <1>6, <1>7, <1>8, <1>9, <1>10

LEMMA OpensLeavesKeeps ==
    ASSUME Inv, NEW v \in Viewers, Opens(v) \/ Leaves(v) PROVE Inv'
<1>1. Types /\ Readers(reader, queue) /\ Parts
  BY InvIs
<1>2. PICK op \in {"join", "leave"} :
        /\ handler' = [handler EXCEPT ![v] = IF op = "join" THEN "joining" ELSE "leaving"]
        /\ queue' = Append(queue, Job(op, v, 0))
        /\ UNCHANGED <<alive, reader, logged, cleared, dead, members, from, shown, cut>>
  BY DEF Opens, Leaves
<1>3. /\ queue' \in Seq(Jobs) /\ Readers(reader, queue')
      /\ ForWhom(queue', logged) /\ OneEach(queue') /\ HolderSends(queue', dead)
      /\ NotTwice(queue', shown)
      /\ \A n, u : DueIn(queue, n, u) => DueIn(queue', n, u)
  BY <1>1, <1>2, QueuesUp
<1>4. Types'
  BY <1>1, <1>2, <1>3 DEF Types
<1>5. \A u \in Viewers : handler'[u] = "watching" => handler[u] = "watching"
  BY <1>1, <1>2 DEF Types
<1>6. Subscribed(handler', members', dead')
  BY <1>1, <1>2, <1>5 DEF Parts, Subscribed
<1>7. NoneMissed(handler', dead', from', logged', shown', queue', cut')
  BY <1>1, <1>2, <1>3, <1>5 DEF Parts, NoneMissed
<1>8. NoneUnlogged(shown', logged')
  BY <1>1, <1>2 DEF Parts
<1>9. QED
  BY <1>2, <1>3, <1>4, <1>6, <1>7, <1>8, InvThen

LEMMA LeftKeeps == ASSUME Inv, Left PROVE Inv'
<1>1. Types /\ Readers(reader, queue) /\ Parts
  BY InvIs
<1> DEFINE v == Head(queue).who
<1>2. /\ queue # <<>> /\ Head(queue).op = "leave" /\ queue' = Tail(queue)
      /\ members' = members \ {v} /\ handler' = [handler EXCEPT ![v] = "gone"]
      /\ UNCHANGED <<alive, reader, logged, cleared, dead, from, shown, cut>>
  BY DEF Left, Holds
<1>3. queue \in Seq(Jobs) /\ v \in Viewers /\ v \notin Streams /\ Head(queue).todo = {}
  BY <1>1, <1>2, HolderIs
<1>4. /\ ForWhom(queue', logged) /\ OneEach(queue') /\ HolderSends(queue', dead)
      /\ NotTwice(queue', shown)
      /\ \A s \in Streams : AtLock(queue', s) <=> AtLock(queue, s) /\ s # v
  <2>1. /\ ForWhom(queue, logged) /\ OneEach(queue) /\ HolderSends(queue, dead)
        /\ NotTwice(queue, shown)
    BY <1>1 DEF Parts
  <2>2. /\ ForWhom(Tail(queue), logged) /\ OneEach(Tail(queue))
        /\ HolderSends(Tail(queue), dead) /\ NotTwice(Tail(queue), shown)
        /\ \A s \in Streams : AtLock(Tail(queue), s) <=> AtLock(queue, s) /\ s # v
    BY <1>2, <1>3, <2>1, GoneKeeps
  <2>3. QED
    BY <2>2, <1>2
<1>5. Types'
  <2>1. queue' \in Seq(Jobs)
    BY <1>2, <1>3, HolderGone
  <2>2. QED
    BY <1>1, <1>2, <1>3, <2>1 DEF Types
<1>6. Readers(reader', queue')
  BY <1>1, <1>2, <1>3, <1>4 DEF Readers
<1>7. \A u \in Viewers : handler'[u] = "watching" => handler[u] = "watching" /\ u # v
  BY <1>1, <1>2, <1>3 DEF Types
<1>8. Subscribed(handler', members', dead')
  BY <1>1, <1>2, <1>7 DEF Parts, Subscribed
<1>9. NoneMissed(handler', dead', from', logged', shown', queue', cut')
  <2>1. \A n, u : DueIn(queue, n, u) => DueIn(queue', n, u)
    BY <1>2, <1>3, StillDue
  <2>2. QED
    BY <1>1, <1>2, <1>7, <2>1 DEF Parts, NoneMissed
<1>10. NoneUnlogged(shown', logged')
  BY <1>1, <1>2 DEF Parts
<1>11. QED
  BY <1>2, <1>4, <1>5, <1>6, <1>8, <1>9, <1>10, InvThen

\* The first line of the buffer, or the next line if it is empty: all lines from
\* there on that have been logged are in the buffer.
First == IF Buffer = {} THEN logged + 1
         ELSE CHOOSE n \in Buffer : \A k \in Buffer : n <= k

LEMMA BufferFrom ==
    ASSUME Types
    PROVE  /\ First \in 0 .. MaxLines + 1
           /\ \A n \in Buffer : n <= logged
           /\ \A n \in Lines : First <= n /\ n <= logged => n \in Buffer
<1>1. /\ logged \in Nat /\ logged <= MaxLines /\ MaxLines \in Nat /\ cleared \in Nat
      /\ BufferSize \in Nat /\ \A n \in Lines : n \in Nat /\ n > 0 /\ n <= MaxLines
  BY Numbers, LogAssumption DEF Lines
<1>2. \A n \in Buffer : n \in Lines /\ n <= logged
  BY DEF Buffer
<1>3. CASE Buffer = {}
  <2>1. First = logged + 1
    BY <1>3 DEF First
  <2>2. QED
    BY <1>1, <1>2, <2>1
<1>4. CASE Buffer # {}
  <2> DEFINE low == IF cleared < logged - BufferSize THEN logged - BufferSize + 1
                    ELSE cleared + 1
  <2>1. low \in Int /\ \A n \in Lines : n \in Buffer <=> low <= n /\ n <= logged
    BY <1>1 DEF Buffer
  <2>2. low \in Buffer
    <3>1. PICK n \in Buffer : TRUE
      BY <1>4
    <3>2. n \in Lines /\ low <= n /\ n <= logged
      BY <3>1, <1>2, <2>1
    <3>3. low \in 1 .. MaxLines
      BY <3>2, <1>1, <2>1
    <3>4. low \in Lines
      BY <3>3 DEF Lines
    <3>5. QED
      BY <3>2, <3>4, <1>1, <2>1
  <2>3. \A k \in Buffer : low <= k
    BY <1>2, <2>1
  <2> HIDE DEF low
  <2>4. \E n \in Buffer : \A k \in Buffer : n <= k
    BY <2>2, <2>3
  <2>5. First \in Buffer /\ \A k \in Buffer : First <= k
    BY <2>4, <1>4 DEF First
  <2>6. First = low
    BY <2>1, <2>2, <2>3, <2>5, <1>1, <1>2
  <2>7. QED
    BY <1>1, <1>2, <2>1, <2>2, <2>6
<1>5. QED
  BY <1>3, <1>4

LEMMA JoinedKeeps == ASSUME Inv, Joined PROVE Inv'
<1>1. Types /\ Readers(reader, queue) /\ Parts
  BY InvIs
<1> DEFINE v == Head(queue).who
           buffered == [n \in Lines |-> IF n \in Buffer THEN 1 ELSE 0]
<1>2. /\ queue # <<>> /\ Head(queue).op = "join" /\ queue' = Tail(queue)
      /\ members' = members \cup {v} /\ handler' = [handler EXCEPT ![v] = "watching"]
      /\ from' = [from EXCEPT ![v] = First]
      /\ shown' = [shown EXCEPT ![v] = buffered]
      /\ UNCHANGED <<alive, reader, logged, cleared, dead, cut>>
  BY DEF Joined, Holds, First
<1>3. queue \in Seq(Jobs) /\ v \in Viewers /\ v \notin Streams /\ Head(queue).todo = {}
  BY <1>1, <1>2, HolderIs
<1>4. /\ First \in 0 .. MaxLines + 1
      /\ \A n \in Buffer : n <= logged
      /\ \A n \in Lines : First <= n /\ n <= logged => n \in Buffer
  BY <1>1, BufferFrom
<1>5. /\ buffered \in [Lines -> 0 .. 2]
      /\ \A n \in Lines : buffered[n] <= 1 /\ (buffered[n] > 0 <=> n \in Buffer)
  OBVIOUS
<1> HIDE DEF buffered
<1>6. /\ shown' \in [Viewers -> [Lines -> 0 .. 2]] /\ from' \in [Viewers -> 0 .. MaxLines + 1]
      /\ shown'[v] = buffered /\ from'[v] = First
      /\ \A u \in Viewers : u # v =>
           shown'[u] = shown[u] /\ from'[u] = from[u] /\ handler'[u] = handler[u]
  BY <1>1, <1>2, <1>3, <1>4, <1>5 DEF Types
<1>7. /\ ForWhom(queue', logged) /\ OneEach(queue') /\ HolderSends(queue', dead)
      /\ NotTwice(queue', shown)
      /\ \A s \in Streams : AtLock(queue', s) <=> AtLock(queue, s) /\ s # v
  <2>1. /\ ForWhom(queue, logged) /\ OneEach(queue) /\ HolderSends(queue, dead)
        /\ NotTwice(queue, shown)
    BY <1>1 DEF Parts
  <2>2. /\ ForWhom(Tail(queue), logged) /\ OneEach(Tail(queue))
        /\ HolderSends(Tail(queue), dead) /\ NotTwice(Tail(queue), shown)
        /\ \A s \in Streams : AtLock(Tail(queue), s) <=> AtLock(queue, s) /\ s # v
    BY <1>2, <1>3, <2>1, GoneKeeps
  <2>3. QED
    BY <2>2, <1>2
<1>8. Types'
  <2>1. queue' \in Seq(Jobs)
    BY <1>2, <1>3, HolderGone
  <2>2. QED
    BY <1>1, <1>2, <1>3, <1>6, <2>1 DEF Types
<1>9. Readers(reader', queue')
  BY <1>1, <1>2, <1>3, <1>7 DEF Readers
<1>10. Subscribed(handler', members', dead')
  BY <1>1, <1>2, <1>6 DEF Parts, Subscribed
<1>11. NoneUnlogged(shown', logged')
  <2> SUFFICES ASSUME NEW u \in Viewers, NEW n \in Lines, shown'[u][n] > 0
               PROVE  n <= logged
    BY <1>2 DEF NoneUnlogged
  <2>1. CASE u = v
    BY <2>1, <1>4, <1>5, <1>6
  <2>2. CASE u # v
    BY <2>2, <1>1, <1>6 DEF Parts, NoneUnlogged
  <2>3. QED
    BY <2>1, <2>2
<1>12. NotTwice(queue', shown')
  <2> SUFFICES ASSUME NEW i \in 1 .. Len(queue'), NEW u \in Viewers,
                      queue'[i].who \in Streams,
                      queue'[i].op = "waiting" \/ u \in queue'[i].todo
               PROVE  shown'[u][queue'[i].line] <= 1
    BY DEF NotTwice
  <2>1. CASE u = v
    <3>1. queue'[i].line \in 1 .. logged
      BY <1>7 DEF ForWhom
    <3>2. queue'[i].line \in Lines
      BY <3>1, <1>1, Numbers DEF Lines
    <3>3. QED
      BY <2>1, <3>2, <1>5, <1>6
  <2>2. CASE u # v
    BY <2>2, <1>6, <1>7 DEF NotTwice
  <2>3. QED
    BY <2>1, <2>2
<1>13. NoneMissed(handler', dead', from', logged', shown', queue', cut')
  <2> SUFFICES ASSUME NEW u \in Viewers, handler'[u] = "watching", u \notin dead,
                      NEW n \in Lines, from'[u] <= n, n <= logged
               PROVE  shown'[u][n] > 0 \/ DueIn(queue', n, u) \/ n \in cut
    BY <1>2 DEF NoneMissed
  <2>1. CASE u = v
    BY <2>1, <1>4, <1>5, <1>6
  <2>2. CASE u # v
    <3>1. shown[u][n] > 0 \/ DueIn(queue, n, u) \/ n \in cut
      BY <2>2, <1>1, <1>6 DEF Parts, NoneMissed
    <3>2. DueIn(queue, n, u) => DueIn(queue', n, u)
      BY <1>2, <1>3, StillDue
    <3>3. QED
      BY <2>2, <3>1, <3>2, <1>6
  <2>3. QED
    BY <2>1, <2>2
<1>14. QED
  BY <1>2, <1>7, <1>8, <1>9, <1>10, <1>11, <1>12, <1>13, InvThen

LEMMA BreaksKeeps == ASSUME Inv, NEW v \in Viewers, Breaks(v) PROVE Inv'
<1>1. Types /\ Readers(reader, queue) /\ Parts
  BY InvIs
<1>2. /\ dead' = dead \cup {v}
      /\ UNCHANGED <<alive, reader, logged, cleared, handler, members, from, shown, cut, queue>>
  BY DEF Breaks
<1>3. Types'
  BY <1>1, <1>2 DEF Types
<1>4. HolderSends(queue', dead')
  BY <1>1, <1>2 DEF Parts, HolderSends
<1>5. Subscribed(handler', members', dead')
  BY <1>1, <1>2 DEF Parts, Subscribed
<1>6. NoneMissed(handler', dead', from', logged', shown', queue', cut')
  BY <1>1, <1>2 DEF Parts, NoneMissed
<1>7. QED
  BY <1>1, <1>2, <1>3, <1>4, <1>5, <1>6, InvThen DEF Parts

LEMMA NextInv == Inv /\ [Next]_vars => Inv'
<1> SUFFICES ASSUME Inv, [Next]_vars PROVE Inv'
  OBVIOUS
<1>1. CASE Process
  BY <1>1, StartedKeeps, ProcessEndsKeeps, ReadersCancelledKeeps DEF Process
<1>2. CASE Reading
  BY <1>2, UnheardKeeps, HeardKeeps, ReadsEndKeeps DEF Reading
<1>3. CASE LockTurns
  BY <1>3, SendingBeginsKeeps, SendingEndsKeeps, JoinedKeeps, LeftKeeps, SendsKeeps
     DEF LockTurns
<1>4. CASE Viewing
  BY <1>4, OpensLeavesKeeps, BreaksKeeps DEF Viewing
<1>5. CASE UNCHANGED vars
  <2>1. Types /\ Readers(reader, queue) /\ Parts
    BY InvIs
  <2>2. Types'
    BY <1>5, <2>1 DEF vars, Types
  <2>3. QED
    BY <1>5, <2>1, <2>2, InvThen DEF vars, Parts
<1>6. QED
  BY <1>1, <1>2, <1>3, <1>4, <1>5 DEF Next

-----------------------------------------------------------------------------
(***************************************************************************)
(* The theorems.                                                           *)
(***************************************************************************)

\* The variables keep their types, and a reader is at the lock exactly while it
\* awaits its broadcast: _read_logs takes its place there with one line at a
\* time, and the end of the broadcast or the cancellation by stop_camera gives it
\* up.  No line is sent to a viewer more than twice: out of the buffer, and as
\* it is read.
THEOREM TypeCorrect == Spec => []TypeOK
<1>1. Init => Inv
  BY InitInv
<1>2. Inv /\ [Next]_vars => Inv'
  BY NextInv
<1>3. Inv => TypeOK
  BY DEF Inv
<1>4. QED
  BY <1>1, <1>2, <1>3, PTL DEF Spec

\* A viewer that camera_ws has subscribed and sent the buffer misses no line
\* from the oldest of the buffer on: it was sent each of them, or a broadcast of
\* it is under way to it, or stop_camera has cancelled that broadcast.
THEOREM NothingMissedTheorem == Spec => []NothingMissed
<1>1. Init => Inv
  BY InitInv
<1>2. Inv /\ [Next]_vars => Inv'
  BY NextInv
<1>3. Inv => NothingMissed
  BY DEF Inv
<1>4. QED
  BY <1>1, <1>2, <1>3, PTL DEF Spec

=============================================================================
