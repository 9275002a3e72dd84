--------------------------- MODULE SchedulerProofs ---------------------------
(***************************************************************************)
(* Theorems about Scheduler, for any tasks, callers, onError hooks, limits *)
(* and number of calls, with and without errors.                           *)
(***************************************************************************)
EXTENDS Scheduler, WellFoundedInduction, SequenceTheorems, FiniteSetTheorems, TLAPS

-----------------------------------------------------------------------------
\* Sequences

\* Appending adds one element.
LEMMA AppendSet ==
  ASSUME NEW T, NEW r \in Seq(T), NEW e \in T
  PROVE  \A x : x \in ToSet(Append(r, e)) <=> x \in ToSet(r) \/ x = e
<1>1. /\ DOMAIN r = 1 .. Len(r) /\ DOMAIN Append(r, e) = 1 .. (Len(r) + 1) /\ Len(r) \in Nat
      /\ \A i \in 1 .. Len(r) : Append(r, e)[i] = r[i]
      /\ Append(r, e)[Len(r) + 1] = e
  OBVIOUS
<1>2. \A x : x \in ToSet(Append(r, e)) <=> \E i \in 1 .. (Len(r) + 1) : Append(r, e)[i] = x
  BY <1>1 DEF ToSet
<1>3. \A x : x \in ToSet(r) <=> \E i \in 1 .. Len(r) : r[i] = x
  BY <1>1 DEF ToSet
<1> QED
  BY <1>1, <1>2, <1>3

-----------------------------------------------------------------------------
\* Keep, the subsequence of the members of a set

\* The prefixes of q, filtered one after the other.
Filtered1(q, K, F, i) ==
  IF i = 0 THEN <<>> ELSE IF q[i] \in K THEN Append(F[i - 1], q[i]) ELSE F[i - 1]
FilterOf(q, K, F, n) == F = [i \in 0 .. n |-> Filtered1(q, K, F, i)]

\* What the recursion in Keep says of its i-th value.
KeepsUpTo(q, K, r, i) ==
  /\ \A x : x \in ToSet(r) <=> x \in K /\ \E j \in 1 .. i : q[j] = x
  /\ IsInjective(q) => IsInjective(r)

\* A set of numbers that is not empty has a least one.
LEMMA Least ==
  ASSUME NEW S, S \subseteq Nat, S # {}
  PROVE  \E n \in S : \A m \in S : n <= m
<1>1. \E n \in S : \A m \in S : ~ (<<m, n>> \in OpToRel(<, Nat))
  BY WFMin, NatLessThanWellFounded
<1>2. PICK n \in S : \A m \in S : ~ (<<m, n>> \in OpToRel(<, Nat))
  BY <1>1
<1>3. \A m \in S : ~ (m < n)
  BY <1>2, Zenon DEF OpToRel
<1> QED
  BY <1>3

\* The recursion in Keep has a solution, which extends one value at a time.
LEMMA FilteredExists ==
  ASSUME NEW q, NEW K, NEW n \in Nat
  PROVE  \E F : FilterOf(q, K, F, n)
<1> DEFINE Bad == {m \in Nat : ~ \E F : FilterOf(q, K, F, m)}
<1>1. SUFFICES ASSUME Bad # {} PROVE FALSE
  BY <1>1
<1>2. PICK m \in Bad : \A k \in Bad : m <= k
  <2>1. Bad \subseteq Nat
    OBVIOUS
  <2> HIDE DEF Bad
  <2> QED
    BY <1>1, <2>1, Least
<1>3. CASE m = 0
  <2> DEFINE G == [i \in 0 .. 0 |-> <<>>]
  <2>1. FilterOf(q, K, G, 0)
    BY DEF FilterOf, Filtered1
  <2> QED
    BY <2>1, <1>3, <1>2
<1>4. CASE m # 0
  <2>1. m \in Nat /\ m - 1 \in Nat /\ m - 1 < m
    BY <1>2, <1>4
  <2>2. m - 1 \notin Bad
    <3>1. \A k \in Bad : m <= k
      BY <1>2
    <3> HIDE DEF Bad
    <3> QED
      BY <3>1, <2>1
  <2>3. PICK F : FilterOf(q, K, F, m - 1)
    BY <2>1, <2>2
  <2> DEFINE G == [i \in 0 .. m |-> IF i = m THEN Filtered1(q, K, F, m) ELSE F[i]]
  <2>4. \A i \in 0 .. (m - 1) : F[i] = Filtered1(q, K, F, i) /\ G[i] = F[i]
    BY <2>1, <2>3 DEF FilterOf
  <2>5. \A i \in 0 .. m : Filtered1(q, K, G, i) = Filtered1(q, K, F, i)
    <3>1. TAKE i \in 0 .. m
    <3>2. i = 0 \/ G[i - 1] = F[i - 1]
      BY <2>1
    <3> HIDE DEF G
    <3> QED
      BY <3>2 DEF Filtered1
  <2>6. \A i \in 0 .. m : G[i] = Filtered1(q, K, G, i)
    <3>1. TAKE i \in 0 .. m
    <3>2. G[i] = Filtered1(q, K, F, i)
      <4>1. CASE i = m
        BY <4>1
      <4>2. CASE i # m
        <5>1. i \in 0 .. (m - 1)
          BY <2>1, <4>2
        <5> HIDE DEF G
        <5> QED
          BY <5>1, <2>4
      <4> QED
        BY <4>1, <4>2
    <3> HIDE DEF G
    <3> QED
      BY <3>2, <2>5
  <2>7. G = [i \in 0 .. m |-> G[i]]
    OBVIOUS
  <2> HIDE DEF G
  <2>8. FilterOf(q, K, G, m)
    BY <2>6, <2>7 DEF FilterOf
  <2> QED
    BY <2>8, <1>2
<1> QED
  BY <1>3, <1>4

\* Keep unrolls.
LEMMA KeepUnrolls ==
  ASSUME NEW T, NEW q \in Seq(T), NEW K
  PROVE  \E F : /\ \A i \in 0 .. Len(q) : F[i] = Filtered1(q, K, F, i)
                /\ Keep(q, K) = F[Len(q)]
<1> DEFINE F == CHOOSE F : FilterOf(q, K, F, Len(q))
<1>1. Len(q) \in Nat
  OBVIOUS
<1>2. \E G : FilterOf(q, K, G, Len(q))
  BY <1>1, FilteredExists
<1>3. FilterOf(q, K, F, Len(q))
  BY <1>2, Zenon
<1>4. Keep(q, K) = F[Len(q)]
  BY DEF Keep, FilterOf, Filtered1
<1> HIDE DEF F
<1>5. \A i \in 0 .. Len(q) : F[i] = Filtered1(q, K, F, i)
  BY <1>3 DEF FilterOf
<1> QED
  BY <1>4, <1>5

\* Keep returns a sequence of exactly the kept elements, none of them more often
\* than before.
LEMMA KeepFacts ==
  ASSUME NEW T, NEW q \in Seq(T), NEW K
  PROVE  /\ Keep(q, K) \in Seq(T)
         /\ \A x : x \in ToSet(Keep(q, K)) <=> x \in ToSet(q) /\ x \in K
         /\ IsInjective(q) => IsInjective(Keep(q, K))
<1>1. PICK F : /\ \A i \in 0 .. Len(q) : F[i] = Filtered1(q, K, F, i)
               /\ Keep(q, K) = F[Len(q)]
  BY KeepUnrolls
<1> DEFINE Right(i) == F[i] \in Seq(T) /\ KeepsUpTo(q, K, F[i], i)
           Bad == {i \in 0 .. Len(q) : ~ Right(i)}
<1>2. Bad = {}
  <2>1. SUFFICES ASSUME Bad # {} PROVE FALSE
    BY <2>1
  <2>2. PICK m \in Bad : \A k \in Bad : m <= k
    <3>1. Bad \subseteq Nat
      OBVIOUS
    <3> HIDE DEF Bad
    <3> QED
      BY <2>1, <3>1, Least
  <2>3. m # 0
    <3>1. ASSUME m = 0 PROVE FALSE
      <4>1. F[0] = <<>>
        BY <1>1 DEF Filtered1
      <4>2. Right(0)
        BY <4>1 DEF KeepsUpTo, ToSet, IsInjective
      <4> QED
        BY <4>2, <3>1
    <3> QED
      BY <3>1
  <2>4. m - 1 \in 0 .. Len(q) /\ m \in 1 .. Len(q) /\ Right(m - 1)
    BY <2>2, <2>3
  <2> DEFINE r == F[m - 1]
  <2>5. q[m] \in T /\ r \in Seq(T)
    BY <2>4
  <2>6. F[m] = IF q[m] \in K THEN Append(r, q[m]) ELSE r
    BY <1>1, <2>3, <2>4 DEF Filtered1
  <2>7. CASE q[m] \notin K
    BY <2>4, <2>5, <2>6, <2>7 DEF KeepsUpTo
  <2>8. CASE q[m] \in K
    <3>1. F[m] = Append(r, q[m])
      BY <2>6, <2>8
    <3>2. \A x : x \in ToSet(F[m]) <=> x \in ToSet(r) \/ x = q[m]
      BY <2>5, <3>1, AppendSet
    <3>3. \A x : x \in ToSet(r) <=> x \in K /\ \E j \in 1 .. (m - 1) : q[j] = x
      BY <2>4 DEF KeepsUpTo
    <3>4. \A x : x \in ToSet(F[m]) <=> x \in K /\ \E j \in 1 .. m : q[j] = x
      BY <3>2, <3>3, <2>4, <2>8
    <3>5. ASSUME IsInjective(q) PROVE IsInjective(F[m])
      <4>1. IsInjective(r)
        BY <2>4, <3>5 DEF KeepsUpTo
      <4>2. q[m] \notin ToSet(r)
        BY <3>3, <3>5, <2>4 DEF IsInjective
      <4> QED
        BY <4>1, <4>2, <3>1, <2>5 DEF IsInjective, ToSet
    <3>6. F[m] \in Seq(T)
      BY <3>1, <2>5
    <3>7. Right(m)
      BY <3>4, <3>5, <3>6 DEF KeepsUpTo
    <3> QED
      BY <3>7, <2>2
  <2> QED
    BY <2>7, <2>8
<1>3. Right(Len(q))
  BY <1>2
<1>4. \A x : x \in ToSet(q) <=> \E j \in 1 .. Len(q) : q[j] = x
  BY DEF ToSet
<1> QED
  BY <1>1, <1>3, <1>4 DEF KeepsUpTo

\* The first element and the others.
LEMMA TailSet ==
  ASSUME NEW T, NEW q \in Seq(T), q # <<>>
  PROVE  /\ Head(q) \in T /\ Tail(q) \in Seq(T) /\ Head(q) \in ToSet(q)
         /\ \A x : x \in ToSet(q) <=> x = Head(q) \/ x \in ToSet(Tail(q))
         /\ IsInjective(q) => IsInjective(Tail(q)) /\ Head(q) \notin ToSet(Tail(q))
<1>1. /\ Len(q) \in Nat \ {0} /\ DOMAIN q = 1 .. Len(q) /\ Head(q) = q[1] /\ Head(q) \in T
      /\ Tail(q) \in Seq(T) /\ DOMAIN Tail(q) = 1 .. (Len(q) - 1)
      /\ \A i \in 1 .. (Len(q) - 1) : Tail(q)[i] = q[i + 1]
  OBVIOUS
<1> DEFINE r == Tail(q)
<1> HIDE DEF r
<1>2. \A x : x \in ToSet(q) <=> \E i \in 1 .. Len(q) : q[i] = x
  BY <1>1 DEF ToSet
<1>3. \A x : x \in ToSet(r) <=> \E i \in 1 .. (Len(q) - 1) : q[i + 1] = x
  BY <1>1 DEF ToSet, r
<1>4. \A x : x \in ToSet(q) <=> x = Head(q) \/ x \in ToSet(r)
  <2>1. TAKE x
  <2>2. ASSUME NEW i \in 1 .. Len(q), q[i] = x, i # 1 PROVE x \in ToSet(r)
    <3>1. i - 1 \in 1 .. (Len(q) - 1) /\ (i - 1) + 1 = i
      BY <1>1, <2>2
    <3> QED
      BY <3>1, <1>3, <2>2
  <2>3. ASSUME NEW i \in 1 .. (Len(q) - 1), q[i + 1] = x PROVE x \in ToSet(q)
    <3>1. i + 1 \in 1 .. Len(q)
      BY <1>1
    <3> QED
      BY <3>1, <1>2, <2>3
  <2> QED
    BY <2>2, <2>3, <1>1, <1>2, <1>3
<1>5. ASSUME IsInjective(q) PROVE IsInjective(r) /\ Head(q) \notin ToSet(r)
  <2>1. \A i, j \in 1 .. Len(q) : q[i] = q[j] => i = j
    BY <1>1, <1>5 DEF IsInjective
  <2>2. \A i \in 1 .. (Len(q) - 1) : r[i] = q[i + 1] /\ i + 1 \in 1 .. Len(q) /\ i + 1 # 1
    BY <1>1 DEF r
  <2>3. DOMAIN r = 1 .. (Len(q) - 1)
    BY <1>1 DEF r
  <2>4. \A i, j \in 1 .. (Len(q) - 1) : r[i] = r[j] => i = j
    BY <2>1, <2>2
  <2> QED
    BY <2>1, <2>2, <2>3, <2>4, <1>1, <1>3 DEF IsInjective
<1> QED
  BY <1>1, <1>2, <1>4, <1>5 DEF r

\* Concatenation.
LEMMA ConcatSet ==
  ASSUME NEW T, NEW q \in Seq(T), NEW r \in Seq(T)
  PROVE  q \o r \in Seq(T) /\ \A x : x \in ToSet(q \o r) <=> x \in ToSet(q) \/ x \in ToSet(r)
<1>1. /\ DOMAIN q = 1 .. Len(q) /\ DOMAIN r = 1 .. Len(r) /\ Len(q) \in Nat /\ Len(r) \in Nat
      /\ q \o r \in Seq(T) /\ DOMAIN (q \o r) = 1 .. (Len(q) + Len(r))
      /\ \A i \in 1 .. (Len(q) + Len(r)) : (q \o r)[i] = IF i <= Len(q) THEN q[i] ELSE r[i - Len(q)]
  OBVIOUS
<1> DEFINE s == q \o r
<1> HIDE DEF s
<1>2. ASSUME NEW i \in 1 .. (Len(q) + Len(r)) PROVE s[i] \in ToSet(q) \/ s[i] \in ToSet(r)
  <2>1. CASE i <= Len(q)
    <3>1. i \in DOMAIN q /\ s[i] = q[i]
      BY <1>1, <2>1 DEF s
    <3> QED
      BY <3>1 DEF ToSet
  <2>2. CASE ~(i <= Len(q))
    <3> DEFINE k == i - Len(q)
    <3>1. k \in DOMAIN r /\ s[i] = r[k]
      BY <1>1, <2>2 DEF s
    <3> HIDE DEF k
    <3> QED
      BY <3>1 DEF ToSet
  <2> QED
    BY <2>1, <2>2
<1>3. ASSUME NEW i \in 1 .. Len(q) PROVE q[i] \in ToSet(s)
  <2>1. i \in DOMAIN s /\ s[i] = q[i]
    BY <1>1 DEF s
  <2> QED
    BY <2>1 DEF ToSet
<1>4. ASSUME NEW i \in 1 .. Len(r) PROVE r[i] \in ToSet(s)
  <2>1. i + Len(q) \in DOMAIN s /\ s[i + Len(q)] = r[i]
    BY <1>1 DEF s
  <2> QED
    BY <2>1 DEF ToSet
<1> QED
  BY <1>1, <1>2, <1>3, <1>4 DEF ToSet, s

\* The elements of a sequence are finitely many members of its set.
LEMMA ElementsFinite ==
  ASSUME NEW T, NEW q \in Seq(T)
  PROVE  IsFiniteSet(ToSet(q)) /\ ToSet(q) \subseteq T
<1>1. DOMAIN q = 1 .. Len(q) /\ Len(q) \in Nat /\ q \in [1 .. Len(q) -> T]
  OBVIOUS
<1>2. IsFiniteSet(1 .. Len(q))
  BY <1>1, FS_Interval
<1>3. q \in Surjection(1 .. Len(q), ToSet(q))
  BY <1>1 DEF Surjection, ToSet
<1> QED
  BY <1>1, <1>2, <1>3, FS_Surjection DEF ToSet

\* The part of a sequence from one place to another.
LEMMA PartSet ==
  ASSUME NEW T, NEW q \in Seq(T), NEW m \in Int, NEW n \in Int,
         1 <= m, m <= Len(q) + 1, 0 <= n, n <= Len(q)
  PROVE  /\ SubSeq(q, m, n) \in Seq(T)
         /\ n >= m - 1 => Len(SubSeq(q, m, n)) = n - m + 1
         /\ \A x : x \in ToSet(SubSeq(q, m, n)) <=> \E i \in m .. n : q[i] = x
<1>1. Len(q) \in Nat /\ q \in [1 .. Len(q) -> T]
  OBVIOUS
<1> DEFINE r == SubSeq(q, m, n)
           l == IF m <= n THEN 1 + n - m ELSE 0
<1>2. r = [i \in 1 .. l |-> q[m + i - 1]]
  BY <1>1
<1>3. l \in Nat
  BY <1>1
<1> HIDE DEF r, l
<1>4. \A i \in 1 .. l : m + i - 1 \in m .. n /\ m + i - 1 \in 1 .. Len(q)
  BY <1>1, <1>3 DEF l
<1>5. r \in [1 .. l -> T]
  BY <1>1, <1>2, <1>4
<1>6. r \in Seq(T) /\ Len(r) = l
  BY <1>3, <1>5
<1>7. \A i \in m .. n : (i - m) + 1 \in 1 .. l /\ m + ((i - m) + 1) - 1 = i
  BY <1>1, <1>3 DEF l
<1>8. DOMAIN r = 1 .. l /\ \A i \in 1 .. l : r[i] = q[m + i - 1]
  BY <1>2
<1>9. \A x : x \in ToSet(r) <=> \E i \in m .. n : q[i] = x
  <2>1. \A x : x \in ToSet(r) <=> \E i \in 1 .. l : q[m + i - 1] = x
    BY <1>8 DEF ToSet
  <2> QED
    BY <2>1, <1>4, <1>7
<1> QED
  BY <1>1, <1>6, <1>9 DEF r, l

\* Min and Max of two numbers, and Max with 0.
LEMMA Bounds ==
  ASSUME NEW a \in Int, NEW b \in Int
  PROVE  /\ Min({a, b}) \in {a, b} /\ Min({a, b}) <= a /\ Min({a, b}) <= b
         /\ Max({a, b}) \in {a, b} /\ Max({a, b}) >= a /\ Max({a, b}) >= b
<1>1. \E x \in {a, b} : \A y \in {a, b} : x <= y
  OBVIOUS
<1>2. \E x \in {a, b} : \A y \in {a, b} : x >= y
  OBVIOUS
<1> QED
  BY <1>1, <1>2 DEF Min, Max

-----------------------------------------------------------------------------
\* The inductive invariant

\* The values of a status, the places inside d.lock, those with a task to handle,
\* and the calls.
Statuses == {"new", "ready", "running", "pause", "wait", "error", "done"}
LockPCs  == {"creating", "scheduling", "settling", "placing", "all_placing", "notified"}
TodoPCs  == {"creating", "dequeuing", "pausing", "starting", "notified", "settling"}
Calls == [pc : CallPC, todo : Seq(Tasks), rest : Seq(Tasks), n : Int, room : Nat,
          hook : Tasks \cup {None}]

\* The variables have their types.
Typed ==
  /\ status \in [Tasks -> Statuses] /\ claim \in [Tasks -> Callers \cup {None}]
  /\ tasks \in Seq(Tasks) /\ waitTasks \in Seq(Tasks) /\ maxRunning \in Limits
  /\ dlock \in Goroutines \cup {None} /\ call \in [Goroutines -> Calls]
  /\ notes \in Nat /\ calls \in 0 .. MaxCalls
  /\ breached \in BOOLEAN /\ lost \in SUBSET Tasks

\* A call that handles a task has one, and a walk over d.tasks is inside its
\* array; d.lock is held exactly in the longer sections.
CallOK(c) ==
  /\ call[c].pc \in TodoPCs => call[c].todo # <<>>
  /\ call[c].pc = "sweeping" => call[c].n \in 1 .. Len(call[c].todo)
  /\ dlock = c <=> call[c].pc \in LockPCs
  /\ c = Notifier => call[c].pc \in {"idle", "notified"} /\ call[c].hook = None
  /\ call[c].pc = "notified" => \A t \in ToSet(call[c].todo) : t = Next1(c)

\* A task is in the list once, or in the hands of one deletion, or new.
ListOnce ==
  /\ IsInjective(tasks)
  /\ \A c \in Goroutines : At(c, "deleting") =>
       /\ IsInjective(call[c].todo)
       /\ \A t \in ToSet(call[c].todo) :
            /\ t \notin ToSet(tasks) /\ status[t] # "new"
            /\ \A d \in Goroutines \ {c} : At(d, "deleting") => t \notin ToSet(call[d].todo)
  /\ \A t \in ToSet(tasks) : status[t] # "new"

\* A slot that doCreate or notifyRunning has counted stays free until its start.
RoomKept ==
  breached \/ \A c \in Goroutines :
    call[c].pc \in {"creating", "notified"} => Cardinality(Running) < maxRunning

\* The calls that have taken a waiting task off the queue and still have to look
\* at it.
Holds(c, t) ==
  \/ call[c].pc \in {"pausing", "notified"} /\ t \in ToSet(call[c].todo)
  \/ call[c].pc = "sweeping" /\ \E i \in call[c].n .. Len(call[c].todo) : call[c].todo[i] = t

\* What waits is on the queue or held. This is more than WaitIsQueued says: a call
\* that only names the task among those it chose does not count.
WaitHeld ==
  \A t \in ToSet(tasks) \ lost : status[t] = "wait" =>
    t \in ToSet(waitTasks) \/ \E c \in Goroutines : Holds(c, t)

\* The invariant.
SchedInv ==
  /\ Typed /\ \A c \in Goroutines : CallOK(c)
  /\ ListOnce /\ LimitKept /\ RoomKept /\ VictimsWait /\ WaitHeld

-----------------------------------------------------------------------------
\* What the helpers change

\* A step of c moves no other call.
OnlyCall(c) == call' \in [Goroutines -> Calls] /\ \A d \in Goroutines \ {c} : call'[d] = call[d]

\* The names of the goroutines differ.
LEMMA Names ==
  /\ Callers \subseteq Goroutines /\ Notifier \in Goroutines
  /\ Hooks \subseteq Callers /\ None \notin Goroutines /\ None \notin Tasks
  /\ \A c \in Callers : c # Notifier
BY CallAssumption DEF Goroutines

\* Become changes the call of c.
LEMMA BecomeFacts ==
  ASSUME Typed, NEW c \in Goroutines, NEW p \in CallPC, NEW todo \in Seq(Tasks),
         NEW rest \in Seq(Tasks), NEW n \in Int, Become(c, p, todo, rest, n)
  PROVE  /\ OnlyCall(c)
         /\ call'[c].pc = p /\ call'[c].todo = todo /\ call'[c].rest = rest /\ call'[c].n = n
         /\ call'[c].hook = call[c].hook
<1>1. call \in [Goroutines -> Calls] /\ call[c] \in Calls
  BY DEF Typed
<1> DEFINE r == [call[c] EXCEPT !.pc = p, !.todo = todo, !.rest = rest, !.n = n]
<1>2. r \in Calls
  BY <1>1 DEF Calls
<1>3. call' = [call EXCEPT ![c] = r]
  BY DEF Become
<1>4. r.pc = p /\ r.todo = todo /\ r.rest = rest /\ r.n = n /\ r.hook = call[c].hook
  BY <1>1 DEF Calls
<1> HIDE DEF r
<1> QED
  BY <1>1, <1>2, <1>3, <1>4 DEF OnlyCall

\* The same, for the calls that have only a todo and a place in it ...
LEMMA WalkFacts ==
  ASSUME Typed, NEW c \in Goroutines, NEW p \in CallPC, NEW todo \in Seq(Tasks),
         NEW n \in Int, Become(c, p, todo, <<>>, n)
  PROVE  /\ OnlyCall(c) /\ call'[c].pc = p /\ call'[c].todo = todo /\ call'[c].n = n
         /\ call'[c].hook = call[c].hook
<1> DEFINE e == <<>>
<1>1. e \in Seq(Tasks) /\ Become(c, p, todo, e, n)
  OBVIOUS
<1> HIDE DEF e
<1> QED
  BY <1>1, BecomeFacts

\* ... and for those that have only a todo.
LEMMA MoveFacts ==
  ASSUME Typed, NEW c \in Goroutines, NEW p \in CallPC, NEW todo \in Seq(Tasks),
         Become(c, p, todo, <<>>, 0)
  PROVE  /\ OnlyCall(c) /\ call'[c].pc = p /\ call'[c].todo = todo
         /\ call'[c].hook = call[c].hook
<1> DEFINE z == 0
<1>1. z \in Int /\ Become(c, p, todo, <<>>, z)
  OBVIOUS
<1> HIDE DEF z
<1> QED
  BY <1>1, WalkFacts

\* A new call of c.
LEMMA CallFacts ==
  ASSUME NEW p \in CallPC, NEW todo \in Seq(Tasks), NEW rest \in Seq(Tasks),
         NEW n \in Int, NEW h \in Tasks \cup {None}
  PROVE  /\ Call(p, todo, rest, n, h) \in Calls
         /\ Call(p, todo, rest, n, h).pc = p /\ Call(p, todo, rest, n, h).todo = todo
         /\ Call(p, todo, rest, n, h).n = n /\ Call(p, todo, rest, n, h).rest = rest
         /\ Call(p, todo, rest, n, h).hook = h
BY DEF Call, Calls

\* Idle is a call.
LEMMA IdleFacts ==
  Idle \in Calls /\ Idle.pc = "idle" /\ Idle.todo = <<>> /\ Idle.hook = None
<1>1. "idle" \in CallPC /\ <<>> \in Seq(Tasks) /\ 0 \in Int /\ None \in Tasks \cup {None}
  BY DEF CallPC
<1> QED
  BY <1>1 DEF Idle, Call, Calls

\* Return ends the call of c.
LEMMA ReturnFacts ==
  ASSUME Typed, NEW c \in Goroutines, Return(c)
  PROVE  /\ OnlyCall(c)
         /\ call'[c].pc \in {"idle", "hook_end"} /\ call'[c].todo = <<>>
         /\ call'[c].hook = call[c].hook
         /\ call[c].hook = None => call'[c].pc = "idle"
<1>1. call \in [Goroutines -> Calls] /\ call[c].hook \in Tasks \cup {None}
  BY DEF Typed, Calls
<1>2. "hook_end" \in CallPC /\ <<>> \in Seq(Tasks) /\ 0 \in Int
  BY DEF CallPC
<1> DEFINE r == IF call[c].hook = None THEN Idle ELSE Call("hook_end", <<>>, <<>>, 0, call[c].hook)
<1>3. /\ r \in Calls /\ r.pc \in {"idle", "hook_end"} /\ r.todo = <<>> /\ r.hook = call[c].hook
      /\ call[c].hook = None => r.pc = "idle"
  <2>1. CASE call[c].hook = None
    BY <2>1, IdleFacts
  <2>2. CASE call[c].hook # None
    BY <2>2, <1>1, <1>2 DEF Call, Calls
  <2> QED
    BY <2>1, <2>2
<1>4. call' = [call EXCEPT ![c] = r]
  BY DEF Return
<1> HIDE DEF r
<1> QED
  BY <1>1, <1>3, <1>4 DEF OnlyCall

\* GoOn takes the next task of the call, or ends it.
LEMMA GoOnFacts ==
  ASSUME Typed, NEW c \in Goroutines, NEW todo \in Seq(Tasks), GoOn(c, todo)
  PROVE  /\ OnlyCall(c) /\ call'[c].hook = call[c].hook /\ call'[c].todo = todo
         /\ \/ call'[c].pc \in {"idle", "hook_end"} /\ todo = <<>>
            \/ call'[c].pc = call[c].pc /\ todo # <<>>
         /\ call[c].hook = None => call'[c].pc \in {"idle", call[c].pc}
<1>1. CASE todo = <<>>
  <2>1. Return(c)
    BY <1>1 DEF GoOn
  <2> QED
    BY <2>1, <1>1, ReturnFacts
<1>2. CASE todo # <<>>
  <2>1. Become(c, call[c].pc, todo, <<>>, 0)
    BY <1>2 DEF GoOn
  <2>2. call[c].pc \in CallPC /\ <<>> \in Seq(Tasks)
    BY DEF Typed, Calls
  <2>3. /\ OnlyCall(c) /\ call'[c].pc = call[c].pc /\ call'[c].todo = todo
        /\ call'[c].hook = call[c].hook
    BY <2>1, <2>2, MoveFacts
  <2> QED
    BY <2>3, <1>2
<1> QED
  BY <1>1, <1>2

\* A change of the status of t.
StatusOnly(t) ==
  /\ status' \in [Tasks -> Statuses] /\ claim' \in [Tasks -> Callers \cup {None}]
  /\ \A u \in Tasks \ {t} : status'[u] = status[u] /\ claim'[u] = claim[u]

\* SetStatus changes status and claim of t.
LEMMA SetFacts ==
  ASSUME Typed, NEW t \in Tasks, NEW s \in Statuses, NEW by \in Callers \cup {None},
         SetStatus(t, s, by)
  PROVE  StatusOnly(t) /\ status'[t] = s /\ claim'[t] = by
BY DEF Typed, SetStatus, StatusOnly

\* doStart: running, and nobody's victim, unless it was running or done.
LEMMA StartFacts ==
  ASSUME Typed, NEW t \in Tasks, DoStart(t)
  PROVE  /\ StatusOnly(t) /\ status'[t] \in {"running", "done"}
         /\ \/ status'[t] = status[t] /\ claim'[t] = claim[t]
            \/ status'[t] = "running" /\ claim'[t] = None
BY DEF Typed, DoStart, SetStatus, StatusOnly, Statuses

\* preparePause: neither running nor waiting afterwards.
LEMMA PauseFacts ==
  ASSUME Typed, NEW t \in Tasks, NEW by \in Callers \cup {None}, PreparePause(t, by)
  PROVE  /\ StatusOnly(t) /\ status'[t] \in {"pause", "done", "error"}
         /\ \/ status'[t] = status[t] /\ claim'[t] = claim[t]
            \/ status'[t] = "pause" /\ claim'[t] = by
BY DEF Typed, PreparePause, SetStatus, StatusOnly, Statuses

\* The parts of Typed that a filter needs.
LEMMA FilterFacts ==
  ASSUME Typed, NEW S, NEW Not
  PROVE  /\ Filter(S, Not) \in Seq(Tasks)
         /\ \A t : t \in ToSet(Filter(S, Not)) <=> t \in ToSet(tasks) /\ t \in S /\ status[t] \notin Not
         /\ IsInjective(tasks) => IsInjective(Filter(S, Not))
BY KeepFacts DEF Typed, Filter

\* A sequence without some tasks.
LEMMA WithoutFacts ==
  ASSUME NEW q \in Seq(Tasks), NEW S
  PROVE  /\ Without(q, S) \in Seq(Tasks)
         /\ \A t : t \in ToSet(Without(q, S)) <=> t \in ToSet(q) /\ t \notin S
         /\ IsInjective(q) => IsInjective(Without(q, S))
<1>1. ToSet(q) \subseteq Tasks
  BY ElementsFinite
<1> QED
  BY <1>1, KeepFacts DEF Without

-----------------------------------------------------------------------------
\* What most steps leave alone

\* d.lock changes hands only from or to c.
LockOf(c) ==
  \/ dlock' = dlock
  \/ dlock = None /\ dlock' = c
  \/ dlock = c /\ dlock' = None

\* A step of c keeps the shape of the others' calls.
LEMMA CallsKept ==
  ASSUME SchedInv, NEW c \in Goroutines, OnlyCall(c), LockOf(c), CallOK(c)'
  PROVE  \A d \in Goroutines : CallOK(d)'
<1>1. TAKE d \in Goroutines
<1>2. CASE d = c
  BY <1>2
<1>3. CASE d # c
  <2>1. call'[d] = call[d] /\ (dlock' = d <=> dlock = d)
    BY <1>3, Names DEF OnlyCall, LockOf
  <2>2. CallOK(d)
    BY DEF SchedInv
  <2> QED
    BY <2>1, <2>2 DEF CallOK, Next1
<1> QED
  BY <1>2, <1>3

\* The running tasks are finitely many, and if none is added, none too many.
LEMMA RunningFinite ==
  ASSUME Typed
  PROVE  IsFiniteSet(Running) /\ Cardinality(Running) \in Nat /\ maxRunning \in Nat
<1>1. IsFiniteSet(ToSet(tasks)) /\ Running \subseteq ToSet(tasks) /\ maxRunning \in Limits
  BY ElementsFinite DEF Typed, Running
<1> QED
  BY <1>1, FS_Subset, FS_CardinalityType, CallAssumption

\* The list holds tasks.
LEMMA ListTasks ==
  ASSUME Typed
  PROVE  ToSet(tasks) \subseteq Tasks /\ ToSet(waitTasks) \subseteq Tasks
BY ElementsFinite DEF Typed

\* No task starts to run, and none that runs comes to the list.
NoneStarts ==
  \A t \in ToSet(tasks') : status'[t] = "running" => t \in ToSet(tasks) /\ status[t] = "running"

\* Where none starts, the limit and the counted slots are kept.
LEMMA LimitStep ==
  ASSUME SchedInv, NoneStarts, maxRunning' = maxRunning, breached => breached',
         \A d \in Goroutines : call'[d].pc \in {"creating", "notified"} => call'[d].pc = call[d].pc
  PROVE  LimitKept' /\ RoomKept'
<1>1. Running' \subseteq Running
  BY DEF NoneStarts, Running
<1>2. IsFiniteSet(Running) /\ Cardinality(Running) \in Nat /\ maxRunning \in Nat
  BY RunningFinite DEF SchedInv
<1>3. IsFiniteSet(Running') /\ Cardinality(Running') <= Cardinality(Running)
  BY <1>1, <1>2, FS_Subset
<1>4. Cardinality(Running') \in Nat
  BY <1>3, FS_CardinalityType
<1> DEFINE k == Cardinality(Running)
           l == Cardinality(Running')
<1>5. breached \/ k <= maxRunning
  BY DEF SchedInv, LimitKept
<1>6. breached \/ \A d \in Goroutines : call[d].pc \in {"creating", "notified"} => k < maxRunning
  BY DEF SchedInv, RoomKept
<1>7. k \in Nat /\ l \in Nat /\ l <= k
  BY <1>2, <1>3, <1>4
<1> HIDE DEF k, l
<1>8. breached' \/ l <= maxRunning
  BY <1>2, <1>5, <1>7
<1>9. breached' \/ \A d \in Goroutines : call'[d].pc \in {"creating", "notified"} => l < maxRunning
  BY <1>2, <1>6, <1>7
<1> QED
  BY <1>8, <1>9 DEF LimitKept, RoomKept, l

\* No paused task becomes the victim of a call, and no call that settles moves.
LEMMA VictimStep ==
  ASSUME SchedInv,
         \A d \in Callers : At(d, "settling") => call'[d] = call[d],
         \A t \in Tasks : \/ claim'[t] = None \/ status'[t] # "pause"
                          \/ status'[t] = status[t] /\ claim'[t] = claim[t]
  PROVE  VictimsWait'
<1>1. SUFFICES ASSUME NEW t \in Tasks, claim'[t] # None, status'[t] = "pause"
               PROVE  At(claim[t], "settling")' /\ Next1(claim[t])' = t
  BY DEF VictimsWait
<1>2. status[t] = "pause" /\ claim'[t] = claim[t] /\ claim[t] # None
  BY <1>1
<1>3. claim[t] \in Callers /\ At(claim[t], "settling") /\ Next1(claim[t]) = t
  BY <1>2 DEF SchedInv, VictimsWait, Typed
<1>4. call'[claim[t]] = call[claim[t]]
  BY <1>3
<1> QED
  BY <1>2, <1>3, <1>4 DEF At, Next1

\* A list that only loses tasks, and no new deletion.
LEMMA OnceStep ==
  ASSUME SchedInv, tasks' = tasks,
         \A t \in Tasks : status'[t] = "new" => status[t] = "new",
         \A d \in Goroutines : call'[d].pc = "deleting" => call'[d] = call[d]
  PROVE  ListOnce'
<1>1. ListOnce /\ ToSet(tasks) \subseteq Tasks
  BY ElementsFinite DEF SchedInv, Typed
<1>2. \A d \in Goroutines : ToSet(call[d].todo) \subseteq Tasks
  BY ElementsFinite DEF SchedInv, Typed, Calls
<1>3. IsInjective(tasks') /\ \A t \in ToSet(tasks') : status'[t] # "new"
  BY <1>1 DEF ListOnce
<1>4. ASSUME NEW d \in Goroutines, At(d, "deleting")'
      PROVE  /\ IsInjective(call'[d].todo)
             /\ \A t \in ToSet(call'[d].todo) :
                  /\ t \notin ToSet(tasks') /\ status'[t] # "new"
                  /\ \A e \in Goroutines \ {d} : At(e, "deleting")' => t \notin ToSet(call'[e].todo)
  <2>1. call'[d] = call[d] /\ At(d, "deleting")
    BY <1>4 DEF At
  <2>2. ASSUME NEW e \in Goroutines, At(e, "deleting")' PROVE call'[e] = call[e] /\ At(e, "deleting")
    BY <2>2 DEF At
  <2> QED
    BY <1>1, <1>2, <2>1, <2>2 DEF ListOnce
<1> QED
  BY <1>3, <1>4 DEF ListOnce

\* A task that waits after a step of c is on the queue or in the hands of c, or
\* another call had it before.
StillHeld(c, t) ==
  \/ status'[t] # "wait" \/ t \in lost' \/ t \in ToSet(waitTasks') \/ Holds(c, t)'
  \/ status[t] = "wait" /\ t \notin lost /\ t \notin ToSet(waitTasks) /\ ~ Holds(c, t)

\* Then it is held after the step.
LEMMA WaitStep ==
  ASSUME SchedInv, tasks' = tasks, NEW c \in Goroutines, OnlyCall(c),
         \A t \in ToSet(tasks) : StillHeld(c, t)
  PROVE  WaitHeld'
<1>1. SUFFICES ASSUME NEW t \in ToSet(tasks), t \notin lost', status'[t] = "wait",
                      t \notin ToSet(waitTasks')
               PROVE  \E d \in Goroutines : Holds(d, t)'
  BY DEF WaitHeld
<1>2. \/ Holds(c, t)'
      \/ status[t] = "wait" /\ t \notin lost /\ t \notin ToSet(waitTasks) /\ ~ Holds(c, t)
  BY <1>1 DEF StillHeld
<1>3. CASE Holds(c, t)'
  BY <1>3
<1>4. CASE ~ Holds(c, t)'
  <2>1. PICK d \in Goroutines : Holds(d, t) /\ d # c
    BY <1>1, <1>2, <1>4 DEF SchedInv, WaitHeld
  <2>2. call'[d] = call[d]
    BY <2>1 DEF OnlyCall
  <2> QED
    BY <2>1, <2>2 DEF Holds
<1> QED
  BY <1>3, <1>4

\* A step of c that starts nothing, creates nothing and deletes nothing.
LEMMA QuietStep ==
  ASSUME SchedInv, NEW c \in Goroutines, OnlyCall(c), LockOf(c), Typed', CallOK(c)', VictimsWait',
         tasks' = tasks, maxRunning' = maxRunning, breached' = breached,
         call'[c].pc \notin {"deleting", "creating", "notified"},
         \A t \in Tasks : status'[t] = status[t] \/ status'[t] \notin {"new", "running"},
         \A t \in ToSet(tasks) : StillHeld(c, t)
  PROVE  SchedInv'
<1>1. \A d \in Goroutines : CallOK(d)'
  BY CallsKept
<1>2. ToSet(tasks) \subseteq Tasks
  BY ElementsFinite DEF SchedInv, Typed
<1>3. \A d \in Goroutines : call'[d] = call[d] \/ call'[d].pc \notin {"deleting", "creating", "notified"}
  BY DEF OnlyCall
<1>4. LimitKept' /\ RoomKept'
  <2>1. NoneStarts
    BY <1>2 DEF NoneStarts
  <2>2. \A d \in Goroutines : call'[d].pc \in {"creating", "notified"} => call'[d].pc = call[d].pc
    BY <1>3
  <2> QED
    BY <2>1, <2>2, LimitStep
<1>5. ListOnce'
  <2>1. \A t \in Tasks : status'[t] = "new" => status[t] = "new"
    OBVIOUS
  <2>2. \A d \in Goroutines : call'[d].pc = "deleting" => call'[d] = call[d]
    BY <1>3
  <2> QED
    BY <2>1, <2>2, OnceStep
<1>6. WaitHeld'
  BY WaitStep
<1> QED
  BY <1>1, <1>4, <1>5, <1>6 DEF SchedInv

\* A call that begins counts, up to the bound.
LEMMA BeginsFacts ==
  ASSUME Typed, NEW c \in Callers, Begins(c)
  PROVE  calls' \in 0 .. MaxCalls
BY CallAssumption DEF Begins, Typed

\* Where c is not settling and claims are left alone, victims keep waiting.
LEMMA CallVictim ==
  ASSUME SchedInv, NEW c \in Goroutines, OnlyCall(c), call[c].pc # "settling",
         \A t \in Tasks : \/ claim'[t] = None \/ status'[t] # "pause"
                          \/ status'[t] = status[t] /\ claim'[t] = claim[t]
  PROVE  VictimsWait'
<1>1. \A d \in Callers : At(d, "settling") => call'[d] = call[d]
  BY Names DEF OnlyCall, At
<1> QED
  BY <1>1, VictimStep

\* The call of an API goroutine outside of the longer sections of d.lock.
LEMMA OutsideOK ==
  ASSUME NEW c \in Callers, dlock' # c, call'[c].pc \notin LockPCs,
         call'[c].pc \in TodoPCs => call'[c].todo # <<>>,
         call'[c].pc = "sweeping" => call'[c].n \in 1 .. Len(call'[c].todo)
  PROVE  CallOK(c)'
BY Names DEF CallOK, LockPCs

\* ... and inside.
LEMMA InsideOK ==
  ASSUME NEW c \in Callers, dlock' = c, call'[c].pc \in LockPCs \ {"notified"},
         call'[c].pc \in TodoPCs => call'[c].todo # <<>>
  PROVE  CallOK(c)'
BY Names DEF CallOK, LockPCs

-----------------------------------------------------------------------------
\* Pause

\* PauseSelect chooses the tasks.
LEMMA PauseSelectStep ==
  ASSUME SchedInv, NEW c \in Callers, NEW S, PauseSelect(c, S)
  PROVE  SchedInv'
<1> DEFINE todo == Filter(S, {"pause", "error", "done"})
<1>1. /\ c \in Goroutines /\ Typed /\ CallOK(c) /\ "dequeuing" \in CallPC
      /\ call[c].pc \in {"idle", "hooked"} /\ todo \in Seq(Tasks) /\ todo # <<>>
  BY Names, FilterFacts DEF SchedInv, PauseSelect, Begins, At, CallPC
<1>2. Become(c, "dequeuing", todo, <<>>, 0)
  BY DEF PauseSelect
<1> HIDE DEF todo
<1>3. OnlyCall(c) /\ call'[c].pc = "dequeuing" /\ call'[c].todo = todo
  BY <1>1, <1>2, MoveFacts
<1>4. Typed'
  <2>1. calls' \in 0 .. MaxCalls
    BY <1>1, BeginsFacts DEF PauseSelect
  <2> QED
    BY <1>1, <1>3, <2>1 DEF Typed, OnlyCall, PauseSelect, lists, history
<1>5. CallOK(c)' /\ LockOf(c)
  <2>1. dlock' = dlock /\ dlock # c
    BY Names DEF PauseSelect
  <2> QED
    BY <1>1, <1>3, <2>1, OutsideOK DEF LockPCs, LockOf
<1>6. VictimsWait'
  BY <1>1, <1>3, CallVictim DEF PauseSelect
<1>7. \A t : ~ Holds(c, t)
  BY <1>1 DEF Holds
<1>8. \A t \in ToSet(tasks) : StillHeld(c, t)
  BY <1>7 DEF StillHeld, PauseSelect, lists, history
<1> QED
  BY <1>1, <1>3, <1>4, <1>5, <1>6, <1>8, QuietStep DEF PauseSelect, lists, history

\* PauseOne pauses the next task, which no one holds as waiting then.
LEMMA PauseOneStep ==
  ASSUME SchedInv, NEW c \in Callers, PauseOne(c)
  PROVE  SchedInv'
<1> DEFINE t == Next1(c)
           todo == Later(c)
<1>1. /\ c \in Goroutines /\ Typed /\ CallOK(c)
      /\ call[c].pc = "pausing" /\ None \in Callers \cup {None}
      /\ PreparePause(t, None) /\ GoOn(c, todo)
  BY Names DEF SchedInv, PauseOne, At
<1>2. /\ t \in Tasks /\ todo \in Seq(Tasks) /\ call[c].todo \in Seq(Tasks)
      /\ \A x : x \in ToSet(call[c].todo) <=> x = t \/ x \in ToSet(todo)
  <2>1. call[c].todo \in Seq(Tasks) /\ call[c].todo # <<>>
    BY <1>1 DEF Typed, Calls, CallOK, TodoPCs
  <2> QED
    BY <2>1, TailSet DEF Next1, Later
<1> HIDE DEF t, todo
<1>3. /\ OnlyCall(c) /\ call'[c].todo = todo
      /\ \/ call'[c].pc \in {"idle", "hook_end"} /\ todo = <<>>
         \/ call'[c].pc = "pausing" /\ todo # <<>>
  BY <1>1, <1>2, GoOnFacts
<1>4. /\ StatusOnly(t) /\ status'[t] \in {"pause", "done", "error"}
      /\ \/ status'[t] = status[t] /\ claim'[t] = claim[t]
         \/ status'[t] = "pause" /\ claim'[t] = None
  BY <1>1, <1>2, PauseFacts
<1>5. Typed'
  BY <1>1, <1>3, <1>4 DEF Typed, OnlyCall, StatusOnly, PauseOne, lists, history
<1>6. CallOK(c)' /\ LockOf(c)
  <2>1. dlock' = dlock /\ dlock # c
    BY <1>1 DEF PauseOne, CallOK, LockPCs
  <2> QED
    BY <1>1, <1>3, <2>1, OutsideOK DEF LockPCs, TodoPCs, LockOf
<1>7. VictimsWait'
  BY <1>1, <1>3, <1>4, CallVictim DEF StatusOnly
<1>8. \A u \in ToSet(tasks) : StillHeld(c, u)
  <2>1. SUFFICES ASSUME NEW u \in ToSet(tasks), status'[u] = "wait", Holds(c, u)
                 PROVE  Holds(c, u)'
    BY <1>1, <1>4, ListTasks DEF StillHeld, StatusOnly, PauseOne, lists, history
  <2>2. u # t
    BY <1>4, <2>1
  <2>3. u \in ToSet(todo)
    BY <1>1, <1>2, <2>1, <2>2 DEF Holds
  <2>4. todo # <<>>
    BY <2>3 DEF ToSet
  <2> QED
    BY <2>3, <2>4, <1>3 DEF Holds
<1>9. \A u \in Tasks : status'[u] = status[u] \/ status'[u] \notin {"new", "running"}
  BY <1>4 DEF StatusOnly
<1> QED
  BY <1>1, <1>3, <1>5, <1>6, <1>7, <1>8, <1>9, QuietStep DEF PauseOne, lists, history

\* PauseDequeue takes the tasks off the queue, and has them then.
LEMMA PauseDequeueStep ==
  ASSUME SchedInv, NEW c \in Callers, PauseDequeue(c)
  PROVE  SchedInv'
<1> DEFINE todo == call[c].todo
           queue == Without(waitTasks, ToSet(todo))
<1>1. /\ c \in Goroutines /\ Typed /\ call[c].pc = "dequeuing" /\ "pausing" \in CallPC
      /\ todo \in Seq(Tasks) /\ todo # <<>> /\ dlock = None /\ dlock' = None
  BY Names DEF SchedInv, PauseDequeue, At, CallPC, CallOK, TodoPCs, Typed, Calls
<1>2. /\ queue \in Seq(Tasks) /\ waitTasks' = queue
      /\ \A t : t \in ToSet(queue) <=> t \in ToSet(waitTasks) /\ t \notin ToSet(todo)
  BY <1>1, WithoutFacts DEF PauseDequeue, Typed
<1>3. Become(c, "pausing", todo, <<>>, 0)
  BY DEF PauseDequeue
<1> HIDE DEF todo, queue
<1>4. OnlyCall(c) /\ call'[c].pc = "pausing" /\ call'[c].todo = todo
  BY <1>1, <1>3, MoveFacts
<1>5. Typed'
  BY <1>1, <1>2, <1>4 DEF Typed, OnlyCall, PauseDequeue, history
<1>6. CallOK(c)' /\ LockOf(c)
  BY <1>1, <1>4, Names, OutsideOK DEF LockPCs, LockOf
<1>7. VictimsWait'
  BY <1>1, <1>4, CallVictim DEF PauseDequeue
<1>8. \A t \in ToSet(tasks) : StillHeld(c, t)
  <2>1. \A t : t \in ToSet(todo) => Holds(c, t)'
    BY <1>4 DEF Holds
  <2>2. \A t : ~ Holds(c, t)
    BY <1>1 DEF Holds
  <2> QED
    BY <1>2, <2>1, <2>2 DEF StillHeld, PauseDequeue, history
<1> QED
  BY <1>1, <1>4, <1>5, <1>6, <1>7, <1>8, QuietStep DEF PauseDequeue, history

\* PauseFails: the tasks left over are lost.
LEMMA PauseFailsStep ==
  ASSUME SchedInv, NEW c \in Callers, PauseFails(c)
  PROVE  SchedInv'
<1> DEFINE t == Next1(c)
           todo == Later(c)
<1>1. /\ c \in Goroutines /\ Typed /\ CallOK(c)
      /\ call[c].pc = "pausing" /\ None \in Callers \cup {None}
      /\ PreparePause(t, None) /\ Return(c)
  BY Names DEF SchedInv, PauseFails, At
<1>2. /\ t \in Tasks /\ todo \in Seq(Tasks) /\ ToSet(todo) \subseteq Tasks
      /\ \A x : x \in ToSet(call[c].todo) <=> x = t \/ x \in ToSet(todo)
  <2>1. call[c].todo \in Seq(Tasks) /\ call[c].todo # <<>>
    BY <1>1 DEF Typed, Calls, CallOK, TodoPCs
  <2> QED
    BY <2>1, TailSet, ElementsFinite DEF Next1, Later
<1>3. lost' = lost \cup ToSet(todo)
  BY DEF PauseFails
<1> HIDE DEF t, todo
<1>4. OnlyCall(c) /\ call'[c].pc \in {"idle", "hook_end"}
  BY <1>1, ReturnFacts
<1>5. /\ StatusOnly(t) /\ status'[t] \in {"pause", "done", "error"}
      /\ \/ status'[t] = status[t] /\ claim'[t] = claim[t]
         \/ status'[t] = "pause" /\ claim'[t] = None
  BY <1>1, <1>2, PauseFacts
<1>6. Typed'
  BY <1>1, <1>2, <1>3, <1>4, <1>5 DEF Typed, OnlyCall, StatusOnly, PauseFails, lists
<1>7. CallOK(c)' /\ LockOf(c)
  <2>1. dlock' = dlock /\ dlock # c
    BY <1>1 DEF PauseFails, CallOK, LockPCs
  <2> QED
    BY <1>4, <2>1, OutsideOK DEF LockPCs, TodoPCs, LockOf
<1>8. VictimsWait'
  BY <1>1, <1>4, <1>5, CallVictim DEF StatusOnly
<1>9. \A u \in ToSet(tasks) : StillHeld(c, u)
  <2>1. \A u : Holds(c, u) => u = t \/ u \in lost'
    BY <1>1, <1>2, <1>3 DEF Holds
  <2> QED
    BY <1>1, <1>5, <2>1, <1>3, ListTasks DEF StillHeld, StatusOnly, PauseFails, lists
<1>10. \A u \in Tasks : status'[u] = status[u] \/ status'[u] \notin {"new", "running"}
  BY <1>5 DEF StatusOnly
<1> QED
  BY <1>1, <1>4, <1>6, <1>7, <1>8, <1>9, <1>10, QuietStep DEF PauseFails, lists

\* PauseAllClear empties the queue and has all tasks of the list before it.
LEMMA PauseAllClearStep ==
  ASSUME SchedInv, NEW c \in Callers, PauseAllClear(c)
  PROVE  SchedInv'
<1>1. /\ c \in Goroutines /\ Typed /\ "sweeping" \in CallPC /\ 1 \in Int
      /\ call[c].pc = "idle" /\ tasks \in Seq(Tasks) /\ tasks # <<>> /\ <<>> \in Seq(Tasks)
      /\ dlock = None /\ dlock' = None /\ waitTasks' = <<>>
      /\ Become(c, "sweeping", tasks, <<>>, 1) /\ Begins(c)
  BY Names DEF SchedInv, PauseAllClear, At, CallPC, Typed
<1>2. OnlyCall(c) /\ call'[c].pc = "sweeping" /\ call'[c].todo = tasks /\ call'[c].n = 1
  <2> DEFINE one == 1
  <2>1. one \in Int /\ Become(c, "sweeping", tasks, <<>>, one)
    BY <1>1
  <2> HIDE DEF one
  <2>2. OnlyCall(c) /\ call'[c].pc = "sweeping" /\ call'[c].todo = tasks /\ call'[c].n = one
    BY <1>1, <2>1, WalkFacts
  <2> QED
    BY <2>2 DEF one
<1>3. Len(tasks) \in Nat \ {0} /\ \A t \in ToSet(tasks) : \E i \in 1 .. Len(tasks) : tasks[i] = t
  BY <1>1 DEF ToSet
<1>4. Typed'
  <2>1. calls' \in 0 .. MaxCalls
    BY <1>1, BeginsFacts
  <2> QED
    BY <1>1, <1>2, <2>1 DEF Typed, OnlyCall, PauseAllClear, history
<1>5. CallOK(c)' /\ LockOf(c)
  BY <1>1, <1>2, <1>3, Names, OutsideOK DEF LockPCs, TodoPCs, LockOf
<1>6. VictimsWait'
  BY <1>1, <1>2, CallVictim DEF PauseAllClear
<1>7. \A t \in ToSet(tasks) : StillHeld(c, t)
  BY <1>2, <1>3 DEF StillHeld, Holds
<1> QED
  BY <1>1, <1>2, <1>4, <1>5, <1>6, <1>7, QuietStep DEF PauseAllClear, history

\* What a pause of the task at the walk's place does.
LEMMA SweepFacts ==
  ASSUME SchedInv, NEW c \in Callers, call[c].pc = "sweeping",
         PreparePause(call[c].todo[call[c].n], None)
  PROVE  /\ call[c].todo \in Seq(Tasks) /\ Len(call[c].todo) \in Nat
         /\ call[c].n \in 1 .. Len(call[c].todo)
         /\ StatusOnly(call[c].todo[call[c].n])
         /\ status'[call[c].todo[call[c].n]] \in {"pause", "done", "error"}
         /\ \A u \in Tasks :
              /\ status'[u] = status[u] \/ status'[u] \in {"pause", "done", "error"}
              /\ \/ claim'[u] = None
                 \/ status'[u] = status[u] /\ claim'[u] = claim[u]
<1>1. c \in Goroutines /\ Typed /\ CallOK(c) /\ None \in Callers \cup {None}
  BY Names DEF SchedInv
<1>2. /\ call[c].todo \in Seq(Tasks) /\ Len(call[c].todo) \in Nat
      /\ call[c].n \in 1 .. Len(call[c].todo)
  BY <1>1 DEF Typed, Calls, CallOK
<1> DEFINE t == call[c].todo[call[c].n]
<1>3. t \in Tasks
  BY <1>2
<1> HIDE DEF t
<1>4. PreparePause(t, None)
  BY DEF t
<1>5. /\ StatusOnly(t) /\ status'[t] \in {"pause", "done", "error"}
      /\ \/ status'[t] = status[t] /\ claim'[t] = claim[t]
         \/ status'[t] = "pause" /\ claim'[t] = None
  BY <1>1, <1>3, <1>4, PauseFacts
<1> QED
  BY <1>2, <1>5 DEF StatusOnly, t

\* PauseAllOne pauses the task at its place of the array and walks on.
LEMMA PauseAllOneStep ==
  ASSUME SchedInv, NEW c \in Callers, PauseAllOne(c)
  PROVE  SchedInv'
<1> DEFINE array == call[c].todo
           i == call[c].n
           t == array[i]
<1>1. c \in Goroutines /\ Typed /\ CallOK(c) /\ call[c].pc = "sweeping" /\ "sweeping" \in CallPC
  BY Names DEF SchedInv, PauseAllOne, At, CallPC
<1>2. PreparePause(call[c].todo[call[c].n], None)
  BY DEF PauseAllOne
<1>3. /\ array \in Seq(Tasks) /\ Len(array) \in Nat /\ i \in 1 .. Len(array)
      /\ StatusOnly(t) /\ status'[t] \in {"pause", "done", "error"}
      /\ \A u \in Tasks :
           /\ status'[u] = status[u] \/ status'[u] \in {"pause", "done", "error"}
           /\ \/ claim'[u] = None
              \/ status'[u] = status[u] /\ claim'[u] = claim[u]
  BY <1>1, <1>2, SweepFacts
<1>4. IF i = Len(array) THEN Return(c) ELSE Become(c, "sweeping", array, <<>>, i + 1)
  BY DEF PauseAllOne
<1>5. \A u : Holds(c, u) <=> \E j \in i .. Len(array) : array[j] = u
  BY <1>1 DEF Holds
<1> HIDE DEF array, i, t
<1>6. \/ OnlyCall(c) /\ call'[c].pc \in {"idle", "hook_end"} /\ i = Len(array)
      \/ /\ OnlyCall(c) /\ call'[c].pc = "sweeping" /\ call'[c].todo = array
         /\ call'[c].n = i + 1 /\ i < Len(array)
  <2>1. CASE i = Len(array)
    BY <2>1, <1>1, <1>4, ReturnFacts
  <2>2. CASE i # Len(array)
    <3> DEFINE k == i + 1
    <3>1. k \in Int /\ Become(c, "sweeping", array, <<>>, k) /\ i < Len(array)
      BY <2>2, <1>3, <1>4
    <3> HIDE DEF k
    <3>2. OnlyCall(c) /\ call'[c].pc = "sweeping" /\ call'[c].todo = array /\ call'[c].n = k
      BY <3>1, <1>1, <1>3, WalkFacts
    <3> QED
      BY <3>1, <3>2 DEF k
  <2> QED
    BY <2>1, <2>2
<1>7. Typed'
  BY <1>1, <1>3, <1>6 DEF Typed, OnlyCall, StatusOnly, PauseAllOne, lists, history
<1>8. CallOK(c)' /\ LockOf(c)
  <2>1. dlock' = dlock /\ dlock # c
    BY <1>1 DEF PauseAllOne, CallOK, LockPCs
  <2>2. call'[c].pc = "sweeping" => call'[c].n \in 1 .. Len(call'[c].todo)
    BY <1>3, <1>6
  <2> QED
    BY <1>6, <2>1, <2>2, OutsideOK DEF LockPCs, TodoPCs, LockOf
<1>9. VictimsWait'
  BY <1>1, <1>3, <1>6, CallVictim
<1>10. \A u \in ToSet(tasks) : StillHeld(c, u)
  <2>1. SUFFICES ASSUME NEW u \in ToSet(tasks), status'[u] = "wait", Holds(c, u)
                 PROVE  Holds(c, u)'
    BY <1>1, <1>3, ListTasks DEF StillHeld, PauseAllOne, lists, history
  <2>2. PICK j \in i .. Len(array) : array[j] = u
    BY <2>1, <1>5
  <2>3. j # i
    BY <1>3, <2>1, <2>2 DEF t
  <2>4. j \in (i + 1) .. Len(array) /\ i # Len(array)
    BY <2>2, <2>3, <1>3
  <2> QED
    BY <2>2, <2>4, <1>6 DEF Holds
<1>11. \A u \in Tasks : status'[u] = status[u] \/ status'[u] \notin {"new", "running"}
  BY <1>3
<1> QED
  BY <1>1, <1>6, <1>7, <1>8, <1>9, <1>10, <1>11, QuietStep DEF PauseAllOne, lists, history

\* PauseAllFails: what the walk has not reached is lost.
LEMMA PauseAllFailsStep ==
  ASSUME SchedInv, NEW c \in Callers, PauseAllFails(c)
  PROVE  SchedInv'
<1> DEFINE array == call[c].todo
           i == call[c].n
           t == array[i]
           rest == SubSeq(array, i + 1, Len(array))
<1>1. c \in Goroutines /\ Typed /\ CallOK(c) /\ call[c].pc = "sweeping"
  BY Names DEF SchedInv, PauseAllFails, At
<1>2. PreparePause(call[c].todo[call[c].n], None)
  BY DEF PauseAllFails
<1>3. /\ array \in Seq(Tasks) /\ Len(array) \in Nat /\ i \in 1 .. Len(array)
      /\ StatusOnly(t) /\ status'[t] \in {"pause", "done", "error"}
      /\ \A u \in Tasks :
           /\ status'[u] = status[u] \/ status'[u] \in {"pause", "done", "error"}
           /\ \/ claim'[u] = None
              \/ status'[u] = status[u] /\ claim'[u] = claim[u]
  BY <1>1, <1>2, SweepFacts
<1>4. Return(c) /\ lost' = lost \cup ToSet(rest)
  BY DEF PauseAllFails
<1>5. \A u : Holds(c, u) <=> \E j \in i .. Len(array) : array[j] = u
  BY <1>1 DEF Holds
<1>6. ToSet(rest) \subseteq Tasks /\ \A u : u \in ToSet(rest) <=> \E j \in (i + 1) .. Len(array) : array[j] = u
  <2> HIDE DEF array, i, t
  <2> DEFINE m == i + 1
             n == Len(array)
  <2>1. /\ array \in Seq(Tasks)
        /\ m \in Int /\ n \in Int /\ 1 <= m /\ m <= Len(array) + 1 /\ 0 <= n /\ n <= Len(array)
    BY <1>3
  <2> HIDE DEF m, n
  <2>2. SubSeq(array, m, n) \in Seq(Tasks)
        /\ \A u : u \in ToSet(SubSeq(array, m, n)) <=> \E j \in m .. n : array[j] = u
    BY ONLY <2>1, PartSet
  <2>3. rest = SubSeq(array, m, n)
    BY DEF m, n
  <2>4. ToSet(rest) \subseteq Tasks
    BY <2>2, <2>3, ElementsFinite
  <2>5. \A u : u \in ToSet(rest) <=> \E j \in m .. n : array[j] = u
    BY <2>2, <2>3
  <2> QED
    BY <2>4, <2>5 DEF m, n
<1> HIDE DEF array, i, t, rest
<1>7. OnlyCall(c) /\ call'[c].pc \in {"idle", "hook_end"}
  BY <1>1, <1>4, ReturnFacts
<1>8. Typed'
  BY <1>1, <1>3, <1>4, <1>6, <1>7 DEF Typed, OnlyCall, StatusOnly, PauseAllFails, lists
<1>9. CallOK(c)' /\ LockOf(c)
  <2>1. dlock' = dlock /\ dlock # c
    BY <1>1 DEF PauseAllFails, CallOK, LockPCs
  <2> QED
    BY <1>7, <2>1, OutsideOK DEF LockPCs, TodoPCs, LockOf
<1>10. VictimsWait'
  BY <1>1, <1>3, <1>7, CallVictim
<1>11. \A u \in ToSet(tasks) : StillHeld(c, u)
  <2>1. SUFFICES ASSUME NEW u \in ToSet(tasks), status'[u] = "wait", Holds(c, u)
                 PROVE  u \in lost'
    BY <1>1, <1>3, <1>4, ListTasks DEF StillHeld, PauseAllFails, lists
  <2>2. PICK j \in i .. Len(array) : array[j] = u
    BY <2>1, <1>5
  <2>3. j # i
    BY <1>3, <2>1, <2>2 DEF t
  <2>4. j \in (i + 1) .. Len(array)
    BY <2>2, <2>3, <1>3
  <2> QED
    BY <2>2, <2>4, <1>4, <1>6
<1>12. \A u \in Tasks : status'[u] = status[u] \/ status'[u] \notin {"new", "running"}
  BY <1>3
<1> QED
  BY <1>1, <1>7, <1>8, <1>9, <1>10, <1>11, <1>12, QuietStep DEF PauseAllFails, lists

-----------------------------------------------------------------------------
\* Continue and continueAll

\* The same, for the calls that have tasks to place.
LEMMA RestFacts ==
  ASSUME Typed, NEW c \in Goroutines, NEW p \in CallPC, NEW todo \in Seq(Tasks),
         NEW rest \in Seq(Tasks), Become(c, p, todo, rest, 0)
  PROVE  /\ OnlyCall(c) /\ call'[c].pc = p /\ call'[c].todo = todo
         /\ call'[c].hook = call[c].hook
<1> DEFINE z == 0
<1>1. z \in Int /\ Become(c, p, todo, rest, z)
  OBVIOUS
<1> HIDE DEF z
<1> QED
  BY <1>1, BecomeFacts

\* Where no status changes and the queue grows, waiting tasks stay held.
LEMMA StillThere ==
  ASSUME NEW c, NEW t, status' = status, lost' = lost, waitTasks' = waitTasks, ~ Holds(c, t)
  PROVE  StillHeld(c, t)
BY DEF StillHeld

\* ContinueSelect chooses the tasks.
LEMMA ContinueSelectStep ==
  ASSUME SchedInv, NEW c \in Callers, NEW S, ContinueSelect(c, S)
  PROVE  SchedInv'
<1> DEFINE chosen == Filter(S, {"running", "done"})
           none == <<>>
<1>1. /\ c \in Goroutines /\ Typed /\ call[c].pc \in {"idle", "hooked"} /\ "counting" \in CallPC
      /\ chosen \in Seq(Tasks) /\ dlock = None /\ dlock' = None /\ none \in Seq(Tasks) /\ Begins(c)
  BY Names, FilterFacts DEF SchedInv, ContinueSelect, Begins, At, CallPC
<1>2. IF chosen = none THEN Return(c) ELSE Become(c, "counting", none, chosen, 0)
  BY DEF ContinueSelect
<1> HIDE DEF chosen, none
<1>3. OnlyCall(c) /\ call'[c].pc \in {"idle", "hook_end", "counting"}
  BY <1>1, <1>2, ReturnFacts, RestFacts
<1>4. Typed'
  <2>1. calls' \in 0 .. MaxCalls
    BY <1>1, BeginsFacts
  <2> QED
    BY <1>1, <1>3, <2>1 DEF Typed, OnlyCall, ContinueSelect, lists, history
<1>5. CallOK(c)' /\ LockOf(c)
  BY <1>1, <1>3, Names, OutsideOK DEF LockPCs, TodoPCs, LockOf
<1>6. VictimsWait'
  BY <1>1, <1>3, CallVictim DEF ContinueSelect
<1>7. \A t \in ToSet(tasks) : StillHeld(c, t)
  BY <1>1, StillThere DEF Holds, ContinueSelect, lists, history
<1> QED
  BY <1>1, <1>3, <1>4, <1>5, <1>6, <1>7, QuietStep DEF ContinueSelect, lists, history

\* ContinueCount looks how many victims it takes.
LEMMA ContinueCountStep ==
  ASSUME SchedInv, NEW c \in Callers, ContinueCount(c)
  PROVE  SchedInv'
<1> DEFINE chosen == call[c].rest
           need == Min({maxRunning, Len(chosen)})
           pauses == need - RemainRunningCount
           h == call[c].hook
           later == [Call("scheduling", tasks, chosen, pauses, h) EXCEPT !.room = need]
           now == [Call("placing", <<>>, chosen, 0, h) EXCEPT !.room = need]
           r == IF pauses > 0 THEN later ELSE now
<1>1. /\ c \in Goroutines /\ Typed /\ call[c].pc = "counting" /\ tasks \in Seq(Tasks)
      /\ chosen \in Seq(Tasks) /\ h \in Tasks \cup {None} /\ dlock = None /\ dlock' = c
      /\ call \in [Goroutines -> Calls]
  BY Names DEF SchedInv, ContinueCount, At, Typed, Calls
<1>2. need \in Nat /\ pauses \in Int
  <2> DEFINE l == Len(chosen)
  <2>1. l \in Nat /\ maxRunning \in Nat /\ Cardinality(Running) \in Nat
    BY <1>1, RunningFinite
  <2> HIDE DEF l
  <2>2. Min({maxRunning, l}) \in {maxRunning, l}
    <3>1. l \in Int /\ maxRunning \in Int
      BY <2>1
    <3> QED
      BY <3>1, Bounds
  <2> QED
    BY <2>1, <2>2 DEF RemainRunningCount, l
<1>3. call' = [call EXCEPT ![c] = r]
  BY DEF ContinueCount
<1>4. r \in Calls /\ r.pc \in {"scheduling", "placing"}
  <2> HIDE DEF need, pauses, chosen, h
  <2>1. later \in Calls /\ later.pc = "scheduling"
    BY <1>1, <1>2 DEF Call, Calls, CallPC
  <2>2. now \in Calls /\ now.pc = "placing"
    <3> DEFINE none == <<>>
               zero == 0
    <3>1. "placing" \in CallPC /\ none \in Seq(Tasks) /\ zero \in Int
      BY DEF CallPC
    <3>2. now = [Call("placing", none, chosen, zero, h) EXCEPT !.room = need]
      OBVIOUS
    <3> HIDE DEF none, zero, now
    <3> QED
      BY <1>1, <1>2, <3>1, <3>2 DEF Call, Calls
  <2> HIDE DEF later, now
  <2> QED
    BY <2>1, <2>2
<1> HIDE DEF r
<1>5. OnlyCall(c) /\ call'[c].pc \in {"scheduling", "placing"}
  BY <1>1, <1>3, <1>4 DEF OnlyCall
<1>6. Typed'
  BY <1>1, <1>5 DEF Typed, OnlyCall, ContinueCount, lists, history
<1>7. CallOK(c)' /\ LockOf(c)
  BY <1>1, <1>5, Names, InsideOK DEF LockPCs, TodoPCs, LockOf
<1>8. VictimsWait'
  BY <1>1, <1>5, CallVictim DEF ContinueCount
<1>9. \A t \in ToSet(tasks) : StillHeld(c, t)
  BY <1>1, StillThere DEF Holds, ContinueCount, lists, history
<1> QED
  BY <1>1, <1>5, <1>6, <1>7, <1>8, <1>9, QuietStep DEF ContinueCount, lists, history

\* SchedulePause looks at the next task, and tells it to pause if it runs.
LEMMA SchedulePauseStep ==
  ASSUME SchedInv, NEW c \in Callers, SchedulePause(c)
  PROVE  SchedInv'
<1> DEFINE todo == call[c].todo
           rest == call[c].rest
           n == call[c].n
           t == Next1(c)
           none == <<>>
<1>1. /\ c \in Goroutines /\ Typed /\ CallOK(c) /\ call[c].pc = "scheduling"
      /\ todo \in Seq(Tasks) /\ rest \in Seq(Tasks) /\ n \in Int /\ none \in Seq(Tasks)
      /\ {"placing", "settling", "scheduling"} \subseteq CallPC /\ c \in Callers \cup {None}
      /\ dlock' = dlock /\ dlock = c
  BY Names DEF SchedInv, SchedulePause, At, Typed, Calls, CallPC, CallOK, LockPCs
<1>2. \/ todo = none /\ Become(c, "placing", none, rest, n) /\ UNCHANGED <<status, claim>>
      \/ /\ todo # none /\ status[t] = "running" /\ Become(c, "settling", todo, rest, n)
         /\ PreparePause(t, c)
      \/ /\ todo # none /\ Become(c, "scheduling", Later(c), rest, n)
         /\ UNCHANGED <<status, claim>>
  BY DEF SchedulePause
<1>3. todo # none => Later(c) \in Seq(Tasks) /\ t \in Tasks
  BY <1>1, TailSet DEF Later, Next1
<1>4. t = Head(todo)
  BY DEF Next1
<1> HIDE DEF todo, rest, n, none, t
<1>5. /\ OnlyCall(c) /\ call'[c].pc \in {"placing", "settling", "scheduling"}
      /\ \/ UNCHANGED <<status, claim>> /\ call'[c].pc # "settling"
         \/ /\ call'[c].pc = "settling" /\ call'[c].todo = todo /\ todo # none /\ t \in Tasks
            /\ status[t] = "running" /\ PreparePause(t, c)
  BY <1>1, <1>2, <1>3, BecomeFacts
<1>6. CASE UNCHANGED <<status, claim>> /\ call'[c].pc # "settling"
  <2>1. Typed'
    BY <1>1, <1>5, <1>6 DEF Typed, OnlyCall, SchedulePause, lists, history
  <2>2. CallOK(c)' /\ LockOf(c)
    BY <1>1, <1>5, <1>6, InsideOK DEF LockPCs, TodoPCs, LockOf
  <2>3. VictimsWait'
    BY <1>1, <1>5, <1>6, CallVictim
  <2>4. \A u \in ToSet(tasks) : StillHeld(c, u)
    BY <1>1, <1>6, StillThere DEF Holds, SchedulePause, lists, history
  <2> QED
    BY <1>1, <1>5, <1>6, <2>1, <2>2, <2>3, <2>4, QuietStep DEF SchedulePause, lists, history
<1>7. CASE /\ call'[c].pc = "settling" /\ call'[c].todo = todo /\ todo # none /\ t \in Tasks
           /\ status[t] = "running" /\ PreparePause(t, c)
  <2>1. /\ StatusOnly(t) /\ status'[t] = "pause" /\ claim'[t] = c
    <3>1. /\ StatusOnly(t) /\ status'[t] \in {"pause", "done", "error"}
          /\ \/ status'[t] = status[t] /\ claim'[t] = claim[t]
             \/ status'[t] = "pause" /\ claim'[t] = c
      BY <1>1, <1>7, PauseFacts
    <3> QED
      BY <3>1, <1>7
  <2>2. Typed'
    BY <1>1, <1>5, <2>1 DEF Typed, OnlyCall, StatusOnly, SchedulePause, lists, history
  <2>3. CallOK(c)' /\ LockOf(c)
    BY <1>1, <1>7, InsideOK DEF LockPCs, TodoPCs, LockOf, none
  <2>4. VictimsWait'
    <3>1. SUFFICES ASSUME NEW u \in Tasks, claim'[u] # None, status'[u] = "pause"
                   PROVE  At(claim[u], "settling")' /\ Next1(claim[u])' = u
      BY DEF VictimsWait
    <3>2. CASE u = t
      BY <3>2, <2>1, <1>4, <1>7 DEF At, Next1
    <3>3. CASE u # t
      <4>1. status[u] = "pause" /\ claim'[u] = claim[u] /\ claim[u] # None
        BY <3>1, <3>3, <2>1 DEF StatusOnly
      <4>2. claim[u] \in Callers /\ At(claim[u], "settling") /\ Next1(claim[u]) = u
        BY <4>1 DEF SchedInv, VictimsWait, Typed
      <4>3. call'[claim[u]] = call[claim[u]]
        BY <1>1, <1>5, <4>2, Names DEF OnlyCall, At
      <4> QED
        BY <4>1, <4>2, <4>3 DEF At, Next1
    <3> QED
      BY <3>2, <3>3
  <2>5. \A u \in ToSet(tasks) : StillHeld(c, u)
    BY <1>1, <2>1, ListTasks DEF Holds, StillHeld, StatusOnly, SchedulePause, lists, history
  <2>6. \A u \in Tasks : status'[u] = status[u] \/ status'[u] \notin {"new", "running"}
    BY <2>1 DEF StatusOnly
  <2> QED
    BY <1>1, <1>5, <1>7, <2>2, <2>3, <2>4, <2>5, <2>6, QuietStep DEF SchedulePause, lists, history
<1> QED
  BY <1>5, <1>6, <1>7

\* When c settles its victim v, the victim waits or is another's, or nobody's.
LEMMA SettledVictim ==
  ASSUME SchedInv, NEW c \in Callers, OnlyCall(c), NEW v \in Tasks, v = Next1(c),
         \/ claim'[v] = None
         \/ status'[v] = status[v] /\ claim'[v] = claim[v] /\ ~ (status[v] = "pause" /\ claim[v] = c),
         \A u \in Tasks \ {v} : status'[u] = status[u] /\ claim'[u] = claim[u]
  PROVE  VictimsWait'
<1>1. SUFFICES ASSUME NEW u \in Tasks, claim'[u] # None, status'[u] = "pause"
               PROVE  At(claim[u], "settling")' /\ Next1(claim[u])' = u
  BY DEF VictimsWait
<1>2. status[u] = "pause" /\ claim'[u] = claim[u] /\ claim[u] # None
  BY <1>1
<1>3. claim[u] \in Callers /\ At(claim[u], "settling") /\ Next1(claim[u]) = u
  BY <1>2 DEF SchedInv, VictimsWait, Typed
<1>4. claim[u] # c
  BY <1>1, <1>2, <1>3
<1>5. call'[claim[u]] = call[claim[u]]
  BY <1>3, <1>4, Names DEF OnlyCall
<1> QED
  BY <1>2, <1>3, <1>5 DEF At, Next1

\* SchedulePaused queues the victim, unless its status is someone else's by now.
LEMMA SchedulePausedStep ==
  ASSUME SchedInv, NEW c \in Callers, SchedulePaused(c)
  PROVE  SchedInv'
<1> DEFINE rest == call[c].rest
           n == call[c].n
           k == call[c].n - 1
           v == Next1(c)
           later == Later(c)
           p == IF n = 1 THEN "placing" ELSE "scheduling"
<1>1. /\ c \in Goroutines /\ Typed /\ CallOK(c) /\ call[c].pc = "settling"
      /\ rest \in Seq(Tasks) /\ n \in Int /\ k \in Int
      /\ p \in CallPC /\ "scheduling" \in CallPC /\ p \in {"placing", "scheduling"}
      /\ dlock' = dlock /\ dlock = c
  <2>1. c \in Goroutines /\ Typed /\ CallOK(c) /\ call[c].pc = "settling" /\ dlock' = dlock
    BY Names DEF SchedInv, SchedulePaused, At
  <2>2. dlock = c
    BY <2>1 DEF CallOK, LockPCs
  <2>3. rest \in Seq(Tasks) /\ n \in Int /\ k \in Int
    BY <2>1 DEF Typed, Calls
  <2>4. p \in CallPC /\ "scheduling" \in CallPC /\ p \in {"placing", "scheduling"}
    BY DEF CallPC
  <2> QED
    BY <2>1, <2>2, <2>3, <2>4
<1>2. v \in Tasks /\ later \in Seq(Tasks)
  BY <1>1, TailSet DEF Later, Next1, CallOK, TodoPCs, Typed, Calls
<1>3. \/ /\ status[v] = "pause" /\ claim[v] = c /\ SetStatus(v, "wait", None)
         /\ waitTasks' = Append(waitTasks, v) /\ Become(c, p, later, rest, k)
      \/ /\ ~ (status[v] = "pause" /\ claim[v] = c) /\ Become(c, "scheduling", later, rest, n)
         /\ UNCHANGED <<status, claim, waitTasks>>
  BY DEF SchedulePaused
<1>4. OnlyCall(c) /\ call'[c].pc \in {"placing", "scheduling"}
  <2> HIDE DEF rest, n, k, v, later, p
  <2> QED
    BY <1>1, <1>2, <1>3, BecomeFacts
<1>5. CallOK(c)' /\ LockOf(c)
  BY <1>1, <1>4, InsideOK DEF LockPCs, TodoPCs, LockOf
<1>6. \A t : ~ Holds(c, t)
  BY <1>1 DEF Holds
<1>7. CASE /\ status[v] = "pause" /\ claim[v] = c /\ SetStatus(v, "wait", None)
           /\ waitTasks' = Append(waitTasks, v)
  <2>1. StatusOnly(v) /\ status'[v] = "wait" /\ claim'[v] = None
    <3>1. "wait" \in Statuses /\ None \in Callers \cup {None}
      BY DEF Statuses
    <3> HIDE DEF v
    <3> QED
      BY <1>1, <1>2, <1>7, <3>1, SetFacts
  <2>2. /\ waitTasks' \in Seq(Tasks)
        /\ \A t : t \in ToSet(waitTasks') <=> t \in ToSet(waitTasks) \/ t = v
    BY <1>1, <1>2, <1>7, AppendSet DEF Typed
  <2> HIDE DEF v
  <2>3. Typed'
    BY <1>1, <1>4, <2>1, <2>2 DEF Typed, OnlyCall, StatusOnly, SchedulePaused, history
  <2>4. VictimsWait'
    <3>1. \A u \in Tasks \ {v} : status'[u] = status[u] /\ claim'[u] = claim[u]
      BY <2>1 DEF StatusOnly
    <3> QED
      BY <1>2, <1>4, <2>1, <3>1, SettledVictim DEF v
  <2>5. \A u \in ToSet(tasks) : StillHeld(c, u)
    BY <1>1, <1>6, <2>1, <2>2, ListTasks DEF StillHeld, StatusOnly, SchedulePaused, history
  <2>6. \A u \in Tasks : status'[u] = status[u] \/ status'[u] \notin {"new", "running"}
    BY <2>1 DEF StatusOnly
  <2> QED
    BY <1>1, <1>4, <1>5, <2>3, <2>4, <2>5, <2>6, QuietStep DEF SchedulePaused, history
<1>8. CASE ~ (status[v] = "pause" /\ claim[v] = c) /\ UNCHANGED <<status, claim, waitTasks>>
  <2> HIDE DEF v
  <2>1. Typed'
    BY <1>1, <1>4, <1>8 DEF Typed, OnlyCall, SchedulePaused, history
  <2>2. VictimsWait'
    BY <1>2, <1>4, <1>8, SettledVictim DEF v
  <2>3. \A u \in ToSet(tasks) : StillHeld(c, u)
    BY <1>6, <1>8, StillThere DEF SchedulePaused, history
  <2> QED
    BY <1>1, <1>4, <1>5, <1>8, <2>1, <2>2, <2>3, QuietStep DEF SchedulePaused, history
<1> QED
  BY <1>3, <1>7, <1>8

\* ScheduleFails gives the claim up.
LEMMA ScheduleFailsStep ==
  ASSUME SchedInv, NEW c \in Callers, ScheduleFails(c)
  PROVE  SchedInv'
<1> DEFINE v == Next1(c)
<1>1. /\ c \in Goroutines /\ Typed /\ CallOK(c) /\ call[c].pc = "settling"
      /\ dlock = c /\ dlock' = None /\ Return(c)
  BY Names DEF SchedInv, ScheduleFails, At, CallOK, LockPCs
<1>2. v \in Tasks
  BY <1>1, TailSet DEF Next1, CallOK, TodoPCs, Typed, Calls
<1>3. claim' = [claim EXCEPT ![v] = None] /\ status' = status
  BY DEF ScheduleFails
<1>4. OnlyCall(c) /\ call'[c].pc \in {"idle", "hook_end"}
  BY <1>1, ReturnFacts
<1>5. v = Next1(c)
  OBVIOUS
<1> HIDE DEF v
<1>6. Typed'
  BY <1>1, <1>2, <1>3, <1>4 DEF Typed, OnlyCall, ScheduleFails, lists, history
<1>7. CallOK(c)' /\ LockOf(c)
  BY <1>1, <1>4, Names, OutsideOK DEF LockPCs, TodoPCs, LockOf
<1>8. VictimsWait'
  <2>1. claim'[v] = None /\ \A u \in Tasks \ {v} : claim'[u] = claim[u]
    BY <1>1, <1>2, <1>3 DEF Typed
  <2> QED
    BY <1>2, <1>3, <1>4, <1>5, <2>1, SettledVictim
<1>9. \A t \in ToSet(tasks) : StillHeld(c, t)
  BY <1>1, StillThere DEF Holds, ScheduleFails, lists, history
<1> QED
  BY <1>1, <1>3, <1>4, <1>6, <1>7, <1>8, <1>9, QuietStep DEF ScheduleFails, lists, history


\* Place queues the tasks that there is no room for, and is left with the others.
LEMMA PlaceStep ==
  ASSUME SchedInv, NEW c \in Callers, call[c].pc \in {"placing", "all_placing"},
         NEW room \in Nat, NEW chosen \in Seq(Tasks), Place(c, room, chosen),
         UNCHANGED <<tasks, maxRunning, claim, notes, calls, history>>
  PROVE  SchedInv'
<1> DEFINE l == Len(chosen)
           k == Min({room, l})
           start == SubSeq(chosen, 1, k)
           m == Len(start) + 1
           queued == SubSeq(chosen, m, l)
           none == <<>>
<1>1. /\ c \in Goroutines /\ Typed /\ CallOK(c) /\ dlock = c /\ waitTasks \in Seq(Tasks)
      /\ call \in [Goroutines -> Calls] /\ call[c].hook \in Tasks \cup {None}
      /\ "starting" \in CallPC /\ none \in Seq(Tasks)
  <2>1. c \in Goroutines /\ Typed /\ CallOK(c)
    BY Names DEF SchedInv
  <2>2. dlock = c
    BY <2>1 DEF CallOK, LockPCs
  <2>3. /\ waitTasks \in Seq(Tasks) /\ call \in [Goroutines -> Calls]
        /\ call[c].hook \in Tasks \cup {None}
    BY <2>1 DEF Typed, Calls
  <2>4. "starting" \in CallPC /\ none \in Seq(Tasks)
    BY DEF CallPC
  <2> QED
    BY <2>1, <2>2, <2>3, <2>4
<1>2. l \in Nat /\ k \in Int /\ 0 <= k /\ k <= l
  <2>1. l \in Int /\ room \in Int /\ l \in Nat
    OBVIOUS
  <2> HIDE DEF l
  <2>2. k \in {room, l} /\ k <= l
    BY <2>1, Bounds
  <2> HIDE DEF k
  <2> QED
    BY <2>1, <2>2
<1>3. /\ waitTasks' = waitTasks \o queued /\ dlock' = None
      /\ status' = [t \in Tasks |-> IF t \in ToSet(queued) THEN "wait" ELSE status[t]]
      /\ IF start = none THEN Return(c)
         ELSE call' = [call EXCEPT ![c] = Call("starting", start, none, 0, @.hook)]
  BY DEF Place
<1>4. start \in Seq(Tasks) /\ Len(start) = k
  <2> DEFINE one == 1
  <2>1. one \in Int /\ 1 <= one /\ one <= Len(chosen) + 1 /\ k <= Len(chosen) /\ k >= one - 1
    BY <1>2
  <2> HIDE DEF one, k
  <2>2. SubSeq(chosen, one, k) \in Seq(Tasks) /\ Len(SubSeq(chosen, one, k)) = k - one + 1
    BY <1>2, <2>1, PartSet
  <2> QED
    BY <1>2, <2>2 DEF one
<1>5. queued \in Seq(Tasks)
  <2>1. m \in Int /\ 1 <= m /\ m <= Len(chosen) + 1 /\ l \in Int /\ 0 <= l /\ l <= Len(chosen)
    BY <1>2, <1>4
  <2> HIDE DEF m, l
  <2> QED
    BY <2>1, PartSet
<1> HIDE DEF start, queued, none
<1>6. OnlyCall(c) /\ call'[c].pc \in {"idle", "hook_end", "starting"}
                  /\ (call'[c].pc = "starting" => call'[c].todo # <<>>)
  <2>1. CASE start = none
    BY <2>1, <1>1, <1>3, ReturnFacts
  <2>2. CASE start # none
    <3> DEFINE r == Call("starting", start, none, 0, call[c].hook)
    <3>1. r \in Calls /\ r.pc = "starting" /\ r.todo = start
      BY <1>1, <1>4 DEF Call, Calls
    <3>2. call' = [call EXCEPT ![c] = r]
      BY <1>3, <2>2
    <3> HIDE DEF r
    <3> QED
      BY <1>1, <2>2, <3>1, <3>2 DEF OnlyCall, none
  <2> QED
    BY <2>1, <2>2
<1>7. /\ waitTasks' \in Seq(Tasks)
      /\ \A t : t \in ToSet(waitTasks') <=> t \in ToSet(waitTasks) \/ t \in ToSet(queued)
  BY <1>1, <1>3, <1>5, ConcatSet
<1>8. /\ status' \in [Tasks -> Statuses]
      /\ \A t \in Tasks : status'[t] = status[t] \/ (status'[t] = "wait" /\ t \in ToSet(queued))
  <2>1. status \in [Tasks -> Statuses] /\ "wait" \in Statuses
    BY <1>1 DEF Typed, Statuses
  <2>2. \A t \in Tasks : status'[t] = IF t \in ToSet(queued) THEN "wait" ELSE status[t]
    BY <1>3
  <2> HIDE DEF l, k, m
  <2> QED
    BY <1>3, <2>1, <2>2
<1>9. Typed'
  BY <1>1, <1>3, <1>6, <1>7, <1>8 DEF Typed, OnlyCall, history
<1>10. CallOK(c)' /\ LockOf(c)
  BY <1>1, <1>3, <1>6, Names, OutsideOK DEF LockPCs, TodoPCs, LockOf
<1>11. VictimsWait'
  BY <1>1, <1>6, <1>8, CallVictim
<1>12. \A t \in ToSet(tasks) : StillHeld(c, t)
  <2>1. \A t : ~ Holds(c, t)
    BY DEF Holds
  <2> QED
    BY <1>1, <1>7, <1>8, <2>1, ListTasks DEF StillHeld, history
<1>13. \A t \in Tasks : status'[t] = status[t] \/ status'[t] \notin {"new", "running"}
  BY <1>8
<1>14. tasks' = tasks /\ maxRunning' = maxRunning /\ breached' = breached
  BY DEF history
<1> QED
  BY <1>1, <1>6, <1>9, <1>10, <1>11, <1>12, <1>13, <1>14, QuietStep

\* ContinuePlace places the chosen tasks.
LEMMA ContinuePlaceStep ==
  ASSUME SchedInv, NEW c \in Callers, ContinuePlace(c)
  PROVE  SchedInv'
<1> DEFINE room == call[c].room
           chosen == call[c].rest
<1>1. room \in Nat /\ chosen \in Seq(Tasks) /\ call[c].pc \in {"placing", "all_placing"}
  BY Names DEF SchedInv, Typed, Calls, ContinuePlace, At
<1>2. Place(c, room, chosen) /\ UNCHANGED <<tasks, maxRunning, claim, notes, calls, history>>
  BY DEF ContinuePlace
<1> HIDE DEF room, chosen
<1> QED
  BY <1>1, <1>2, PlaceStep

\* ContinueAllCount counts the free slots.
LEMMA ContinueAllCountStep ==
  ASSUME SchedInv, NEW c \in Callers, ContinueAllCount(c)
  PROVE  SchedInv'
<1> DEFINE k == RemainRunningCount
           none == <<>>
<1>1. /\ c \in Goroutines /\ Typed /\ call[c].pc = "idle" /\ "all_placing" \in CallPC
      /\ none \in Seq(Tasks) /\ dlock = None /\ dlock' = c /\ Begins(c)
      /\ Become(c, "all_placing", none, <<>>, k)
  BY Names DEF SchedInv, ContinueAllCount, At, CallPC
<1>2. k \in Int
  BY <1>1, RunningFinite DEF RemainRunningCount
<1> HIDE DEF k, none
<1>3. OnlyCall(c) /\ call'[c].pc = "all_placing"
  BY <1>1, <1>2, WalkFacts
<1>4. Typed'
  <2>1. calls' \in 0 .. MaxCalls
    BY <1>1, BeginsFacts
  <2> QED
    BY <1>1, <1>3, <2>1 DEF Typed, OnlyCall, ContinueAllCount, lists, history
<1>5. CallOK(c)' /\ LockOf(c)
  BY <1>1, <1>3, InsideOK DEF LockPCs, TodoPCs, LockOf
<1>6. VictimsWait'
  BY <1>1, <1>3, CallVictim DEF ContinueAllCount
<1>7. \A t \in ToSet(tasks) : StillHeld(c, t)
  BY <1>1, StillThere DEF Holds, ContinueAllCount, lists, history
<1> QED
  BY <1>1, <1>3, <1>4, <1>5, <1>6, <1>7, QuietStep DEF ContinueAllCount, lists, history

\* ContinueAllPlace places all tasks that neither run nor are done.
LEMMA ContinueAllPlaceStep ==
  ASSUME SchedInv, NEW c \in Callers, ContinueAllPlace(c)
  PROVE  SchedInv'
<1> DEFINE n == call[c].n
           zero == 0
           room == Max({n, zero})
           chosen == Filter(Tasks, {"running", "done"})
<1>1. n \in Int /\ zero \in Int /\ chosen \in Seq(Tasks) /\ call[c].pc \in {"placing", "all_placing"}
  BY Names, FilterFacts DEF SchedInv, Typed, Calls, ContinueAllPlace, At
<1>2. Place(c, room, chosen) /\ UNCHANGED <<tasks, maxRunning, claim, notes, calls, history>>
  BY DEF ContinueAllPlace
<1>3. room \in Nat
  <2> HIDE DEF n, zero
  <2>1. room \in {n, zero} /\ room >= zero
    BY <1>1, Bounds
  <2> HIDE DEF room
  <2> QED
    BY <1>1, <2>1 DEF zero
<1> HIDE DEF room, chosen
<1> QED
  BY <1>1, <1>2, <1>3, PlaceStep

\* StartFails ends the call.
LEMMA StartFailsStep ==
  ASSUME SchedInv, NEW c \in Callers, StartFails(c)
  PROVE  SchedInv'
<1>1. /\ c \in Goroutines /\ Typed /\ CallOK(c) /\ call[c].pc = "starting" /\ Return(c)
      /\ dlock' = dlock
  BY Names DEF SchedInv, StartFails, At
<1>2. OnlyCall(c) /\ call'[c].pc \in {"idle", "hook_end"}
  BY <1>1, ReturnFacts
<1>3. Typed'
  BY <1>1, <1>2 DEF Typed, OnlyCall, StartFails, lists, history
<1>4. CallOK(c)' /\ LockOf(c)
  <2>1. dlock # c
    BY <1>1 DEF CallOK, LockPCs
  <2> QED
    BY <1>1, <1>2, <2>1, OutsideOK DEF LockPCs, TodoPCs, LockOf
<1>5. VictimsWait'
  BY <1>1, <1>2, CallVictim DEF StartFails
<1>6. \A t \in ToSet(tasks) : StillHeld(c, t)
  BY <1>1, StillThere DEF Holds, StartFails, lists, history
<1> QED
  BY <1>1, <1>2, <1>3, <1>4, <1>5, <1>6, QuietStep DEF StartFails, lists, history

-----------------------------------------------------------------------------
\* Steps that start a task or take a slot for one

\* Where none starts, not more tasks run than before.
LEMMA FewerRun ==
  ASSUME Typed, NoneStarts
  PROVE  /\ Cardinality(Running) \in Nat /\ Cardinality(Running') \in Nat /\ maxRunning \in Nat
         /\ Cardinality(Running') <= Cardinality(Running)
<1>1. Running' \subseteq Running
  BY DEF NoneStarts, Running
<1>2. IsFiniteSet(Running) /\ Cardinality(Running) \in Nat /\ maxRunning \in Nat
  BY RunningFinite
<1>3. IsFiniteSet(Running') /\ Cardinality(Running') <= Cardinality(Running)
  BY <1>1, <1>2, FS_Subset
<1> QED
  BY <1>2, <1>3, FS_CardinalityType

\* One task more runs at most, when one starts.
LEMMA OneMore ==
  ASSUME Typed, NEW t \in Tasks, StatusOnly(t), tasks' = tasks
  PROVE  /\ Cardinality(Running) \in Nat /\ Cardinality(Running') \in Nat /\ maxRunning \in Nat
         /\ Cardinality(Running') <= Cardinality(Running) + 1
<1>1. Running' \subseteq Running \cup {t}
  BY ListTasks DEF StatusOnly, Running
<1>2. IsFiniteSet(Running) /\ Cardinality(Running) \in Nat /\ maxRunning \in Nat
  BY RunningFinite
<1>3. /\ IsFiniteSet(Running \cup {t})
      /\ Cardinality(Running \cup {t}) = IF t \in Running THEN Cardinality(Running)
                                                          ELSE Cardinality(Running) + 1
  BY <1>2, FS_AddElement
<1>4. IsFiniteSet(Running') /\ Cardinality(Running') <= Cardinality(Running \cup {t})
  BY <1>1, <1>3, FS_Subset
<1>5. Cardinality(Running') \in Nat /\ Cardinality(Running \cup {t}) \in Nat
  BY <1>3, <1>4, FS_CardinalityType
<1> QED
  BY <1>2, <1>3, <1>4, <1>5

\* A step that counts a free slot under d.lock keeps it for its start.
LEMMA SlotTaken ==
  ASSUME SchedInv, NoneStarts, maxRunning' = maxRunning, breached' = breached,
         RemainRunningCount # 0
  PROVE  LimitKept' /\ RoomKept'
<1> DEFINE k == Cardinality(Running)
           l == Cardinality(Running')
<1>1. k \in Nat /\ l \in Nat /\ l <= k /\ maxRunning \in Nat
  BY FewerRun DEF SchedInv
<1>2. breached \/ k <= maxRunning
  BY DEF SchedInv, LimitKept
<1>3. k # maxRunning
  BY <1>1 DEF RemainRunningCount
<1> HIDE DEF k, l
<1>4. breached' \/ l < maxRunning'
  BY <1>1, <1>2, <1>3
<1>5. breached' \/ l <= maxRunning'
  BY <1>1, <1>4
<1> QED
  BY <1>4, <1>5 DEF LimitKept, RoomKept, l

\* A start of the owner of d.lock uses the slot that it counted.
LEMMA SlotUsed ==
  ASSUME SchedInv, NEW c \in Goroutines, call[c].pc \in {"creating", "notified"},
         OnlyCall(c), call'[c].pc \notin {"creating", "notified"},
         NEW t \in Tasks, StatusOnly(t), tasks' = tasks,
         maxRunning' = maxRunning, breached' = breached
  PROVE  LimitKept' /\ RoomKept'
<1> DEFINE k == Cardinality(Running)
           l == Cardinality(Running')
<1>1. k \in Nat /\ l \in Nat /\ l <= k + 1 /\ maxRunning \in Nat
  BY OneMore DEF SchedInv
<1>2. breached \/ k < maxRunning
  BY DEF SchedInv, RoomKept
<1>3. \A d \in Goroutines : call'[d].pc \notin {"creating", "notified"}
  <2>1. dlock = c
    BY DEF SchedInv, CallOK, LockPCs
  <2>2. \A d \in Goroutines \ {c} : call[d].pc \notin {"creating", "notified"}
    BY <2>1 DEF SchedInv, CallOK, LockPCs
  <2> QED
    BY <2>2 DEF OnlyCall
<1> HIDE DEF k, l
<1>4. breached' \/ l <= maxRunning'
  BY <1>1, <1>2
<1> QED
  BY <1>3, <1>4 DEF LimitKept, RoomKept, l

\* A step that starts t, which c has had, for a slot that c took.
LEMMA StartStep ==
  ASSUME SchedInv, NEW c \in Goroutines, OnlyCall(c), NEW t \in Tasks, DoStart(t),
         call[c].pc # "settling", call'[c].pc \notin {"deleting"},
         tasks' = tasks, waitTasks' = waitTasks, lost' = lost,
         \A u : Holds(c, u) => u = t
  PROVE  StatusOnly(t) /\ ListOnce' /\ WaitHeld' /\ VictimsWait'
<1>1. Typed
  BY DEF SchedInv
<1>2. /\ StatusOnly(t) /\ status'[t] \in {"running", "done"}
      /\ \/ status'[t] = status[t] /\ claim'[t] = claim[t]
         \/ status'[t] = "running" /\ claim'[t] = None
  BY <1>1, StartFacts
<1>3. ListOnce'
  <2>1. \A u \in Tasks : status'[u] = "new" => status[u] = "new"
    BY <1>2 DEF StatusOnly
  <2>2. \A d \in Goroutines : call'[d].pc = "deleting" => call'[d] = call[d]
    BY DEF OnlyCall
  <2> QED
    BY <2>1, <2>2, OnceStep
<1>4. WaitHeld'
  <2>1. \A u \in ToSet(tasks) : StillHeld(c, u)
    BY <1>1, <1>2, ListTasks DEF StillHeld, StatusOnly
  <2> QED
    BY <2>1, WaitStep, ListTasks, <1>1
<1>5. VictimsWait'
  BY <1>2, CallVictim DEF StatusOnly
<1> QED
  BY <1>2, <1>3, <1>4, <1>5

\* StartNext starts a task outside d.lock: within the limit, or it counts as a breach.
LEMMA StartNextStep ==
  ASSUME SchedInv, NEW c \in Callers, StartNext(c)
  PROVE  SchedInv'
<1> DEFINE t == Next1(c)
           todo == Later(c)
<1>1. /\ c \in Goroutines /\ Typed /\ CallOK(c)
      /\ call[c].pc = "starting" /\ dlock' = dlock /\ dlock # c
      /\ DoStart(t) /\ GoOn(c, todo)
  BY Names DEF SchedInv, StartNext, At, CallOK, LockPCs
<1>2. /\ t \in Tasks /\ todo \in Seq(Tasks)
  <2>1. call[c].todo \in Seq(Tasks) /\ call[c].todo # <<>>
    BY <1>1 DEF Typed, Calls, CallOK, TodoPCs
  <2> QED
    BY <2>1, TailSet DEF Next1, Later
<1> HIDE DEF t, todo
<1>3. /\ OnlyCall(c) /\ call'[c].pc \in {"idle", "hook_end", "starting"}
      /\ (call'[c].pc = "starting" => call'[c].todo # <<>>)
  BY <1>1, <1>2, GoOnFacts
<1>4. /\ tasks' = tasks /\ waitTasks' = waitTasks /\ maxRunning' = maxRunning /\ lost' = lost
      /\ \A u : ~ Holds(c, u)
  BY <1>1 DEF StartNext, lists, Holds
<1>5. StatusOnly(t) /\ ListOnce' /\ WaitHeld' /\ VictimsWait'
  BY <1>1, <1>2, <1>3, <1>4, StartStep
<1>6. Typed'
  <2>1. breached' \in BOOLEAN
    BY DEF StartNext
  <2> QED
    BY <1>1, <1>3, <1>4, <1>5, <2>1 DEF Typed, OnlyCall, StatusOnly, StartNext
<1>7. \A d \in Goroutines : CallOK(d)'
  <2>1. CallOK(c)' /\ LockOf(c)
    BY <1>1, <1>3, OutsideOK DEF LockPCs, TodoPCs, LockOf
  <2> QED
    BY <1>1, <1>3, <2>1, CallsKept
<1>8. LimitKept' /\ RoomKept'
  <2> DEFINE k == Cardinality(Running)
             l == Cardinality(Running')
  <2>1. k \in Nat /\ l \in Nat /\ l <= k + 1 /\ maxRunning \in Nat
    BY <1>1, <1>2, <1>4, <1>5, OneMore
  <2>2. breached' \/ (k < maxRunning /\ dlock' = None)
    <3> DEFINE full == RemainRunningCount <= 0
    <3>1. full \in BOOLEAN /\ breached' = (breached \/ full \/ dlock # None)
      BY DEF StartNext
    <3>2. ~ full => k < maxRunning
      BY <2>1 DEF RemainRunningCount
    <3> HIDE DEF full, k, l
    <3>3. breached' \/ (~ full /\ dlock = None)
      BY <3>1, Zenon
    <3> QED
      BY <1>1, <3>2, <3>3
  <2>3. breached' \/ \A d \in Goroutines : call'[d].pc \notin {"creating", "notified"}
    BY <1>7, <2>2, Names DEF CallOK, LockPCs
  <2> HIDE DEF k, l
  <2>4. breached' \/ l <= maxRunning'
    BY <1>4, <2>1, <2>2
  <2> QED
    BY <2>3, <2>4 DEF LimitKept, RoomKept, l
<1> QED
  BY <1>5, <1>6, <1>7, <1>8 DEF SchedInv

-----------------------------------------------------------------------------
\* doCreate

\* A step that appends t to the list, and from which no deletion has more tasks.
LEMMA OnceAppend ==
  ASSUME SchedInv, NEW t \in Tasks, t \notin ToSet(tasks), tasks' = Append(tasks, t),
         status'[t] # "new", \A u \in Tasks : status'[u] = "new" => status[u] = "new",
         \A d \in Goroutines : At(d, "deleting")' =>
           /\ At(d, "deleting") /\ IsInjective(call'[d].todo)
           /\ ToSet(call'[d].todo) \subseteq ToSet(call[d].todo) \ {t}
  PROVE  ListOnce'
<1>1. ListOnce /\ tasks \in Seq(Tasks) /\ ToSet(tasks) \subseteq Tasks
  BY ElementsFinite DEF SchedInv, Typed
<1>2. \A d \in Goroutines : ToSet(call[d].todo) \subseteq Tasks
  BY ElementsFinite DEF SchedInv, Typed, Calls
<1>3. \A u : u \in ToSet(tasks') <=> u \in ToSet(tasks) \/ u = t
  BY <1>1, AppendSet
<1>4. IsInjective(tasks')
  <2>1. /\ Len(tasks) \in Nat /\ DOMAIN tasks = 1 .. Len(tasks)
        /\ DOMAIN tasks' = 1 .. (Len(tasks) + 1)
        /\ \A i \in 1 .. Len(tasks) : tasks'[i] = tasks[i]
        /\ tasks'[Len(tasks) + 1] = t
    BY <1>1
  <2>2. \A i \in 1 .. Len(tasks) : tasks[i] # t
    BY <2>1 DEF ToSet
  <2>3. \A i, j \in 1 .. Len(tasks) : tasks[i] = tasks[j] => i = j
    BY <1>1, <2>1 DEF ListOnce, IsInjective
  <2>4. \A i, j \in 1 .. (Len(tasks) + 1) : tasks'[i] = tasks'[j] => i = j
    <3>1. TAKE i, j \in 1 .. (Len(tasks) + 1)
    <3>2. i = Len(tasks) + 1 \/ i \in 1 .. Len(tasks)
      BY <2>1
    <3>3. j = Len(tasks) + 1 \/ j \in 1 .. Len(tasks)
      BY <2>1
    <3> QED
      BY <2>1, <2>2, <2>3, <3>2, <3>3
  <2> QED
    BY <2>1, <2>4 DEF IsInjective
<1>5. \A u \in ToSet(tasks') : status'[u] # "new"
  BY <1>1, <1>3 DEF ListOnce
<1>6. ASSUME NEW d \in Goroutines, At(d, "deleting")'
      PROVE  /\ IsInjective(call'[d].todo)
             /\ \A u \in ToSet(call'[d].todo) :
                  /\ u \notin ToSet(tasks') /\ status'[u] # "new"
                  /\ \A e \in Goroutines \ {d} : At(e, "deleting")' => u \notin ToSet(call'[e].todo)
  <2>1. /\ At(d, "deleting") /\ IsInjective(call'[d].todo)
        /\ ToSet(call'[d].todo) \subseteq ToSet(call[d].todo) \ {t}
    BY <1>6
  <2>2. ASSUME NEW u \in ToSet(call'[d].todo)
        PROVE  /\ u \notin ToSet(tasks') /\ status'[u] # "new"
               /\ \A e \in Goroutines \ {d} : At(e, "deleting")' => u \notin ToSet(call'[e].todo)
    <3>1. u \in ToSet(call[d].todo) /\ u # t /\ u \in Tasks
      BY <1>2, <2>1, <2>2
    <3>2. /\ u \notin ToSet(tasks) /\ status[u] # "new"
          /\ \A e \in Goroutines \ {d} : At(e, "deleting") => u \notin ToSet(call[e].todo)
      BY <1>1, <2>1, <3>1 DEF ListOnce
    <3> QED
      BY <1>3, <3>1, <3>2
  <2> QED
    BY <2>1, <2>2
<1> QED
  BY <1>4, <1>5, <1>6 DEF ListOnce

\* A new task is nowhere yet.
LEMMA NewTask ==
  ASSUME SchedInv, NEW t \in Tasks, status[t] = "new"
  PROVE  /\ t \notin ToSet(tasks)
         /\ \A d \in Goroutines : At(d, "deleting") =>
              IsInjective(call[d].todo) /\ ToSet(call[d].todo) \subseteq ToSet(call[d].todo) \ {t}
BY DEF SchedInv, ListOnce

\* CreateQueued: the new task waits on the queue.
LEMMA CreateQueuedStep ==
  ASSUME SchedInv, NEW c \in Callers, NEW t \in Tasks, CreateQueued(c, t)
  PROVE  SchedInv'
<1>1. /\ Typed /\ status[t] = "new" /\ tasks' = Append(tasks, t) /\ waitTasks' = Append(waitTasks, t)
      /\ SetStatus(t, "wait", None) /\ "wait" \in Statuses /\ None \in Callers \cup {None}
      /\ call' = call /\ dlock' = dlock /\ maxRunning' = maxRunning /\ breached' = breached
      /\ lost' = lost
  BY DEF SchedInv, CreateQueued, Statuses, history
<1>2. StatusOnly(t) /\ status'[t] = "wait" /\ claim'[t] = None
  BY <1>1, SetFacts
<1>3. /\ \A u : u \in ToSet(tasks') <=> u \in ToSet(tasks) \/ u = t
      /\ \A u : u \in ToSet(waitTasks') <=> u \in ToSet(waitTasks) \/ u = t
      /\ tasks' \in Seq(Tasks) /\ waitTasks' \in Seq(Tasks)
  BY <1>1, AppendSet DEF Typed
<1>4. Typed'
  <2>1. calls' \in 0 .. MaxCalls
    BY <1>1, BeginsFacts DEF CreateQueued
  <2> QED
    BY <1>1, <1>2, <1>3, <2>1 DEF Typed, StatusOnly, CreateQueued, history
<1>5. \A d \in Goroutines : CallOK(d)'
  BY <1>1 DEF SchedInv, CallOK, Next1
<1>6. ListOnce'
  <2>1. \A u \in Tasks : status'[u] = "new" => status[u] = "new"
    BY <1>2 DEF StatusOnly
  <2> QED
    BY <1>1, <1>2, <2>1, NewTask, OnceAppend DEF At
<1>7. LimitKept' /\ RoomKept'
  <2>1. NoneStarts
    BY <1>1, <1>2, <1>3, ListTasks DEF NoneStarts, StatusOnly
  <2> QED
    BY <1>1, <2>1, LimitStep
<1>8. VictimsWait'
  BY <1>1, <1>2, VictimStep DEF StatusOnly
<1>9. WaitHeld'
  <2>1. \A d, u : Holds(d, u) => Holds(d, u)'
    BY <1>1 DEF Holds
  <2> QED
    BY <1>1, <1>2, <1>3, <2>1, ListTasks DEF SchedInv, WaitHeld, StatusOnly
<1> QED
  BY <1>4, <1>5, <1>6, <1>7, <1>8, <1>9 DEF SchedInv

\* CreateCount: the new task has a slot, and d.lock.
LEMMA CreateCountStep ==
  ASSUME SchedInv, NEW c \in Callers, NEW t \in Tasks, CreateCount(c, t)
  PROVE  SchedInv'
<1> DEFINE todo == <<t>>
<1>1. /\ Typed /\ status[t] = "new" /\ tasks' = Append(tasks, t) /\ waitTasks' = waitTasks
      /\ SetStatus(t, "ready", None) /\ "ready" \in Statuses /\ None \in Callers \cup {None}
      /\ dlock = None /\ dlock' = c /\ maxRunning' = maxRunning /\ breached' = breached
      /\ lost' = lost /\ RemainRunningCount # 0 /\ Become(c, "creating", todo, <<>>, 0)
      /\ c \in Goroutines /\ "creating" \in CallPC /\ call[c].pc = "idle"
  BY Names DEF SchedInv, CreateCount, Statuses, history, CallPC, At
<1>2. StatusOnly(t) /\ status'[t] = "ready" /\ claim'[t] = None
  BY <1>1, SetFacts
<1>3. /\ \A u : u \in ToSet(tasks') <=> u \in ToSet(tasks) \/ u = t
      /\ tasks' \in Seq(Tasks) /\ todo \in Seq(Tasks) /\ todo # <<>>
  BY <1>1, AppendSet DEF Typed
<1> HIDE DEF todo
<1>4. OnlyCall(c) /\ call'[c].pc = "creating" /\ call'[c].todo = todo
  BY <1>1, <1>3, MoveFacts
<1>5. Typed'
  <2>1. calls' \in 0 .. MaxCalls
    BY <1>1, BeginsFacts DEF CreateCount
  <2> QED
    BY <1>1, <1>2, <1>3, <1>4, <2>1 DEF Typed, StatusOnly, OnlyCall, CreateCount, history
<1>6. \A d \in Goroutines : CallOK(d)'
  <2>1. CallOK(c)' /\ LockOf(c)
    BY <1>1, <1>3, <1>4, InsideOK DEF LockPCs, LockOf
  <2> QED
    BY <1>1, <1>4, <2>1, CallsKept
<1>7. ListOnce'
  <2>1. \A u \in Tasks : status'[u] = "new" => status[u] = "new"
    BY <1>2 DEF StatusOnly
  <2>2. \A d \in Goroutines : At(d, "deleting")' => At(d, "deleting") /\ call'[d] = call[d]
    BY <1>4 DEF At, OnlyCall
  <2>3. \A d \in Goroutines : At(d, "deleting")' =>
           /\ At(d, "deleting") /\ IsInjective(call'[d].todo)
           /\ ToSet(call'[d].todo) \subseteq ToSet(call[d].todo) \ {t}
    BY <1>1, <2>2, NewTask
  <2> QED
    BY <1>1, <1>2, <2>1, <2>3, NewTask, OnceAppend
<1>8. LimitKept' /\ RoomKept'
  <2>1. NoneStarts
    BY <1>1, <1>2, <1>3, ListTasks DEF NoneStarts, StatusOnly
  <2> QED
    BY <1>1, <2>1, SlotTaken
<1>9. VictimsWait'
  BY <1>1, <1>2, <1>4, CallVictim DEF StatusOnly
<1>10. WaitHeld'
  <2>1. \A d \in Goroutines : \A u : Holds(d, u) => Holds(d, u)'
    BY <1>1, <1>4 DEF Holds, OnlyCall
  <2> QED
    BY <1>1, <1>2, <1>3, <2>1, ListTasks DEF SchedInv, WaitHeld, StatusOnly
<1> QED
  BY <1>5, <1>6, <1>7, <1>8, <1>9, <1>10 DEF SchedInv

\* CreateStart starts the task, in its slot.
LEMMA CreateStartStep ==
  ASSUME SchedInv, NEW c \in Callers, CreateStart(c)
  PROVE  SchedInv'
<1> DEFINE t == Next1(c)
<1>1. /\ c \in Goroutines /\ Typed /\ CallOK(c) /\ call[c].pc = "creating"
      /\ DoStart(t) /\ Return(c) /\ dlock = c /\ dlock' = None
      /\ tasks' = tasks /\ waitTasks' = waitTasks /\ maxRunning' = maxRunning
      /\ breached' = breached /\ lost' = lost
  BY Names DEF SchedInv, CreateStart, At, CallOK, LockPCs, lists, history
<1>2. t \in Tasks
  BY <1>1, TailSet DEF Next1, CallOK, TodoPCs, Typed, Calls
<1> HIDE DEF t
<1>3. OnlyCall(c) /\ call'[c].pc \in {"idle", "hook_end"}
  BY <1>1, ReturnFacts
<1>4. \A u : ~ Holds(c, u)
  BY <1>1 DEF Holds
<1>5. StatusOnly(t) /\ ListOnce' /\ WaitHeld' /\ VictimsWait'
  BY <1>1, <1>2, <1>3, <1>4, StartStep
<1>6. Typed'
  BY <1>1, <1>3, <1>5 DEF Typed, OnlyCall, StatusOnly, CreateStart, history
<1>7. \A d \in Goroutines : CallOK(d)'
  <2>1. CallOK(c)' /\ LockOf(c)
    BY <1>1, <1>3, Names, OutsideOK DEF LockPCs, TodoPCs, LockOf
  <2> QED
    BY <1>1, <1>3, <2>1, CallsKept
<1>8. LimitKept' /\ RoomKept'
  BY <1>1, <1>2, <1>3, <1>5, SlotUsed
<1> QED
  BY <1>5, <1>6, <1>7, <1>8 DEF SchedInv

-----------------------------------------------------------------------------
\* notifyRunning

\* A step that moves no call, list or limit, and lets no task run or wait.
LEMMA StillStep ==
  ASSUME SchedInv, Typed', UNCHANGED <<tasks, waitTasks, maxRunning, dlock, call, breached, lost>>,
         \A t \in Tasks : status'[t] = status[t] \/ status'[t] \notin {"new", "running", "wait"},
         \A t \in Tasks : \/ claim'[t] = None
                          \/ status'[t] = status[t] /\ claim'[t] = claim[t]
  PROVE  SchedInv'
<1>1. Typed /\ ToSet(tasks) \subseteq Tasks
  BY ListTasks DEF SchedInv
<1>2. \A d \in Goroutines : CallOK(d)'
  BY DEF SchedInv, CallOK, Next1
<1>3. ListOnce'
  BY OnceStep
<1>4. LimitKept' /\ RoomKept'
  <2>1. NoneStarts
    BY <1>1 DEF NoneStarts
  <2> QED
    BY <2>1, LimitStep
<1>5. VictimsWait'
  BY VictimStep
<1>6. WaitHeld'
  <2>1. \A d \in Goroutines : \A u : Holds(d, u) => Holds(d, u)'
    BY DEF Holds
  <2> QED
    BY <1>1, <2>1 DEF SchedInv, WaitHeld
<1> QED
  BY <1>2, <1>3, <1>4, <1>5, <1>6 DEF SchedInv

\* NotifyNothing.
LEMMA NotifyNothingStep ==
  ASSUME SchedInv, NotifyNothing
  PROVE  SchedInv'
<1>1. Typed'
  BY DEF SchedInv, NotifyNothing, Typed, lists, history
<1> QED
  BY <1>1, StillStep DEF NotifyNothing, lists, history

\* NotifyPop takes the head of the queue and a slot for it.
LEMMA NotifyPopStep ==
  ASSUME SchedInv, NotifyPop
  PROVE  SchedInv'
<1> DEFINE c == Notifier
           queue == Tail(waitTasks)
<1>0. PICK h : h = Head(waitTasks)
  OBVIOUS
<1> DEFINE todo == <<h>>
<1>1. /\ c \in Goroutines /\ Typed /\ CallOK(c) /\ "notified" \in CallPC
      /\ waitTasks' = queue /\ waitTasks # <<>> /\ waitTasks \in Seq(Tasks)
      /\ tasks' = tasks /\ maxRunning' = maxRunning /\ status' = status /\ claim' = claim
      /\ dlock = None /\ dlock' = c /\ breached' = breached /\ lost' = lost
      /\ RemainRunningCount # 0 /\ Become(c, "notified", todo, <<>>, 0)
  BY <1>0, Names DEF SchedInv, NotifyPop, CallPC, Typed, history
<1>2. call[c].pc = "idle" /\ call[c].hook = None
  BY <1>1, Names DEF CallOK, LockPCs
<1>3. /\ h \in Tasks /\ queue \in Seq(Tasks) /\ todo \in Seq(Tasks) /\ todo # <<>>
      /\ \A x : x \in ToSet(waitTasks) <=> x = h \/ x \in ToSet(queue)
  BY <1>0, <1>1, TailSet
<1>4. h \in ToSet(todo) /\ h = Head(todo) /\ \A x \in ToSet(todo) : x = h
  BY <1>3 DEF ToSet
<1> HIDE DEF todo, queue
<1>5. OnlyCall(c) /\ call'[c].pc = "notified" /\ call'[c].todo = todo /\ call'[c].hook = None
  BY <1>1, <1>2, <1>3, MoveFacts
<1>6. Typed'
  BY <1>1, <1>3, <1>5 DEF Typed, OnlyCall, NotifyPop
<1>7. \A d \in Goroutines : CallOK(d)'
  <2>1. CallOK(c)' /\ LockOf(c)
    BY <1>1, <1>3, <1>4, <1>5, Names DEF CallOK, LockPCs, TodoPCs, LockOf, Next1
  <2> QED
    BY <1>1, <1>5, <2>1, CallsKept
<1>8. ListOnce'
  <2>1. \A d \in Goroutines : call'[d].pc = "deleting" => call'[d] = call[d]
    BY <1>5 DEF OnlyCall
  <2> QED
    BY <1>1, <2>1, OnceStep
<1>9. LimitKept' /\ RoomKept'
  <2>1. NoneStarts
    BY <1>1 DEF NoneStarts
  <2> QED
    BY <1>1, <2>1, SlotTaken
<1>10. VictimsWait'
  BY <1>1, <1>2, <1>5, CallVictim
<1>11. WaitHeld'
  <2>1. Holds(c, h)' /\ \A u : ~ Holds(c, u)
    BY <1>2, <1>4, <1>5 DEF Holds
  <2>2. \A u \in ToSet(tasks) : StillHeld(c, u)
    BY <1>1, <1>3, <2>1 DEF StillHeld
  <2> QED
    BY <1>1, <1>5, <2>2, WaitStep
<1> QED
  BY <1>6, <1>7, <1>8, <1>9, <1>10, <1>11 DEF SchedInv

\* NotifyStart starts it, or loses it.
LEMMA NotifyStartStep ==
  ASSUME SchedInv, NotifyStart
  PROVE  SchedInv'
<1> DEFINE c == Notifier
<1>0. PICK t : t = Next1(Notifier)
  OBVIOUS
<1>1. /\ c \in Goroutines /\ Typed /\ CallOK(c) /\ call[c].pc = "notified" /\ Return(c)
      /\ dlock = c /\ dlock' = None /\ tasks' = tasks /\ waitTasks' = waitTasks
      /\ maxRunning' = maxRunning /\ breached' = breached
      /\ \/ DoStart(t) /\ lost' = lost
         \/ lost' = lost \cup {t} /\ UNCHANGED <<status, claim>>
  BY <1>0, Names DEF SchedInv, NotifyStart, At, CallOK, LockPCs, lists
<1>2. /\ call[c].hook = None /\ t \in Tasks /\ \A u : Holds(c, u) => u = t
  <2>1. /\ call[c].todo # <<>> /\ call[c].hook = None
        /\ \A u \in ToSet(call[c].todo) : u = t
    BY <1>0, <1>1 DEF CallOK, TodoPCs
  <2>2. call[c].todo \in Seq(Tasks)
    BY <1>1 DEF Typed, Calls
  <2> QED
    BY <1>0, <1>1, <2>1, <2>2, TailSet DEF Holds, Next1
<1>3. OnlyCall(c) /\ call'[c].pc = "idle" /\ call'[c].hook = None
  BY <1>1, <1>2, ReturnFacts
<1>4. \A d \in Goroutines : CallOK(d)'
  <2>1. CallOK(c)' /\ LockOf(c)
    BY <1>1, <1>3, Names DEF CallOK, LockPCs, TodoPCs, LockOf
  <2> QED
    BY <1>1, <1>3, <2>1, CallsKept
<1>5. CASE DoStart(t) /\ lost' = lost
  <2>1. StatusOnly(t) /\ ListOnce' /\ WaitHeld' /\ VictimsWait'
    BY <1>1, <1>2, <1>3, <1>5, StartStep
  <2>2. Typed'
    BY <1>1, <1>3, <1>5, <2>1 DEF Typed, OnlyCall, StatusOnly, NotifyStart
  <2>3. LimitKept' /\ RoomKept'
    BY <1>1, <1>2, <1>3, <2>1, SlotUsed
  <2> QED
    BY <1>4, <2>1, <2>2, <2>3 DEF SchedInv
<1>6. CASE lost' = lost \cup {t} /\ UNCHANGED <<status, claim>>
  <2>1. Typed'
    BY <1>1, <1>2, <1>3, <1>6 DEF Typed, OnlyCall, NotifyStart
  <2>2. CallOK(c)' /\ LockOf(c)
    BY <1>1, <1>4 DEF LockOf
  <2>3. VictimsWait'
    BY <1>1, <1>3, <1>6, CallVictim
  <2>4. \A u \in ToSet(tasks) : StillHeld(c, u)
    BY <1>1, <1>2, <1>6 DEF StillHeld
  <2> QED
    BY <1>1, <1>3, <1>6, <2>1, <2>2, <2>3, <2>4, QuietStep
<1> QED
  BY <1>1, <1>5, <1>6

-----------------------------------------------------------------------------
\* Running tasks, hooks and the configuration

\* Finish.
LEMMA FinishStep ==
  ASSUME SchedInv, NEW t \in Tasks, Finish(t)
  PROVE  SchedInv'
<1>1. /\ Typed /\ {"done", "error"} \subseteq Statuses /\ None \in Callers \cup {None}
      /\ SetStatus(t, "done", None) \/ SetStatus(t, "error", None)
  BY DEF SchedInv, Finish, Statuses
<1>2. StatusOnly(t) /\ status'[t] \in {"done", "error"} /\ claim'[t] = None
  <2>1. CASE SetStatus(t, "done", None)
    BY <1>1, <2>1, SetFacts
  <2>2. CASE SetStatus(t, "error", None)
    BY <1>1, <2>2, SetFacts
  <2> QED
    BY <1>1, <2>1, <2>2
<1>3. Typed'
  BY <1>1, <1>2 DEF Typed, StatusOnly, Finish, lists, history
<1> QED
  BY <1>2, <1>3, StillStep DEF StatusOnly, Finish, lists, history

\* HookBegins: the hook runs for a task that has failed.
LEMMA HookBeginsStep ==
  ASSUME SchedInv, NEW h \in Hooks, NEW t \in Tasks, HookBegins(h, t)
  PROVE  SchedInv'
<1> DEFINE r == Call("hooked", <<>>, <<>>, 0, t)
<1>1. /\ h \in Callers /\ h \in Goroutines /\ Typed /\ CallOK(h) /\ call[h].pc = "idle"
      /\ SetStatus(t, "error", None) /\ "error" \in Statuses /\ None \in Callers \cup {None}
      /\ call' = [call EXCEPT ![h] = r] /\ call \in [Goroutines -> Calls]
      /\ calls < MaxCalls /\ calls' = calls + 1 /\ dlock' = dlock
  BY Names DEF SchedInv, HookBegins, At, Statuses, Typed
<1>2. r \in Calls /\ r.pc = "hooked"
  <2> DEFINE none == <<>>
             zero == 0
  <2>1. none \in Seq(Tasks) /\ zero \in Int /\ "hooked" \in CallPC /\ t \in Tasks \cup {None}
    BY DEF CallPC
  <2>2. r = Call("hooked", none, none, zero, t)
    OBVIOUS
  <2> HIDE DEF none, zero, r
  <2> QED
    BY <2>1, <2>2 DEF Call, Calls
<1> HIDE DEF r
<1>3. OnlyCall(h) /\ call'[h].pc = "hooked"
  BY <1>1, <1>2 DEF OnlyCall
<1>4. StatusOnly(t) /\ status'[t] = "error" /\ claim'[t] = None
  BY <1>1, SetFacts
<1>5. Typed'
  <2>1. calls' \in 0 .. MaxCalls
    BY <1>1, CallAssumption DEF Typed
  <2> QED
    BY <1>1, <1>3, <1>4, <2>1 DEF Typed, OnlyCall, StatusOnly, HookBegins, lists, history
<1>6. CallOK(h)' /\ LockOf(h)
  <2>1. dlock # h
    BY <1>1 DEF CallOK, LockPCs
  <2> QED
    BY <1>1, <1>3, <2>1, OutsideOK DEF LockPCs, TodoPCs, LockOf
<1>7. VictimsWait'
  BY <1>1, <1>3, <1>4, CallVictim DEF StatusOnly
<1>8. \A u \in ToSet(tasks) : StillHeld(h, u)
  <2>1. \A u : ~ Holds(h, u)
    BY <1>1 DEF Holds
  <2> QED
    BY <1>1, <1>4, <2>1, ListTasks DEF StillHeld, StatusOnly, HookBegins, lists, history
<1>9. \A u \in Tasks : status'[u] = status[u] \/ status'[u] \notin {"new", "running"}
  BY <1>4 DEF StatusOnly
<1> QED
  BY <1>1, <1>3, <1>5, <1>6, <1>7, <1>8, <1>9, QuietStep DEF HookBegins, lists, history

\* HookEnds.
LEMMA HookEndsStep ==
  ASSUME SchedInv, NEW h \in Hooks, HookEnds(h)
  PROVE  SchedInv'
<1>1. /\ h \in Callers /\ h \in Goroutines /\ Typed /\ CallOK(h) /\ call[h].pc = "hook_end"
      /\ call' = [call EXCEPT ![h] = Idle] /\ call \in [Goroutines -> Calls] /\ dlock' = dlock
  BY Names DEF SchedInv, HookEnds, At, Typed
<1>2. OnlyCall(h) /\ call'[h].pc = "idle"
  BY <1>1, IdleFacts DEF OnlyCall
<1>3. Typed'
  BY <1>1, <1>2 DEF Typed, OnlyCall, HookEnds, lists, history
<1>4. CallOK(h)' /\ LockOf(h)
  <2>1. dlock # h
    BY <1>1 DEF CallOK, LockPCs
  <2> QED
    BY <1>1, <1>2, <2>1, OutsideOK DEF LockPCs, TodoPCs, LockOf
<1>5. VictimsWait'
  BY <1>1, <1>2, CallVictim DEF HookEnds
<1>6. \A t \in ToSet(tasks) : StillHeld(h, t)
  BY <1>1, StillThere DEF Holds, HookEnds, lists, history
<1> QED
  BY <1>1, <1>2, <1>3, <1>4, <1>5, <1>6, QuietStep DEF HookEnds, lists, history

\* PutConfig: a limit that too many tasks exceed, or that comes between a count
\* and its start, is a breach.
LEMMA PutConfigStep ==
  ASSUME SchedInv, NEW n \in Limits, PutConfig(n)
  PROVE  SchedInv'
<1>1. /\ Typed /\ UNCHANGED <<status, tasks, waitTasks, dlock, call, claim, notes, lost>>
      /\ maxRunning' = n /\ calls < MaxCalls /\ calls' = calls + 1
      /\ breached' = (breached \/ n < Cardinality(Running) \/ dlock # None)
  BY DEF SchedInv, PutConfig
<1>2. Typed'
  BY <1>1, CallAssumption DEF Typed
<1>3. \A d \in Goroutines : CallOK(d)'
  BY <1>1 DEF SchedInv, CallOK, Next1
<1>4. ListOnce'
  BY <1>1, OnceStep
<1>5. LimitKept' /\ RoomKept'
  <2> DEFINE over == n < Cardinality(Running)
  <2>1. over \in BOOLEAN /\ breached' = (breached \/ over \/ dlock # None)
    BY <1>1
  <2>2. Running' = Running
    BY <1>1 DEF Running
  <2>3. ~ over => Cardinality(Running') <= maxRunning'
    BY <1>1, <2>2, RunningFinite, CallAssumption
  <2> HIDE DEF over
  <2>4. breached' \/ (~ over /\ dlock = None)
    BY <2>1, Zenon
  <2>5. dlock = None => \A d \in Goroutines : call'[d].pc \notin {"creating", "notified"}
    BY <1>1, Names DEF SchedInv, CallOK, LockPCs
  <2> QED
    BY <2>3, <2>4, <2>5 DEF LimitKept, RoomKept
<1>6. VictimsWait'
  BY <1>1, VictimStep
<1>7. WaitHeld'
  <2>1. \A d \in Goroutines : \A u : Holds(d, u) => Holds(d, u)'
    BY <1>1 DEF Holds
  <2> QED
    BY <1>1, <2>1 DEF SchedInv, WaitHeld
<1> QED
  BY <1>2, <1>3, <1>4, <1>5, <1>6, <1>7 DEF SchedInv

-----------------------------------------------------------------------------
\* Delete

\* DeleteReturn.
LEMMA DeleteReturnStep ==
  ASSUME SchedInv, NEW c \in Callers, DeleteReturn(c)
  PROVE  SchedInv'
<1>1. /\ c \in Goroutines /\ Typed /\ CallOK(c) /\ call[c].pc = "deleting" /\ Return(c)
      /\ dlock' = dlock
  BY Names DEF SchedInv, DeleteReturn, At
<1>2. OnlyCall(c) /\ call'[c].pc \in {"idle", "hook_end"}
  BY <1>1, ReturnFacts
<1>3. Typed'
  BY <1>1, <1>2 DEF Typed, OnlyCall, DeleteReturn, lists, history
<1>4. CallOK(c)' /\ LockOf(c)
  <2>1. dlock # c
    BY <1>1 DEF CallOK, LockPCs
  <2> QED
    BY <1>1, <1>2, <2>1, OutsideOK DEF LockPCs, TodoPCs, LockOf
<1>5. VictimsWait'
  BY <1>1, <1>2, CallVictim DEF DeleteReturn
<1>6. \A t \in ToSet(tasks) : StillHeld(c, t)
  BY <1>1, StillThere DEF Holds, DeleteReturn, lists, history
<1> QED
  BY <1>1, <1>2, <1>3, <1>4, <1>5, <1>6, QuietStep DEF DeleteReturn, lists, history

\* What the deletion of the next task leaves.
LEMMA NextDeleted ==
  ASSUME SchedInv, NEW c \in Callers, call[c].pc = "deleting", call[c].todo # <<>>,
         Become(c, "deleting", Later(c), call[c].rest, 0), dlock' = dlock
  PROVE  /\ OnlyCall(c) /\ call'[c].pc = "deleting" /\ call'[c].todo = Tail(call[c].todo)
         /\ \A d \in Goroutines : CallOK(d)'
         /\ \A d \in Goroutines : At(d, "deleting")' =>
              /\ At(d, "deleting") /\ IsInjective(call'[d].todo)
              /\ ToSet(call'[d].todo) \subseteq ToSet(call[d].todo) \ {Next1(c)}
<1> DEFINE todo == call[c].todo
           later == Tail(todo)
           rest == call[c].rest
<1>0. c \in Goroutines /\ Typed /\ CallOK(c) /\ ListOnce
  BY Names DEF SchedInv
<1>1. /\ todo \in Seq(Tasks) /\ later \in Seq(Tasks) /\ rest \in Seq(Tasks) /\ "deleting" \in CallPC
      /\ Head(todo) = Next1(c) /\ Next1(c) \in ToSet(todo) /\ ToSet(todo) \subseteq Tasks
      /\ \A x : x \in ToSet(todo) <=> x = Next1(c) \/ x \in ToSet(later)
      /\ IsInjective(todo) => IsInjective(later) /\ Next1(c) \notin ToSet(later)
  BY <1>0, TailSet, ElementsFinite DEF Typed, Calls, Next1, CallPC
<1>2. IsInjective(todo) /\ \A d \in Goroutines \ {c} : At(d, "deleting") => Next1(c) \notin ToSet(call[d].todo)
  BY <1>0, <1>1 DEF ListOnce, At
<1>3. Become(c, "deleting", later, rest, 0)
  BY DEF Later
<1>4. \A d \in Goroutines : At(d, "deleting") => IsInjective(call[d].todo)
  BY <1>0 DEF ListOnce
<1> HIDE DEF todo, later, rest
<1>5. OnlyCall(c) /\ call'[c].pc = "deleting" /\ call'[c].todo = later
  BY <1>0, <1>1, <1>3, RestFacts
<1>6. \A d \in Goroutines : CallOK(d)'
  <2>1. CallOK(c)' /\ LockOf(c)
    <3>1. dlock # c
      BY <1>0 DEF CallOK, LockPCs
    <3> QED
      BY <1>5, <3>1, OutsideOK DEF LockPCs, TodoPCs, LockOf
  <2> QED
    BY <1>0, <1>5, <2>1, CallsKept
<1>7. ASSUME NEW d \in Goroutines, At(d, "deleting")'
      PROVE  /\ At(d, "deleting") /\ IsInjective(call'[d].todo)
             /\ ToSet(call'[d].todo) \subseteq ToSet(call[d].todo) \ {Next1(c)}
  <2>1. CASE d = c
    BY <1>1, <1>2, <1>5, <2>1 DEF At, todo
  <2>2. CASE d # c
    <3>1. call'[d] = call[d] /\ At(d, "deleting")
      BY <1>5, <1>7, <2>2 DEF OnlyCall, At
    <3> QED
      BY <1>2, <1>4, <2>2, <3>1
  <2> QED
    BY <2>1, <2>2
<1> QED
  BY <1>5, <1>6, <1>7 DEF later, todo

\* DeleteOne: the next task is gone.
LEMMA DeleteOneStep ==
  ASSUME SchedInv, NEW c \in Callers, DeleteOne(c)
  PROVE  SchedInv'
<1>1. /\ c \in Goroutines /\ Typed /\ ListOnce /\ call[c].pc = "deleting" /\ call[c].todo # <<>>
      /\ Become(c, "deleting", Later(c), call[c].rest, 0) /\ dlock' = dlock
      /\ tasks' = tasks /\ waitTasks' = waitTasks /\ maxRunning' = maxRunning
      /\ status' = status /\ claim' = claim /\ breached' = breached /\ lost' = lost
  BY Names DEF SchedInv, DeleteOne, At, lists, history
<1>2. /\ OnlyCall(c) /\ call'[c].pc = "deleting"
      /\ \A d \in Goroutines : CallOK(d)'
      /\ \A d \in Goroutines : At(d, "deleting")' =>
           /\ At(d, "deleting") /\ IsInjective(call'[d].todo)
           /\ ToSet(call'[d].todo) \subseteq ToSet(call[d].todo)
  BY <1>1, NextDeleted
<1>3. Typed'
  BY <1>1, <1>2 DEF Typed, OnlyCall, DeleteOne
<1>4. ListOnce'
  BY <1>1, <1>2 DEF ListOnce
<1>5. LimitKept' /\ RoomKept'
  <2>1. NoneStarts
    BY <1>1 DEF NoneStarts
  <2>2. \A d \in Goroutines : call'[d].pc \in {"creating", "notified"} => call'[d].pc = call[d].pc
    BY <1>2 DEF OnlyCall
  <2> QED
    BY <1>1, <2>1, <2>2, LimitStep
<1>6. VictimsWait'
  BY <1>1, <1>2, CallVictim
<1>7. WaitHeld'
  <2>1. \A t \in ToSet(tasks) : StillHeld(c, t)
    BY <1>1, StillThere DEF Holds
  <2> QED
    BY <1>1, <1>2, <2>1, WaitStep
<1> QED
  BY <1>2, <1>3, <1>4, <1>5, <1>6, <1>7 DEF SchedInv

\* DeleteFails: the task is in the list again, a breach if it runs, and lost if
\* it is not on the queue.
LEMMA DeleteFailsStep ==
  ASSUME SchedInv, NEW c \in Callers, DeleteFails(c)
  PROVE  SchedInv'
<1>0. PICK t : t = Next1(c)
  OBVIOUS
<1>1. /\ c \in Goroutines /\ Typed /\ CallOK(c) /\ ListOnce /\ call[c].pc = "deleting"
      /\ call[c].todo # <<>> /\ Become(c, "deleting", Later(c), call[c].rest, 0)
      /\ dlock' = dlock /\ tasks' = Append(tasks, t)
      /\ waitTasks' \in {waitTasks, Append(waitTasks, t)} /\ maxRunning' = maxRunning
      /\ status' = status /\ claim' = claim
      /\ breached' = (breached \/ status[t] = "running")
      /\ lost' = lost \cup ({t} \ ToSet(waitTasks'))
  BY <1>0, Names DEF SchedInv, DeleteFails, At
<1>2. /\ t \in Tasks /\ t \in ToSet(call[c].todo) /\ t \notin ToSet(tasks) /\ status[t] # "new"
  <2>1. call[c].todo \in Seq(Tasks)
    BY <1>1 DEF Typed, Calls
  <2>2. t \in Tasks /\ t \in ToSet(call[c].todo)
    BY <1>0, <1>1, <2>1, TailSet DEF Next1
  <2> QED
    BY <1>1, <2>2 DEF ListOnce, At
<1>3. /\ OnlyCall(c) /\ call'[c].pc = "deleting"
      /\ \A d \in Goroutines : CallOK(d)'
      /\ \A d \in Goroutines : At(d, "deleting")' =>
           /\ At(d, "deleting") /\ IsInjective(call'[d].todo)
           /\ ToSet(call'[d].todo) \subseteq ToSet(call[d].todo) \ {t}
  BY <1>0, <1>1, NextDeleted
<1>4. /\ \A u : u \in ToSet(tasks') <=> u \in ToSet(tasks) \/ u = t
      /\ ToSet(waitTasks) \subseteq ToSet(waitTasks')
      /\ tasks' \in Seq(Tasks) /\ waitTasks' \in Seq(Tasks)
  <2>1. tasks \in Seq(Tasks) /\ waitTasks \in Seq(Tasks)
    BY <1>1 DEF Typed
  <2>2. \A u : u \in ToSet(tasks') <=> u \in ToSet(tasks) \/ u = t
    BY <1>1, <1>2, <2>1, AppendSet
  <2>3. \A u : u \in ToSet(Append(waitTasks, t)) <=> u \in ToSet(waitTasks) \/ u = t
    BY <1>2, <2>1, AppendSet
  <2>4. tasks' \in Seq(Tasks)
    BY <1>1, <1>2, <2>1
  <2>5. CASE waitTasks' = waitTasks
    BY <2>1, <2>2, <2>4, <2>5, Zenon
  <2>6. CASE waitTasks' = Append(waitTasks, t)
    <3>1. waitTasks' \in Seq(Tasks)
      BY <1>2, <2>1, <2>6
    <3>2. \A u : u \in ToSet(waitTasks') <=> u \in ToSet(waitTasks) \/ u = t
      BY <2>3, <2>6, Zenon
    <3> QED
      BY <2>2, <2>4, <3>1, <3>2, Zenon
  <2> QED
    BY <1>1, <2>5, <2>6
<1>5. Typed'
  BY <1>1, <1>2, <1>3, <1>4 DEF Typed, OnlyCall, DeleteFails
<1>6. ListOnce'
  BY <1>1, <1>2, <1>3, OnceAppend
<1>7. LimitKept' /\ RoomKept'
  <2>1. CASE breached'
    BY <2>1 DEF LimitKept, RoomKept
  <2>2. CASE ~ breached'
    <3>1. ~ breached /\ status[t] # "running"
      BY <1>1, <2>2
    <3>2. NoneStarts
      BY <1>1, <1>4, <3>1 DEF NoneStarts
    <3>3. \A d \in Goroutines : call'[d].pc \in {"creating", "notified"} => call'[d].pc = call[d].pc
      BY <1>3 DEF OnlyCall
    <3> QED
      BY <1>1, <3>1, <3>2, <3>3, LimitStep
  <2> QED
    BY <2>1, <2>2
<1>8. VictimsWait'
  BY <1>1, <1>3, CallVictim
<1>9. WaitHeld'
  <2>1. \A d \in Goroutines : \A u : Holds(d, u) => Holds(d, u)'
    BY <1>1, <1>3 DEF Holds, OnlyCall
  <2>2. ASSUME NEW u \in ToSet(tasks'), u \notin lost', status'[u] = "wait"
        PROVE  u \in ToSet(waitTasks') \/ \E d \in Goroutines : Holds(d, u)'
    <3>1. CASE u = t
      BY <3>1, <2>2, <1>1
    <3>2. CASE u # t
      <4>1. u \in ToSet(tasks) \ lost /\ status[u] = "wait"
        BY <3>2, <2>2, <1>1, <1>4
      <4>2. u \in ToSet(waitTasks) \/ \E d \in Goroutines : Holds(d, u)
        BY <4>1 DEF SchedInv, WaitHeld
      <4> QED
        BY <4>2, <2>1, <1>4
    <3> QED
      BY <3>1, <3>2
  <2> QED
    BY <2>2 DEF WaitHeld
<1> QED
  BY <1>3, <1>5, <1>6, <1>7, <1>8, <1>9 DEF SchedInv

\* A compacted array is as long as before.
LEMMA ShiftFacts ==
  ASSUME NEW array \in Seq(Tasks), NEW kept \in Seq(Tasks)
  PROVE  Shifted(array, kept) \in Seq(Tasks) /\ Len(Shifted(array, kept)) = Len(array)
<1>1. DOMAIN array = 1 .. Len(array) /\ Len(array) \in Nat /\ Len(kept) \in Nat
  OBVIOUS
<1>2. \A i \in 1 .. Len(array) : i <= Len(kept) => kept[i] \in Tasks
  BY <1>1
<1>3. Shifted(array, kept) \in [1 .. Len(array) -> Tasks]
  BY <1>1, <1>2 DEF Shifted
<1> QED
  BY <1>1, <1>3

\* What a walk will not meet any more is missed.
LEMMA MissedFacts ==
  ASSUME NEW array \in Seq(Tasks), NEW new \in Seq(Tasks), Len(new) = Len(array),
         NEW n \in 1 .. Len(array)
  PROVE  /\ Missed(array, new, n) \subseteq Tasks
         /\ \A i \in n .. Len(array) :
              array[i] \in Missed(array, new, n) \/ \E j \in n .. Len(new) : new[j] = array[i]
<1> DEFINE k == Len(array)
<1>1. k \in Nat /\ n \in Int /\ k \in Int /\ 1 <= n /\ n <= k /\ 0 <= k
  OBVIOUS
<1>2. k = Len(array) /\ k = Len(new)
  OBVIOUS
<1> HIDE DEF k
<1>3. n <= k + 1
  BY <1>1
<1>4. /\ SubSeq(array, n, k) \in Seq(Tasks)
      /\ \A x : x \in ToSet(SubSeq(array, n, k)) <=> \E i \in n .. k : array[i] = x
  BY <1>1, <1>2, <1>3, PartSet
<1>5. /\ \A x : x \in ToSet(SubSeq(new, n, k)) <=> \E i \in n .. k : new[i] = x
  BY <1>1, <1>2, <1>3, PartSet
<1>6. ToSet(SubSeq(array, n, k)) \subseteq Tasks
  BY <1>4, ElementsFinite
<1>7. Missed(array, new, n) = ToSet(SubSeq(array, n, k)) \ ToSet(SubSeq(new, n, k))
  BY <1>2 DEF Missed
<1> QED
  BY <1>2, <1>4, <1>5, <1>6, <1>7

\* DeleteRemove takes its tasks off the list and the queue, and may shift the
\* array under the calls that walk over it.
LEMMA DeleteRemoveStep ==
  ASSUME SchedInv, NEW c \in Callers, NEW S, DeleteRemove(c, S)
  PROVE  SchedInv'
<1> DEFINE todo == Filter(S, {})
           gone == ToSet(todo)
           kept == Without(tasks, gone)
           queued == Keep(waitTasks, gone)
           Walking(shared) == {w \in Callers : At(w, "sweeping") /\ shared}
           new(w) == Shifted(call[w].todo, kept)
           first == Call("deleting", todo, queued, 0, None)
           moved(w) == Call("sweeping", new(w), <<>>, call[w].n, None)
<1>1. /\ c \in Goroutines /\ Typed /\ CallOK(c) /\ ListOnce /\ call[c].pc = "idle"
      /\ todo # <<>> /\ tasks' = kept /\ waitTasks' = Without(waitTasks, gone)
      /\ dlock = None /\ dlock' = None /\ maxRunning' = maxRunning /\ breached' = breached
      /\ status' = status /\ claim' = claim /\ Begins(c) /\ notes' = notes
  BY Names DEF SchedInv, DeleteRemove, At
<1>2. PICK shared \in BOOLEAN :
        /\ call' = [w \in Goroutines |->
             IF w = c THEN first ELSE IF w \in Walking(shared) THEN moved(w) ELSE call[w]]
        /\ lost' = lost \cup UNION {Missed(call[w].todo, new(w), call[w].n) : w \in Walking(shared)}
  BY DEF DeleteRemove
<1> DEFINE walking == Walking(shared)
<1>3. /\ todo \in Seq(Tasks) /\ queued \in Seq(Tasks) /\ kept \in Seq(Tasks)
      /\ IsInjective(todo) /\ IsInjective(kept) /\ waitTasks' \in Seq(Tasks)
      /\ \A t : t \in ToSet(kept) <=> t \in ToSet(tasks) /\ t \notin gone
      /\ \A t : t \in ToSet(waitTasks') <=> t \in ToSet(waitTasks) /\ t \notin gone
      /\ gone \subseteq ToSet(tasks)
  <2>1. tasks \in Seq(Tasks) /\ waitTasks \in Seq(Tasks) /\ IsInjective(tasks)
    BY <1>1 DEF Typed, ListOnce
  <2>2. todo \in Seq(Tasks) /\ IsInjective(todo) /\ gone \subseteq ToSet(tasks)
    BY <1>1, <2>1, FilterFacts
  <2>3. queued \in Seq(Tasks)
    BY <2>1, KeepFacts
  <2> HIDE DEF gone
  <2>4. /\ kept \in Seq(Tasks) /\ IsInjective(kept)
        /\ \A t : t \in ToSet(kept) <=> t \in ToSet(tasks) /\ t \notin gone
    BY <2>1, WithoutFacts
  <2>5. /\ waitTasks' \in Seq(Tasks)
        /\ \A t : t \in ToSet(waitTasks') <=> t \in ToSet(waitTasks) /\ t \notin gone
    BY <1>1, <2>1, WithoutFacts
  <2> QED
    BY <2>2, <2>3, <2>4, <2>5
<1>4. /\ gone = ToSet(todo) /\ walking = {w \in Callers : At(w, "sweeping") /\ shared}
      /\ \A w : new(w) = Shifted(call[w].todo, kept)
  OBVIOUS
<1> HIDE DEF todo, gone, kept, queued, Walking, walking, new
<1>5. /\ first \in Calls /\ first.pc = "deleting" /\ first.todo = todo
  <2> DEFINE zero == 0
  <2>1. "deleting" \in CallPC /\ zero \in Int /\ None \in Tasks \cup {None}
    BY DEF CallPC
  <2>2. first = Call("deleting", todo, queued, zero, None)
    OBVIOUS
  <2> HIDE DEF zero, first
  <2> QED
    BY <1>3, <2>1, <2>2 DEF Call, Calls
<1>6. ASSUME NEW w \in walking
      PROVE  /\ w \in Callers /\ w \in Goroutines /\ w # c /\ call[w].pc = "sweeping"
             /\ call[w].todo \in Seq(Tasks) /\ call[w].n \in 1 .. Len(call[w].todo)
             /\ new(w) \in Seq(Tasks) /\ Len(new(w)) = Len(call[w].todo)
             /\ moved(w) \in Calls /\ moved(w).pc = "sweeping" /\ moved(w).todo = new(w)
             /\ moved(w).n = call[w].n
  <2>1. w \in Callers /\ w \in Goroutines /\ w # c /\ call[w].pc = "sweeping"
    BY <1>1, <1>4, Names DEF At
  <2>2. /\ call[w].todo \in Seq(Tasks) /\ call[w].n \in 1 .. Len(call[w].todo)
        /\ call[w].n \in Int
    BY <1>1, <2>1 DEF SchedInv, Typed, Calls, CallOK
  <2>3. new(w) \in Seq(Tasks) /\ Len(new(w)) = Len(call[w].todo)
    BY <1>3, <1>4, <2>2, ShiftFacts
  <2>4. /\ moved(w) \in Calls /\ moved(w).pc = "sweeping" /\ moved(w).todo = new(w)
        /\ moved(w).n = call[w].n
    <3> DEFINE none == <<>>
               n == call[w].n
               a == new(w)
    <3>1. "sweeping" \in CallPC /\ none \in Seq(Tasks) /\ None \in Tasks \cup {None}
          /\ n \in Int /\ a \in Seq(Tasks)
      BY <2>2, <2>3 DEF CallPC
    <3>2. moved(w) = Call("sweeping", a, none, n, None)
      OBVIOUS
    <3>3. a = new(w) /\ n = call[w].n
      OBVIOUS
    <3> HIDE DEF none, n, a, moved
    <3> QED
      BY <3>1, <3>2, <3>3 DEF Call, Calls
  <2> QED
    BY <2>1, <2>2, <2>3, <2>4
<1>7. /\ call' = [w \in Goroutines |->
           IF w = c THEN first ELSE IF w \in walking THEN moved(w) ELSE call[w]]
      /\ lost' = lost \cup UNION {Missed(call[w].todo, new(w), call[w].n) : w \in walking}
  BY <1>2 DEF walking
<1> HIDE DEF first, moved
<1>8. /\ call'[c] = first
      /\ \A w \in walking : call'[w] = moved(w)
      /\ \A d \in Goroutines \ {c} : d \notin walking => call'[d] = call[d]
  BY <1>1, <1>6, <1>7
<1>9. Typed'
  <2>1. call' \in [Goroutines -> Calls]
    BY <1>1, <1>5, <1>6, <1>7 DEF Typed
  <2>2. \A w \in walking : Missed(call[w].todo, new(w), call[w].n) \subseteq Tasks
    BY <1>6, MissedFacts
  <2>3. lost' \in SUBSET Tasks
    BY <1>1, <1>7, <2>2 DEF Typed
  <2>4. calls' \in 0 .. MaxCalls
    BY <1>1, BeginsFacts
  <2> QED
    BY <1>1, <1>3, <2>1, <2>3, <2>4 DEF Typed
<1>10. \A d \in Goroutines : CallOK(d)'
  <2>1. TAKE d \in Goroutines
  <2>2. CASE d = c
    BY <1>1, <1>5, <1>8, <2>2, Names, OutsideOK DEF LockPCs, TodoPCs
  <2>3. CASE d \in walking
    BY <1>1, <1>6, <1>8, <2>3, Names, OutsideOK DEF LockPCs, TodoPCs
  <2>4. CASE d # c /\ d \notin walking
    BY <1>1, <1>8, <2>4 DEF SchedInv, CallOK, Next1
  <2> QED
    BY <2>2, <2>3, <2>4
<1>11. ListOnce'
  <2>1. ASSUME NEW d \in Goroutines, At(d, "deleting")'
        PROVE  \/ d = c /\ call'[d].todo = todo
               \/ d # c /\ At(d, "deleting") /\ call'[d].todo = call[d].todo
    BY <1>5, <1>6, <1>8, <2>1 DEF At
  <2>2. IsInjective(tasks') /\ \A t \in ToSet(tasks') : status'[t] # "new"
    BY <1>1, <1>3 DEF ListOnce
  <2>3. ASSUME NEW d \in Goroutines, At(d, "deleting")'
        PROVE  /\ IsInjective(call'[d].todo)
               /\ \A t \in ToSet(call'[d].todo) :
                    /\ t \notin ToSet(tasks') /\ status'[t] # "new"
                    /\ \A e \in Goroutines \ {d} : At(e, "deleting")' => t \notin ToSet(call'[e].todo)
    <3>1. CASE d = c
      <4>1. \A t \in gone : t \in ToSet(tasks) /\ t \notin ToSet(tasks') /\ status'[t] # "new"
        BY <1>1, <1>3 DEF ListOnce
      <4>2. \A t \in gone : \A e \in Goroutines \ {d} : At(e, "deleting")' => t \notin ToSet(call'[e].todo)
        BY <2>1, <3>1, <4>1, <1>1 DEF ListOnce
      <4> QED
        BY <1>3, <1>4, <2>1, <2>3, <3>1, <4>1, <4>2
    <3>2. CASE d # c
      <4>1. At(d, "deleting") /\ call'[d].todo = call[d].todo
        BY <2>1, <2>3, <3>2
      <4>2. \A t \in ToSet(call[d].todo) : t \notin ToSet(tasks) /\ status[t] # "new"
        BY <1>1, <4>1 DEF ListOnce
      <4>3. \A t \in ToSet(call[d].todo) : t \notin ToSet(tasks') /\ status'[t] # "new" /\ t \notin gone
        BY <1>1, <1>3, <4>2
      <4>4. \A t \in ToSet(call[d].todo) : \A e \in Goroutines \ {d} :
              At(e, "deleting")' => t \notin ToSet(call'[e].todo)
        BY <2>1, <4>1, <4>3, <1>1, <1>4 DEF ListOnce
      <4> QED
        BY <1>1, <4>1, <4>3, <4>4 DEF ListOnce
    <3> QED
      BY <3>1, <3>2
  <2> QED
    BY <2>2, <2>3 DEF ListOnce
<1>12. LimitKept' /\ RoomKept'
  <2>1. NoneStarts
    BY <1>1, <1>3 DEF NoneStarts
  <2>2. \A d \in Goroutines : call'[d].pc \in {"creating", "notified"} => call'[d].pc = call[d].pc
    BY <1>5, <1>6, <1>8
  <2> QED
    BY <1>1, <2>1, <2>2, LimitStep
<1>13. VictimsWait'
  <2>1. \A d \in Callers : At(d, "settling") => call'[d] = call[d]
    BY <1>1, <1>6, <1>8, Names DEF At
  <2> QED
    BY <1>1, <2>1, VictimStep
<1>14. WaitHeld'
  <2>1. SUFFICES ASSUME NEW t \in ToSet(tasks'), t \notin lost', status'[t] = "wait",
                        t \notin ToSet(waitTasks')
                 PROVE  \E d \in Goroutines : Holds(d, t)'
    BY DEF WaitHeld
  <2>2. /\ t \in ToSet(tasks) \ lost /\ t \notin gone /\ status[t] = "wait"
        /\ t \notin ToSet(waitTasks)
    BY <1>1, <1>3, <1>7, <2>1
  <2>3. PICK d \in Goroutines : Holds(d, t)
    BY <2>2 DEF SchedInv, WaitHeld
  <2>4. d # c
    BY <1>1, <2>3 DEF Holds
  <2>5. CASE d \notin walking
    <3>1. call'[d] = call[d]
      BY <1>8, <2>4, <2>5
    <3> QED
      BY <2>3, <3>1 DEF Holds
  <2>6. CASE d \in walking
    <3>1. PICK i \in call[d].n .. Len(call[d].todo) : call[d].todo[i] = t
      BY <1>6, <2>3, <2>6 DEF Holds
    <3>2. t \notin Missed(call[d].todo, new(d), call[d].n)
      BY <1>7, <2>1, <2>6
    <3>3. PICK j \in call[d].n .. Len(new(d)) : new(d)[j] = t
      BY <1>6, <2>6, <3>1, <3>2, MissedFacts
    <3>4. call'[d].pc = "sweeping" /\ call'[d].todo = new(d) /\ call'[d].n = call[d].n
      BY <1>6, <1>8, <2>6
    <3>5. Holds(d, t)'
      BY <3>3, <3>4 DEF Holds
    <3> QED
      BY <3>5
  <2> QED
    BY <2>5, <2>6
<1> QED
  BY <1>9, <1>10, <1>11, <1>12, <1>13, <1>14 DEF SchedInv

-----------------------------------------------------------------------------
\* The theorems

\* Init satisfies the invariant.
LEMMA InitInv ==
  ASSUME Init
  PROVE  SchedInv
<1>1. /\ ToSet(tasks) = {} /\ ToSet(waitTasks) = {} /\ \A c \in Goroutines : call[c] = Idle
      /\ <<>> \in Seq(Tasks)
  BY DEF Init, ToSet
<1>2. Typed
  <2>1. "new" \in Statuses /\ None \in Callers \cup {None} /\ 0 \in 0 .. MaxCalls
    BY CallAssumption DEF Statuses
  <2> QED
    BY <1>1, <2>1, IdleFacts DEF Init, Typed
<1>3. \A c \in Goroutines : CallOK(c)
  BY <1>1, IdleFacts, Names DEF Init, CallOK, TodoPCs, LockPCs, ToSet
<1>4. ListOnce
  BY <1>1, IdleFacts DEF Init, ListOnce, At, IsInjective
<1>5. LimitKept /\ RoomKept
  <2>1. Running = {}
    BY <1>1 DEF Running
  <2>2. maxRunning \in Nat
    BY CallAssumption DEF Init
  <2> QED
    BY <1>1, <2>1, <2>2, FS_EmptySet, IdleFacts DEF LimitKept, RoomKept
<1>6. VictimsWait /\ WaitHeld
  BY <1>1 DEF Init, VictimsWait, WaitHeld
<1> QED
  BY <1>2, <1>3, <1>4, <1>5, <1>6 DEF SchedInv

\* Every step keeps it.
LEMMA NextInv ==
  ASSUME SchedInv, [Next]_vars
  PROVE  SchedInv'
<1>1. CASE UNCHANGED vars
  BY <1>1, StillStep DEF vars, SchedInv, Typed
<1>2. ASSUME NEW c \in Callers, CreateNext(c) PROVE SchedInv'
  BY <1>2, CreateQueuedStep, CreateCountStep, CreateStartStep DEF CreateNext
<1>3. ASSUME NEW c \in Callers, PauseNext(c) PROVE SchedInv'
  BY <1>3, PauseSelectStep, PauseDequeueStep, PauseOneStep, PauseFailsStep,
     PauseAllClearStep, PauseAllOneStep, PauseAllFailsStep DEF PauseNext
<1>4. ASSUME NEW c \in Callers, ContinueNext(c) PROVE SchedInv'
  BY <1>4, ContinueSelectStep, ContinueCountStep, SchedulePauseStep, SchedulePausedStep,
     ScheduleFailsStep, ContinuePlaceStep, ContinueAllCountStep, ContinueAllPlaceStep,
     StartNextStep, StartFailsStep DEF ContinueNext
<1>5. ASSUME NEW c \in Callers, DeleteNext(c) PROVE SchedInv'
  BY <1>5, DeleteRemoveStep, DeleteOneStep, DeleteFailsStep, DeleteReturnStep DEF DeleteNext
<1>6. CASE NotifyNext
  BY <1>6, NotifyNothingStep, NotifyPopStep, NotifyStartStep DEF NotifyNext
<1>7. ASSUME NEW h \in Hooks, HookEnds(h) \/ \E t \in Tasks : HookBegins(h, t) PROVE SchedInv'
  BY <1>7, HookEndsStep, HookBeginsStep
<1> QED
  BY <1>1, <1>2, <1>3, <1>4, <1>5, <1>6, <1>7, FinishStep, PutConfigStep DEF Next

\* The invariant holds always: tasks are listed once, calls stand where their
\* variables say, counted slots stay free, and what waits is queued or held.
THEOREM Invariant == Spec => []SchedInv
<1>1. Init => SchedInv
  BY InitInv
<1>2. SchedInv /\ [Next]_vars => SchedInv'
  BY NextInv
<1> QED
  BY <1>1, <1>2, PTL DEF Spec

\* The variables keep their types, no task is listed twice, and d.lock is held
\* exactly in the longer sections of doCreate, Continue, continueAll and
\* notifyRunning.
THEOREM TypeCorrect == Spec => []TypeOK
<1>1. SchedInv => TypeOK
  <2>1. SUFFICES ASSUME SchedInv PROVE TypeOK
    OBVIOUS
  <2>2. Typed /\ ListOnce /\ \A c \in Goroutines : CallOK(c)
    BY <2>1 DEF SchedInv
  <2>3. ToSet(tasks) \subseteq Tasks /\ ToSet(waitTasks) \subseteq Tasks /\ IsInjective(tasks)
    BY <2>2, ListTasks DEF ListOnce
  <2>4. ASSUME NEW c \in Goroutines
        PROVE  /\ call[c].pc \in CallPC
               /\ ToSet(call[c].todo) \cup ToSet(call[c].rest) \subseteq Tasks
               /\ dlock = c <=> call[c].pc \in LockPCs
    <3>1. /\ call[c].pc \in CallPC /\ call[c].todo \in Seq(Tasks) /\ call[c].rest \in Seq(Tasks)
      BY <2>2 DEF Typed, Calls
    <3> QED
      BY <2>2, <3>1, ElementsFinite DEF CallOK
  <2> QED
    BY <2>2, <2>3, <2>4 DEF TypeOK, Typed, Statuses, LockPCs
<1> QED
  BY <1>1, Invariant, PTL

\* The limit is never exceeded but on account of a start outside d.lock, a lower
\* limit or a failed deletion: a slot that doCreate or notifyRunning has counted
\* is free until its start.
THEOREM LimitHolds == Spec => []LimitKept
<1>1. SchedInv => LimitKept
  BY DEF SchedInv
<1> QED
  BY <1>1, Invariant, PTL

\* A task that waits is on the queue, or a call that took it off has it, unless
\* an error or a shifted array lost it.
THEOREM WaitingIsQueued == Spec => []WaitIsQueued
<1>1. SchedInv => WaitIsQueued
  <2>1. SUFFICES ASSUME SchedInv PROVE WaitIsQueued
    OBVIOUS
  <2>2. ASSUME NEW c \in Goroutines, NEW t, Holds(c, t) PROVE t \in ToSet(call[c].todo)
    <3>1. /\ call[c].todo \in Seq(Tasks)
          /\ call[c].pc = "sweeping" => call[c].n \in 1 .. Len(call[c].todo)
      BY <2>1 DEF SchedInv, Typed, Calls, CallOK
    <3>2. \A i \in 1 .. Len(call[c].todo) : call[c].todo[i] \in ToSet(call[c].todo)
      BY <3>1 DEF ToSet
    <3> QED
      BY <2>2, <3>1, <3>2 DEF Holds
  <2> QED
    BY <2>1, <2>2 DEF SchedInv, WaitHeld, WaitIsQueued
<1> QED
  BY <1>1, Invariant, PTL

\* A task that Continue stopped to make room is not left paused.
THEOREM VictimsReturn == Spec => []VictimsWait
<1>1. SchedInv => VictimsWait
  BY DEF SchedInv
<1> QED
  BY <1>1, Invariant, PTL

=============================================================================
