---------------------------- MODULE ThreadsProofs ----------------------------
(***************************************************************************)
(* The safety of the ring of tasks for any number of tasks, ticks anywhere *)
(* and updates of the ring that cut into each other.                       *)
(*                                                                         *)
(* A rank r gives each task that was appended to the ring a positive       *)
(* number, greater than that of all appended before it.  Whatever the      *)
(* updates do to each other, next leads to a task of a higher rank or to   *)
(* pid 0, prev to one of a lower rank, because each store takes its value  *)
(* from prev of the head or from the neighbours of an appended task.  So   *)
(* every walk ends, and schedule finds a task to run.                      *)
(***************************************************************************)
EXTENDS Threads, FiniteSetTheorems, WellFoundedInduction, TLAPS

Fields == [pc : Pcs, job : {"none", "fork", "fork_demo", "thread_demo", "exec"},
           new : Tasks \cup {NULL}, count : Int, how : {"call", "foo"}, sel : Tasks \cup {NULL},
           at : Tasks \cup {NULL}, to : Tasks \cup {NULL}]

Typed ==
    /\ next \in [Tasks -> Tasks \cup {NULL}] /\ prev \in [Tasks -> Tasks \cup {NULL}]
    /\ state \in [Tasks -> States]
    /\ pid \in [Tasks -> Int] /\ id_counter \in Int
    /\ context \in [Tasks -> Contexts]
    /\ current \in Tasks /\ masked \in BOOLEAN
    /\ th \in [Tasks -> Fields]
    /\ freed \in [Tasks -> 0 .. 2]
    /\ overlap \in BOOLEAN /\ stale \in BOOLEAN

\* t was appended to the ring.
Placed(r, t) == t = Shell \/ r[t] > 0

\* What every store to the ring preserves.
Ranked(r) ==
    /\ r \in [Tasks -> Nat] /\ r[Shell] = 0
    /\ \A t \in Tasks :
        /\ Placed(r, t) => next[t] # NULL /\ prev[t] # NULL
        /\ next[t] # NULL => next[t] = Shell \/ r[t] < r[next[t]]
        /\ prev[t] # NULL => Placed(r, prev[t])
        /\ r[t] > 0 => r[prev[t]] < r[t]
        /\ ~ Placed(r, t) => next[t] \in {NULL, Shell}

\* c is in thread_create or has yet to do something with its task.
Creating(c) == th[c].pc \in {"count", "enqueue", "append", "close",
                             "fork", "fork_demo", "thread_demo", "exec"}

\* How far the task that c creates has come.
Newcomers(r) ==
    /\ \A c \in Tasks : Creating(c) =>
        /\ th[c].new \in Tasks /\ th[c].new # Shell
        /\ th[c].job \in IF c = Shell THEN {"fork_demo", "thread_demo", "exec"} ELSE {"fork"}
        /\ th[c].pc \in {"fork", "fork_demo", "thread_demo", "exec"} => th[c].pc = th[c].job
        /\ state[th[c].new] # "none"
        /\ th[c].pc \in {"count", "enqueue"} =>
              next[th[c].new] = NULL /\ prev[th[c].new] = NULL
        /\ th[c].pc = "append" => next[th[c].new] = Shell /\ prev[th[c].new] # NULL
        /\ Placed(r, th[c].new) <=> th[c].pc \notin {"count", "enqueue", "append"}
        /\ th[c].job = "exec" => context[th[c].new] = "image"
        /\ th[c].job = "fork" => context[th[c].new] = "zero"
    /\ \A c, d \in Tasks :
        c # d /\ Creating(c) /\ Creating(d) => th[c].new # th[d].new
    /\ \A t \in Tasks : state[t] = "none" =>
        ~ Placed(r, t) /\ next[t] = NULL /\ prev[t] = NULL
    /\ \A t \in Tasks : ~ Placed(r, t) =>
        /\ state[t] \in {"none", "RUNNING"} /\ t # current
        /\ context[t] \in {"none", "zero", "test", "foo", "image"} /\ freed[t] = 0

\* What is saved of the tasks, and which locals are in use.
Saved ==
    /\ \A t \in Tasks :
        /\ t # current /\ context[t] # "irq" => th[t].pc \in {"user", "switch", "spawn"}
        /\ ~ Creating(t) /\ th[t].pc # "wild" => th[t].job = "none"
        /\ context[t] = "outdated" => t = Shell
        /\ t = current /\ (\/ context[t] = "zero"
                           \/ \E c \in Tasks : th[c].new = t /\ th[c].job = "exec") =>
              th[t].pc = "wild"
        /\ context[t] = "zero" => \E c \in Tasks : th[c].new = t /\ th[c].job = "fork"
        /\ t # current /\ context[t] = "image" =>
              \E c \in Tasks : th[c].new = t /\ th[c].job = "exec"
        /\ th[t].pc = "wild" => t = current
        /\ th[t].pc \in {"shell", "reap", "visit", "dequeue", "unlink"} => t = Shell
        /\ th[t].pc \in {"foo", "spawn"} \/ th[t].how = "foo" => t # Shell
    /\ context[Shell] \in {"idle", "irq", "call", "outdated"}
    /\ th[Shell].pc = "user" =>
        current # Shell /\ context[Shell] \in {"idle", "outdated"}

\* Every task that anyone is about to visit or to run has been appended.
Targets(r) ==
    /\ Placed(r, current)
    /\ state[Shell] = "RUNNING" /\ pid[Shell] = 0
    /\ \A c \in Tasks : th[c].pc = "switch" =>
          Placed(r, c) /\ th[c].sel \in Tasks /\ Placed(r, th[c].sel)
    /\ th[Shell].pc \in {"visit", "dequeue", "unlink"} =>
          th[Shell].at \in Tasks /\ Placed(r, th[Shell].at)
    /\ th[Shell].pc \in {"dequeue", "unlink"} =>
          /\ th[Shell].at # Shell
          /\ th[Shell].to \in Tasks /\ Placed(r, th[Shell].to)

Core(r) == Typed /\ Ranked(r) /\ Newcomers(r) /\ Saved /\ Targets(r)

\* As long as no tick came between a choice and its switch, who is terminated
\* stays off the processor.
Fresh ==
    ~ stale =>
        /\ state[current] = "TERMINATED" => ~ Running(current)
        /\ \A c \in Tasks \ {current} :
              Chosen(c) => th[c].pc = "switch" /\ context[c] \in {"call", "foo"}
        /\ th[current].pc = "switch" => state[th[current].sel] = "RUNNING"
        /\ th[current].job = "exec" /\ th[current].pc \in {"close", "exec"} =>
              state[th[current].new] = "RUNNING"
        /\ \A t \in Tasks : freed[t] > 0 => state[t] = "TERMINATED" /\ t # current
        /\ th[Shell].pc \in {"dequeue", "unlink"} => state[th[Shell].at] = "TERMINATED"

\* On A, pv undoes nx and nx undoes pv.
Inverses(nx, pv, A) ==
    \A t \in A : nx[t] \in A /\ pv[t] \in A /\ pv[nx[t]] = t /\ nx[pv[t]] = t

\* The ring is what it will be when the update in progress is done.
Mended ==
    /\ \A c, d \in Tasks : InUpdate(c) /\ InUpdate(d) => c = d
    /\ (\A c \in Tasks : ~ InUpdate(c)) => Inverses(next, prev, Alive)
    /\ \A c \in Tasks : th[c].pc = "append" =>
        /\ prev[th[c].new] = prev[Shell] /\ next[prev[Shell]] = Shell
        /\ Inverses([next EXCEPT ![prev[Shell]] = th[c].new],
                    [prev EXCEPT ![Shell] = th[c].new], Alive)
    /\ \A c \in Tasks : th[c].pc = "close" =>
        Inverses(next, [prev EXCEPT ![Shell] = th[c].new], Alive)
    /\ th[Shell].pc = "unlink" =>
        Inverses([next EXCEPT ![prev[th[Shell].at]] = next[th[Shell].at]], prev,
                Alive \ {th[Shell].at})

RingInv ==
    ~ overlap =>
        /\ Mended
        /\ Shell \in Alive
        /\ \A t \in Tasks : freed[t] <= 1
        /\ th[Shell].pc \in {"visit", "dequeue", "unlink"} => th[Shell].at \in Alive
        /\ th[Shell].pc \in {"dequeue", "unlink"} =>
              th[Shell].to \in Alive /\ th[Shell].to # th[Shell].at

\* Lab 5: fork is masked, no one calls kill, and the shell does not run exec.
Lab5 == /\ MaskedFork = TRUE /\ Kill = FALSE
        /\ ShellJobs \subseteq {"fork_demo", "thread_demo"}

\* Nothing comes between the steps of a fork.
Orderly ==
    /\ \A c \in Tasks \ {Shell} : Creating(c) => c = current /\ masked
    /\ th[Shell].pc \in {"shell", "count", "enqueue", "append", "close", "fork_demo", "thread_demo"}
    /\ current # Shell => context[Shell] = "irq"
    /\ \A c \in Tasks : /\ th[c].job # "exec" /\ th[c].pc \notin {"wild", "spawn"}
                        /\ context[c] \notin {"outdated", "image", "cut"}
    /\ raced \subseteq {Shell}

\* The tasks that have a pid.
Counted == {t \in Tasks : pid[t] # -1}

\* id_counter is at most their number, and so is what was read of it.
Numbering ==
    /\ \A c \in Tasks : Counts(c) =>
          th[c].count \in 1 .. Cardinality(Counted) /\ pid[th[c].new] = -1
    /\ \A t \in Tasks : state[t] = "none" => pid[t] = -1
    /\ id_counter \in 1 .. Cardinality(Counted)

\* As long as nobody's id_counter++ is cut into, id_counter is above all pids.
Counting ==
    raced = {} =>
        /\ \A c, d \in Tasks : Counts(c) /\ Counts(d) => c = d
        /\ \A c \in Tasks : Counts(c) => th[c].count = id_counter
        /\ \A t \in Counted : 0 <= pid[t] /\ pid[t] < id_counter
        /\ \A t, u \in Counted : t # u => pid[t] # pid[u]

IInv == \E r \in [Tasks -> Nat] : Core(r)
-----------------------------------------------------------------------------
(* Walks along the ring                                                    *)

\* A set of natural numbers has a least element.
LEMMA LeastNat ==
    ASSUME NEW T, T \subseteq Nat, T # {}
    PROVE  \E x \in T : \A y \in T : x <= y
  <1>1. PICK x \in T : \A y \in T : ~ (<<y, x>> \in OpToRel(<, Nat))
    BY WFMin, NatLessThanWellFounded, Zenon
  <1>2. \A y \in T : y \in Nat /\ x \in Nat
    OBVIOUS
  <1>3. \A y \in T : ~ (y < x)
    BY <1>1, <1>2, Zenon DEF OpToRel
  <1> QED  BY <1>2, <1>3

\* The walk of n steps from t, as a table.
Walk(t, n, g) == g = [j \in 0 .. n |-> IF j = 0 THEN t ELSE next[g[j - 1]]]

\* There is a walk of every length.
LEMMA WalkExists == ASSUME NEW t PROVE \A n \in Nat : \E g : Walk(t, n, g)
  <1> DEFINE Bad == {n \in Nat : ~ \E g : Walk(t, n, g)}
  <1>1. SUFFICES ASSUME Bad # {} PROVE FALSE
    OBVIOUS
  <1>2. PICK m \in Bad : \A y \in Bad : m <= y
    BY <1>1, LeastNat, Bad \subseteq Nat, Zenon
  <1>3. m \in Nat /\ ~ \E g : Walk(t, m, g)
    BY <1>2
  <1>4. CASE m = 0
    <2> DEFINE h == [j \in 0 .. 0 |-> t]
    <2>1. h = [j \in 0 .. 0 |-> IF j = 0 THEN t ELSE next[h[j - 1]]]
      OBVIOUS
    <2> QED  BY <2>1, <1>3, <1>4 DEF Walk
  <1>5. CASE m # 0
    <2>1. m - 1 \in Nat /\ m - 1 \notin Bad
      BY <1>2, <1>3, <1>5
    <2>2. PICK g : Walk(t, m - 1, g)
      BY <2>1
    <2> DEFINE h == [j \in 0 .. m |-> IF j = m THEN next[g[m - 1]] ELSE g[j]]
    <2>3. \A j \in 0 .. m : h[j] = IF j = 0 THEN t ELSE next[h[j - 1]]
      <3> TAKE j \in 0 .. m
      <3>1. CASE j = 0
        BY <3>1, <1>3, <1>5, <2>2 DEF Walk
      <3>2. CASE j # 0 /\ j # m
        <4>1. j \in 0 .. m - 1 /\ j - 1 \in 0 .. m /\ j - 1 # m
          BY <3>2, <1>3
        <4>2. h[j] = g[j] /\ h[j - 1] = g[j - 1]
          BY <4>1, <3>2
        <4>3. g[j] = next[g[j - 1]]
          BY <4>1, <3>2, <2>2 DEF Walk
        <4> QED  BY <4>2, <4>3, <3>2
      <3>3. CASE j = m /\ j # 0
        <4>1. j - 1 \in 0 .. m /\ j - 1 # m
          BY <3>3, <1>3
        <4>2. h[j - 1] = g[m - 1] /\ h[j] = next[g[m - 1]]
          BY <4>1, <3>3
        <4> QED  BY <4>2, <3>3
      <3> QED  BY <3>1, <3>2, <3>3
    <2>4. h = [j \in 0 .. m |-> IF j = 0 THEN t ELSE next[h[j - 1]]]
      BY <2>3
    <2> QED  BY <2>4, <1>3 DEF Walk
  <1> QED  BY <1>4, <1>5

\* A longer walk goes the same way.
LEMMA WalksAgree ==
    ASSUME NEW t, NEW m \in Nat, NEW n \in Nat, m <= n, NEW g, NEW h,
           Walk(t, m, g), Walk(t, n, h)
    PROVE  \A j \in 0 .. m : g[j] = h[j]
  <1> DEFINE Bad == {j \in 0 .. m : g[j] # h[j]}
  <1>1. SUFFICES ASSUME Bad # {} PROVE FALSE
    OBVIOUS
  <1>2. PICK j \in Bad : \A y \in Bad : j <= y
    BY <1>1, LeastNat, Bad \subseteq Nat, Zenon
  <1>3. j \in 0 .. m /\ j \in 0 .. n /\ g[j] # h[j]
    BY <1>2
  <1>4. /\ g[j] = IF j = 0 THEN t ELSE next[g[j - 1]]
        /\ h[j] = IF j = 0 THEN t ELSE next[h[j - 1]]
    BY <1>3 DEF Walk
  <1>5. j # 0
    BY <1>3, <1>4
  <1>6. j - 1 \in 0 .. m /\ j - 1 \notin Bad
    BY <1>2, <1>3, <1>5
  <1> QED  BY <1>3, <1>4, <1>5, <1>6

\* Step does what its recursion says.
LEMMA StepIs ==
    ASSUME NEW t
    PROVE  Step(t, 0) = t /\ \A i \in Nat : Step(t, i + 1) = next[Step(t, i)]
  <1> DEFINE g(n) == CHOOSE g : Walk(t, n, g)
             f == [j \in Nat |-> g(j)[j]]
  <1>1. \A n \in Nat : Walk(t, n, g(n))
    BY WalkExists
  <1>2. \A n \in Nat : g(n)[n] = IF n = 0 THEN t ELSE next[g(n)[n - 1]]
    <2> TAKE n \in Nat
    <2> HIDE DEF g
    <2>1. Walk(t, n, g(n)) /\ n \in 0 .. n
      BY <1>1
    <2> QED  BY <2>1 DEF Walk
  <1>3. \A n \in Nat : n # 0 => g(n)[n - 1] = g(n - 1)[n - 1]
    <2> SUFFICES ASSUME NEW n \in Nat, n # 0 PROVE g(n)[n - 1] = g(n - 1)[n - 1]
      OBVIOUS
    <2>1. n - 1 \in Nat /\ n - 1 <= n /\ n - 1 \in 0 .. n - 1
      OBVIOUS
    <2>2. Walk(t, n - 1, g(n - 1)) /\ Walk(t, n, g(n))
      BY <2>1, <1>1
    <2> QED  BY <2>1, <2>2, WalksAgree
  <1> HIDE DEF g
  <1>4. f = [j \in Nat |-> IF j = 0 THEN t ELSE next[f[j - 1]]]
    <2>1. \A j \in Nat : f[j] = IF j = 0 THEN t ELSE next[f[j - 1]]
      BY <1>2, <1>3
    <2> QED  BY <2>1
  <1> DEFINE at == CHOOSE at : at = [j \in Nat |-> IF j = 0 THEN t ELSE next[at[j - 1]]]
  <1>5. at = [j \in Nat |-> IF j = 0 THEN t ELSE next[at[j - 1]]]
    <2> HIDE DEF f
    <2> QED  BY <1>4
  <1>6. \A i : Step(t, i) = at[i]
    BY DEF Step
  <1> HIDE DEF at
  <1>7. at[0] = t /\ \A i \in Nat : at[i + 1] = next[at[i]]
    BY <1>5
  <1> QED  BY <1>6, <1>7
\* From a task with a next every step leads to one that has been appended, of
\* a higher rank unless it is pid 0.
LEMMA StepClimbs ==
    ASSUME Typed, NEW r, Ranked(r), NEW t \in Tasks, next[t] # NULL
    PROVE  \A i \in Nat :
             /\ Step(t, i) \in Tasks /\ next[Step(t, i)] # NULL
             /\ Placed(r, Step(t, i + 1))
             /\ Step(t, i + 1) = Shell \/ r[Step(t, i)] < r[Step(t, i + 1)]
  <1>1. /\ Step(t, 0) = t
        /\ \A i \in Nat : Step(t, i + 1) = next[Step(t, i)]
    BY StepIs
  <1>2. \A u \in Tasks : next[u] # NULL =>
          /\ next[u] \in Tasks /\ next[next[u]] # NULL /\ Placed(r, next[u])
          /\ next[u] = Shell \/ r[u] < r[next[u]]
    BY ThreadsAssumption DEF Typed, Ranked, Placed
  <1> DEFINE Good(i) == Step(t, i) \in Tasks /\ next[Step(t, i)] # NULL
             Bad == {i \in Nat : ~ Good(i)}
  <1>3. ASSUME Bad # {} PROVE FALSE
    <2>1. PICK m \in Bad : \A y \in Bad : m <= y
      BY <1>3, LeastNat, Bad \subseteq Nat, Zenon
    <2>2. m \in Nat /\ ~ Good(m)
      BY <2>1
    <2>3. m # 0
      BY <2>2, <1>1
    <2>4. m - 1 \in Nat /\ m - 1 \notin Bad
      BY <2>1, <2>2, <2>3
    <2>5. Good(m - 1) /\ Step(t, m) = next[Step(t, m - 1)]
      <3>1. (m - 1) + 1 = m
        BY <2>2
      <3> QED  BY <2>4, <3>1, <1>1
    <2> QED  BY <2>2, <2>5, <1>2
  <1>4. \A i \in Nat : Good(i)
    BY <1>3
  <1> QED  BY <1>1, <1>2, <1>4

\* As long as a walk does not come to pid 0 its ranks grow.
LEMMA RanksGrow ==
    ASSUME Typed, NEW r, Ranked(r), NEW t \in Tasks, next[t] # NULL, NEW n \in Nat,
           \A i \in 1 .. n : Step(t, i) # Shell
    PROVE  \A i, j \in 0 .. n : i < j => r[Step(t, i)] < r[Step(t, j)]
  <1>1. \A i \in 0 .. n : r[Step(t, i)] \in Nat
    BY StepClimbs DEF Ranked
  <1>2. \A i \in 0 .. n : i + 1 \in 0 .. n => r[Step(t, i)] < r[Step(t, i + 1)]
    <2> SUFFICES ASSUME NEW i \in 0 .. n, i + 1 \in 0 .. n
                 PROVE  r[Step(t, i)] < r[Step(t, i + 1)]
      OBVIOUS
    <2>1. i \in Nat /\ i + 1 \in 1 .. n
      OBVIOUS
    <2> QED  BY <2>1, StepClimbs
  <1> TAKE i \in 0 .. n
  <1> DEFINE Bad == {j \in 0 .. n : i < j /\ ~ (r[Step(t, i)] < r[Step(t, j)])}
  <1>3. ASSUME Bad # {} PROVE FALSE
    <2>1. PICK m \in Bad : \A y \in Bad : m <= y
      BY <1>3, LeastNat, Bad \subseteq Nat, Zenon
    <2>2. m \in 0 .. n /\ i < m /\ ~ (r[Step(t, i)] < r[Step(t, m)])
      BY <2>1
    <2>3. m - 1 \in 0 .. n /\ m - 1 \notin Bad /\ (m - 1) + 1 = m
      BY <2>1, <2>2
    <2>4. r[Step(t, m - 1)] < r[Step(t, m)]
      BY <2>2, <2>3, <1>2
    <2>5. m - 1 = i \/ r[Step(t, i)] < r[Step(t, m - 1)]
      BY <2>2, <2>3
    <2>6. r[Step(t, i)] < r[Step(t, m)]
      BY <2>3, <2>4, <2>5, <1>1
    <2> QED  BY <2>2, <2>6
  <1> QED  BY <1>3

\* A walk that does not come to pid 0 is shorter than the number of tasks.
LEMMA WalkIsShort ==
    ASSUME Typed, NEW r, Ranked(r), NEW t \in Tasks, next[t] # NULL, NEW n \in Nat,
           \A i \in 1 .. n : Step(t, i) # Shell
    PROVE  n < Cardinality(Tasks)
  <1> DEFINE f == [i \in 1 .. n |-> Step(t, i)]
             Others == Tasks \ {Shell}
  <1>1. \A i \in 1 .. n : Step(t, i) \in Others /\ r[Step(t, i)] \in Nat
    <2> TAKE i \in 1 .. n
    <2>1. i \in Nat
      OBVIOUS
    <2> QED  BY <2>1, StepClimbs DEF Ranked
  <1>2. \A i, j \in 1 .. n : Step(t, i) = Step(t, j) => i = j
    <2> SUFFICES ASSUME NEW i \in 1 .. n, NEW j \in 1 .. n, Step(t, i) = Step(t, j), i < j
                 PROVE  FALSE
      OBVIOUS
    <2>1. r[Step(t, i)] < r[Step(t, j)]
      BY RanksGrow
    <2> QED  BY <2>1, <1>1
  <1>3. f \in Injection(1 .. n, Others)
    <2>1. f \in [1 .. n -> Others]
      BY <1>1
    <2> QED  BY <2>1, <1>2 DEF Injection, IsInjective
  <1>4. IsFiniteSet(Others) /\ Cardinality(Others) = Cardinality(Tasks) - 1
    BY ThreadsAssumption, FS_RemoveElement
  <1>5. Cardinality(1 .. n) <= Cardinality(Others)
    BY <1>3, <1>4, FS_Injection
  <1>6. Cardinality(1 .. n) = n
    BY FS_Interval, n \in Nat
  <1>7. Cardinality(Tasks) \in Nat
    BY ThreadsAssumption, FS_CardinalityType
  <1> QED  BY <1>4, <1>5, <1>6, <1>7

\* From every task the walk comes to pid 0.
LEMMA WalkComesHome ==
    ASSUME Typed, NEW r, Ranked(r), NEW t \in Tasks, next[t] # NULL
    PROVE  \E i \in Rounds : Step(t, i) = Shell
  <1>1. Cardinality(Tasks) \in Nat
    BY ThreadsAssumption, FS_CardinalityType
  <1> QED  BY <1>1, WalkIsShort DEF Rounds

\* The loop of schedule finds a task to run.
LEMMA NextRunningFound ==
    ASSUME Typed, NEW r, Ranked(r), NEW st, st[Shell] = "RUNNING",
           NEW c \in Tasks, Placed(r, c)
    PROVE  /\ NextRunning(st, c) \in Tasks /\ Placed(r, NextRunning(st, c))
           /\ st[NextRunning(st, c)] = "RUNNING"
  <1>1. next[c] # NULL
    BY DEF Ranked
  <1> DEFINE Hits == {i \in Rounds : st[Step(c, i)] = "RUNNING"}
  <1>2. \E i \in Rounds : Step(c, i) = Shell
    BY <1>1, WalkComesHome
  <1>3. Hits # {} /\ Hits \subseteq Nat
    BY <1>2 DEF Rounds
  <1>4. \E m \in Hits : \A y \in Hits : m <= y
    BY <1>3, LeastNat, Zenon
  <1>5. Min(Hits) \in Hits
    BY <1>4 DEF Min
  <1>6. Min(Hits) - 1 \in Nat /\ (Min(Hits) - 1) + 1 = Min(Hits) /\ Min(Hits) \in Nat
    BY <1>5, <1>3 DEF Rounds
  <1>7. Step(c, Min(Hits)) \in Tasks /\ Placed(r, Step(c, Min(Hits)))
    <2> DEFINE k == Min(Hits) - 1
    <2>1. k \in Nat /\ k + 1 = Min(Hits) /\ Min(Hits) \in Nat
      BY <1>6
    <2> HIDE DEF k, Hits
    <2>2. Placed(r, Step(c, k + 1)) /\ Step(c, Min(Hits)) \in Tasks
      BY <2>1, <1>1, StepClimbs
    <2> QED  BY <2>1, <2>2
  <1>8. NextRunning(st, c) = Step(c, Min(Hits))
    BY DEF NextRunning
  <1> QED  BY <1>5, <1>7, <1>8
-----------------------------------------------------------------------------
(* The steps of the ring and the processor                                 *)

\* A task that goes on without locals.
LEMMA LocalsReset ==
    /\ Locals \in Fields /\ Locals.pc = "user" /\ Locals.job = "none" /\ Locals.how = "call"
    /\ \A p \in Pcs : /\ [Locals EXCEPT !.pc = p] \in Fields
                      /\ [Locals EXCEPT !.pc = p].pc = p
                      /\ [Locals EXCEPT !.pc = p].job = "none"
                      /\ [Locals EXCEPT !.pc = p].how = "call"
    /\ [Locals EXCEPT !.pc = "foo", !.how = "foo"] \in Fields
    /\ [Locals EXCEPT !.pc = "foo", !.how = "foo"].pc = "foo"
    /\ [Locals EXCEPT !.pc = "foo", !.how = "foo"].job = "none"
  <1>1. Locals \in Fields /\ Locals.pc = "user" /\ Locals.job = "none" /\ Locals.how = "call"
    BY DEF Locals, Fields, Pcs
  <1> HIDE DEF Locals
  <1>2. \A p \in Pcs : /\ [Locals EXCEPT !.pc = p] \in Fields
                       /\ [Locals EXCEPT !.pc = p].pc = p
                       /\ [Locals EXCEPT !.pc = p].job = "none"
                       /\ [Locals EXCEPT !.pc = p].how = "call"
    BY <1>1 DEF Fields
  <1>3. /\ [Locals EXCEPT !.pc = "foo", !.how = "foo"] \in Fields
        /\ [Locals EXCEPT !.pc = "foo", !.how = "foo"].pc = "foo"
        /\ [Locals EXCEPT !.pc = "foo", !.how = "foo"].job = "none"
    BY <1>1 DEF Fields, Pcs
  <1> QED  BY <1>1, <1>2, <1>3

\* What switch_to does with the locals of the task it goes to.
LEMMA SwitchResets ==
    ASSUME Typed, NEW n \in Tasks, NEW how \in {"irq", "call", "foo", "cut"}, NEW daif,
           SwitchTo(current, n, how, daif)
    PROVE  /\ th' \in [Tasks -> Fields]
           /\ context' = [context EXCEPT ![current] = how] /\ current' = n
           /\ masked' \in BOOLEAN
           /\ \A d \in Tasks : d # n => th'[d] = th[d]
           /\ context'[n] = "irq" => th'[n] = th[n]
           /\ context'[n] # "irq" => th'[n].pc \in {"wild", "reap", "user", "foo"}
                                     /\ th'[n].job = "none"
           /\ context'[n] # "irq" => (th'[n].pc = "wild" <=> context'[n] \in Unready)
           /\ context'[n] # "irq" =>
                (th'[n].pc = "reap" <=> n = Shell /\ context'[n] \in {"call", "idle"})
           /\ context'[n] \notin {"irq", "foo"} => th'[n].pc # "foo" /\ th'[n].how = "call"
  <1>1. th \in [Tasks -> Fields]
    BY DEF Typed
  <1>2. PICK v : /\ th' = [th EXCEPT ![n] = v]
                 /\ context' = [context EXCEPT ![current] = how] /\ current' = n
                 /\ v = CASE context'[n] = "irq"      -> th[n]
                          [] context'[n] \in Unready -> [Locals EXCEPT !.pc = "wild"]
                          [] context'[n] = "foo"      -> [Locals EXCEPT !.pc = "foo", !.how = "foo"]
                          [] n = Shell /\ context'[n] \in {"call", "idle"}
                                                      -> [Locals EXCEPT !.pc = "reap"]
                          [] OTHER                    -> Locals
    BY DEF SwitchTo
  <1>3. masked' \in BOOLEAN
    BY DEF SwitchTo
  <1>4. CASE context'[n] = "irq"
    <2>1. v = th[n]
      BY <1>2, <1>4 DEF Unready
    <2> QED  BY <1>1, <1>2, <1>3, <1>4, <2>1
  <1>5. CASE context'[n] # "irq"
    <2>1. "wild" \in Pcs /\ "reap" \in Pcs
      BY DEF Pcs
    <2>2. v = IF context'[n] \in Unready THEN [Locals EXCEPT !.pc = "wild"]
              ELSE IF context'[n] = "foo" THEN [Locals EXCEPT !.pc = "foo", !.how = "foo"]
              ELSE IF n = Shell /\ context'[n] \in {"call", "idle"}
              THEN [Locals EXCEPT !.pc = "reap"] ELSE Locals
      BY <1>2, <1>5 DEF Unready
    <2>3. /\ v \in Fields /\ v.job = "none"
          /\ v.pc = IF context'[n] \in Unready THEN "wild"
                    ELSE IF context'[n] = "foo" THEN "foo"
                    ELSE IF n = Shell /\ context'[n] \in {"call", "idle"} THEN "reap" ELSE "user"
          /\ context'[n] # "foo" => v.how = "call"
      <3> HIDE DEF Locals
      <3> QED  BY <2>1, <2>2, LocalsReset DEF Unready
    <2>4. th' \in [Tasks -> Fields] /\ th'[n] = v /\ \A d \in Tasks : d # n => th'[d] = th[d]
      BY <1>1, <1>2, <2>3
    <2> QED  BY <1>2, <1>3, <1>5, <2>3, <2>4 DEF Unready
  <1> QED  BY <1>4, <1>5

\* switch_to goes to a task that has been appended, and keeps the invariant.
LEMMA SwitchKeeps ==
    ASSUME NEW r, Core(r), NEW n \in Tasks, Placed(r, n),
           NEW how \in {"irq", "call", "foo", "cut"}, NEW daif, SwitchTo(current, n, how, daif),
           how # "irq" => th[current].pc \in {"user", "switch", "spawn"},
           how \in {"foo", "cut"} => current # Shell,
           th[current].pc # "wild",
           state' \in [Tasks -> States], state'[Shell] = "RUNNING",
           \A t \in Tasks : state'[t] = "none" <=> state[t] = "none",
           \A t \in Tasks : ~ Placed(r, t) => state'[t] = state[t],
           UNCHANGED <<ring, ids, freed, overlap>>, stale' \in BOOLEAN
    PROVE  Core(r)'
  <1> USE DEF ring, ids
  <1>1. /\ Typed /\ Ranked(r) /\ Newcomers(r) /\ Saved /\ Targets(r)
        /\ current \in Tasks /\ Shell \in Tasks /\ n \in Tasks
        /\ context \in [Tasks -> Contexts]
    BY ThreadsAssumption DEF Core, Typed
  <1>2. /\ th' \in [Tasks -> Fields]
        /\ context' = [context EXCEPT ![current] = how] /\ current' = n
        /\ masked' \in BOOLEAN
        /\ \A d \in Tasks : d # n => th'[d] = th[d]
        /\ context'[n] = "irq" => th'[n] = th[n]
        /\ context'[n] # "irq" => th'[n].pc \in {"wild", "reap", "user", "foo"}
                                  /\ th'[n].job = "none"
        /\ context'[n] # "irq" => (th'[n].pc = "wild" <=> context'[n] \in Unready)
        /\ context'[n] # "irq" =>
             (th'[n].pc = "reap" <=> n = Shell /\ context'[n] \in {"call", "idle"})
        /\ context'[n] \notin {"irq", "foo"} => th'[n].pc # "foo" /\ th'[n].how = "call"
    BY <1>1, SwitchResets
  <1>3. /\ context'[current] = how
        /\ \A d \in Tasks : d # current => context'[d] = context[d]
    BY <1>1, <1>2
  <1>4. context'[n] # "irq" => th[n].job \notin {"fork", "exec"}
    <2>1. context'[n] # "irq" => th[n].pc \in {"user", "switch", "spawn"}
      BY <1>1, <1>3 DEF Saved
    <2> QED  BY <1>1, <2>1 DEF Saved, Creating
  <1>5. /\ \A d \in Tasks : Creating(d)' => th'[d] = th[d] /\ Creating(d)
        /\ \A d \in Tasks : th'[d].pc \in {"switch", "shell", "visit", "dequeue", "unlink", "spawn"}
              => th'[d] = th[d]
        /\ \A d \in Tasks : th[d].job \in {"fork", "exec"} => th'[d] = th[d]
    BY <1>2, <1>4 DEF Creating
  <1>6. Typed'
    <2>1. context' \in [Tasks -> Contexts]
      BY <1>1, <1>2 DEF Contexts
    <2> QED  BY <1>1, <1>2, <2>1 DEF Typed
  <1>7. Ranked(r)'
    BY <1>1 DEF Ranked, Placed
  <1>8. Newcomers(r)'
    <2>1. \A c \in Tasks : Creating(c)' =>
            /\ th'[c].new \in Tasks /\ th'[c].new # Shell
            /\ th'[c].job \in IF c = Shell THEN {"fork_demo", "thread_demo", "exec"} ELSE {"fork"}
            /\ th'[c].pc \in {"fork", "fork_demo", "thread_demo", "exec"} => th'[c].pc = th'[c].job
            /\ state'[th'[c].new] # "none"
            /\ th'[c].pc \in {"count", "enqueue"} =>
                  next'[th'[c].new] = NULL /\ prev'[th'[c].new] = NULL
            /\ th'[c].pc = "append" => next'[th'[c].new] = Shell /\ prev'[th'[c].new] # NULL
            /\ Placed(r, th'[c].new) <=> th'[c].pc \notin {"count", "enqueue", "append"}
            /\ th'[c].job = "exec" => context'[th'[c].new] = "image"
            /\ th'[c].job = "fork" => context'[th'[c].new] = "zero"
      <3>1. /\ context[current] # "zero"
            /\ \A c \in Tasks : th[c].job = "exec" => th[c].new # current
        BY <1>1 DEF Saved
      <3> QED  BY <1>1, <1>3, <1>5, <3>1 DEF Newcomers
    <2>2. \A c, d \in Tasks : c # d /\ Creating(c)' /\ Creating(d)' => th'[c].new # th'[d].new
      BY <1>1, <1>5 DEF Newcomers
    <2>3. \A t \in Tasks : ~ Placed(r, t) =>
            /\ state'[t] \in {"none", "RUNNING"} /\ t # current'
            /\ context'[t] \in {"none", "zero", "test", "foo", "image"} /\ freed'[t] = 0
      BY <1>1, <1>2, <1>3 DEF Newcomers, Targets
    <2>4. \A t \in Tasks : state'[t] = "none" =>
            ~ Placed(r, t) /\ next'[t] = NULL /\ prev'[t] = NULL
      BY <1>1 DEF Newcomers
    <2> QED  BY <2>1, <2>2, <2>3, <2>4 DEF Newcomers, Placed
  <1>9. Saved'
    <2>1. \A t \in Tasks :
            t # current' /\ context'[t] # "irq" => th'[t].pc \in {"user", "switch", "spawn"}
      BY <1>1, <1>2, <1>3 DEF Saved
    <2>2. \A t \in Tasks : ~ Creating(t)' /\ th'[t].pc # "wild" => th'[t].job = "none"
      BY <1>1, <1>2 DEF Saved, Creating
    <2>3. \A t \in Tasks : context'[t] = "outdated" => t = Shell
      BY <1>1, <1>3 DEF Saved
    <2>4. \A t \in Tasks : context'[t] = "zero" =>
            \E c \in Tasks : th'[c].new = t /\ th'[c].job = "fork"
      <3> SUFFICES ASSUME NEW t \in Tasks, context'[t] = "zero"
                   PROVE  \E c \in Tasks : th'[c].new = t /\ th'[c].job = "fork"
        OBVIOUS
      <3>1. context[t] = "zero"
        BY <1>3
      <3>2. PICK c \in Tasks : th[c].new = t /\ th[c].job = "fork"
        BY <1>1, <3>1 DEF Saved
      <3> QED  BY <3>2, <1>5
    <2>5. \A t \in Tasks : th'[t].pc = "wild" => t = current'
      BY <1>1, <1>2 DEF Saved
    <2>6. \A t \in Tasks :
            th'[t].pc \in {"shell", "reap", "visit", "dequeue", "unlink"} => t = Shell
      BY <1>1, <1>2 DEF Saved
    <2>7. th'[Shell].pc = "user" =>
            current' # Shell /\ context'[Shell] \in {"idle", "outdated"}
      <3>1. th[Shell].pc = "user" => context'[Shell] = context[Shell] /\ context'[Shell] # "irq"
        BY <1>1, <1>3 DEF Saved
      <3>2. context'[Shell] \in {"idle", "irq", "call", "outdated"}
        BY <1>1, <1>3 DEF Saved
      <3>3. CASE n = Shell
        BY <3>1, <3>2, <3>3, <1>2 DEF Unready
      <3>4. CASE n # Shell
        BY <3>1, <3>4, <1>1, <1>2 DEF Saved
      <3> QED  BY <3>3, <3>4
    <2>8. context'[Shell] \in {"idle", "irq", "call", "outdated"}
      BY <1>1, <1>3 DEF Saved
    <2>9. \A t \in Tasks : t = current' /\ context'[t] = "zero" => th'[t].pc = "wild"
      BY <1>1, <1>2 DEF Unready
    <2>10. \A t \in Tasks :
             t = current' /\ (\E c \in Tasks : th'[c].new = t /\ th'[c].job = "exec") =>
                th'[t].pc = "wild"
      <3> SUFFICES ASSUME NEW c \in Tasks, th'[c].new = n, th'[c].job = "exec"
                   PROVE  th'[n].pc = "wild"
        BY <1>2
      <3>1. th[c] = th'[c]
        BY <1>2
      <3>2. n # current /\ context[n] = "image"
        BY <1>1, <3>1 DEF Saved, Newcomers
      <3> QED  BY <1>2, <1>3, <3>2 DEF Unready
    <2>11. \A t \in Tasks : t # current' /\ context'[t] = "image" =>
             \E c \in Tasks : th'[c].new = t /\ th'[c].job = "exec"
      <3> SUFFICES ASSUME NEW t \in Tasks, t # n, context'[t] = "image"
                   PROVE  \E c \in Tasks : th'[c].new = t /\ th'[c].job = "exec"
        BY <1>2
      <3>1. t # current /\ context[t] = "image"
        BY <1>3
      <3>2. PICK c \in Tasks : th[c].new = t /\ th[c].job = "exec"
        BY <1>1, <3>1 DEF Saved
      <3> QED  BY <3>2, <1>5
    <2>12. \A t \in Tasks : th'[t].pc \in {"foo", "spawn"} \/ th'[t].how = "foo" => t # Shell
      <3>1. context'[Shell] # "foo"
        BY <2>8
      <3> QED  BY <1>1, <1>2, <1>5, <3>1 DEF Saved
    <2> QED  BY <2>1, <2>2, <2>3, <2>4, <2>5, <2>6, <2>7, <2>8, <2>9, <2>10, <2>11, <2>12 DEF Saved
  <1>10. Targets(r)'
    BY <1>1, <1>2, <1>5 DEF Targets, Placed
  <1> QED  BY <1>6, <1>7, <1>8, <1>9, <1>10 DEF Core
\* What the invariant says before a step.
LEMMA CoreParts ==
    ASSUME NEW r, Core(r)
    PROVE  /\ Typed /\ Ranked(r) /\ Newcomers(r) /\ Saved /\ Targets(r)
           /\ Shell \in Tasks /\ NULL \notin Tasks
           /\ th \in [Tasks -> Fields] /\ current \in Tasks /\ next[current] # NULL
  BY ThreadsAssumption DEF Core, Typed, Targets, Ranked

\* schedule chooses a task on the ring.
LEMMA ChooseKeeps ==
    ASSUME NEW r, Core(r), NEW c \in Tasks, Choose(c)
    PROVE  Core(r)'
  <1>1. /\ Typed /\ Ranked(r) /\ Newcomers(r) /\ Saved /\ Targets(r)
        /\ Shell \in Tasks /\ th \in [Tasks -> Fields]
        /\ c = current /\ th[c].pc = "choose"
        /\ UNCHANGED <<next, prev, state, pid, id_counter, context, current, masked,
                       freed, overlap, stale>>
    BY CoreParts DEF Choose, At, ring, ids, cpu, past
  <1>2. PICK n : n = NextRunning(state, c)
    OBVIOUS
  <1>3. n \in Tasks /\ Placed(r, n)
    BY <1>1, <1>2, NextRunningFound DEF Targets
  <1>4. th' = [th EXCEPT ![c].pc = "switch", ![c].sel = n]
    BY <1>2 DEF Choose
  <1>5. /\ th' \in [Tasks -> Fields] /\ \A d \in Tasks \ {c} : th'[d] = th[d]
        /\ th'[c].pc = "switch" /\ th'[c].sel = n /\ th'[c].job = th[c].job
        /\ th'[c].how = th[c].how
    <2> DEFINE v == [th[c] EXCEPT !.pc = "switch", !.sel = n]
    <2>1. v \in Fields /\ v.pc = "switch" /\ v.sel = n /\ v.job = th[c].job /\ v.how = th[c].how
      <3>1. th[c] \in Fields
        BY <1>1
      <3> QED  BY <3>1, <1>3 DEF Fields, Pcs
    <2>2. th' = [th EXCEPT ![c] = v]
      BY <1>1, <1>4
    <2> HIDE DEF v
    <2> QED  BY <1>1, <2>1, <2>2
  <1>6. Typed'
    BY <1>1, <1>5 DEF Typed
  <1>7. Ranked(r)'
    BY <1>1 DEF Ranked, Placed
  <1>8. Newcomers(r)'
    <2>1. \A d \in Tasks : Creating(d)' => Creating(d) /\ th'[d] = th[d]
      BY <1>5 DEF Creating
    <2> QED  BY <1>1, <2>1 DEF Newcomers, Placed
  <1>9. Saved'
    <2>1. \A d \in Tasks : th[d].job \in {"fork", "exec"} => th'[d] = th[d]
      BY <1>1, <1>5 DEF Saved, Creating
    <2> QED  BY <1>1, <1>5, <2>1 DEF Saved, Creating
  <1>10. Targets(r)'
    BY <1>1, <1>3, <1>5 DEF Targets, Placed
  <1> QED  BY <1>6, <1>7, <1>8, <1>9, <1>10 DEF Core
\* thread_create makes a task that nobody knows.
LEMMA ThreadCreateKeeps ==
    ASSUME NEW r, Core(r), NEW c \in Tasks, NEW job \in Jobs, ThreadCreate(c, job)
    PROVE  Core(r)'
  <1>1. /\ Typed /\ Ranked(r) /\ Newcomers(r) /\ Saved /\ Targets(r)
        /\ Shell \in Tasks /\ th \in [Tasks -> Fields] /\ id_counter \in Int
        /\ c = current /\ th[c].pc = IF job = "fork" THEN "user" ELSE "shell"
        /\ masked' = (job = "fork" /\ MaskedFork)
        /\ UNCHANGED <<next, prev, pid, id_counter, current, freed, overlap, stale>>
    BY CoreParts DEF ThreadCreate, At, ring, ids, past, Typed
  <1>2. PICK t \in Tasks :
          /\ state[t] = "none"
          /\ state' = [state EXCEPT ![t] = "RUNNING"]
          /\ context' = [context EXCEPT ![t] = Function(job)]
          /\ th' = [th EXCEPT ![c].pc = "count", ![c].job = job, ![c].new = t,
                              ![c].count = id_counter]
    BY DEF ThreadCreate
  <1>3. /\ job \in {"fork", "fork_demo", "thread_demo", "exec"} /\ masked' \in BOOLEAN
        /\ job \in IF c = Shell THEN {"fork_demo", "thread_demo", "exec"} ELSE {"fork"}
    BY <1>1, ThreadsAssumption DEF Jobs, Saved
  <1>4. /\ state' \in [Tasks -> States] /\ state'[t] = "RUNNING"
        /\ \A d \in Tasks \ {t} : state'[d] = state[d] /\ context'[d] = context[d]
        /\ context' \in [Tasks -> Contexts]
        /\ context'[t] = Function(job)
    <2>1. Function(job) \in Contexts
      BY <1>3 DEF Function, Contexts
    <2> QED  BY <1>1, <1>2, <2>1 DEF Typed, States
  <1>5. /\ th' \in [Tasks -> Fields] /\ \A d \in Tasks \ {c} : th'[d] = th[d]
        /\ th'[c].pc = "count" /\ th'[c].job = job /\ th'[c].new = t /\ th'[c].how = th[c].how
    <2> DEFINE v == [th[c] EXCEPT !.pc = "count", !.job = job, !.new = t, !.count = id_counter]
    <2>1. v \in Fields /\ v.pc = "count" /\ v.job = job /\ v.new = t /\ v.how = th[c].how
      <3>1. th[c] \in Fields
        BY <1>1
      <3> QED  BY <3>1, <1>1, <1>3 DEF Fields, Pcs
    <2>2. th' = [th EXCEPT ![c] = v]
      BY <1>1, <1>2
    <2> HIDE DEF v
    <2> QED  BY <1>1, <2>1, <2>2
  <1>6. /\ t # Shell /\ t # current /\ ~ Placed(r, t) /\ next[t] = NULL /\ prev[t] = NULL
        /\ \A d \in Tasks : Creating(d) => th[d].new # t
        /\ ~ Creating(c) /\ th[c].job = "none" /\ context[t] # "irq"
        /\ Function(job) \in {"zero", "test", "foo", "image"}
        /\ job = "fork" <=> Function(job) = "zero"
        /\ job = "exec" <=> Function(job) = "image"
    BY <1>1, <1>2, <1>3 DEF Newcomers, Targets, Saved, Creating, Placed, Function
  <1>7. \A d \in Tasks \ {c} : Creating(d)' <=> Creating(d)
    BY <1>5 DEF Creating
  <1>8. Typed'
    BY <1>1, <1>3, <1>4, <1>5 DEF Typed
  <1>9. Ranked(r)'
    BY <1>1 DEF Ranked, Placed
  <1>10. Newcomers(r)'
    BY SMTT(30), <1>1, <1>2, <1>3, <1>4, <1>5, <1>6, <1>7 DEF Newcomers, Placed, Creating
  <1>11. Saved'
    <2>1. \A d \in Tasks : th[d].job \in {"fork", "exec"} => th'[d] = th[d]
      BY <1>5, <1>6
    <2> QED  BY <1>1, <1>4, <1>5, <1>6, <1>7, <2>1 DEF Saved, Creating
  <1>12. Targets(r)'
    BY <1>1, <1>4, <1>5, <1>6 DEF Targets, Placed
  <1> QED  BY <1>8, <1>9, <1>10, <1>11, <1>12 DEF Core

\* The count of tasks goes on.
LEMMA CountKeeps ==
    ASSUME NEW r, Core(r), NEW c \in Tasks, Count(c)
    PROVE  Core(r)'
  <1>1. /\ Typed /\ Ranked(r) /\ Newcomers(r) /\ Saved /\ Targets(r)
        /\ Shell \in Tasks /\ th \in [Tasks -> Fields]
        /\ c = current /\ th[c].pc = "count" /\ Creating(c)
        /\ id_counter' = th[c].count + 1
        /\ pid' = [pid EXCEPT ![th[c].new] = th[c].count]
        /\ th' = [th EXCEPT ![c].pc = "enqueue"]
        /\ UNCHANGED <<next, prev, state, context, current, masked, freed, overlap, stale>>
    BY CoreParts DEF Count, At, ring, cpu, past, NextId, Creating
  <1>2. th[c].count \in Int
    BY <1>1 DEF Fields
  <1>3. /\ th' \in [Tasks -> Fields] /\ \A d \in Tasks \ {c} : th'[d] = th[d]
        /\ th'[c].pc = "enqueue" /\ th'[c].job = th[c].job /\ th'[c].new = th[c].new
    <2>1. th[c] \in Fields
      BY <1>1
    <2> QED  BY <1>1, <2>1 DEF Fields, Pcs
  <1>4. \A d \in Tasks : Creating(d)' <=> Creating(d)
    BY <1>1, <1>3 DEF Creating
  <1>5. pid' \in [Tasks -> Int] /\ pid'[Shell] = 0
    BY <1>1, <1>2 DEF Typed, Newcomers, Targets
  <1>6. Typed'
    BY <1>1, <1>2, <1>3, <1>5 DEF Typed
  <1>7. Ranked(r)'
    BY <1>1 DEF Ranked, Placed
  <1>8. Newcomers(r)'
    BY <1>1, <1>3, <1>4 DEF Newcomers, Placed
  <1>9. Saved'
    BY <1>1, <1>3, <1>4 DEF Saved
  <1>10. Targets(r)'
    BY <1>1, <1>3, <1>5 DEF Targets, Placed
  <1> QED  BY <1>6, <1>7, <1>8, <1>9, <1>10 DEF Core

\* The new task's own two stores.
LEMMA EnqueueKeeps ==
    ASSUME NEW r, Core(r), NEW c \in Tasks, Enqueue(c)
    PROVE  Core(r)'
  <1>1. /\ Typed /\ Ranked(r) /\ Newcomers(r) /\ Saved /\ Targets(r)
        /\ Shell \in Tasks /\ th \in [Tasks -> Fields] /\ NULL \notin Tasks
        /\ c = current /\ th[c].pc = "enqueue" /\ Creating(c)
        /\ th' = [th EXCEPT ![c].pc = "append"]
        /\ next' = [next EXCEPT ![th[c].new] = Shell]
        /\ prev' = [prev EXCEPT ![th[c].new] = prev[Shell]]
        /\ overlap' \in BOOLEAN
        /\ UNCHANGED <<state, pid, id_counter, context, current, masked, freed, stale>>
    BY CoreParts DEF Enqueue, At, ids, cpu, NoteOverlap, Creating, Typed
  <1>2. PICK t \in Tasks : t = th[c].new /\ t # Shell /\ ~ Placed(r, t)
    BY <1>1 DEF Newcomers
  <1>3. /\ th' \in [Tasks -> Fields] /\ \A d \in Tasks \ {c} : th'[d] = th[d]
        /\ th'[c].pc = "append" /\ th'[c].job = th[c].job /\ th'[c].new = t
        /\ th'[c].how = th[c].how
    <2>1. th[c] \in Fields
      BY <1>1
    <2> QED  BY <1>1, <1>2, <2>1 DEF Fields, Pcs
  <1>4. \A d \in Tasks : Creating(d)' <=> Creating(d)
    BY <1>1, <1>3 DEF Creating
  <1>5. /\ next' \in [Tasks -> Tasks \cup {NULL}] /\ prev' \in [Tasks -> Tasks \cup {NULL}]
        /\ next'[t] = Shell /\ prev'[t] = prev[Shell]
        /\ \A d \in Tasks \ {t} : next'[d] = next[d] /\ prev'[d] = prev[d]
    BY <1>1, <1>2 DEF Typed
  <1>6. prev[Shell] # NULL /\ Placed(r, prev[Shell])
    BY <1>1 DEF Ranked, Placed
  <1>7. Typed'
    BY <1>1, <1>3, <1>5 DEF Typed
  <1>8. Ranked(r)'
    BY <1>1, <1>2, <1>5, <1>6 DEF Ranked, Placed
  <1>9. Newcomers(r)'
    <2>1. \A d \in Tasks \ {c} : Creating(d) => th[d].new # t
      BY <1>1, <1>2 DEF Newcomers
    <2>2. state[t] # "none"
      BY <1>1, <1>2 DEF Newcomers
    <2> QED  BY <1>1, <1>2, <1>3, <1>4, <1>5, <1>6, <2>1, <2>2 DEF Newcomers, Placed
  <1>10. Saved'
    BY <1>1, <1>2, <1>3, <1>4 DEF Saved
  <1>11. Targets(r)'
    BY <1>1, <1>3 DEF Targets, Placed
  <1> QED  BY <1>7, <1>8, <1>9, <1>10, <1>11 DEF Core
\* There is a rank above all in use.
LEMMA RanksBounded ==
    ASSUME NEW r \in [Tasks -> Nat]
    PROVE  \E m \in Nat \ {0} : \A t \in Tasks : r[t] < m
  <1> DEFINE Bounded(S) == \E m \in Nat \ {0} : \A t \in S : r[t] < m
             Bad == {n \in Nat : \E S \in SUBSET Tasks : Cardinality(S) = n /\ ~ Bounded(S)}
  <1>1. SUFFICES ASSUME ~ Bounded(Tasks) PROVE FALSE
    OBVIOUS
  <1>2. \A S \in SUBSET Tasks : IsFiniteSet(S) /\ Cardinality(S) \in Nat
    BY ThreadsAssumption, FS_Subset, FS_CardinalityType
  <1>3. Bad # {} /\ Bad \subseteq Nat
    BY <1>1, <1>2
  <1>4. PICK n \in Bad : \A y \in Bad : n <= y
    BY <1>3, LeastNat, Zenon
  <1>5. PICK S \in SUBSET Tasks : Cardinality(S) = n /\ ~ Bounded(S)
    BY <1>4
  <1>6. PICK x \in S : TRUE
    <2>1. 1 \in Nat \ {0}
      OBVIOUS
    <2> QED  BY <1>5, <2>1
  <1>7. Cardinality(S \ {x}) = n - 1 /\ n \in Nat /\ n - 1 \in Nat
    BY SMTT(30), <1>2, <1>5, <1>6, FS_RemoveElement
  <1>8. n - 1 \notin Bad
    BY <1>4, <1>7
  <1>9. PICK m \in Nat \ {0} : \A t \in S \ {x} : r[t] < m
    BY <1>7, <1>8
  <1>10. PICK k \in Nat \ {0} : k >= m /\ k > r[x]
    <2>1. r[x] \in Nat /\ x \in Tasks
      BY <1>6
    <2>2. r[x] + m \in Nat \ {0} /\ r[x] + m >= m /\ r[x] + m > r[x]
      BY <2>1
    <2> QED  BY <2>2
  <1>11. \A t \in S : r[t] < k
    BY <1>9, <1>10
  <1> QED  BY <1>5, <1>11

\* The store that puts the new task on the ring gives it the highest rank.
LEMMA AppendKeeps ==
    ASSUME NEW r, Core(r), NEW c \in Tasks, Append(c)
    PROVE  \E q \in [Tasks -> Nat] : Core(q)'
  <1>1. /\ Typed /\ Ranked(r) /\ Newcomers(r) /\ Saved /\ Targets(r)
        /\ Shell \in Tasks /\ th \in [Tasks -> Fields] /\ NULL \notin Tasks
        /\ c = current /\ th[c].pc = "append" /\ Creating(c)
        /\ th' = [th EXCEPT ![c].pc = "close"]
        /\ next' = [next EXCEPT ![prev[Shell]] = th[c].new]
        /\ overlap' \in BOOLEAN
        /\ UNCHANGED <<prev, state, pid, id_counter, context, current, masked, freed, stale>>
    BY CoreParts DEF Append, At, ids, cpu, NoteOverlap, Creating, Typed
  <1>2. PICK t \in Tasks : t = th[c].new /\ t # Shell /\ ~ Placed(r, t)
    BY <1>1 DEF Newcomers
  <1>3. r \in [Tasks -> Nat]
    BY <1>1 DEF Ranked
  <1>4. PICK m \in Nat \ {0} : \A d \in Tasks : r[d] < m
    BY <1>3, RanksBounded
  <1>5. PICK q \in [Tasks -> Nat] : q[t] = m /\ \A d \in Tasks \ {t} : q[d] = r[d]
    <2> DEFINE f == [r EXCEPT ![t] = m]
    <2>1. f \in [Tasks -> Nat] /\ f[t] = m /\ \A d \in Tasks \ {t} : f[d] = r[d]
      BY <1>3
    <2> QED  BY <2>1
  <1>6. /\ Placed(q, t) /\ \A d \in Tasks \ {t} : Placed(q, d) <=> Placed(r, d)
        /\ \A d \in Tasks : Placed(r, d) => Placed(q, d)
        /\ \A d \in Tasks : q[d] \in Nat /\ r[d] \in Nat
    BY <1>2, <1>3, <1>4, <1>5 DEF Placed
  <1>7. /\ th' \in [Tasks -> Fields] /\ \A d \in Tasks \ {c} : th'[d] = th[d]
        /\ th'[c].pc = "close" /\ th'[c].job = th[c].job /\ th'[c].new = t
        /\ th'[c].how = th[c].how
    <2>1. th[c] \in Fields
      BY <1>1
    <2> QED  BY <1>1, <1>2, <2>1 DEF Fields, Pcs
  <1>8. \A d \in Tasks : Creating(d)' <=> Creating(d)
    BY <1>1, <1>7 DEF Creating
  <1>9. PICK u \in Tasks : u = prev[Shell] /\ Placed(r, u) /\ u # t
    BY <1>1, <1>2 DEF Ranked, Placed, Typed
  <1>10. /\ next' \in [Tasks -> Tasks \cup {NULL}] /\ next'[u] = t
         /\ \A d \in Tasks \ {u} : next'[d] = next[d]
         /\ next[t] = Shell /\ prev[t] # NULL /\ prev[t] \in Tasks
    BY <1>1, <1>2, <1>9 DEF Typed, Newcomers
  <1>11. Typed'
    BY <1>1, <1>7, <1>10 DEF Typed
  <1>12. Ranked(q)'
    <2>1. q[Shell] = 0
      BY <1>1, <1>2, <1>5 DEF Ranked
    <2>2. \A d \in Tasks : Placed(q, d) => next'[d] # NULL /\ prev'[d] # NULL
      BY <1>1, <1>2, <1>6, <1>10 DEF Ranked
    <2>3. \A d \in Tasks : next'[d] # NULL => next'[d] = Shell \/ q[d] < q[next'[d]]
      <3> SUFFICES ASSUME NEW d \in Tasks, next'[d] # NULL, next'[d] # Shell
                   PROVE  q[d] < q[next'[d]]
        OBVIOUS
      <3>1. CASE d = u
        BY <3>1, <1>2, <1>4, <1>5, <1>9, <1>10
      <3>2. CASE d # u
        <4>1. next'[d] = next[d] /\ r[d] < r[next[d]] /\ d # t /\ next[d] \in Tasks
          BY <3>2, <1>1, <1>10 DEF Ranked, Typed
        <4>2. next[d] # t
          BY <4>1, <1>2, <1>3 DEF Placed
        <4> QED  BY <4>1, <4>2, <1>5
      <3> QED  BY <3>1, <3>2
    <2>4. \A d \in Tasks : prev'[d] # NULL => Placed(q, prev'[d])
      BY <1>1, <1>6 DEF Ranked, Typed
    <2>5. \A d \in Tasks : q[d] > 0 => q[prev'[d]] < q[d]
      <3> SUFFICES ASSUME NEW d \in Tasks, q[d] > 0 PROVE q[prev[d]] < q[d]
        BY <1>1
      <3>1. Placed(r, prev[d]) /\ prev[d] \in Tasks /\ prev[d] # t
        <4>1. prev[d] # NULL
          BY <1>5, <1>10, <1>1 DEF Ranked, Placed
        <4> QED  BY <4>1, <1>1, <1>2 DEF Ranked, Typed
      <3>2. q[prev[d]] = r[prev[d]] /\ r[prev[d]] < m
        BY <3>1, <1>4, <1>5
      <3>3. CASE d = t
        BY <3>2, <3>3, <1>5
      <3>4. CASE d # t
        BY <3>2, <3>4, <1>1, <1>5 DEF Ranked
      <3> QED  BY <3>3, <3>4
    <2>6. \A d \in Tasks : ~ Placed(q, d) => next'[d] \in {NULL, Shell}
      BY <1>1, <1>6, <1>9, <1>10 DEF Ranked
    <2> QED  BY <2>1, <2>2, <2>3, <2>4, <2>5, <2>6 DEF Ranked, Placed
  <1>13. Newcomers(q)'
    <2>1. \A d \in Tasks \ {c} : Creating(d) => th[d].new # t
      BY <1>1, <1>2 DEF Newcomers
    <2>2. state[t] # "none"
      BY <1>1, <1>2 DEF Newcomers
    <2>3. \A d \in Tasks : ~ Placed(r, d) => d # u
      BY <1>9
    <2> HIDE DEF Placed
    <2>4. \A d \in Tasks : Creating(d) => th[d].new \in Tasks
      BY <1>1 DEF Newcomers
    <2>5. \A d \in Tasks : Creating(d)' =>
            /\ th'[d].new \in Tasks /\ th'[d].new # Shell
            /\ th'[d].job \in IF d = Shell THEN {"fork_demo", "thread_demo", "exec"} ELSE {"fork"}
            /\ th'[d].pc \in {"fork", "fork_demo", "thread_demo", "exec"} => th'[d].pc = th'[d].job
            /\ state'[th'[d].new] # "none"
            /\ th'[d].pc \in {"count", "enqueue"} =>
                  next'[th'[d].new] = NULL /\ prev'[th'[d].new] = NULL
            /\ th'[d].pc = "append" => next'[th'[d].new] = Shell /\ prev'[th'[d].new] # NULL
            /\ Placed(q, th'[d].new) <=> th'[d].pc \notin {"count", "enqueue", "append"}
            /\ th'[d].job = "exec" => context'[th'[d].new] = "image"
            /\ th'[d].job = "fork" => context'[th'[d].new] = "zero"
      <3> SUFFICES ASSUME NEW d \in Tasks, Creating(d)
                   PROVE
            /\ th'[d].new \in Tasks /\ th'[d].new # Shell
            /\ th'[d].job \in IF d = Shell THEN {"fork_demo", "thread_demo", "exec"} ELSE {"fork"}
            /\ th'[d].pc \in {"fork", "fork_demo", "thread_demo", "exec"} => th'[d].pc = th'[d].job
            /\ state'[th'[d].new] # "none"
            /\ th'[d].pc \in {"count", "enqueue"} =>
                  next'[th'[d].new] = NULL /\ prev'[th'[d].new] = NULL
            /\ th'[d].pc = "append" => next'[th'[d].new] = Shell /\ prev'[th'[d].new] # NULL
            /\ Placed(q, th'[d].new) <=> th'[d].pc \notin {"count", "enqueue", "append"}
            /\ th'[d].job = "exec" => context'[th'[d].new] = "image"
            /\ th'[d].job = "fork" => context'[th'[d].new] = "zero"
        BY <1>8
      <3>1. CASE d = c
        BY <3>1, <1>1, <1>2, <1>6, <1>7 DEF Newcomers
      <3>2. CASE d # c
        <4>1. /\ th'[d] = th[d] /\ th[d].new \in Tasks \ {t}
              /\ Placed(q, th[d].new) <=> Placed(r, th[d].new)
          BY <3>2, <1>6, <1>7, <2>1, <2>4
        <4>2. th[d].pc \in {"count", "enqueue", "append"} =>
                 next'[th[d].new] = next[th[d].new] /\ prev'[th[d].new] = prev[th[d].new]
          <5>1. th[d].pc \in {"count", "enqueue", "append"} => ~ Placed(r, th[d].new)
            BY <1>1 DEF Newcomers
          <5> QED  BY <5>1, <4>1, <2>3, <1>1, <1>10
        <4> QED  BY <4>1, <4>2, <1>1 DEF Newcomers
      <3> QED  BY <3>1, <3>2
    <2>6. \A d, e \in Tasks : d # e /\ Creating(d)' /\ Creating(e)' => th'[d].new # th'[e].new
      BY <1>1, <1>2, <1>7, <1>8 DEF Newcomers
    <2>7. \A d \in Tasks : state'[d] = "none" =>
            ~ Placed(q, d) /\ next'[d] = NULL /\ prev'[d] = NULL
      BY <1>1, <1>6, <1>10, <2>2, <2>3 DEF Newcomers
    <2>8. \A d \in Tasks : ~ Placed(q, d) =>
            /\ state'[d] \in {"none", "RUNNING"} /\ d # current'
            /\ context'[d] \in {"none", "zero", "test", "foo", "image"} /\ freed'[d] = 0
      BY <1>1, <1>6 DEF Newcomers
    <2> QED  BY <2>5, <2>6, <2>7, <2>8 DEF Newcomers, Placed
  <1>14. Saved'
    BY <1>1, <1>2, <1>7, <1>8 DEF Saved
  <1>15. Targets(q)'
    <2> HIDE DEF Placed
    <2>1. /\ Placed(q, current')
          /\ \A d \in Tasks : th'[d].pc = "switch" =>
                Placed(q, d) /\ th'[d].sel \in Tasks /\ Placed(q, th'[d].sel)
          /\ th'[Shell].pc \in {"visit", "dequeue", "unlink"} =>
                th'[Shell].at \in Tasks /\ Placed(q, th'[Shell].at)
          /\ th'[Shell].pc \in {"dequeue", "unlink"} =>
                /\ th'[Shell].at # Shell
                /\ th'[Shell].to \in Tasks /\ Placed(q, th'[Shell].to)
      BY <1>1, <1>6, <1>7 DEF Targets
    <2> QED  BY <1>1, <2>1 DEF Targets, Placed
  <1> QED  BY <1>11, <1>12, <1>13, <1>14, <1>15 DEF Core
\* The head's prev comes to the new task.
LEMMA CloseKeeps ==
    ASSUME NEW r, Core(r), NEW c \in Tasks, Close(c)
    PROVE  Core(r)'
  <1>1. /\ Typed /\ Ranked(r) /\ Newcomers(r) /\ Saved /\ Targets(r)
        /\ Shell \in Tasks /\ th \in [Tasks -> Fields] /\ NULL \notin Tasks
        /\ c = current /\ th[c].pc = "close" /\ Creating(c)
        /\ th' = [th EXCEPT ![c].pc = th[c].job]
        /\ prev' = [prev EXCEPT ![Shell] = th[c].new]
        /\ overlap' \in BOOLEAN
        /\ UNCHANGED <<next, state, pid, id_counter, context, current, masked, freed, stale>>
    BY CoreParts DEF Close, At, ids, cpu, NoteOverlap, Creating, Typed
  <1>2. PICK t \in Tasks : t = th[c].new /\ t # Shell /\ Placed(r, t)
    BY <1>1 DEF Newcomers
  <1>3. th[c].job \in {"fork", "fork_demo", "thread_demo", "exec"}
    BY <1>1 DEF Newcomers
  <1>4. /\ th' \in [Tasks -> Fields] /\ \A d \in Tasks \ {c} : th'[d] = th[d]
        /\ th'[c].pc = th[c].job /\ th'[c].job = th[c].job /\ th'[c].new = t
        /\ th'[c].how = th[c].how
    <2>1. th[c] \in Fields
      BY <1>1
    <2> QED  BY <1>1, <1>2, <1>3, <2>1 DEF Fields, Pcs
  <1>5. \A d \in Tasks : Creating(d)' <=> Creating(d)
    BY <1>1, <1>3, <1>4 DEF Creating
  <1>6. /\ prev' \in [Tasks -> Tasks \cup {NULL}] /\ prev'[Shell] = t
        /\ \A d \in Tasks \ {Shell} : prev'[d] = prev[d]
    BY <1>1, <1>2 DEF Typed
  <1>7. Typed'
    BY <1>1, <1>4, <1>6 DEF Typed
  <1>8. Ranked(r)'
    BY <1>1, <1>2, <1>6 DEF Ranked, Placed
  <1>9. Newcomers(r)'
    BY <1>1, <1>2, <1>3, <1>4, <1>5, <1>6 DEF Newcomers, Placed, Targets
  <1>10. Saved'
    BY <1>1, <1>2, <1>3, <1>4, <1>5 DEF Saved
  <1>11. Targets(r)'
    BY <1>1, <1>3, <1>4 DEF Targets, Placed
  <1> QED  BY <1>7, <1>8, <1>9, <1>10, <1>11 DEF Core

\* fork ends: the child has a context.
LEMMA ForkReturnKeeps ==
    ASSUME NEW r, Core(r), NEW c \in Tasks, ForkReturn(c)
    PROVE  Core(r)'
  <1>1. /\ Typed /\ Ranked(r) /\ Newcomers(r) /\ Saved /\ Targets(r)
        /\ Shell \in Tasks /\ th \in [Tasks -> Fields]
        /\ c = current /\ th[c].pc = "fork" /\ Creating(c)
        /\ th' = [th EXCEPT ![c] = Locals]
        /\ context' = [context EXCEPT ![th[c].new] = "child"]
        /\ masked' = FALSE
        /\ UNCHANGED <<next, prev, state, pid, id_counter, current, freed, overlap, stale>>
    BY CoreParts DEF ForkReturn, At, ring, ids, past, Creating, ChildContext
  <1>2. PICK t \in Tasks : t = th[c].new /\ t # Shell /\ Placed(r, t)
    BY <1>1 DEF Newcomers
  <1>3. th[c].job = "fork" /\ c # Shell /\ context[t] = "zero" /\ t # c
    BY <1>1, <1>2 DEF Newcomers, Saved
  <1>4. /\ th' \in [Tasks -> Fields] /\ \A d \in Tasks \ {c} : th'[d] = th[d]
        /\ th'[c].pc = "user" /\ th'[c].job = "none" /\ th'[c].how = "call"
    <2> HIDE DEF Locals
    <2> QED  BY <1>1, LocalsReset
  <1>5. /\ context' \in [Tasks -> Contexts] /\ context'[t] = "child"
        /\ \A d \in Tasks \ {t} : context'[d] = context[d]
    BY <1>1, <1>2 DEF Typed, Contexts
  <1>6. \A d \in Tasks : Creating(d)' => d # c /\ Creating(d) /\ th'[d] = th[d]
    BY <1>1, <1>4 DEF Creating
  <1>7. Typed'
    BY <1>1, <1>4, <1>5 DEF Typed
  <1>8. Ranked(r)'
    BY <1>1 DEF Ranked, Placed
  <1>9. Newcomers(r)'
    <2>1. \A d \in Tasks \ {c} : Creating(d) => th[d].new # t
      BY <1>1, <1>2 DEF Newcomers
    <2> QED  BY <1>1, <1>2, <1>4, <1>5, <1>6, <2>1 DEF Newcomers, Placed
  <1>10. Saved'
    <2>1. \A d \in Tasks : context'[d] = "zero" =>
            \E e \in Tasks : th'[e].new = d /\ th'[e].job = "fork"
      <3> SUFFICES ASSUME NEW d \in Tasks, context'[d] = "zero"
                   PROVE  \E e \in Tasks : th'[e].new = d /\ th'[e].job = "fork"
        OBVIOUS
      <3>1. d # t /\ context[d] = "zero"
        BY <1>5
      <3>2. PICK e \in Tasks : th[e].new = d /\ th[e].job = "fork"
        BY <3>1, <1>1 DEF Saved
      <3> QED  BY <3>1, <3>2, <1>2, <1>4
    <2>2. \A d \in Tasks : ~ Creating(d)' /\ th'[d].pc # "wild" => th'[d].job = "none"
      BY <1>1, <1>4 DEF Saved, Creating
    <2>3. \A d \in Tasks : d # current' /\ context'[d] # "irq" =>
            th'[d].pc \in {"user", "switch", "spawn"}
      BY <1>1, <1>2, <1>3, <1>4, <1>5 DEF Saved
    <2>4. \A d \in Tasks : th[d].job = "exec" => d # c /\ th'[d] = th[d]
      BY <1>3, <1>4
    <2>5. \A d \in Tasks : th'[d].job = "exec" => th'[d] = th[d]
      BY <1>4
    <2>6. \A d \in Tasks : context'[d] \in {"image", "outdated"} => context[d] = context'[d]
      BY <1>5
    <2> QED  BY <1>1, <1>2, <1>3, <1>4, <1>5, <2>1, <2>2, <2>3, <2>4, <2>5, <2>6 DEF Saved
  <1>11. Targets(r)'
    BY <1>1, <1>3, <1>4 DEF Targets, Placed
  <1> QED  BY <1>7, <1>8, <1>9, <1>10, <1>11 DEF Core

\* The command is back in the shell.
LEMMA DemoReturnKeeps ==
    ASSUME NEW r, Core(r), NEW c \in Tasks, DemoReturn(c)
    PROVE  Core(r)'
  <1>1. /\ Typed /\ Ranked(r) /\ Newcomers(r) /\ Saved /\ Targets(r)
        /\ Shell \in Tasks /\ th \in [Tasks -> Fields]
        /\ c = current /\ th[c].pc \in {"fork_demo", "thread_demo"} /\ Creating(c)
        /\ th' = [th EXCEPT ![c] = [Locals EXCEPT !.pc = "shell"]]
        /\ UNCHANGED <<next, prev, state, pid, id_counter, context, current, masked,
                       freed, overlap, stale>>
    BY CoreParts DEF DemoReturn, InShell, At, ring, ids, cpu, past, Creating
  <1>2. th[c].job \in {"fork_demo", "thread_demo"} /\ c = Shell
    BY <1>1 DEF Newcomers
  <1>3. /\ th' \in [Tasks -> Fields] /\ \A d \in Tasks \ {c} : th'[d] = th[d]
        /\ th'[c].pc = "shell" /\ th'[c].job = "none" /\ th'[c].how = "call"
    <2>1. "shell" \in Pcs
      BY DEF Pcs
    <2> HIDE DEF Locals
    <2> QED  BY <1>1, <2>1, LocalsReset
  <1>4. \A d \in Tasks : Creating(d)' => d # c /\ Creating(d) /\ th'[d] = th[d]
    BY <1>1, <1>3 DEF Creating
  <1>5. Typed'
    BY <1>1, <1>3 DEF Typed
  <1>6. Ranked(r)'
    BY <1>1 DEF Ranked, Placed
  <1>7. Newcomers(r)'
    BY <1>1, <1>3, <1>4 DEF Newcomers, Placed
  <1>8. Saved'
    <2>1. \A d \in Tasks : th[d].job \in {"fork", "exec"} => th'[d] = th[d]
      BY <1>2, <1>3
    <2>2. \A d \in Tasks : ~ Creating(d)' /\ th'[d].pc # "wild" => th'[d].job = "none"
      BY <1>1, <1>3 DEF Saved, Creating
    <2> QED  BY <1>1, <1>2, <1>3, <2>1, <2>2 DEF Saved
  <1>9. Targets(r)'
    BY <1>1, <1>2, <1>3 DEF Targets, Placed
  <1> QED  BY <1>5, <1>6, <1>7, <1>8, <1>9 DEF Core

\* exec drops the shell and goes to the new task.
LEMMA SpawnUserProgramKeeps ==
    ASSUME NEW r, Core(r), NEW c \in Tasks, SpawnUserProgram(c)
    PROVE  Core(r)'
  <1>1. /\ Typed /\ Ranked(r) /\ Newcomers(r) /\ Saved /\ Targets(r)
        /\ Shell \in Tasks /\ th \in [Tasks -> Fields]
        /\ c = current /\ th[c].pc = "exec" /\ Creating(c) /\ context \in [Tasks -> Contexts]
        /\ current' = th[c].new
        /\ context' = [context EXCEPT ![c] = IF @ = "idle" THEN @ ELSE "outdated"]
        /\ th' = [th EXCEPT ![c] = Locals, ![th[c].new].pc = "spawn"]
        /\ UNCHANGED <<next, prev, state, pid, id_counter, masked, freed, overlap, stale>>
    BY CoreParts DEF SpawnUserProgram, At, ring, ids, past, Creating, Typed
  <1>2. PICK t \in Tasks : t = th[c].new /\ t # Shell /\ Placed(r, t)
    BY <1>1 DEF Newcomers
  <1>3. /\ th[c].job = "exec" /\ c = Shell /\ context[t] = "image"
        /\ ~ Creating(t) /\ th[t].job = "none"
    <2>1. th[c].job = "exec" /\ c = Shell /\ context[t] = "image"
      BY <1>1, <1>2 DEF Newcomers
    <2>2. t # current /\ th[t].pc \in {"user", "switch", "spawn"}
      BY <1>1, <1>2, <2>1 DEF Saved
    <2> QED  BY <1>1, <2>1, <2>2 DEF Saved, Creating
  <1>4. /\ th' \in [Tasks -> Fields] /\ \A d \in Tasks \ {c, t} : th'[d] = th[d]
        /\ th'[c].pc = "user" /\ th'[c].job = "none" /\ th'[c].how = "call"
        /\ th'[t].pc = "spawn" /\ th'[t].job = "none" /\ th'[t].new = th[t].new
    <2>1. /\ Locals \in Fields /\ Locals.pc = "user" /\ Locals.job = "none"
          /\ Locals.how = "call" /\ th[t] \in Fields
      BY <1>1, LocalsReset
    <2> HIDE DEF Locals
    <2> DEFINE v == [th[t] EXCEPT !.pc = "spawn"]
    <2>2. v \in Fields /\ v.job = "none" /\ v.new = th[t].new /\ v.pc = "spawn"
      BY <1>3, <2>1 DEF Fields, Pcs
    <2>3. th' = [[th EXCEPT ![c] = Locals] EXCEPT ![t] = v]
      BY <1>1, <1>2, <1>3
    <2> HIDE DEF v
    <2> QED  BY <1>1, <1>2, <1>3, <2>1, <2>2, <2>3
  <1>5. /\ context' \in [Tasks -> Contexts] /\ context'[c] \in {"idle", "outdated"}
        /\ \A d \in Tasks \ {c} : context'[d] = context[d]
    BY <1>1 DEF Contexts
  <1>6. \A d \in Tasks : Creating(d)' => d # c /\ Creating(d) /\ th'[d] = th[d]
    BY <1>1, <1>3, <1>4 DEF Creating
  <1>7. Typed'
    BY <1>1, <1>2, <1>4, <1>5 DEF Typed
  <1>8. Ranked(r)'
    BY <1>1 DEF Ranked, Placed
  <1>9. Newcomers(r)'
    <2>1. \A d \in Tasks \ {c} : Creating(d) => th[d].new # Shell
      BY <1>1 DEF Newcomers
    <2>2. \A d \in Tasks : ~ Placed(r, d) => d # c /\ d # t
      BY <1>1, <1>2, <1>3 DEF Placed
    <2> HIDE DEF Placed
    <2>3. \A d, e \in Tasks : d # e /\ Creating(d)' /\ Creating(e)' => th'[d].new # th'[e].new
      BY <1>1, <1>6 DEF Newcomers
    <2>4. \A d \in Tasks : Creating(d)' =>
            /\ th'[d] = th[d] /\ Creating(d) /\ th[d].new \in Tasks \ {c}
            /\ context'[th[d].new] = context[th[d].new]
      BY <1>1, <1>3, <1>5, <1>6, <2>1 DEF Newcomers
    <2>5. \A d \in Tasks : ~ Placed(r, d) => d # current' /\ context'[d] = context[d]
      BY <1>1, <1>2, <1>5, <2>2
    <2>6. \A d \in Tasks : Creating(d)' =>
            /\ th'[d].new \in Tasks /\ th'[d].new # Shell
            /\ th'[d].job \in IF d = Shell THEN {"fork_demo", "thread_demo", "exec"} ELSE {"fork"}
            /\ th'[d].pc \in {"fork", "fork_demo", "thread_demo", "exec"} => th'[d].pc = th'[d].job
            /\ state'[th'[d].new] # "none"
            /\ th'[d].pc \in {"count", "enqueue"} =>
                  next'[th'[d].new] = NULL /\ prev'[th'[d].new] = NULL
            /\ th'[d].pc = "append" => next'[th'[d].new] = Shell /\ prev'[th'[d].new] # NULL
            /\ Placed(r, th'[d].new) <=> th'[d].pc \notin {"count", "enqueue", "append"}
            /\ th'[d].job = "exec" => context'[th'[d].new] = "image"
            /\ th'[d].job = "fork" => context'[th'[d].new] = "zero"
      <3> TAKE d \in Tasks
      <3>1. Creating(d)' => th'[d] = th[d] /\ Creating(d)
        BY <2>4
      <3>2. Creating(d)' => context'[th'[d].new] = context[th[d].new]
        BY <2>4
      <3>3. next' = next /\ prev' = prev /\ state' = state
        BY <1>1
      <3>4. Newcomers(r)
        BY <1>1
      <3> QED  BY <3>1, <3>2, <3>3, <3>4 DEF Newcomers
    <2>7. \A d \in Tasks : state'[d] = "none" =>
            ~ Placed(r, d) /\ next'[d] = NULL /\ prev'[d] = NULL
      BY <1>1 DEF Newcomers
    <2>8. \A d \in Tasks : ~ Placed(r, d) =>
            /\ state'[d] \in {"none", "RUNNING"} /\ d # current'
            /\ context'[d] \in {"none", "zero", "test", "foo", "image"} /\ freed'[d] = 0
      BY <1>1, <2>5 DEF Newcomers
    <2> QED  BY <2>3, <2>6, <2>7, <2>8 DEF Newcomers, Placed
  <1>10. Saved'
    <2>1. \A d \in Tasks : context'[d] = "zero" =>
            \E e \in Tasks : th'[e].new = d /\ th'[e].job = "fork"
      <3> SUFFICES ASSUME NEW d \in Tasks, context'[d] = "zero"
                   PROVE  \E e \in Tasks : th'[e].new = d /\ th'[e].job = "fork"
        OBVIOUS
      <3>1. context[d] = "zero"
        BY <1>5
      <3>2. PICK e \in Tasks : th[e].new = d /\ th[e].job = "fork"
        BY <3>1, <1>1 DEF Saved
      <3>3. th'[e].new = th[e].new /\ th'[e].job = th[e].job
        BY <3>2, <1>3, <1>4
      <3> QED  BY <3>2, <3>3
    <2>2. \A d \in Tasks : ~ Creating(d)' /\ th'[d].pc # "wild" => th'[d].job = "none"
      <3> TAKE d \in Tasks
      <3>1. CASE d \in {c, t}
        BY <3>1, <1>4
      <3>2. CASE d \notin {c, t}
        <4>1. th'[d] = th[d]
          BY <3>2, <1>4
        <4>2. ~ Creating(d) /\ th[d].pc # "wild" => th[d].job = "none"
          BY <1>1 DEF Saved
        <4> QED  BY <4>1, <4>2 DEF Creating
      <3> QED  BY <3>1, <3>2
    <2>3. \A d \in Tasks :
            d # current' /\ context'[d] # "irq" => th'[d].pc \in {"user", "switch", "spawn"}
      BY <1>1, <1>2, <1>3, <1>4, <1>5 DEF Saved
    <2>4. \A d \in Tasks : th'[d].pc # "wild"
      BY <1>1, <1>2, <1>3, <1>4 DEF Saved
    <2>5. \A d \in Tasks :
            /\ th'[d].pc \in {"shell", "reap", "visit", "dequeue", "unlink"} => d = Shell
            /\ th'[d].pc \in {"foo", "spawn"} \/ th'[d].how = "foo" => d # Shell
      <3> TAKE d \in Tasks
      <3>1. d \in {c, t} \/ th'[d] = th[d]
        BY <1>4
      <3> QED  BY <3>1, <1>1, <1>2, <1>3, <1>4 DEF Saved
    <2>6. \A d \in Tasks : context'[d] = "outdated" => d = Shell
      BY <1>1, <1>3, <1>5 DEF Saved
    <2>7. current' = t /\ context'[t] # "zero" /\ context'[Shell] \in {"idle", "outdated"}
      BY <1>1, <1>2, <1>3, <1>5
    <2>8. \A d \in Tasks : th[d].job = "exec" => d = c
      BY <1>1, <1>3 DEF Saved, Newcomers
    <2>9. \A d \in Tasks : th'[d].job # "exec"
      BY <1>4, <2>8
    <2>10. \A d \in Tasks \ {t} : context'[d] # "image"
      <3> SUFFICES ASSUME NEW d \in Tasks, d # t, context[d] = "image", d # c PROVE FALSE
        BY <1>5
      <3>1. PICK e \in Tasks : th[e].new = d /\ th[e].job = "exec"
        BY <1>1 DEF Saved
      <3> QED  BY <1>2, <2>8, <3>1
    <2> QED  BY <1>2, <2>1, <2>2, <2>3, <2>4, <2>5, <2>6, <2>7, <2>9, <2>10 DEF Saved
  <1>11. Targets(r)'
    <2>1. \A d \in Tasks : th'[d].pc = "switch" => th'[d] = th[d]
      BY <1>4
    <2> QED  BY SMTT(30), <1>1, <1>2, <1>3, <1>4, <2>1 DEF Targets, Placed
  <1> QED  BY <1>7, <1>8, <1>9, <1>10, <1>11 DEF Core

\* exec has entered the program.
LEMMA EnterProgramKeeps ==
    ASSUME NEW r, Core(r), NEW c \in Tasks, EnterProgram(c)
    PROVE  Core(r)'
  <1>1. /\ Typed /\ Ranked(r) /\ Newcomers(r) /\ Saved /\ Targets(r)
        /\ Shell \in Tasks /\ th \in [Tasks -> Fields]
        /\ c = current /\ th[c].pc = "spawn"
        /\ UNCHANGED <<next, prev, state, pid, id_counter, context, current, masked,
                       freed, overlap, stale>>
    BY CoreParts DEF EnterProgram, At, ring, ids, cpu, past
  <1>2. /\ th' \in [Tasks -> Fields] /\ \A d \in Tasks \ {c} : th'[d] = th[d]
        /\ th'[c].pc = "user" /\ th'[c].job = "none" /\ th'[c].how = "call"
    <2>1. th' = [th EXCEPT ![c] = Locals]
      BY DEF EnterProgram
    <2> HIDE DEF Locals
    <2> QED  BY <1>1, <2>1, LocalsReset
  <1>3. c # Shell /\ ~ Creating(c) /\ th[c].job = "none"
    BY <1>1 DEF Saved, Creating
  <1>4. \A d \in Tasks : Creating(d)' => Creating(d) /\ th'[d] = th[d]
    BY <1>2 DEF Creating
  <1>5. Typed'
    BY <1>1, <1>2 DEF Typed
  <1>6. Ranked(r)'
    BY <1>1 DEF Ranked, Placed
  <1>7. Newcomers(r)'
    BY <1>1, <1>4 DEF Newcomers, Placed
  <1>8. Saved'
    <2>1. \A d \in Tasks : th[d].job \in {"fork", "exec"} => th'[d] = th[d]
      BY <1>2, <1>3
    <2>2. \A d \in Tasks : ~ Creating(d)' /\ th'[d].pc # "wild" => th'[d].job = "none"
      BY <1>1, <1>2 DEF Saved, Creating
    <2> QED  BY <1>1, <1>2, <1>3, <2>1, <2>2 DEF Saved
  <1>9. Targets(r)'
    BY <1>1, <1>2, <1>3 DEF Targets, Placed
  <1> QED  BY <1>5, <1>6, <1>7, <1>8, <1>9 DEF Core

\* The tick, switch_to in schedule, and a fault.
LEMMA TickKeeps == ASSUME NEW r, Core(r), Tick PROVE Core(r)'
  <1>1. Typed /\ Ranked(r) /\ Newcomers(r) /\ Targets(r) /\ current \in Tasks
    BY CoreParts
  <1>2. PICK n : n = NextRunning(state, current)
    OBVIOUS
  <1>3. n \in Tasks /\ Placed(r, n)
    BY <1>1, <1>2, NextRunningFound DEF Targets
  <1> DEFINE how == IF th[current].pc = "spawn" THEN "cut" ELSE "irq"
  <1>4. /\ SwitchTo(current, n, how, TRUE) /\ th[current].pc # "wild" /\ stale' \in BOOLEAN
        /\ UNCHANGED <<ring, ids, state, freed, overlap>>
    BY <1>1, <1>2 DEF Tick, Typed, Chosen
  <1>5. state' \in [Tasks -> States] /\ state'[Shell] = "RUNNING"
    BY <1>1, <1>4 DEF Typed, Targets
  <1>6. /\ how \in {"irq", "cut"}
        /\ how # "irq" => th[current].pc = "spawn"
        /\ how = "cut" => current # Shell
    BY CoreParts DEF Saved
  <1> HIDE DEF how
  <1> QED  BY <1>3, <1>4, <1>5, <1>6, SwitchKeeps

LEMMA SwitchStepKeeps ==
    ASSUME NEW r, Core(r), NEW c \in Tasks, Switch(c)
    PROVE  Core(r)'
  <1>1. Typed /\ Targets(r) /\ c = current /\ th[c].pc = "switch"
    BY CoreParts DEF Switch, At
  <1>2. PICK n : n = th[c].sel
    OBVIOUS
  <1>3. n \in Tasks /\ Placed(r, n)
    BY <1>1, <1>2 DEF Targets
  <1>4. /\ SwitchTo(current, n, th[c].how, masked)
        /\ UNCHANGED <<ring, ids, state, freed, overlap>> /\ stale' \in BOOLEAN
    BY <1>1, <1>2 DEF Switch, Typed, past
  <1>5. state' \in [Tasks -> States] /\ state'[Shell] = "RUNNING"
    BY <1>1, <1>4 DEF Typed, Targets
  <1>6. th[c].how \in {"call", "foo"} /\ (th[c].how = "foo" => current # Shell)
    BY <1>1, CoreParts DEF Saved, Fields
  <1> QED  BY <1>1, <1>3, <1>4, <1>5, <1>6, SwitchKeeps

\* In the shell's place no program and no foo runs.
LEMMA UserIsNotShell ==
    ASSUME NEW r, Core(r), NEW c \in Tasks, At(c, "user") \/ At(c, "foo")
    PROVE  /\ c # Shell /\ c = current /\ th[c].pc \in {"user", "foo"}
           /\ th[c].job = "none" /\ ~ Creating(c) /\ Placed(r, c) /\ state[c] # "none"
  <1>1. Saved /\ Targets(r) /\ Newcomers(r)
    BY CoreParts
  <1>2. c # Shell /\ c = current /\ th[c].pc \in {"user", "foo"} /\ ~ Creating(c)
    BY <1>1 DEF Saved, At, Creating
  <1> QED  BY <1>1, <1>2 DEF Saved, Targets, Newcomers

LEMMA FaultKeeps ==
    ASSUME NEW r, Core(r), NEW c \in Tasks, Fault(c)
    PROVE  Core(r)'
  <1>1. Typed /\ Ranked(r) /\ Newcomers(r) /\ Targets(r) /\ Shell \in Tasks
    BY CoreParts
  <1>2. /\ c # Shell /\ c = current /\ th[c].pc = "user" /\ Placed(r, c) /\ state[c] # "none"
    BY UserIsNotShell DEF Fault, At
  <1>3. PICK n : n = NextRunning(state', c)
    OBVIOUS
  <1>4. state' = [state EXCEPT ![c] = "TERMINATED"]
    BY DEF Fault
  <1>5. /\ state' \in [Tasks -> States] /\ state'[Shell] = "RUNNING"
        /\ state'[c] = "TERMINATED" /\ \A t \in Tasks \ {c} : state'[t] = state[t]
    BY <1>1, <1>2, <1>4 DEF Typed, Targets, States
  <1>6. n \in Tasks /\ Placed(r, n)
    BY <1>1, <1>2, <1>3, <1>5, NextRunningFound
  <1>7. /\ SwitchTo(current, n, "call", TRUE)
        /\ UNCHANGED <<ring, ids, freed, overlap>> /\ stale' \in BOOLEAN
    BY <1>1, <1>2, <1>3 DEF Fault, past, Typed
  <1>8. /\ \A t \in Tasks : state'[t] = "none" <=> state[t] = "none"
        /\ \A t \in Tasks : ~ Placed(r, t) => state'[t] = state[t]
    BY <1>2, <1>5
  <1> QED  BY <1>2, <1>5, <1>6, <1>7, <1>8, SwitchKeeps

\* A step of a program or of foo that changes states of appended tasks, and at most ends
\* its own run.
LEMMA StatesKeep ==
    ASSUME NEW r, Core(r), NEW c \in Tasks, At(c, "user") \/ At(c, "foo"),
           state' \in [Tasks -> States], state'[Shell] = "RUNNING",
           \A t \in Tasks : state'[t] = "none" <=> state[t] = "none",
           \A t \in Tasks : ~ Placed(r, t) => state'[t] = state[t],
           th' = th \/ th' = [th EXCEPT ![c].pc = "choose"],
           UNCHANGED <<ring, ids, context, cpu, past>>
    PROVE  Core(r)'
  <1>1. /\ Typed /\ Ranked(r) /\ Newcomers(r) /\ Saved /\ Targets(r)
        /\ Shell \in Tasks /\ th \in [Tasks -> Fields]
        /\ UNCHANGED <<next, prev, pid, id_counter, context, current, masked,
                       freed, overlap, stale>>
    BY CoreParts DEF ring, ids, cpu, past
  <1>2. /\ c # Shell /\ c = current /\ th[c].pc \in {"user", "foo"}
        /\ th[c].job = "none" /\ ~ Creating(c)
    BY UserIsNotShell
  <1>3. /\ th' \in [Tasks -> Fields] /\ \A d \in Tasks \ {c} : th'[d] = th[d]
        /\ th'[c].pc \in {"user", "foo", "choose"} /\ th'[c].job = "none"
        /\ th'[c].how = th[c].how
    <2>1. th[c] \in Fields
      BY <1>1
    <2>2. CASE th' = th
      BY <1>1, <1>2, <2>2
    <2>3. CASE th' = [th EXCEPT ![c].pc = "choose"]
      BY <1>1, <1>2, <2>1, <2>3 DEF Fields, Pcs
    <2> QED  BY <2>2, <2>3
  <1>4. \A d \in Tasks : Creating(d)' => d # c /\ Creating(d) /\ th'[d] = th[d]
    BY <1>1, <1>3 DEF Creating
  <1>5. Typed'
    BY <1>1, <1>3 DEF Typed
  <1>6. Ranked(r)'
    BY <1>1 DEF Ranked, Placed
  <1>7. Newcomers(r)'
    BY <1>1, <1>3, <1>4 DEF Newcomers, Placed
  <1>8. Saved'
    <2>1. \A d \in Tasks : th[d].job \in {"fork", "exec"} => th'[d] = th[d]
      BY <1>2, <1>3
    <2>2. \A d \in Tasks : ~ Creating(d)' /\ th'[d].pc # "wild" => th'[d].job = "none"
      BY <1>1, <1>3 DEF Saved, Creating
    <2> QED  BY <1>1, <1>2, <1>3, <2>1, <2>2 DEF Saved
  <1>9. Targets(r)'
    BY <1>1, <1>2, <1>3 DEF Targets, Placed
  <1> QED  BY <1>5, <1>6, <1>7, <1>8, <1>9 DEF Core

\* Who is on the ring, as thread_stop walks it, has been appended.
LEMMA OnRingPlaced ==
    ASSUME NEW r, Core(r)
    PROVE  \A t \in OnRing : t \in Tasks /\ Placed(r, t)
  <1>1. Typed /\ Ranked(r) /\ Shell \in Tasks /\ next[Shell] # NULL
    BY CoreParts DEF Ranked, Placed
  <1>2. \A i \in Nat : Step(Shell, i) \in Tasks /\ Placed(r, Step(Shell, i + 1))
    BY <1>1, StepClimbs
  <1>3. Placed(r, Step(Shell, 0)) /\ Step(Shell, 0) \in Tasks
    BY <1>1, StepIs DEF Placed
  <1>4. \A i \in Rounds : i - 1 \in Nat /\ (i - 1) + 1 = i /\ i \in Nat
    BY DEF Rounds
  <1>5. \A i \in {0} \cup Rounds : Placed(r, Step(Shell, i)) /\ Step(Shell, i) \in Tasks
    <2> TAKE i \in {0} \cup Rounds
    <2>1. CASE i = 0
      BY <2>1, <1>3
    <2>2. CASE i \in Rounds
      <3>1. PICK j \in Nat : i = j + 1 /\ i \in Nat
        BY <2>2, <1>4
      <3> QED  BY <3>1, <1>2
    <2> QED  BY <2>1, <2>2
  <1> QED  BY <1>5 DEF OnRing

\* exec, exit, foo's schedule and kill.
LEMMA CallsKeep ==
    ASSUME NEW r, Core(r), NEW c \in Tasks,
           Exec(c) \/ Exit(c) \/ Yield(c) \/ \E p \in 1 .. id_counter - 1 : ThreadStop(c, p)
    PROVE  Core(r)'
  <1>1. /\ Typed /\ Newcomers(r) /\ Targets(r) /\ Shell \in Tasks /\ state \in [Tasks -> States]
    BY CoreParts DEF Typed
  <1>2. At(c, "user") \/ At(c, "foo")
    BY DEF Exec, Exit, Yield, ThreadStop
  <1>3. c # Shell /\ Placed(r, c) /\ state[c] # "none"
    BY <1>2, UserIsNotShell
  <1>4. CASE Exec(c)
    <2>1. ExecState \in States \ {"none"}
      BY ThreadsAssumption DEF States
    <2>2. /\ state' \in [Tasks -> States] /\ state'[Shell] = "RUNNING"
          /\ \A t \in Tasks \ {c} : state'[t] = state[t]
          /\ state'[c] # "none"
      BY <1>1, <1>3, <1>4, <2>1 DEF Exec, Targets
    <2> QED  BY <1>2, <1>3, <1>4, <2>2, StatesKeep DEF Exec
  <1>5. CASE Exit(c)
    <2>1. /\ state' \in [Tasks -> States] /\ state'[Shell] = "RUNNING"
          /\ \A t \in Tasks \ {c} : state'[t] = state[t]
          /\ state'[c] # "none"
      BY <1>1, <1>3, <1>5 DEF Exit, Targets, States
    <2> QED  BY <1>2, <1>3, <1>5, <2>1, StatesKeep DEF Exit
  <1>6. ASSUME NEW p \in 1 .. id_counter - 1, ThreadStop(c, p)
        PROVE  Core(r)'
    <2>1. /\ \A t \in Tasks : state'[t] = IF t \in OnRing /\ pid[t] = p THEN "TERMINATED"
                                          ELSE state[t]
          /\ state' \in [Tasks -> States]
      BY <1>1, <1>6 DEF ThreadStop, States
    <2>2. state'[Shell] = "RUNNING"
      BY <1>1, <2>1 DEF Targets
    <2>3. \A t \in Tasks : ~ Placed(r, t) => state'[t] = state[t]
      BY <2>1, OnRingPlaced
    <2>4. \A t \in Tasks : state'[t] = "none" <=> state[t] = "none"
      <3> TAKE t \in Tasks
      <3>1. Placed(r, t) => state[t] # "none"
        BY <1>1 DEF Newcomers
      <3>2. t \in OnRing => Placed(r, t)
        BY OnRingPlaced
      <3> QED  BY <3>1, <3>2, <2>1
    <2> QED  BY <1>2, <1>6, <2>1, <2>2, <2>3, <2>4, StatesKeep DEF ThreadStop
  <1>7. CASE Yield(c)
    BY <1>1, <1>2, <1>7, StatesKeep DEF Yield, Targets
  <1> QED  BY <1>4, <1>5, <1>6, <1>7
\* A step of kill_zombies.
LEMMA IdleKeeps ==
    ASSUME NEW r, Core(r), current = Shell,
           th[Shell].pc \in {"reap", "visit", "dequeue", "unlink"},
           NEW v \in Fields, th' = [th EXCEPT ![Shell] = v],
           v.pc \in {"choose", "visit", "dequeue", "unlink"}, v.job = "none",
           v.how \in {"call", th[Shell].how},
           v.pc # "choose" => v.at \in Tasks /\ Placed(r, v.at),
           v.pc \in {"dequeue", "unlink"} =>
               v.at # Shell /\ v.to \in Tasks /\ Placed(r, v.to),
           next' \in [Tasks -> Tasks \cup {NULL}], prev' \in [Tasks -> Tasks \cup {NULL}],
           Ranked(r)',
           \A t \in Tasks : ~ Placed(r, t) =>
               next'[t] = next[t] /\ prev'[t] = prev[t] /\ freed'[t] = freed[t],
           freed' \in [Tasks -> 0 .. 2], overlap' \in BOOLEAN,
           UNCHANGED <<state, ids, context, cpu, stale>>
    PROVE  Core(r)'
  <1>1. /\ Typed /\ Ranked(r) /\ Newcomers(r) /\ Saved /\ Targets(r)
        /\ Shell \in Tasks /\ th \in [Tasks -> Fields]
        /\ UNCHANGED <<state, pid, id_counter, context, current, masked, stale>>
    BY CoreParts DEF ids, cpu
  <1>2. ~ Creating(Shell) /\ th[Shell].job = "none"
    BY <1>1 DEF Creating, Saved
  <1>3. /\ th' \in [Tasks -> Fields] /\ \A d \in Tasks \ {Shell} : th'[d] = th[d]
        /\ th'[Shell] = v
    BY <1>1
  <1>4. \A d \in Tasks : Creating(d)' => d # Shell /\ Creating(d) /\ th'[d] = th[d]
    BY <1>3 DEF Creating
  <1>5. Typed'
    BY <1>1, <1>3 DEF Typed
  <1>6. Newcomers(r)'
    <2>1. \A d, e \in Tasks : d # e /\ Creating(d)' /\ Creating(e)' => th'[d].new # th'[e].new
      BY <1>1, <1>4 DEF Newcomers
    <2>2. \A d \in Tasks : Creating(d)' =>
            /\ th'[d].new \in Tasks /\ th'[d].new # Shell
            /\ th'[d].job \in IF d = Shell THEN {"fork_demo", "thread_demo", "exec"} ELSE {"fork"}
            /\ th'[d].pc \in {"fork", "fork_demo", "thread_demo", "exec"} => th'[d].pc = th'[d].job
            /\ state'[th'[d].new] # "none"
            /\ th'[d].pc \in {"count", "enqueue"} =>
                  next'[th'[d].new] = NULL /\ prev'[th'[d].new] = NULL
            /\ th'[d].pc = "append" => next'[th'[d].new] = Shell /\ prev'[th'[d].new] # NULL
            /\ Placed(r, th'[d].new) <=> th'[d].pc \notin {"count", "enqueue", "append"}
            /\ th'[d].job = "exec" => context'[th'[d].new] = "image"
            /\ th'[d].job = "fork" => context'[th'[d].new] = "zero"
      <3> HIDE DEF Placed
      <3> TAKE d \in Tasks
      <3>1. Creating(d)' => th'[d] = th[d] /\ Creating(d) /\ th[d].new \in Tasks
        BY <1>1, <1>4 DEF Newcomers
      <3>2. Creating(d)' /\ th'[d].pc \in {"count", "enqueue", "append"} =>
              next'[th[d].new] = next[th[d].new] /\ prev'[th[d].new] = prev[th[d].new]
        <4>1. Creating(d) /\ th[d].pc \in {"count", "enqueue", "append"} =>
                ~ Placed(r, th[d].new)
          BY <1>1 DEF Newcomers
        <4> QED  BY <3>1, <4>1
      <3>3. state' = state /\ context' = context /\ Newcomers(r)
        BY <1>1
      <3> QED  BY <3>1, <3>2, <3>3 DEF Newcomers
    <2>3. \A d \in Tasks : state'[d] = "none" =>
            ~ Placed(r, d) /\ next'[d] = NULL /\ prev'[d] = NULL
      BY <1>1 DEF Newcomers
    <2>4. \A d \in Tasks : ~ Placed(r, d) =>
            /\ state'[d] \in {"none", "RUNNING"} /\ d # current'
            /\ context'[d] \in {"none", "zero", "test", "foo", "image"} /\ freed'[d] = 0
      BY <1>1 DEF Newcomers
    <2> QED  BY <2>1, <2>2, <2>3, <2>4 DEF Newcomers, Placed
  <1>7. Saved'
    <2>1. \A d \in Tasks : th[d].job \in {"fork", "exec"} => th'[d] = th[d]
      BY <1>2, <1>3
    <2>2. \A d \in Tasks : ~ Creating(d)' /\ th'[d].pc # "wild" => th'[d].job = "none"
      BY <1>1, <1>3 DEF Saved, Creating
    <2> QED  BY <1>1, <1>3, <2>1, <2>2 DEF Saved
  <1>8. Targets(r)'
    BY <1>1, <1>3 DEF Targets, Placed
  <1> QED  BY <1>5, <1>6, <1>7, <1>8 DEF Core

\* The next task of the walk, or the end of it.
LEMMA VisitNextIs ==
    ASSUME NEW n \in Tasks, NEW r, Placed(r, n), th' = VisitNext(n)
    PROVE  \E v \in Fields : /\ th' = [th EXCEPT ![Shell] = v]
                             /\ v.pc = IF n = Shell THEN "choose" ELSE "visit"
                             /\ v.job = "none" /\ v.how = "call" /\ (n # Shell => v.at = n)
  <1> DEFINE v == IF n = Shell THEN [Locals EXCEPT !.pc = "choose"]
                  ELSE [Locals EXCEPT !.pc = "visit", !.at = n]
  <1>1. th' = [th EXCEPT ![Shell] = v]
    BY DEF VisitNext
  <1>2. v \in Fields /\ v.pc = (IF n = Shell THEN "choose" ELSE "visit")
        /\ v.job = "none" /\ v.how = "call" /\ (n # Shell => v.at = n)
    <2>1. CASE n = Shell
      <3>1. v = [Locals EXCEPT !.pc = "choose"] /\ "choose" \in Pcs
        BY <2>1 DEF Pcs
      <3> HIDE DEF v, Locals
      <3> QED  BY <2>1, <3>1, LocalsReset
    <2>2. CASE n # Shell
      <3> DEFINE w == [Locals EXCEPT !.pc = "visit"]
      <3>1. w \in Fields /\ w.pc = "visit" /\ w.job = "none" /\ w.how = "call"
        <4>1. "visit" \in Pcs
          BY DEF Pcs
        <4> HIDE DEF Locals
        <4> QED  BY <4>1, LocalsReset
      <3>2. v = [w EXCEPT !.at = n]
        BY <2>2
      <3> HIDE DEF w
      <3>3. [w EXCEPT !.at = n] \in Fields /\ [w EXCEPT !.at = n].at = n
            /\ [w EXCEPT !.at = n].pc = w.pc /\ [w EXCEPT !.at = n].job = w.job
            /\ [w EXCEPT !.at = n].how = w.how
        BY <3>1 DEF Fields
      <3> HIDE DEF v
      <3> QED  BY <2>2, <3>1, <3>2, <3>3
    <2> QED  BY <2>1, <2>2
  <1> QED  BY <1>1, <1>2

LEMMA ReapVisitKeep ==
    ASSUME NEW r, Core(r), Reap \/ Visit
    PROVE  Core(r)'
  <1>1. /\ Typed /\ Ranked(r) /\ Newcomers(r) /\ Saved /\ Targets(r)
        /\ Shell \in Tasks /\ th \in [Tasks -> Fields] /\ NULL \notin Tasks
        /\ current = Shell /\ th[Shell] \in Fields
        /\ th[Shell].pc \in {"reap", "visit"} /\ th[Shell].job = "none"
        /\ UNCHANGED <<next, prev, state, ids, context, cpu, freed, overlap, stale>>
    BY CoreParts DEF Reap, Visit, At, Saved, Creating, ring, past
  <1>2. Ranked(r)' /\ overlap' \in BOOLEAN /\ freed' \in [Tasks -> 0 .. 2]
        /\ next' \in [Tasks -> Tasks \cup {NULL}] /\ prev' \in [Tasks -> Tasks \cup {NULL}]
    BY <1>1 DEF Ranked, Placed, Typed
  <1>3. CASE Reap
    <2> DEFINE v == [th[Shell] EXCEPT !.at = Shell, !.pc = "visit"]
    <2>1. v \in Fields /\ v.pc = "visit" /\ v.job = "none" /\ v.at = Shell
          /\ v.how = th[Shell].how
      BY <1>1 DEF Fields, Pcs
    <2>2. th' = [th EXCEPT ![Shell] = v]
      BY <1>1, <1>3 DEF Reap
    <2> HIDE DEF v
    <2> QED  BY <1>1, <1>2, <2>1, <2>2, IdleKeeps DEF Placed
  <1>4. CASE Visit
    <2>1. PICK t \in Tasks : t = th[Shell].at /\ Placed(r, t)
      BY <1>1, <1>4 DEF Visit, At, Targets
    <2>2. PICK n \in Tasks : n = next[t] /\ Placed(r, n) /\ (n # Shell => n # t)
      BY <1>1, <2>1 DEF Ranked, Placed, Typed
    <2>3. CASE state[t] = "TERMINATED"
      <3> DEFINE v == [th[Shell] EXCEPT !.to = n, !.pc = "dequeue"]
      <3>1. v \in Fields /\ v.pc = "dequeue" /\ v.job = "none" /\ v.at = t /\ v.to = n
            /\ v.how = th[Shell].how
        BY <1>1, <2>1, <2>2 DEF Fields, Pcs
      <3>2. th' = [th EXCEPT ![Shell] = v]
        BY <1>1, <1>4, <2>1, <2>2, <2>3 DEF Visit
      <3>3. t # Shell
        BY <1>1, <2>3 DEF Targets
      <3> HIDE DEF v
      <3> QED  BY <1>1, <1>2, <2>1, <2>2, <3>1, <3>2, <3>3, IdleKeeps
    <2>4. CASE state[t] # "TERMINATED"
      <3>1. th' = VisitNext(n)
        BY <1>4, <2>1, <2>2, <2>4 DEF Visit
      <3>2. PICK v \in Fields : /\ th' = [th EXCEPT ![Shell] = v]
                                /\ v.pc = IF n = Shell THEN "choose" ELSE "visit"
                                /\ v.job = "none" /\ v.how = "call" /\ (n # Shell => v.at = n)
        BY <2>2, <3>1, VisitNextIs
      <3> QED  BY <1>1, <1>2, <2>2, <3>2, IdleKeeps
    <2> QED  BY <2>3, <2>4
  <1> QED  BY <1>3, <1>4

LEMMA DequeueKeeps ==
    ASSUME NEW r, Core(r), Dequeue
    PROVE  Core(r)'
  <1>1. /\ Typed /\ Ranked(r) /\ Newcomers(r) /\ Saved /\ Targets(r)
        /\ Shell \in Tasks /\ th \in [Tasks -> Fields] /\ NULL \notin Tasks
        /\ current = Shell /\ th[Shell] \in Fields
        /\ th[Shell].pc = "dequeue" /\ th[Shell].job = "none"
        /\ UNCHANGED <<next, state, ids, context, cpu, freed, stale>> /\ overlap' \in BOOLEAN
    BY CoreParts DEF Dequeue, At, Saved, Creating, Typed, NoteOverlap
  <1>2. PICK t \in Tasks : t = th[Shell].at /\ t # Shell /\ Placed(r, t)
    BY <1>1 DEF Targets
  <1>3. prev' = [prev EXCEPT ![next[t]] = prev[t]]
    BY <1>2 DEF Dequeue
  <1>4. PICK n \in Tasks : n = next[t] /\ Placed(r, n) /\ (n # Shell => r[t] < r[n])
    BY <1>1, <1>2 DEF Ranked, Placed, Typed
  <1>5. PICK p \in Tasks : p = prev[t] /\ Placed(r, p) /\ r[p] < r[t]
    BY <1>1, <1>2 DEF Ranked, Placed, Typed
  <1>6. /\ prev' \in [Tasks -> Tasks \cup {NULL}] /\ prev'[n] = p
        /\ \A d \in Tasks \ {n} : prev'[d] = prev[d]
    BY <1>1, <1>3, <1>4, <1>5 DEF Typed
  <1>7. Ranked(r)'
    BY <1>1, <1>4, <1>5, <1>6 DEF Ranked, Placed
  <1>8. \A d \in Tasks : ~ Placed(r, d) => next'[d] = next[d] /\ prev'[d] = prev[d]
                                           /\ freed'[d] = freed[d]
    BY <1>1, <1>4, <1>6
  <1> DEFINE v == [th[Shell] EXCEPT !.pc = "unlink"]
  <1>9. v \in Fields /\ v.pc = "unlink" /\ v.job = "none" /\ v.at = t /\ v.to = th[Shell].to
        /\ v.how = th[Shell].how
    BY <1>1, <1>2 DEF Fields, Pcs
  <1>10. th' = [th EXCEPT ![Shell] = v]
    BY <1>1 DEF Dequeue
  <1>11. th[Shell].to \in Tasks /\ Placed(r, th[Shell].to)
    BY <1>1 DEF Targets
  <1>12. next' \in [Tasks -> Tasks \cup {NULL}] /\ freed' \in [Tasks -> 0 .. 2]
    BY <1>1 DEF Typed
  <1> HIDE DEF v
  <1> QED  BY <1>1, <1>2, <1>6, <1>7, <1>8, <1>9, <1>10, <1>11, <1>12, IdleKeeps

LEMMA UnlinkKeeps ==
    ASSUME NEW r, Core(r), Unlink
    PROVE  Core(r)'
  <1>1. /\ Typed /\ Ranked(r) /\ Newcomers(r) /\ Saved /\ Targets(r)
        /\ Shell \in Tasks /\ th \in [Tasks -> Fields] /\ NULL \notin Tasks
        /\ current = Shell /\ th[Shell].pc = "unlink"
        /\ UNCHANGED <<prev, state, ids, context, cpu, stale>> /\ overlap' \in BOOLEAN
    BY CoreParts DEF Unlink, At, Typed, NoteOverlap
  <1>2. PICK t \in Tasks : t = th[Shell].at /\ t # Shell /\ Placed(r, t)
    BY <1>1 DEF Targets
  <1>3. /\ next' = [next EXCEPT ![prev[t]] = next[t]]
        /\ freed' = [freed EXCEPT ![t] = IF @ < 2 THEN @ + 1 ELSE @]
    BY <1>2 DEF Unlink
  <1>4. PICK n \in Tasks : n = next[t] /\ Placed(r, n) /\ (n # Shell => r[t] < r[n])
    BY <1>1, <1>2 DEF Ranked, Placed, Typed
  <1>5. PICK p \in Tasks : p = prev[t] /\ Placed(r, p) /\ r[p] < r[t]
    BY <1>1, <1>2 DEF Ranked, Placed, Typed
  <1>6. /\ next' \in [Tasks -> Tasks \cup {NULL}] /\ next'[p] = n
        /\ \A d \in Tasks \ {p} : next'[d] = next[d]
    BY <1>1, <1>3, <1>4, <1>5 DEF Typed
  <1>7. freed' \in [Tasks -> 0 .. 2] /\ \A d \in Tasks \ {t} : freed'[d] = freed[d]
    BY <1>1, <1>3 DEF Typed
  <1>8. Ranked(r)'
    <2>1. \A d \in Tasks : r[d] \in Nat
      BY <1>1 DEF Ranked
    <2>2. n # Shell => r[p] < r[n]
      BY <1>4, <1>5, <2>1
    <2> QED  BY <1>1, <1>4, <1>5, <1>6, <2>2 DEF Ranked, Placed
  <1>9. \A d \in Tasks : ~ Placed(r, d) => next'[d] = next[d] /\ prev'[d] = prev[d]
                                           /\ freed'[d] = freed[d]
    BY <1>1, <1>2, <1>5, <1>6, <1>7
  <1>10. PICK m \in Tasks : m = th[Shell].to /\ Placed(r, m)
    BY <1>1 DEF Targets
  <1>11. PICK v \in Fields : /\ th' = [th EXCEPT ![Shell] = v]
                             /\ v.pc = IF m = Shell THEN "choose" ELSE "visit"
                             /\ v.job = "none" /\ v.how = "call" /\ (m # Shell => v.at = m)
    <2>1. th' = VisitNext(m)
      BY <1>10 DEF Unlink
    <2> QED  BY <1>10, <2>1, VisitNextIs
  <1>12. prev' \in [Tasks -> Tasks \cup {NULL}]
    BY <1>1 DEF Typed
  <1> QED  BY <1>1, <1>6, <1>7, <1>8, <1>9, <1>10, <1>11, <1>12, IdleKeeps
-----------------------------------------------------------------------------
(* The loops over the ring end                                             *)

LEMMA InitCore == Init => IInv
  <1> SUFFICES ASSUME Init PROVE IInv
    OBVIOUS
  <1> DEFINE r == [t \in Tasks |-> 0]
  <1>1. Shell \in Tasks /\ NULL \notin Tasks /\ r \in [Tasks -> Nat]
        /\ \A t \in Tasks : r[t] = 0
    BY ThreadsAssumption
  <1> HIDE DEF r
  <1>2. \A t \in Tasks : Placed(r, t) <=> t = Shell
    BY <1>1 DEF Placed
  <1>3. /\ th \in [Tasks -> Fields] /\ th[Shell].pc = "shell" /\ th[Shell].job = "none"
        /\ \A t \in Tasks \ {Shell} : th[t].pc = "user" /\ th[t].job = "none"
        /\ \A t \in Tasks : th[t].how = "call"
    <2>1. "shell" \in Pcs
      BY DEF Pcs
    <2>2. th = [t \in Tasks |-> IF t = Shell THEN [Locals EXCEPT !.pc = "shell"] ELSE Locals]
      BY DEF Init, InShell
    <2> HIDE DEF Locals
    <2> QED  BY <2>1, <2>2, <1>1, LocalsReset
  <1>4. Typed
    <2>1. next \in [Tasks -> Tasks \cup {NULL}] /\ prev \in [Tasks -> Tasks \cup {NULL}]
      BY <1>1 DEF Init
    <2>2. state \in [Tasks -> States] /\ context \in [Tasks -> Contexts]
      BY DEF Init, States, Contexts
    <2>3. pid \in [Tasks -> Int] /\ id_counter \in Int /\ freed \in [Tasks -> 0 .. 2]
      BY DEF Init
    <2>4. current \in Tasks /\ masked \in BOOLEAN /\ overlap \in BOOLEAN /\ stale \in BOOLEAN
      BY <1>1 DEF Init
    <2> QED  BY <1>3, <2>1, <2>2, <2>3, <2>4 DEF Typed
  <1>5. Ranked(r)
    BY <1>1, <1>2 DEF Init, Ranked
  <1>6. Newcomers(r)
    BY <1>1, <1>2, <1>3 DEF Init, Newcomers, Creating
  <1>7. Saved
    BY <1>1, <1>3 DEF Init, Saved, Creating
  <1>8. Targets(r)
    BY <1>1, <1>2, <1>3 DEF Init, Targets
  <1> QED  BY <1>1, <1>4, <1>5, <1>6, <1>7, <1>8 DEF IInv, Core

LEMMA StepCore == IInv /\ [Next]_vars => IInv'
  <1> SUFFICES ASSUME NEW r \in [Tasks -> Nat], Core(r), [Next]_vars PROVE IInv'
    BY DEF IInv
  <1>1. ASSUME Core(r)' PROVE IInv'
    BY <1>1 DEF IInv
  <1>2. CASE Tick
    BY <1>1, <1>2, TickKeeps
  <1>3. CASE Idle
    BY <1>1, <1>3, ReapVisitKeep, DequeueKeeps, UnlinkKeeps DEF Idle
  <1>4. ASSUME NEW c \in Tasks, Kernel(c) PROVE IInv'
    <2>1. CASE Append(c)
      <3>1. PICK q \in [Tasks -> Nat] : Core(q)'
        BY <2>1, AppendKeeps
      <3> QED  BY <3>1 DEF IInv
    <2>2. CASE ~ Append(c)
      BY <1>1, <1>4, <2>2, ChooseKeeps, SwitchStepKeeps, CountKeeps, EnqueueKeeps,
         CloseKeeps, ForkReturnKeeps, DemoReturnKeeps, SpawnUserProgramKeeps,
         EnterProgramKeeps DEF Kernel
    <2> QED  BY <2>1, <2>2
  <1>5. ASSUME NEW c \in Tasks, NEW job \in Jobs, ThreadCreate(c, job) PROVE IInv'
    BY <1>1, <1>5, ThreadCreateKeeps
  <1>6. ASSUME NEW c \in Tasks,
               Exec(c) \/ Exit(c) \/ Yield(c) \/ \E p \in 1 .. id_counter - 1 : ThreadStop(c, p)
        PROVE  IInv'
    BY <1>1, <1>6, CallsKeep
  <1>7. ASSUME NEW c \in Tasks, Fault(c) PROVE IInv'
    BY <1>1, <1>7, FaultKeeps
  <1>8. CASE UNCHANGED vars
    <2>1. UNCHANGED <<next, prev, state, pid, id_counter, context, current, masked, th,
                      freed, overlap, stale>>
      BY <1>8 DEF vars, ring, ids, cpu, past
    <2>2. Typed' /\ Ranked(r)' /\ Newcomers(r)' /\ Saved' /\ Targets(r)'
      BY <2>1, CoreParts DEF Typed, Ranked, Newcomers, Saved, Targets, Placed, Creating
    <2> QED  BY <1>1, <2>2 DEF Core
  <1> QED  BY <1>2, <1>3, <1>4, <1>5, <1>6, <1>7, <1>8 DEF Next

\* The ranks exist, and with them all that Core says, in every reachable state,
\* whatever ticks and unmasked updates do to each other.
THEOREM Inductive == Spec => []IInv
  BY InitCore, StepCore, PTL DEF Spec

\* From every task of the ring its next leads back to pid 0: the loops of
\* schedule, get_thread and thread_stop end, for any number of tasks.
THEOREM WalksEnd == Spec => []NextLeadsHome
  <1>1. IInv => NextLeadsHome
    <2> SUFFICES ASSUME NEW r \in [Tasks -> Nat], Core(r) PROVE NextLeadsHome
      BY DEF IInv
    <2> QED  BY CoreParts, WalkComesHome DEF NextLeadsHome
  <1> QED  BY <1>1, Inductive, PTL
-----------------------------------------------------------------------------
(* Who is terminated stays off the processor                               *)

\* switch_to goes to a running task; a tick that came between a choice and its
\* switch has been noted.
LEMMA SwitchFresh ==
    ASSUME NEW r, Core(r), Fresh, ~ stale, NEW n \in Tasks, state'[n] = "RUNNING",
           NEW how \in {"irq", "call", "foo", "cut"}, NEW daif, SwitchTo(current, n, how, daif),
           Chosen(current) => how \in {"call", "foo"} /\ th[current].pc = "switch",
           \A t \in Tasks : state'[t] # state[t] => state'[t] = "TERMINATED",
           UNCHANGED freed
    PROVE  Fresh'
  <1>1. /\ Typed /\ Saved /\ Targets(r) /\ Shell \in Tasks /\ current \in Tasks
        /\ context \in [Tasks -> Contexts]
    BY CoreParts DEF Typed
  <1>2. /\ context' = [context EXCEPT ![current] = how] /\ current' = n
        /\ \A d \in Tasks : d # n => th'[d] = th[d]
        /\ context'[n] = "irq" => th'[n] = th[n]
        /\ context'[n] # "irq" => th'[n].pc \in {"wild", "reap", "user", "foo"}
                                  /\ th'[n].job = "none"
    BY <1>1, SwitchResets
  <1>3. /\ context'[current] = how
        /\ \A d \in Tasks : d # current => context'[d] = context[d]
    BY <1>1, <1>2
  <1>4. context'[n] = "irq" => ~ Chosen(n)
    BY <1>1, <1>3 DEF Fresh, Chosen
  <1>5. ~ Chosen(n)'
    BY <1>2, <1>4 DEF Chosen
  <1>6. \A c \in Tasks \ {n} : Chosen(c)' => th'[c].pc = "switch"
                                                  /\ context'[c] \in {"call", "foo"}
    <2> TAKE c \in Tasks \ {n}
    <2>1. Chosen(c)' <=> Chosen(c)
      BY <1>2 DEF Chosen
    <2> QED  BY <1>1, <1>2, <1>3, <2>1 DEF Fresh
  <1>7. \A t \in Tasks : freed'[t] > 0 => state'[t] = "TERMINATED" /\ t # n
    BY DEF Fresh
  <1>8. th'[Shell].pc \in {"dequeue", "unlink"} => state'[th'[Shell].at] = "TERMINATED"
    <2>1. th'[Shell].pc \in {"dequeue", "unlink"} => th'[Shell] = th[Shell]
      BY <1>1, <1>2
    <2> QED  BY <1>1, <2>1 DEF Fresh, Targets
  <1> QED  BY <1>2, <1>5, <1>6, <1>7, <1>8 DEF Fresh, Chosen

LEMMA StepFresh ==
    ASSUME NEW r, Core(r), Fresh, Next
    PROVE  Fresh'
  <1>1. /\ Typed /\ Ranked(r) /\ Newcomers(r) /\ Saved /\ Targets(r)
        /\ Shell \in Tasks /\ NULL \notin Tasks
        /\ th \in [Tasks -> Fields] /\ current \in Tasks
        /\ state \in [Tasks -> States] /\ context \in [Tasks -> Contexts]
    BY CoreParts DEF Typed
  <1>2. stale => stale'
    BY ZenonT(30) DEF Next, Tick, Idle, Reap, Visit, Dequeue, Unlink, Kernel, Choose, Switch, Count,
       Enqueue, Append, Close, ForkReturn, DemoReturn, SpawnUserProgram, EnterProgram,
       ThreadCreate, Exec, Exit, Yield, Fault, ThreadStop, past
  <1> SUFFICES ASSUME ~ stale, ~ stale' PROVE Fresh'
    BY <1>2 DEF Fresh
  <1>3. CASE Tick
    <2>1. PICK n \in Tasks : n = NextRunning(state, current) /\ state[n] = "RUNNING"
      BY <1>1, NextRunningFound DEF Targets
    <2> DEFINE how == IF th[current].pc = "spawn" THEN "cut" ELSE "irq"
    <2>2. /\ SwitchTo(current, n, how, TRUE) /\ ~ Chosen(current)
          /\ state' = state /\ UNCHANGED freed /\ how \in {"irq", "cut"}
      BY <1>3, <2>1 DEF Tick
    <2> HIDE DEF how
    <2> QED  BY <2>1, <2>2, SwitchFresh
  <1>4. ASSUME NEW c \in Tasks, Fault(c) PROVE Fresh'
    <2>1. c # Shell /\ c = current /\ th[c].pc = "user" /\ th[c].job = "none" /\ Placed(r, c)
      BY <1>4, UserIsNotShell DEF Fault, At
    <2>2. state' = [state EXCEPT ![c] = "TERMINATED"]
      BY <1>4 DEF Fault
    <2>3. state'[Shell] = "RUNNING"
          /\ \A t \in Tasks : state'[t] # state[t] => state'[t] = "TERMINATED"
      BY <1>1, <2>1, <2>2 DEF Targets
    <2>4. PICK n \in Tasks : n = NextRunning(state', c) /\ state'[n] = "RUNNING"
      BY <1>1, <2>1, <2>3, NextRunningFound
    <2>5. SwitchTo(current, n, "call", TRUE) /\ UNCHANGED freed /\ ~ Chosen(current)
      BY <1>4, <2>1, <2>4 DEF Fault, past, Chosen
    <2> QED  BY <2>3, <2>4, <2>5, SwitchFresh
  <1>5. ASSUME NEW c \in Tasks, Switch(c) PROVE Fresh'
    <2>1. c = current /\ th[c].pc = "switch" /\ state' = state /\ UNCHANGED freed
      BY <1>5 DEF Switch, At, past
    <2>2. PICK n \in Tasks : n = th[c].sel /\ state'[n] = "RUNNING"
      BY <1>1, <2>1 DEF Targets, Fresh
    <2>3. SwitchTo(current, n, th[c].how, masked) /\ th[c].how \in {"call", "foo"}
      BY <1>1, <1>5, <2>1, <2>2 DEF Switch, Fields
    <2> QED  BY <2>1, <2>2, <2>3, SwitchFresh
  <1>6. ASSUME NEW c \in Tasks, Choose(c) PROVE Fresh'
    <2>1. PICK n \in Tasks : n = NextRunning(state, c) /\ state[n] = "RUNNING"
      BY <1>1, <1>6, NextRunningFound DEF Targets, Choose, At
    <2>2. /\ c = current /\ \A d \in Tasks \ {c} : th'[d] = th[d]
          /\ th'[c].pc = "switch" /\ th'[c].sel = n
          /\ UNCHANGED <<state, context, current, freed>>
      <3> DEFINE v == [th[c] EXCEPT !.pc = "switch", !.sel = n]
      <3>1. v.pc = "switch" /\ v.sel = n
        BY <1>1 DEF Fields
      <3>2. th' = [th EXCEPT ![c] = v]
        BY <1>1, <1>6, <2>1 DEF Choose
      <3> HIDE DEF v
      <3> QED  BY <1>1, <1>6, <3>1, <3>2 DEF Choose, At, cpu, past
    <2> QED  BY <1>1, <2>1, <2>2 DEF Fresh, Chosen, Running, Saved
  <1>7. ASSUME NEW c \in Tasks, Count(c) \/ Enqueue(c) PROVE Fresh'
    <2>1. /\ c = current /\ \A d \in Tasks \ {c} : th'[d] = th[d]
          /\ th[c].pc \in {"count", "enqueue"} /\ th'[c].pc \in {"enqueue", "append"}
          /\ UNCHANGED <<state, context, current, freed>>
      BY <1>1, <1>7 DEF Count, Enqueue, At, cpu, past, Fields
    <2> QED  BY <1>1, <2>1 DEF Fresh, Chosen, Running
  <1>8. ASSUME NEW c \in Tasks, Append(c) \/ Close(c) PROVE Fresh'
    <2>1. /\ c = current /\ \A d \in Tasks \ {c} : th'[d] = th[d]
          /\ th[c].pc \in {"append", "close"} /\ th'[c].pc = (IF th[c].pc = "append" THEN "close"
                                                              ELSE th[c].job)
          /\ th'[c].job = th[c].job /\ th'[c].new = th[c].new
          /\ UNCHANGED <<state, context, current, freed>> /\ Creating(c)
      BY <1>1, <1>8 DEF Append, Close, At, cpu, Fields, Creating
    <2>2. th[c].job \in {"fork", "fork_demo", "thread_demo", "exec"} /\ th[c].new \in Tasks
      BY <1>1, <2>1 DEF Newcomers
    <2>3. th[c].pc = "append" /\ th[c].job = "exec" =>
            state[th[c].new] = "RUNNING"
      BY <1>1, <2>1, <2>2 DEF Newcomers
    <2> QED  BY <1>1, <2>1, <2>2, <2>3 DEF Fresh, Chosen, Running
  <1>9. ASSUME NEW c \in Tasks, ForkReturn(c) \/ DemoReturn(c) PROVE Fresh'
    <2>1. /\ c = current /\ \A d \in Tasks \ {c} : th'[d] = th[d]
          /\ th[c].pc \in {"fork", "fork_demo", "thread_demo"} /\ Creating(c)
          /\ th'[c].pc \in {"user", "shell"} /\ th'[c].job = "none"
          /\ UNCHANGED <<state, current, freed>>
      <3>1. "shell" \in Pcs
        BY DEF Pcs
      <3>2. PICK v : /\ th' = [th EXCEPT ![c] = v]
                     /\ v = Locals \/ v = [Locals EXCEPT !.pc = "shell"]
        BY <1>9 DEF ForkReturn, DemoReturn, InShell
      <3> HIDE DEF Locals
      <3>3. v.pc \in {"user", "shell"} /\ v.job = "none"
        BY <3>1, <3>2, LocalsReset
      <3>4. /\ c = current /\ th[c].pc \in {"fork", "fork_demo", "thread_demo"} /\ Creating(c)
            /\ UNCHANGED <<state, current, freed>>
        BY <1>9 DEF ForkReturn, DemoReturn, At, cpu, past, Creating
      <3> QED  BY <1>1, <3>2, <3>3, <3>4
    <2>2. \A d \in Tasks : context[d] \in {"call", "foo"} => context'[d] = context[d]
      <3>1. CASE ForkReturn(c)
        <4>1. th[c].new \in Tasks /\ context[th[c].new] = "zero"
          BY <1>1, <2>1, <3>1 DEF Newcomers, ForkReturn, At
        <4>2. context' = [context EXCEPT ![th[c].new] = "child"]
          BY <3>1 DEF ForkReturn, ChildContext
        <4> QED  BY <1>1, <4>1, <4>2
      <3>2. CASE DemoReturn(c)
        BY <3>2 DEF DemoReturn
      <3> QED  BY <1>9, <3>1, <3>2
    <2> QED  BY <1>1, <2>1, <2>2 DEF Fresh, Chosen, Running
  <1>10. ASSUME NEW c \in Tasks, SpawnUserProgram(c) PROVE Fresh'
    <2>1. PICK t \in Tasks : t = th[c].new /\ t # Shell /\ Placed(r, t)
      BY <1>1, <1>10 DEF SpawnUserProgram, At, Newcomers, Creating
    <2>2. /\ c = current /\ c = Shell /\ th[c].pc = "exec" /\ th[c].job = "exec"
      BY <1>1, <1>10 DEF SpawnUserProgram, At, Newcomers, Creating
    <2>3. state[t] = "RUNNING"
      BY <2>1, <2>2 DEF Fresh
    <2>4. /\ \A d \in Tasks \ {c, t} : th'[d] = th[d]
          /\ \A d \in Tasks \ {c} : context'[d] = context[d]
          /\ th'[c] = Locals /\ th'[t].pc = "spawn" /\ current' = t
          /\ UNCHANGED <<state, freed>>
      <3> DEFINE v == [th[t] EXCEPT !.pc = "spawn"]
      <3>1. th' = [[th EXCEPT ![c] = Locals] EXCEPT ![t] = v] /\ v.pc = "spawn"
        BY <1>1, <1>10, <2>1, <2>2 DEF SpawnUserProgram, Fields
      <3> HIDE DEF Locals, v
      <3> QED  BY <1>1, <1>10, <2>1, <2>2, <3>1 DEF SpawnUserProgram, past
    <2>5. th'[c].pc = "user" /\ th'[c].job = "none"
      BY <2>4, LocalsReset
    <2> HIDE DEF Locals
    <2> QED  BY <1>1, <2>1, <2>2, <2>3, <2>4, <2>5 DEF Fresh, Chosen
  <1>11. ASSUME NEW c \in Tasks, NEW job \in Jobs, ThreadCreate(c, job) PROVE Fresh'
    <2>1. PICK t \in Tasks :
            /\ state[t] = "none"
            /\ state' = [state EXCEPT ![t] = "RUNNING"]
            /\ context' = [context EXCEPT ![t] = Function(job)]
            /\ th' = [th EXCEPT ![c].pc = "count", ![c].job = job, ![c].new = t,
                                ![c].count = id_counter]
      BY <1>11 DEF ThreadCreate
    <2>2. /\ c = current /\ \A d \in Tasks \ {c} : th'[d] = th[d]
          /\ th[c].pc \in {"user", "shell"} /\ th'[c].pc = "count"
          /\ UNCHANGED <<current, freed>>
      <3> DEFINE v == [th[c] EXCEPT !.pc = "count", !.job = job, !.new = t, !.count = id_counter]
      <3>1. v.pc = "count"
        BY <1>1 DEF Fields
      <3>2. th' = [th EXCEPT ![c] = v]
        BY <1>1, <2>1
      <3> HIDE DEF v
      <3> QED  BY <1>1, <1>11, <3>1, <3>2 DEF ThreadCreate, At, past
    <2>3. t # current /\ ~ Chosen(t)
      <3>1. ~ Placed(r, t)
        BY <1>1, <2>1 DEF Newcomers
      <3>2. t # current /\ ~ Creating(t) /\ th[t].pc # "switch"
        BY <1>1, <2>1, <3>1 DEF Newcomers, Saved, Creating, Targets
      <3> QED  BY <3>2 DEF Chosen, Creating
    <2> QED  BY <1>1, <2>1, <2>2, <2>3 DEF Fresh, Chosen, Running, Targets
  <1>12. ASSUME NEW c \in Tasks,
                Exec(c) \/ Exit(c) \/ Yield(c) \/ \E p \in 1 .. id_counter - 1 : ThreadStop(c, p)
         PROVE  Fresh'
    <2>1. At(c, "user") \/ At(c, "foo")
      BY <1>12 DEF Exec, Exit, Yield, ThreadStop
    <2>2. c # Shell /\ c = current /\ th[c].pc \in {"user", "foo"} /\ th[c].job = "none"
      BY <2>1, UserIsNotShell
    <2>3. /\ \A d \in Tasks \ {c} : th'[d] = th[d]
          /\ th'[c].pc \in {"user", "choose"} /\ th'[c].job = "none"
          /\ Exec(c) => th'[c].pc = "user"
          /\ ~ Exec(c) => th'[c].pc = "choose"
          /\ UNCHANGED <<context, current, freed>>
      BY <1>1, <1>12, <2>2 DEF Exec, Exit, Yield, ThreadStop, Fields, cpu, past, At
    <2>4. \A t \in Tasks :
            state'[t] # state[t] => state'[t] = "TERMINATED" \/ (Exec(c) /\ t = c)
      BY <1>1, <1>12 DEF Exec, Exit, Yield, ThreadStop
    <2>5. Exec(c) => state'[c] # "TERMINATED"
      BY <1>1, ThreadsAssumption DEF Exec
    <2>6. state[c] # "TERMINATED"
      BY <2>2 DEF Fresh, Running
    <2> QED  BY <1>1, <2>2, <2>3, <2>4, <2>5, <2>6 DEF Fresh, Chosen, Running, Targets
  <1>13. CASE Reap \/ Visit \/ Dequeue
    <2>1. /\ current = Shell /\ UNCHANGED <<state, context, current, freed>>
          /\ th[Shell].pc \in {"reap", "visit", "dequeue"} /\ state[Shell] = "RUNNING"
      BY <1>1, <1>13 DEF Reap, Visit, Dequeue, At, cpu, past, Targets
    <2>2. /\ \A d \in Tasks \ {Shell} : th'[d] = th[d]
          /\ th'[Shell].pc \in {"visit", "dequeue", "unlink", "choose"}
          /\ th'[Shell].pc \in {"dequeue", "unlink"} => state[th'[Shell].at] = "TERMINATED"
      <3>1. th[Shell] \in Fields
        BY <1>1
      <3>2. CASE Reap
        BY <1>1, <3>1, <3>2 DEF Reap, Fields
      <3>3. CASE Dequeue
        BY <1>1, <2>1, <3>1, <3>3 DEF Dequeue, Fields, Fresh, At
      <3>4. CASE Visit /\ state[th[Shell].at] = "TERMINATED"
        <4> DEFINE v == [th[Shell] EXCEPT !.to = next[th[Shell].at], !.pc = "dequeue"]
        <4>1. v.pc = "dequeue" /\ v.at = th[Shell].at
          BY <3>1 DEF Fields
        <4>2. th' = [th EXCEPT ![Shell] = v]
          BY <1>1, <3>4 DEF Visit
        <4> HIDE DEF v
        <4> QED  BY <1>1, <3>4, <4>1, <4>2
      <3>5. CASE Visit /\ state[th[Shell].at] # "TERMINATED"
        <4>1. PICK n : n = next[th[Shell].at] /\ th' = VisitNext(n)
          BY <3>5 DEF Visit
        <4> QED  BY <1>1, <4>1 DEF VisitNext, Locals
      <3> QED  BY <1>13, <3>2, <3>3, <3>4, <3>5
    <2> QED  BY <1>1, <2>1, <2>2 DEF Fresh, Chosen, Running
  <1>14. CASE Unlink
    <2>1. /\ current = Shell /\ UNCHANGED <<state, context, current>>
          /\ th[Shell].pc = "unlink" /\ state[Shell] = "RUNNING"
      BY <1>1, <1>14 DEF Unlink, At, cpu, Targets
    <2>2. PICK t \in Tasks : t = th[Shell].at /\ t # Shell /\ state[t] = "TERMINATED"
      BY <1>1, <2>1 DEF Targets, Fresh
    <2>3. \A d \in Tasks \ {t} : freed'[d] = freed[d]
      BY <1>1, <1>14, <2>2 DEF Unlink, Typed
    <2>4. /\ \A d \in Tasks \ {Shell} : th'[d] = th[d]
          /\ th'[Shell].pc \in {"visit", "choose"}
      <3>1. PICK n : n = th[Shell].to /\ th' = VisitNext(n)
        BY <1>14 DEF Unlink
      <3> QED  BY <1>1, <3>1 DEF VisitNext, Locals
    <2> QED  BY <1>1, <2>1, <2>2, <2>3, <2>4 DEF Fresh, Chosen, Running
  <1>15. ASSUME NEW c \in Tasks, EnterProgram(c) PROVE Fresh'
    <2>1. /\ c = current /\ th[c].pc = "spawn" /\ th' = [th EXCEPT ![c] = Locals]
          /\ UNCHANGED <<state, context, current, freed>>
      BY <1>15 DEF EnterProgram, At, cpu, past
    <2>2. c # Shell
      BY <1>1, <2>1 DEF Saved
    <2> HIDE DEF Locals
    <2> QED  BY <1>1, <2>1, <2>2, LocalsReset DEF Fresh, Chosen, Running
  <1>16. ASSUME NEW c \in Tasks, Kernel(c) PROVE Fresh'
    BY <1>5, <1>6, <1>7, <1>8, <1>9, <1>10, <1>15, <1>16 DEF Kernel
  <1>17. CASE Idle
    BY <1>13, <1>14, <1>17, Zenon DEF Idle
  <1> QED  BY <1>3, <1>4, <1>11, <1>12, <1>16, <1>17, Zenon DEF Next

LEMMA InitFresh == Init => Fresh
  <1> SUFFICES ASSUME Init PROVE Fresh
    OBVIOUS
  <1>1. /\ \A t \in Tasks : freed[t] = 0 /\ ~ Chosen(t)
        /\ th[Shell].pc = "shell" /\ state[Shell] = "RUNNING" /\ current = Shell
    BY ThreadsAssumption DEF Init, Chosen, InShell, Locals
  <1> QED  BY <1>1, ThreadsAssumption DEF Fresh, Chosen

LEMMA NextFresh == IInv /\ Fresh /\ [Next]_vars => Fresh'
  <1> SUFFICES ASSUME NEW r \in [Tasks -> Nat], Core(r), Fresh, [Next]_vars PROVE Fresh'
    BY DEF IInv
  <1>1. CASE Next
    BY <1>1, StepFresh
  <1>2. CASE UNCHANGED vars
    BY <1>2 DEF Fresh, Chosen, Running, vars, cpu, past
  <1> QED  BY <1>1, <1>2

\* What holds while the processor's choices are not stale, in every state.
THEOREM FreshAlways == Spec => []Fresh
  BY InitFresh, NextFresh, Inductive, PTL DEF Spec

\* A terminated task runs again only after a tick came between the choice of a
\* task and the switch to it.
THEOREM OnlyStaleRevives == Spec => []OnlyStaleChoiceRevives
  <1>1. Fresh => OnlyStaleChoiceRevives
    BY DEF Fresh, OnlyStaleChoiceRevives
  <1> QED  BY <1>1, FreshAlways, PTL

-----------------------------------------------------------------------------
(* Where the processor leaves the kernel's code                            *)

\* What brings a task to run where no code of it is.
LEMMA GoesWild ==
    ASSUME NEW r, Core(r), Next, NEW t \in Tasks, th'[t].pc = "wild"
    PROVE  /\ context'[t] \in Unready
           /\ context'[t] = "image" => \E c \in Tasks : th'[c].new = t /\ th'[c].job = "exec"
  <1>1. /\ Typed /\ Ranked(r) /\ Newcomers(r) /\ Saved /\ Targets(r)
        /\ Shell \in Tasks /\ th \in [Tasks -> Fields] /\ current \in Tasks
    BY CoreParts
  <1>2. th[current].pc # "wild"
    <2>1. Tick => th[current].pc # "wild"
      BY DEF Tick
    <2>2. Idle => th[current].pc # "wild"
      BY DEF Idle, Reap, Visit, Dequeue, Unlink, At
    <2>3. \A c \in Tasks : Kernel(c) => th[current].pc # "wild"
      BY DEF Kernel, Choose, Switch, Count, Enqueue, Append, Close, ForkReturn,
         DemoReturn, SpawnUserProgram, EnterProgram, At
    <2>4. \A c \in Tasks, job \in Jobs : ThreadCreate(c, job) => th[current].pc # "wild"
      BY DEF ThreadCreate, At
    <2>5. \A c \in Tasks : Exec(c) \/ Exit(c) \/ Yield(c) \/ Fault(c) => th[current].pc # "wild"
      BY DEF Exec, Exit, Yield, Fault, At
    <2>6. \A c \in Tasks, p \in 1 .. id_counter - 1 : ThreadStop(c, p) => th[current].pc # "wild"
      BY DEF ThreadStop, At
    <2> QED  BY <2>1, <2>2, <2>3, <2>4, <2>5, <2>6 DEF Next
  <1>3. \A d \in Tasks : th[d].pc # "wild"
    BY <1>1, <1>2 DEF Saved
  <1>4. ASSUME NEW n \in Tasks, NEW how \in {"irq", "call", "foo", "cut"}, NEW daif,
               SwitchTo(current, n, how, daif)
        PROVE  /\ context'[t] \in Unready
               /\ context'[t] = "image" =>
                     \E c \in Tasks : th'[c].new = t /\ th'[c].job = "exec"
    <2>1. /\ \A d \in Tasks : d # n => th'[d] = th[d]
          /\ context'[n] = "irq" => th'[n] = th[n]
          /\ context'[n] # "irq" =>
               (th'[n].pc = "wild" <=> context'[n] \in Unready)
          /\ context' = [context EXCEPT ![current] = how]
      BY <1>1, <1>4, SwitchResets
    <2>2. t = n /\ context'[n] \in Unready
      BY <1>3, <2>1
    <2>3. ASSUME context'[n] = "image"
          PROVE  \E c \in Tasks : th'[c].new = t /\ th'[c].job = "exec"
      <3>1. n # current /\ context[n] = "image"
        BY <1>1, <2>1, <2>3 DEF Typed
      <3>2. PICK c \in Tasks : th[c].new = n /\ th[c].job = "exec"
        BY <1>1, <3>1 DEF Saved
      <3>3. th[n].job = "none"
        BY <1>1, <1>3, <3>1 DEF Saved, Creating
      <3> QED  BY <2>1, <2>2, <3>2, <3>3
    <2> QED  BY <2>2, <2>3
  <1>5. CASE Tick
    <2>1. PICK n \in Tasks : n = NextRunning(state, current)
      BY <1>1, NextRunningFound DEF Targets
    <2> DEFINE how == IF th[current].pc = "spawn" THEN "cut" ELSE "irq"
    <2>2. SwitchTo(current, n, how, TRUE) /\ how \in {"irq", "cut"}
      BY <1>5, <2>1 DEF Tick
    <2> HIDE DEF how
    <2> QED  BY <1>4, <2>2
  <1>6. ASSUME NEW c \in Tasks, Fault(c)
        PROVE  /\ context'[t] \in Unready
               /\ context'[t] = "image" =>
                     \E d \in Tasks : th'[d].new = t /\ th'[d].job = "exec"
    <2>1. c # Shell /\ c = current /\ Placed(r, c)
      BY <1>6, UserIsNotShell DEF Fault
    <2>2. state'[Shell] = "RUNNING"
      BY <1>1, <1>6, <2>1 DEF Targets, Fault, Typed
    <2>3. PICK n \in Tasks : n = NextRunning(state', c)
      BY <1>1, <2>1, <2>2, NextRunningFound
    <2>4. SwitchTo(current, n, "call", TRUE)
      BY <1>6, <2>1, <2>3 DEF Fault
    <2> QED  BY <1>4, <2>4
  <1>7. ASSUME NEW c \in Tasks, Switch(c)
        PROVE  /\ context'[t] \in Unready
               /\ context'[t] = "image" =>
                     \E d \in Tasks : th'[d].new = t /\ th'[d].job = "exec"
    <2>1. c = current /\ th[c].pc = "switch"
      BY <1>7 DEF Switch, At
    <2>2. PICK n \in Tasks : n = th[c].sel
      BY <1>1, <2>1 DEF Targets
    <2>3. SwitchTo(current, n, th[c].how, masked) /\ th[c].how \in {"call", "foo"}
      BY <1>1, <1>7, <2>1, <2>2 DEF Switch, Fields
    <2> QED  BY <1>4, <2>3
  <1>8. ASSUME NEW c \in Tasks, SpawnUserProgram(c) \/ EnterProgram(c)
        PROVE  FALSE
    <2>1. Locals.pc = "user"
      BY LocalsReset
    <2> DEFINE f == [th EXCEPT ![c] = Locals]
    <2>2. \A d \in Tasks : f[d].pc # "wild" /\ f[d] \in Fields
      <3> HIDE DEF Locals
      <3> QED  BY <1>1, <1>3, <2>1, LocalsReset
    <2>3. f \in [Tasks -> Fields]
      <3> HIDE DEF Locals
      <3> QED  BY <1>1, LocalsReset
    <2>4. CASE EnterProgram(c)
      BY <2>2, <2>4 DEF EnterProgram
    <2>5. CASE SpawnUserProgram(c)
      <3>1. PICK n : th' = [f EXCEPT ![n].pc = "spawn"]
        BY <2>5 DEF SpawnUserProgram
      <3> HIDE DEF f
      <3> QED  BY <2>2, <2>3, <3>1 DEF Fields
    <2> QED  BY <1>8, <2>4, <2>5
  <1>9. ASSUME NEW c \in Tasks, ForkReturn(c) \/ DemoReturn(c)
        PROVE  FALSE
    <2>1. PICK v : /\ th' = [th EXCEPT ![c] = v]
                   /\ v = Locals \/ v = [Locals EXCEPT !.pc = "shell"]
      BY <1>9 DEF ForkReturn, DemoReturn, InShell
    <2>2. "shell" \in Pcs
      BY DEF Pcs
    <2> HIDE DEF Locals
    <2> QED  BY <1>1, <1>3, <2>1, <2>2, LocalsReset
  <1>10. ASSUME NEW c \in Tasks,
                Choose(c) \/ Count(c) \/ Enqueue(c) \/ Append(c) \/ Close(c)
         PROVE  FALSE
    <2>1. th[c] \in Fields
      BY <1>1
    <2>2. Close(c) => th[c].job \in {"fork", "fork_demo", "thread_demo", "exec"}
      BY <1>1 DEF Close, At, Newcomers, Creating
    <2>3. CASE Choose(c)
      <3> DEFINE v == [th[c] EXCEPT !.pc = "switch", !.sel = NextRunning(state, c)]
      <3>1. v.pc = "switch"
        BY <2>1 DEF Fields
      <3>2. th' = [th EXCEPT ![c] = v]
        BY <1>1, <2>3 DEF Choose
      <3> HIDE DEF v
      <3> QED  BY <1>1, <1>3, <3>1, <3>2
    <2> QED  BY <1>1, <1>3, <1>10, <2>1, <2>2, <2>3 DEF Count, Enqueue, Append, Close, Fields
  <1>11. ASSUME NEW c \in Tasks, NEW job \in Jobs, ThreadCreate(c, job) PROVE FALSE
    <2>1. PICK n \in Tasks : th' = [th EXCEPT ![c].pc = "count", ![c].job = job, ![c].new = n,
                                              ![c].count = id_counter]
      BY <1>11 DEF ThreadCreate
    <2> DEFINE v == [th[c] EXCEPT !.pc = "count", !.job = job, !.new = n, !.count = id_counter]
    <2>2. v.pc = "count"
      BY <1>1 DEF Fields
    <2>3. th' = [th EXCEPT ![c] = v]
      BY <1>1, <2>1
    <2> HIDE DEF v
    <2> QED  BY <1>1, <1>3, <2>2, <2>3
  <1>12. ASSUME NEW c \in Tasks,
                Exec(c) \/ Exit(c) \/ Yield(c) \/ \E p \in 1 .. id_counter - 1 : ThreadStop(c, p)
         PROVE  FALSE
    <2>1. th[c] \in Fields
      BY <1>1
    <2> QED  BY <1>1, <1>3, <1>12, <2>1 DEF Exec, Exit, Yield, ThreadStop, Fields
  <1>13. CASE Idle
    <2>1. th[Shell] \in Fields
      BY <1>1
    <2>2. CASE Reap \/ Dequeue
      BY <1>1, <1>3, <2>1, <2>2 DEF Reap, Dequeue, Fields
    <2>3. ASSUME NEW n, th' = VisitNext(n) PROVE FALSE
      BY <1>1, <1>3, <2>3 DEF VisitNext, Locals
    <2>4. CASE Visit /\ state[th[Shell].at] = "TERMINATED"
      <3> DEFINE v == [th[Shell] EXCEPT !.to = next[th[Shell].at], !.pc = "dequeue"]
      <3>1. v.pc = "dequeue"
        BY <2>1 DEF Fields
      <3>2. th' = [th EXCEPT ![Shell] = v]
        BY <1>1, <2>4 DEF Visit
      <3> HIDE DEF v
      <3> QED  BY <1>1, <1>3, <3>1, <3>2
    <2>5. CASE (Visit /\ state[th[Shell].at] # "TERMINATED") \/ Unlink
      BY <2>3, <2>5 DEF Visit, Unlink
    <2> QED  BY <1>13, <2>2, <2>4, <2>5 DEF Idle
  <1> QED  BY <1>5, <1>6, <1>7, <1>8, <1>9, <1>10, <1>11, <1>12, <1>13 DEF Next, Kernel

\* The processor leaves the kernel's code only into a child whose parent has
\* yet to set its context, into exec's task before exec itself enters it or
\* after a tick has cut that, and into the shell that exec dropped.
THEOREM OnlyUnreadyWild == Spec => []OnlyUnreadyGoesWild
  <1>1. Init => OnlyUnreadyGoesWild
    BY DEF Init, OnlyUnreadyGoesWild, Locals, InShell
  <1>2. IInv /\ IInv' /\ OnlyUnreadyGoesWild /\ [Next]_vars => OnlyUnreadyGoesWild'
    <2> SUFFICES ASSUME IInv, IInv', OnlyUnreadyGoesWild, [Next]_vars
                 PROVE  OnlyUnreadyGoesWild'
      OBVIOUS
    <2>1. CASE Next
      <3>1. PICK r \in [Tasks -> Nat] : Core(r)
        BY DEF IInv
      <3>2. Saved'
        BY DEF IInv, Core
      <3>3. \A t \in Tasks : th'[t].pc = "wild" =>
              /\ context'[t] \in Unready
              /\ context'[t] = "image" => \E c \in Tasks : th'[c].new = t /\ th'[c].job = "exec"
        BY <2>1, <3>1, GoesWild
      <3> QED  BY <3>2, <3>3 DEF OnlyUnreadyGoesWild, Saved, Unready
    <2>2. CASE UNCHANGED vars
      BY <2>2 DEF OnlyUnreadyGoesWild, vars, past
    <2> QED  BY <2>1, <2>2
  <1> QED  BY <1>1, <1>2, Inductive, PTL DEF Spec
-----------------------------------------------------------------------------
(* The ring, when updates do not cut into each other                       *)

\* Putting t before s, and taking t out, keep next and prev inverse.
LEMMA PutBefore ==
    ASSUME NEW A, NEW s \in A, NEW t, t \notin A, NEW nx, NEW pv, Inverses(nx, pv, A),
           NEW nx2, NEW pv2, nx2[t] = s, nx2[pv[s]] = t, pv2[t] = pv[s], pv2[s] = t,
           \A d \in A \ {pv[s]} : nx2[d] = nx[d], \A d \in A \ {s} : pv2[d] = pv[d]
    PROVE  Inverses(nx2, pv2, A \cup {t})
  <1>1. \A d \in A : nx[d] \in A /\ pv[d] \in A /\ pv[nx[d]] = d /\ nx[pv[d]] = d
    BY DEF Inverses
  <1> SUFFICES ASSUME NEW d \in A \cup {t}
               PROVE  /\ nx2[d] \in A \cup {t} /\ pv2[d] \in A \cup {t}
                      /\ pv2[nx2[d]] = d /\ nx2[pv2[d]] = d
    BY DEF Inverses
  <1>2. CASE d = t
    BY <1>1, <1>2
  <1>3. CASE d # t
    <2>1. /\ nx2[d] \in A \cup {t} /\ pv2[nx2[d]] = d
      <3>1. CASE d = pv[s]
        BY <1>1, <3>1
      <3>2. CASE d # pv[s]
        BY <1>1, <1>3, <3>2
      <3> QED  BY <3>1, <3>2
    <2>2. pv2[d] \in A \cup {t} /\ nx2[pv2[d]] = d
      <3>1. CASE d = s
        BY <1>1, <3>1
      <3>2. CASE d # s
        BY <1>1, <1>3, <3>2
      <3> QED  BY <3>1, <3>2
    <2> QED  BY <2>1, <2>2
  <1> QED  BY <1>2, <1>3

LEMMA TakeOut ==
    ASSUME NEW A, NEW t \in A, NEW nx, NEW pv, Inverses(nx, pv, A), nx[t] # t,
           NEW nx2, NEW pv2, nx2[pv[t]] = nx[t], pv2[nx[t]] = pv[t],
           \A d \in A \ {pv[t]} : nx2[d] = nx[d], \A d \in A \ {nx[t]} : pv2[d] = pv[d]
    PROVE  Inverses(nx2, pv2, A \ {t})
  <1>1. \A d \in A : nx[d] \in A /\ pv[d] \in A /\ pv[nx[d]] = d /\ nx[pv[d]] = d
    BY DEF Inverses
  <1>2. pv[t] # t
    BY <1>1
  <1> SUFFICES ASSUME NEW d \in A \ {t}
               PROVE  /\ nx2[d] \in A \ {t} /\ pv2[d] \in A \ {t}
                      /\ pv2[nx2[d]] = d /\ nx2[pv2[d]] = d
    BY DEF Inverses
  <1>3. nx2[d] \in A \ {t} /\ pv2[nx2[d]] = d
    <2>1. CASE d = pv[t]
      BY <1>1, <1>2, <2>1
    <2>2. CASE d # pv[t]
      BY <1>1, <2>2
    <2> QED  BY <2>1, <2>2
  <1>4. pv2[d] \in A \ {t} /\ nx2[pv2[d]] = d
    <2>1. CASE d = nx[t]
      BY <1>1, <1>2, <2>1
    <2>2. CASE d # nx[t]
      BY <1>1, <2>2
    <2> QED  BY <2>1, <2>2
  <1> QED  BY <1>3, <1>4

\* A step that leaves the ring and its updates alone.
LEMMA RingUntouched ==
    ASSUME RingInv, UNCHANGED <<next, prev, freed>>, overlap => overlap',
           \A d \in Tasks : InUpdate(d)' <=> InUpdate(d),
           \A d \in Tasks : InUpdate(d) => th'[d].pc = th[d].pc /\ th'[d].new = th[d].new,
           Shell \in Tasks,
           th'[Shell].pc = "unlink" => th'[Shell].at = th[Shell].at,
           ~ overlap /\ th'[Shell].pc \in {"visit", "dequeue", "unlink"} =>
               th'[Shell].at \in Alive,
           ~ overlap /\ th'[Shell].pc \in {"dequeue", "unlink"} =>
               th'[Shell].to \in Alive /\ th'[Shell].to # th'[Shell].at
    PROVE  RingInv'
  <1> SUFFICES ASSUME ~ overlap' PROVE RingInv'
    BY DEF RingInv
  <1>1. ~ overlap /\ Mended /\ Shell \in Alive /\ \A t \in Tasks : freed[t] <= 1
    BY DEF RingInv
  <1>2. Alive' = Alive
    BY DEF Alive
  <1>3. \A d \in Tasks : th'[d].pc \in {"append", "close", "unlink"} =>
          th'[d].pc = th[d].pc /\ th'[d].new = th[d].new
    BY DEF InUpdate
  <1>4. Mended'
    <2>1. \A c, d \in Tasks : InUpdate(c)' /\ InUpdate(d)' => c = d
      BY <1>1 DEF Mended
    <2>2. (\A c \in Tasks : ~ InUpdate(c)') => Inverses(next', prev', Alive')
      BY <1>1, <1>2 DEF Mended
    <2>3. \A c \in Tasks : th'[c].pc = "append" =>
            /\ prev'[th'[c].new] = prev'[Shell] /\ next'[prev'[Shell]] = Shell
            /\ Inverses([next' EXCEPT ![prev'[Shell]] = th'[c].new],
                        [prev' EXCEPT ![Shell] = th'[c].new], Alive')
      BY <1>1, <1>2, <1>3 DEF Mended
    <2>4. \A c \in Tasks : th'[c].pc = "close" =>
            Inverses(next', [prev' EXCEPT ![Shell] = th'[c].new], Alive')
      BY <1>1, <1>2, <1>3 DEF Mended
    <2>5. th'[Shell].pc = "unlink" =>
            Inverses([next' EXCEPT ![prev'[th'[Shell].at]] = next'[th'[Shell].at]], prev',
                     Alive' \ {th'[Shell].at})
      BY <1>1, <1>2, <1>3 DEF Mended
    <2> QED  BY <2>1, <2>2, <2>3, <2>4, <2>5 DEF Mended, Inverses, InUpdate
  <1> QED  BY <1>1, <1>2, <1>4 DEF RingInv

\* While kill_zombies is between its updates, next stays on the ring.
LEMMA NextAlive ==
    ASSUME NEW r, Core(r), RingInv, ~ overlap, th[Shell].pc # "unlink", NEW t \in Alive
    PROVE  next[t] \in Alive
  <1>1. Saved /\ Mended /\ Shell \in Alive /\ Typed /\ Ranked(r) /\ Shell \in Tasks
    BY CoreParts DEF RingInv
  <1>2. CASE \A c \in Tasks : ~ InUpdate(c)
    BY <1>1, <1>2 DEF Mended, Inverses
  <1>3. ASSUME NEW c \in Tasks, th[c].pc = "append" PROVE next[t] \in Alive
    <2> DEFINE nx == [next EXCEPT ![prev[Shell]] = th[c].new]
               pv == [prev EXCEPT ![Shell] = th[c].new]
    <2>1. Inverses(nx, pv, Alive) /\ next[prev[Shell]] = Shell
      BY <1>1, <1>3 DEF Mended
    <2>2. t # prev[Shell] => nx[t] = next[t]
      BY <1>1 DEF Alive, Typed
    <2> HIDE DEF nx, pv
    <2> QED  BY <1>1, <2>1, <2>2 DEF Inverses
  <1>4. ASSUME NEW c \in Tasks, th[c].pc = "close" PROVE next[t] \in Alive
    BY <1>1, <1>4 DEF Mended, Inverses
  <1> QED  BY <1>1, <1>2, <1>3, <1>4 DEF InUpdate, Saved
\* switch_to does not touch the ring.
LEMMA SwitchRing ==
    ASSUME NEW r, Core(r), RingInv, NEW n \in Tasks,
           NEW how \in {"irq", "call", "foo", "cut"}, NEW daif,
           SwitchTo(current, n, how, daif),
           how # "irq" => th[current].pc \in {"user", "switch", "spawn"},
           th[current].pc # "wild", UNCHANGED <<next, prev, freed, overlap>>
    PROVE  RingInv'
  <1>1. Typed /\ Saved /\ Shell \in Tasks /\ current \in Tasks /\ context \in [Tasks -> Contexts]
    BY CoreParts DEF Typed
  <1>2. /\ context' = [context EXCEPT ![current] = how] /\ current' = n
        /\ \A d \in Tasks : d # n => th'[d] = th[d]
        /\ context'[n] = "irq" => th'[n] = th[n]
        /\ context'[n] # "irq" => th'[n].pc \in {"wild", "reap", "user", "foo"}
    BY <1>1, SwitchResets
  <1>3. context'[n] # "irq" => th[n].pc \in {"user", "switch", "spawn"}
    BY <1>1, <1>2 DEF Saved
  <1>4. \A d \in Tasks : \/ th'[d] = th[d]
                         \/ /\ th[d].pc \in {"user", "switch", "spawn"}
                            /\ th'[d].pc \in {"wild", "reap", "user", "foo"}
    BY <1>2, <1>3
  <1>5. \A d \in Tasks : InUpdate(d)' <=> InUpdate(d)
    BY <1>4 DEF InUpdate
  <1>6. \A d \in Tasks : InUpdate(d) => th'[d].pc = th[d].pc /\ th'[d].new = th[d].new
    BY <1>4 DEF InUpdate
  <1>7. th'[Shell].pc \in {"visit", "dequeue", "unlink"} => th'[Shell] = th[Shell]
    BY <1>1, <1>4
  <1>8. ~ overlap => /\ th[Shell].pc \in {"visit", "dequeue", "unlink"} => th[Shell].at \in Alive
                     /\ th[Shell].pc \in {"dequeue", "unlink"} =>
                           th[Shell].to \in Alive /\ th[Shell].to # th[Shell].at
    BY DEF RingInv
  <1> QED  BY <1>1, <1>5, <1>6, <1>7, <1>8, RingUntouched

\* A step of a task's own that is no update of the ring.
LEMMA OtherStepsRing ==
    ASSUME NEW r, Core(r), RingInv, NEW c \in Tasks, ~ InUpdate(c), ~ InUpdate(c)',
           \A d \in Tasks \ {c} : th'[d] = th[d],
           c = Shell => th'[c].pc \notin {"visit", "dequeue", "unlink"},
           UNCHANGED <<next, prev, freed, overlap>>
    PROVE  RingInv'
  <1>1. Shell \in Tasks
    BY CoreParts
  <1>2. \A d \in Tasks : InUpdate(d)' <=> InUpdate(d)
    BY DEF InUpdate
  <1>3. \A d \in Tasks : InUpdate(d) => th'[d] = th[d]
    OBVIOUS
  <1>4. th'[Shell].pc \in {"visit", "dequeue", "unlink"} => th'[Shell] = th[Shell]
    BY <1>1
  <1>5. ~ overlap => /\ th[Shell].pc \in {"visit", "dequeue", "unlink"} => th[Shell].at \in Alive
                     /\ th[Shell].pc \in {"dequeue", "unlink"} =>
                           th[Shell].to \in Alive /\ th[Shell].to # th[Shell].at
    BY DEF RingInv
  <1> QED  BY <1>1, <1>2, <1>3, <1>4, <1>5, RingUntouched

\* The three updates of enqueue.
LEMMA EnqueueRing ==
    ASSUME NEW r, Core(r), RingInv, NEW c \in Tasks, Enqueue(c)
    PROVE  RingInv'
  <1> SUFFICES ASSUME ~ overlap' PROVE RingInv'
    BY DEF RingInv
  <1>1. /\ Typed /\ Ranked(r) /\ Newcomers(r) /\ Saved /\ Targets(r)
        /\ Shell \in Tasks /\ NULL \notin Tasks /\ th[c] \in Fields /\ th \in [Tasks -> Fields]
        /\ c = current /\ th[c].pc = "enqueue" /\ Creating(c)
    BY CoreParts DEF Enqueue, At, Creating
  <1>2. ~ overlap /\ \A u \in Tasks : ~ InUpdate(u)
    BY <1>1 DEF Enqueue, NoteOverlap, InUpdate
  <1>3. /\ Inverses(next, prev, Alive) /\ Shell \in Alive /\ \A t \in Tasks : freed[t] <= 1
        /\ th[Shell].pc \in {"visit", "dequeue", "unlink"} => th[Shell].at \in Alive
        /\ th[Shell].pc \in {"dequeue", "unlink"} =>
              th[Shell].to \in Alive /\ th[Shell].to # th[Shell].at
    BY <1>2 DEF RingInv, Mended
  <1>4. PICK t \in Tasks : t = th[c].new /\ t # Shell /\ next[t] = NULL /\ freed[t] = 0
    BY <1>1 DEF Newcomers
  <1>5. PICK p \in Alive : p = prev[Shell] /\ next[p] = Shell /\ p \in Tasks
    BY <1>3 DEF Inverses, Alive
  <1>6. /\ next'[t] = Shell /\ prev'[t] = p
        /\ \A d \in Tasks \ {t} : next'[d] = next[d] /\ prev'[d] = prev[d]
        /\ next' \in [Tasks -> Tasks \cup {NULL}] /\ prev' \in [Tasks -> Tasks \cup {NULL}]
        /\ freed' = freed
    BY <1>1, <1>4, <1>5 DEF Enqueue, Typed
  <1>7. /\ \A d \in Tasks \ {c} : th'[d] = th[d]
        /\ th'[c].pc = "append" /\ th'[c].new = t
    BY <1>1, <1>4 DEF Enqueue, Fields
  <1>8. Alive' = Alive \cup {t} /\ t \notin Alive
    BY <1>1, <1>4, <1>6 DEF Alive
  <1>9. /\ \A d \in Tasks \ {c} : ~ InUpdate(d)'
        /\ \A d \in Tasks : th'[d].pc = "append" => d = c
        /\ \A d \in Tasks : th'[d].pc \notin {"close", "unlink"}
    BY <1>2, <1>7 DEF InUpdate
  <1>10. PICK nx, pv : /\ nx = [next' EXCEPT ![p] = t] /\ pv = [prev' EXCEPT ![Shell] = t]
    OBVIOUS
  <1>11. Inverses(nx, pv, Alive \cup {t})
    <2>1. /\ nx[t] = Shell /\ nx[p] = t /\ pv[t] = p /\ pv[Shell] = t
          /\ \A d \in Alive \ {p} : nx[d] = next[d] /\ \A e \in Alive \ {Shell} : pv[e] = prev[e]
      BY <1>1, <1>4, <1>5, <1>6, <1>8, <1>10 DEF Alive
    <2> QED  BY <1>3, <1>5, <1>8, <2>1, PutBefore
  <1>12. prev'[t] = prev'[Shell] /\ next'[prev'[Shell]] = Shell /\ prev'[Shell] = p
    BY <1>1, <1>4, <1>5, <1>6, <1>8
  <1>13. Mended'
    <2>1. \A d \in Tasks : th'[d].pc = "append" =>
            /\ prev'[th'[d].new] = prev'[Shell] /\ next'[prev'[Shell]] = Shell
            /\ Inverses([next' EXCEPT ![prev'[Shell]] = th'[d].new],
                        [prev' EXCEPT ![Shell] = th'[d].new], Alive')
      BY <1>7, <1>8, <1>9, <1>10, <1>11, <1>12
    <2>2. InUpdate(c)' /\ \A d, e \in Tasks : InUpdate(d)' /\ InUpdate(e)' => d = e
      BY <1>7, <1>9 DEF InUpdate
    <2> QED  BY <1>1, <1>9, <2>1, <2>2 DEF Mended, Inverses
  <1>14. th'[Shell].pc \in {"visit", "dequeue", "unlink"} => th'[Shell] = th[Shell]
    BY <1>1, <1>7
  <1> QED  BY <1>3, <1>6, <1>8, <1>13, <1>14 DEF RingInv

LEMMA AppendRing ==
    ASSUME NEW r, Core(r), RingInv, NEW c \in Tasks, Append(c)
    PROVE  RingInv'
  <1> SUFFICES ASSUME ~ overlap' PROVE RingInv'
    BY DEF RingInv
  <1>1. /\ Typed /\ Ranked(r) /\ Newcomers(r) /\ Saved /\ Targets(r)
        /\ Shell \in Tasks /\ NULL \notin Tasks /\ th[c] \in Fields /\ th \in [Tasks -> Fields]
        /\ c = current /\ th[c].pc = "append" /\ Creating(c)
    BY CoreParts DEF Append, At, Creating
  <1>2. ~ overlap /\ \A u \in Tasks \ {c} : ~ InUpdate(u)
    BY <1>1 DEF Append, NoteOverlap
  <1>3. /\ Mended /\ Shell \in Alive /\ \A t \in Tasks : freed[t] <= 1
        /\ th[Shell].pc \in {"visit", "dequeue", "unlink"} => th[Shell].at \in Alive
        /\ th[Shell].pc \in {"dequeue", "unlink"} =>
              th[Shell].to \in Alive /\ th[Shell].to # th[Shell].at
    BY <1>2 DEF RingInv
  <1>4. PICK t \in Tasks : t = th[c].new
    BY <1>1 DEF Newcomers
  <1>5. PICK p \in Tasks : p = prev[Shell] /\ next[p] = Shell
    BY <1>1, <1>3, <1>4 DEF Mended, Ranked, Placed, Typed
  <1>6. next' = [next EXCEPT ![p] = t] /\ prev' = prev /\ freed' = freed
    BY <1>4, <1>5 DEF Append
  <1>7. /\ \A d \in Tasks \ {c} : th'[d] = th[d]
        /\ th'[c].pc = "close" /\ th'[c].new = t
    BY <1>1, <1>4 DEF Append, Fields
  <1>8. Alive' = Alive
    BY <1>1, <1>4, <1>5, <1>6 DEF Alive, Typed
  <1>9. /\ \A d \in Tasks : th'[d].pc = "close" => d = c
        /\ \A d \in Tasks : th'[d].pc \notin {"append", "unlink"}
        /\ InUpdate(c)' /\ \A d, e \in Tasks : InUpdate(d)' /\ InUpdate(e)' => d = e
    BY <1>2, <1>7 DEF InUpdate
  <1>10. Inverses(next', [prev' EXCEPT ![Shell] = t], Alive)
    BY <1>1, <1>3, <1>4, <1>5, <1>6 DEF Mended
  <1>11. Mended'
    <2>1. \A d \in Tasks : th'[d].pc = "close" =>
            Inverses(next', [prev' EXCEPT ![Shell] = th'[d].new], Alive')
      BY <1>7, <1>8, <1>9, <1>10
    <2> QED  BY <1>1, <1>9, <2>1 DEF Mended, Inverses
  <1>12. th'[Shell].pc \in {"visit", "dequeue", "unlink"} => th'[Shell] = th[Shell]
    BY <1>1, <1>7
  <1> QED  BY <1>3, <1>6, <1>8, <1>11, <1>12 DEF RingInv

LEMMA CloseRing ==
    ASSUME NEW r, Core(r), RingInv, NEW c \in Tasks, Close(c)
    PROVE  RingInv'
  <1> SUFFICES ASSUME ~ overlap' PROVE RingInv'
    BY DEF RingInv
  <1>1. /\ Typed /\ Ranked(r) /\ Newcomers(r) /\ Saved /\ Targets(r)
        /\ Shell \in Tasks /\ NULL \notin Tasks /\ th[c] \in Fields /\ th \in [Tasks -> Fields]
        /\ c = current /\ th[c].pc = "close" /\ Creating(c)
    BY CoreParts DEF Close, At, Creating
  <1>2. ~ overlap /\ \A u \in Tasks \ {c} : ~ InUpdate(u)
    BY <1>1 DEF Close, NoteOverlap
  <1>3. /\ Mended /\ Shell \in Alive /\ \A t \in Tasks : freed[t] <= 1
        /\ th[Shell].pc \in {"visit", "dequeue", "unlink"} => th[Shell].at \in Alive
        /\ th[Shell].pc \in {"dequeue", "unlink"} =>
              th[Shell].to \in Alive /\ th[Shell].to # th[Shell].at
    BY <1>2 DEF RingInv
  <1>4. /\ prev' = [prev EXCEPT ![Shell] = th[c].new] /\ next' = next /\ freed' = freed
        /\ Alive' = Alive
    BY DEF Close, Alive
  <1>5. th[c].job \in {"fork", "fork_demo", "thread_demo", "exec"}
    BY <1>1 DEF Newcomers
  <1>6. /\ \A d \in Tasks \ {c} : th'[d] = th[d]
        /\ th'[c].pc = th[c].job
    BY <1>1 DEF Close, Fields
  <1>7. \A d \in Tasks : ~ InUpdate(d)' /\ th'[d].pc \notin {"append", "close", "unlink"}
    BY <1>2, <1>5, <1>6 DEF InUpdate
  <1>8. Inverses(next', prev', Alive')
    BY <1>1, <1>3, <1>4 DEF Mended
  <1>9. Mended'
    BY <1>1, <1>7, <1>8 DEF Mended
  <1>10. th'[Shell].pc \in {"visit", "dequeue", "unlink"} => th'[Shell] = th[Shell]
    BY <1>1, <1>5, <1>6
  <1> QED  BY <1>3, <1>4, <1>9, <1>10 DEF RingInv

\* The two updates of dequeue.
LEMMA DequeueRing ==
    ASSUME NEW r, Core(r), RingInv, Dequeue
    PROVE  RingInv'
  <1> SUFFICES ASSUME ~ overlap' PROVE RingInv'
    BY DEF RingInv
  <1>1. /\ Typed /\ Ranked(r) /\ Saved /\ Targets(r)
        /\ Shell \in Tasks /\ NULL \notin Tasks /\ th[Shell] \in Fields /\ th \in [Tasks -> Fields]
        /\ th[Shell].pc = "dequeue"
    BY CoreParts DEF Dequeue, At
  <1>2. ~ overlap /\ \A u \in Tasks : ~ InUpdate(u)
    BY <1>1 DEF Dequeue, NoteOverlap, InUpdate
  <1>3. /\ Inverses(next, prev, Alive) /\ Shell \in Alive /\ \A t \in Tasks : freed[t] <= 1
        /\ th[Shell].at \in Alive /\ th[Shell].to \in Alive /\ th[Shell].to # th[Shell].at
    BY <1>1, <1>2 DEF RingInv, Mended
  <1>4. PICK t \in Alive : t = th[Shell].at /\ t # Shell /\ t \in Tasks
    BY <1>1, <1>3 DEF Targets, Alive
  <1>5. PICK n \in Alive : n = next[t] /\ n # t /\ n \in Tasks
    BY <1>1, <1>3, <1>4 DEF Inverses, Alive, Ranked
  <1>6. PICK p \in Alive : p = prev[t]
    BY <1>3, <1>4 DEF Inverses
  <1>7. /\ prev' = [prev EXCEPT ![n] = p] /\ next' = next /\ freed' = freed /\ Alive' = Alive
    BY <1>4, <1>5, <1>6 DEF Dequeue, Alive
  <1>8. /\ \A d \in Tasks \ {Shell} : th'[d] = th[d]
        /\ th'[Shell].pc = "unlink" /\ th'[Shell].at = t /\ th'[Shell].to = th[Shell].to
    BY <1>1, <1>4 DEF Dequeue, Fields
  <1>9. /\ \A d \in Tasks : th'[d].pc \notin {"append", "close"}
        /\ InUpdate(Shell)' /\ \A d, e \in Tasks : InUpdate(d)' /\ InUpdate(e)' => d = e
    BY <1>2, <1>8 DEF InUpdate
  <1>10. prev'[t] = p /\ p \in Tasks
    BY <1>1, <1>4, <1>5, <1>6, <1>7 DEF Typed, Alive
  <1>11. PICK nx : nx = [next EXCEPT ![p] = n]
    OBVIOUS
  <1>12. Inverses(nx, prev', Alive \ {t})
    <2>1. /\ nx[p] = n /\ prev'[n] = p
          /\ \A d \in Alive \ {p} : nx[d] = next[d] /\ \A e \in Alive \ {n} : prev'[e] = prev[e]
      BY <1>1, <1>5, <1>7, <1>10, <1>11 DEF Typed, Alive
    <2> QED  BY <1>3, <1>4, <1>5, <1>6, <2>1, TakeOut
  <1>13. Mended'
    <2>1. Inverses([next' EXCEPT ![prev'[th'[Shell].at]] = next'[th'[Shell].at]], prev',
                   Alive' \ {th'[Shell].at})
      BY <1>5, <1>7, <1>8, <1>10, <1>11, <1>12
    <2> QED  BY <1>1, <1>9, <2>1 DEF Mended, Inverses
  <1> QED  BY <1>3, <1>4, <1>7, <1>8, <1>13 DEF RingInv

LEMMA UnlinkRing ==
    ASSUME NEW r, Core(r), RingInv, Unlink
    PROVE  RingInv'
  <1> SUFFICES ASSUME ~ overlap' PROVE RingInv'
    BY DEF RingInv
  <1>1. /\ Typed /\ Ranked(r) /\ Saved /\ Targets(r)
        /\ Shell \in Tasks /\ NULL \notin Tasks /\ th[Shell] \in Fields /\ th \in [Tasks -> Fields]
        /\ th[Shell].pc = "unlink"
    BY CoreParts DEF Unlink, At
  <1>2. ~ overlap /\ \A u \in Tasks \ {Shell} : ~ InUpdate(u)
    BY <1>1 DEF Unlink, NoteOverlap
  <1>3. /\ Mended /\ Shell \in Alive /\ \A t \in Tasks : freed[t] <= 1
        /\ th[Shell].at \in Alive /\ th[Shell].to \in Alive /\ th[Shell].to # th[Shell].at
    BY <1>1, <1>2 DEF RingInv
  <1>4. PICK t \in Alive : t = th[Shell].at /\ t # Shell /\ t \in Tasks /\ freed[t] = 0
    BY <1>1, <1>3 DEF Targets, Alive
  <1>5. PICK p \in Tasks : p = prev[t] /\ next[p] # NULL /\ next[t] # NULL
    BY <1>1, <1>4 DEF Ranked, Placed, Targets, Typed
  <1>6. /\ next' = [next EXCEPT ![p] = next[t]] /\ prev' = prev
        /\ freed'[t] = 1 /\ \A d \in Tasks \ {t} : freed'[d] = freed[d]
    BY <1>1, <1>4, <1>5 DEF Unlink, Typed
  <1>7. Alive' = Alive \ {t}
    BY <1>1, <1>4, <1>5, <1>6 DEF Alive, Typed
  <1>8. PICK n : n = th[Shell].to /\ n \in Alive \ {t} /\ th' = VisitNext(n)
    BY <1>3, <1>4 DEF Unlink
  <1>9. /\ \A d \in Tasks \ {Shell} : th'[d] = th[d]
        /\ th'[Shell].pc \in {"visit", "choose"}
        /\ th'[Shell].pc = "visit" => th'[Shell].at = n
    BY <1>1, <1>8 DEF VisitNext, Locals
  <1>10. \A d \in Tasks : ~ InUpdate(d)' /\ th'[d].pc \notin {"append", "close", "unlink"}
    BY <1>2, <1>9 DEF InUpdate
  <1>11. Inverses(next', prev', Alive')
    BY <1>1, <1>3, <1>4, <1>5, <1>6, <1>7 DEF Mended
  <1>12. Mended'
    BY <1>1, <1>10, <1>11 DEF Mended
  <1>13. \A d \in Tasks : freed'[d] <= 1
    BY <1>3, <1>6
  <1>14. Shell \in Alive'
    BY <1>3, <1>4, <1>7
  <1> QED  BY <1>7, <1>8, <1>9, <1>12, <1>13, <1>14 DEF RingInv
LEMMA ReapVisitRing ==
    ASSUME NEW r, Core(r), RingInv, Reap \/ Visit
    PROVE  RingInv'
  <1>1. /\ Typed /\ Ranked(r) /\ Saved /\ Targets(r)
        /\ Shell \in Tasks /\ th[Shell] \in Fields /\ th \in [Tasks -> Fields]
        /\ th[Shell].pc \in {"reap", "visit"}
        /\ UNCHANGED <<next, prev, freed, overlap>>
    BY CoreParts DEF Reap, Visit, At, ring, past
  <1>2. ~ overlap => /\ Shell \in Alive
                     /\ th[Shell].pc = "visit" => th[Shell].at \in Alive
    BY DEF RingInv
  <1>3. \A d \in Tasks \ {Shell} : th'[d] = th[d]
    BY <1>1 DEF Reap, Visit, VisitNext
  <1>4. CASE Reap
    <2>1. th'[Shell].pc = "visit" /\ th'[Shell].at = Shell
      <3> DEFINE v == [th[Shell] EXCEPT !.at = Shell, !.pc = "visit"]
      <3>1. v.pc = "visit" /\ v.at = Shell
        BY <1>1 DEF Fields
      <3>2. th' = [th EXCEPT ![Shell] = v]
        BY <1>1, <1>4 DEF Reap
      <3> HIDE DEF v
      <3> QED  BY <1>1, <3>1, <3>2
    <2>2. \A d \in Tasks : InUpdate(d)' <=> InUpdate(d)
      BY <1>1, <1>3, <2>1 DEF InUpdate
    <2>3. \A d \in Tasks : InUpdate(d) => th'[d] = th[d]
      BY <1>1, <1>3 DEF InUpdate
    <2> QED  BY <1>1, <1>2, <2>1, <2>2, <2>3, RingUntouched
  <1>5. CASE Visit
    <2>1. PICK t : t = th[Shell].at /\ th[Shell].pc = "visit"
      BY <1>5 DEF Visit, At
    <2>2. PICK n : n = next[t] /\ (~ overlap => n \in Alive /\ t \in Alive)
      BY <1>1, <1>2, <2>1, NextAlive
    <2>3. /\ th'[Shell].pc \in {"choose", "visit", "dequeue"}
          /\ th'[Shell].pc = "visit" => th'[Shell].at = n
          /\ th'[Shell].pc = "dequeue" => th'[Shell].at = t /\ th'[Shell].to = n /\ t # Shell
      <3>1. CASE state[t] = "TERMINATED"
        <4> DEFINE v == [th[Shell] EXCEPT !.to = n, !.pc = "dequeue"]
        <4>1. v.pc = "dequeue" /\ v.to = n /\ v.at = t
          BY <1>1, <2>1 DEF Fields
        <4>2. th' = [th EXCEPT ![Shell] = v]
          BY <1>1, <1>5, <2>1, <2>2, <3>1 DEF Visit
        <4>3. t # Shell
          BY <1>1, <3>1 DEF Targets
        <4> HIDE DEF v
        <4> QED  BY <1>1, <4>1, <4>2, <4>3
      <3>2. CASE state[t] # "TERMINATED"
        <4>1. th' = VisitNext(n)
          BY <1>5, <2>1, <2>2, <3>2 DEF Visit
        <4> QED  BY <1>1, <4>1 DEF VisitNext, Locals
      <3> QED  BY <3>1, <3>2
    <2>4. \A d \in Tasks : InUpdate(d)' <=> InUpdate(d)
      BY <1>1, <1>3, <2>3 DEF InUpdate
    <2>5. \A d \in Tasks : InUpdate(d) => th'[d] = th[d]
      BY <1>1, <1>3 DEF InUpdate
    <2>6. ~ overlap /\ t # Shell => n # t
      <3>1. t \in Tasks /\ r \in [Tasks -> Nat]
        BY <1>1, <2>1 DEF Targets, Ranked
      <3>2. ~ overlap => next[t] # NULL
        BY <2>2 DEF Alive
      <3>3. ~ overlap /\ n = t => r[t] < r[t] \/ t = Shell
        BY <1>1, <2>2, <3>1, <3>2 DEF Ranked
      <3>4. r[t] \in Nat
        BY <3>1
      <3> QED  BY <3>3, <3>4
    <2> QED  BY <1>1, <1>2, <2>2, <2>3, <2>4, <2>5, <2>6, RingUntouched
  <1> QED  BY <1>4, <1>5

LEMMA StepRing ==
    ASSUME NEW r, Core(r), RingInv, Next
    PROVE  RingInv'
  <1>1. /\ Typed /\ Ranked(r) /\ Newcomers(r) /\ Saved /\ Targets(r)
        /\ Shell \in Tasks /\ th \in [Tasks -> Fields] /\ current \in Tasks
    BY CoreParts
  <1>2. CASE Tick
    <2>1. PICK n \in Tasks : n = NextRunning(state, current)
      BY <1>1, NextRunningFound DEF Targets
    <2> DEFINE how == IF th[current].pc = "spawn" THEN "cut" ELSE "irq"
    <2>2. /\ SwitchTo(current, n, how, TRUE) /\ th[current].pc # "wild"
          /\ UNCHANGED <<next, prev, freed, overlap>>
          /\ how \in {"irq", "cut"}
          /\ how # "irq" => th[current].pc = "spawn"
      BY <1>2, <2>1 DEF Tick, ring
    <2> HIDE DEF how
    <2> QED  BY <2>1, <2>2, SwitchRing
  <1>3. ASSUME NEW c \in Tasks, Fault(c) PROVE RingInv'
    <2>1. c # Shell /\ c = current /\ Placed(r, c) /\ th[c].pc = "user"
      BY <1>3, UserIsNotShell DEF Fault, At
    <2>2. state'[Shell] = "RUNNING"
      BY <1>1, <1>3, <2>1 DEF Targets, Fault, Typed
    <2>3. PICK n \in Tasks : n = NextRunning(state', c)
      BY <1>1, <2>1, <2>2, NextRunningFound
    <2>4. SwitchTo(current, n, "call", TRUE) /\ UNCHANGED <<next, prev, freed, overlap>>
      BY <1>3, <2>1, <2>3 DEF Fault, ring, past
    <2> QED  BY <2>1, <2>4, SwitchRing
  <1>4. ASSUME NEW c \in Tasks, Switch(c) PROVE RingInv'
    <2>1. c = current /\ th[c].pc = "switch"
      BY <1>4 DEF Switch, At
    <2>2. PICK n \in Tasks : n = th[c].sel
      BY <1>1, <2>1 DEF Targets
    <2>3. /\ SwitchTo(current, n, th[c].how, masked) /\ th[c].how \in {"call", "foo"}
          /\ UNCHANGED <<next, prev, freed, overlap>>
      BY <1>1, <1>4, <2>1, <2>2 DEF Switch, ring, past, Fields
    <2> QED  BY <2>1, <2>3, SwitchRing
  <1>5. ASSUME NEW c \in Tasks, Choose(c) PROVE RingInv'
    <2> DEFINE v == [th[c] EXCEPT !.pc = "switch", !.sel = NextRunning(state, c)]
    <2>1. v.pc = "switch"
      BY <1>1 DEF Fields
    <2>2. th' = [th EXCEPT ![c] = v]
      BY <1>1, <1>5 DEF Choose
    <2> HIDE DEF v
    <2>3. /\ ~ InUpdate(c) /\ ~ InUpdate(c)' /\ \A d \in Tasks \ {c} : th'[d] = th[d]
          /\ th'[c].pc = "switch" /\ UNCHANGED <<next, prev, freed, overlap>>
      BY <1>1, <1>5, <2>1, <2>2 DEF Choose, At, InUpdate, ring, past
    <2> QED  BY <2>3, OtherStepsRing
  <1>6. ASSUME NEW c \in Tasks, NEW job \in Jobs, ThreadCreate(c, job) PROVE RingInv'
    <2>1. PICK n \in Tasks : th' = [th EXCEPT ![c].pc = "count", ![c].job = job, ![c].new = n,
                                              ![c].count = id_counter]
      BY <1>6 DEF ThreadCreate
    <2> DEFINE v == [th[c] EXCEPT !.pc = "count", !.job = job, !.new = n, !.count = id_counter]
    <2>2. v.pc = "count"
      BY <1>1 DEF Fields
    <2>3. th' = [th EXCEPT ![c] = v]
      BY <1>1, <2>1
    <2> HIDE DEF v
    <2>4. /\ ~ InUpdate(c) /\ ~ InUpdate(c)' /\ \A d \in Tasks \ {c} : th'[d] = th[d]
          /\ th'[c].pc = "count" /\ UNCHANGED <<next, prev, freed, overlap>>
      BY <1>1, <1>6, <2>2, <2>3 DEF ThreadCreate, At, InUpdate, ring, past
    <2> QED  BY <2>4, OtherStepsRing
  <1>7. ASSUME NEW c \in Tasks, Count(c) PROVE RingInv'
    <2>1. /\ ~ InUpdate(c) /\ ~ InUpdate(c)' /\ \A d \in Tasks \ {c} : th'[d] = th[d]
          /\ th'[c].pc = "enqueue" /\ UNCHANGED <<next, prev, freed, overlap>>
      BY <1>1, <1>7 DEF Count, At, InUpdate, ring, past, Fields
    <2> QED  BY <2>1, OtherStepsRing
  <1>8. ASSUME NEW c \in Tasks, ForkReturn(c) \/ DemoReturn(c) PROVE RingInv'
    <2>1. PICK v : /\ th' = [th EXCEPT ![c] = v]
                   /\ v = Locals \/ v = [Locals EXCEPT !.pc = "shell"]
      BY <1>8 DEF ForkReturn, DemoReturn, InShell
    <2>2. v.pc \in {"user", "shell"}
      <3>1. "shell" \in Pcs
        BY DEF Pcs
      <3> HIDE DEF Locals
      <3> QED  BY <2>1, <3>1, LocalsReset
    <2>3. th[c].pc \in {"fork", "fork_demo", "thread_demo"} /\ UNCHANGED <<next, prev, freed, overlap>>
      BY <1>8 DEF ForkReturn, DemoReturn, At, ring, past
    <2>4. /\ ~ InUpdate(c) /\ ~ InUpdate(c)' /\ \A d \in Tasks \ {c} : th'[d] = th[d]
          /\ th'[c].pc \in {"user", "shell"}
      BY <1>1, <2>1, <2>2, <2>3 DEF InUpdate
    <2> QED  BY <2>3, <2>4, OtherStepsRing
  <1>9. ASSUME NEW c \in Tasks,
               Exec(c) \/ Exit(c) \/ Yield(c) \/ \E p \in 1 .. id_counter - 1 : ThreadStop(c, p)
        PROVE  RingInv'
    <2>1. /\ ~ InUpdate(c) /\ ~ InUpdate(c)' /\ \A d \in Tasks \ {c} : th'[d] = th[d]
          /\ th'[c].pc \in {"user", "choose"} /\ UNCHANGED <<next, prev, freed, overlap>>
      BY <1>1, <1>9 DEF Exec, Exit, Yield, ThreadStop, At, InUpdate, ring, past, Fields
    <2> QED  BY <2>1, OtherStepsRing
  <1>10. ASSUME NEW c \in Tasks, SpawnUserProgram(c) PROVE RingInv'
    <2>1. PICK t \in Tasks : /\ t = th[c].new /\ t # Shell /\ context[t] = "image"
                             /\ c = current /\ c = Shell /\ th[c].pc = "exec"
      BY <1>1, <1>10 DEF SpawnUserProgram, At, Newcomers, Creating
    <2>2. th[t].pc \in {"user", "switch", "spawn"}
      BY <1>1, <2>1 DEF Saved
    <2>3. /\ \A d \in Tasks \ {c, t} : th'[d] = th[d]
          /\ th'[c].pc = "user" /\ th'[t].pc = "spawn"
          /\ UNCHANGED <<next, prev, freed, overlap>>
      <3> DEFINE v == [th[t] EXCEPT !.pc = "spawn"]
      <3>1. th' = [[th EXCEPT ![c] = Locals] EXCEPT ![t] = v] /\ v.pc = "spawn"
        BY <1>1, <1>10, <2>1 DEF SpawnUserProgram, Fields
      <3>2. Locals.pc = "user"
        BY LocalsReset
      <3> HIDE DEF Locals, v
      <3> QED  BY <1>1, <1>10, <2>1, <3>1, <3>2 DEF SpawnUserProgram, past, ring
    <2>4. \A d \in Tasks : InUpdate(d)' <=> InUpdate(d)
      BY <2>1, <2>2, <2>3 DEF InUpdate
    <2>5. \A d \in Tasks : InUpdate(d) => th'[d] = th[d]
      BY <2>1, <2>2, <2>3 DEF InUpdate
    <2> QED  BY <1>1, <2>1, <2>3, <2>4, <2>5, RingUntouched
  <1>11. ASSUME NEW c \in Tasks, EnterProgram(c) PROVE RingInv'
    <2>1. c # Shell /\ th[c].pc = "spawn" /\ th' = [th EXCEPT ![c] = Locals]
          /\ UNCHANGED <<next, prev, freed, overlap>>
      BY <1>1, <1>11 DEF EnterProgram, At, Saved, ring, past
    <2> HIDE DEF Locals
    <2>2. ~ InUpdate(c) /\ ~ InUpdate(c)' /\ \A d \in Tasks \ {c} : th'[d] = th[d]
      BY <1>1, <2>1, LocalsReset DEF InUpdate
    <2> QED  BY <2>1, <2>2, OtherStepsRing
  <1>12. ASSUME NEW c \in Tasks, Kernel(c) PROVE RingInv'
    BY <1>4, <1>5, <1>7, <1>8, <1>10, <1>11, <1>12, EnqueueRing, AppendRing, CloseRing DEF Kernel
  <1>13. CASE Idle
    BY <1>13, ReapVisitRing, DequeueRing, UnlinkRing DEF Idle
  <1> QED  BY <1>2, <1>3, <1>6, <1>9, <1>12, <1>13 DEF Next

LEMMA InitRing == Init => RingInv
  <1> SUFFICES ASSUME Init PROVE RingInv
    OBVIOUS
  <1>1. Shell \in Tasks /\ NULL \notin Tasks
    BY ThreadsAssumption
  <1>2. \A t \in Tasks : th[t].pc \in {"shell", "user"}
    BY DEF Init, InShell, Locals
  <1>3. Alive = {Shell} /\ next[Shell] = Shell /\ prev[Shell] = Shell
    BY <1>1 DEF Init, Alive
  <1>4. Inverses(next, prev, Alive)
    BY <1>3 DEF Inverses
  <1>5. Mended
    BY <1>1, <1>2, <1>4 DEF Mended, InUpdate
  <1>6. \A t \in Tasks : freed[t] <= 1
    BY DEF Init
  <1> QED  BY <1>1, <1>2, <1>3, <1>5, <1>6 DEF RingInv

LEMMA NextRing == IInv /\ RingInv /\ [Next]_vars => RingInv'
  <1> SUFFICES ASSUME NEW r \in [Tasks -> Nat], Core(r), RingInv, [Next]_vars PROVE RingInv'
    BY DEF IInv
  <1>1. CASE Next
    BY <1>1, StepRing
  <1>2. CASE UNCHANGED vars
    <2>1. UNCHANGED <<next, prev, th, freed, overlap>>
      BY <1>2 DEF vars, ring, past
    <2> QED  BY <2>1 DEF RingInv, Mended, InUpdate, Inverses, Alive
  <1> QED  BY <1>1, <1>2

\* What the ring will be when its update is done, in every state.
THEOREM RingAlways == Spec => []RingInv
  BY InitRing, NextRing, Inductive, PTL DEF Spec

\* The stacks of a task are freed once, and never under a task that runs, unless
\* updates overlapped or a choice was stale.
THEOREM StacksAlwaysFreedOnce == Spec => []StacksFreedOnce
  <1>1. IInv /\ Fresh /\ RingInv => StacksFreedOnce
    <2> SUFFICES ASSUME IInv, Fresh, RingInv, ~ overlap, ~ stale
                 PROVE  freed[current] = 0 /\ \A t \in Tasks : freed[t] <= 1
      BY DEF StacksFreedOnce
    <2>1. current \in Tasks /\ freed \in [Tasks -> 0 .. 2]
      BY DEF IInv, Core, Typed
    <2> QED  BY <2>1 DEF Fresh, RingInv
  <1> QED  BY <1>1, Inductive, FreshAlways, RingAlways, PTL
\* A sound ring, walked from pid 0, is all the tasks that are alive.
LEMMA WalkIsRing ==
    ASSUME NEW r, Core(r), Inverses(next, prev, Alive), Shell \in Alive
    PROVE  RingSound
  <1>1. /\ Typed /\ Ranked(r) /\ Shell \in Tasks /\ next[Shell] # NULL
        /\ r \in [Tasks -> Nat] /\ Cardinality(Tasks) \in Nat
    BY CoreParts, ThreadsAssumption, FS_CardinalityType DEF Alive, Ranked
  <1>2. \A t \in Alive : /\ t \in Tasks /\ next[t] \in Alive /\ prev[t] \in Alive
                         /\ prev[next[t]] = t /\ next[prev[t]] = t
    BY DEF Inverses, Alive
  <1>3. \A t \in Alive : t # Shell => r[prev[t]] < r[t]
    <2> TAKE t \in Alive
    <2>1. prev[t] \in Tasks /\ next[prev[t]] = t /\ t # NULL
      BY <1>2, ThreadsAssumption
    <2> QED  BY <1>1, <2>1 DEF Ranked
  <1>4. Step(Shell, 0) = Shell /\ \A i \in Nat : Step(Shell, i + 1) = next[Step(Shell, i)]
    BY StepIs
  <1>5. \A i \in Nat : Step(Shell, i) \in Alive
    <2> DEFINE Bad == {i \in Nat : Step(Shell, i) \notin Alive}
    <2>1. SUFFICES ASSUME Bad # {} PROVE FALSE
      OBVIOUS
    <2>2. PICK m \in Bad : \A y \in Bad : m <= y
      BY <2>1, LeastNat, Bad \subseteq Nat, Zenon
    <2>3. m \in Nat /\ Step(Shell, m) \notin Alive /\ m # 0
      BY <2>2, <1>4
    <2>4. m - 1 \in Nat /\ m - 1 \notin Bad /\ (m - 1) + 1 = m
      BY <2>2, <2>3
    <2>5. Step(Shell, m - 1) \in Alive /\ Step(Shell, m) = next[Step(Shell, m - 1)]
      BY <2>4, <1>4
    <2> QED  BY <2>3, <2>5, <1>2
  <1>6. OnRing \subseteq Alive
    BY <1>5 DEF OnRing, Rounds
  <1> DEFINE Found(t, i) == /\ i \in Nat /\ Step(Shell, i) = t
                            /\ \A j \in 1 .. i : Step(Shell, j) # Shell
             Lost == {n \in Nat : \E t \in Alive : r[t] = n /\ ~ \E i : Found(t, i)}
  <1>7. \A t \in Alive : \E i : Found(t, i)
    <2>1. SUFFICES ASSUME Lost # {} PROVE FALSE
      BY <1>1, <1>2
    <2>2. PICK m \in Lost : \A y \in Lost : m <= y
      BY <2>1, LeastNat, Lost \subseteq Nat, Zenon
    <2>3. PICK t \in Alive : r[t] = m /\ ~ \E i : Found(t, i)
      BY <2>2
    <2>4. t # Shell
      <3>1. Found(Shell, 0)
        BY <1>4
      <3> QED  BY <2>3, <3>1
    <2>5. PICK p \in Alive : p = prev[t] /\ next[p] = t /\ r[p] < m /\ r[p] \in Nat /\ m \in Nat
      BY <1>1, <1>2, <1>3, <2>3, <2>4
    <2>6. PICK i : Found(p, i)
      <3>1. r[p] \notin Lost
        BY <2>2, <2>5
      <3> QED  BY <2>5, <3>1
    <2>7. Step(Shell, i + 1) = t /\ i + 1 \in Nat
      BY <2>5, <2>6, <1>4
    <2>8. \A j \in 1 .. i + 1 : Step(Shell, j) # Shell
      <3> SUFFICES ASSUME NEW j \in 1 .. i + 1 PROVE Step(Shell, j) # Shell
        OBVIOUS
      <3>1. CASE j = i + 1
        BY <3>1, <2>4, <2>7
      <3>2. CASE j # i + 1
        <4>1. j \in 1 .. i
          BY <3>2, <2>6
        <4> QED  BY <4>1, <2>6
      <3> QED  BY <3>1, <3>2
    <2> QED  BY <2>3, <2>7, <2>8
  <1>8. Alive \subseteq OnRing
    <2> SUFFICES ASSUME NEW t \in Alive PROVE t \in OnRing
      OBVIOUS
    <2>1. PICK i : Found(t, i)
      BY <1>7
    <2>2. i \in Nat /\ i < Cardinality(Tasks)
      BY <1>1, <2>1, WalkIsShort
    <2>3. i = 0 \/ i \in Rounds
      BY <1>1, <2>2 DEF Rounds
    <2> QED  BY <2>1, <2>3 DEF OnRing
  <1> QED  BY <1>2, <1>6, <1>8 DEF RingSound

\* A task is lost to the ring only where two updates of it cut into each other.
THEOREM OnlyOverlapLoses == Spec => []OnlyOverlapLosesTasks
  <1>1. IInv /\ RingInv => OnlyOverlapLosesTasks
    <2> SUFFICES ASSUME NEW r \in [Tasks -> Nat], Core(r), RingInv, ~ overlap,
                        \A t \in Tasks : ~ InUpdate(t)
                 PROVE  RingSound
      BY DEF IInv, OnlyOverlapLosesTasks
    <2> QED  BY WalkIsRing DEF RingInv, Mended
  <1> QED  BY <1>1, Inductive, RingAlways, PTL
-----------------------------------------------------------------------------
(* What masking fork gains                                                 *)

\* switch_to in lab 5.
LEMMA SwitchOrderly ==
    ASSUME NEW r, Core(r), Orderly, NEW n \in Tasks,
           NEW how \in {"irq", "call", "foo"}, NEW daif, SwitchTo(current, n, how, daif),
           current # Shell => ~ Creating(current),
           current = Shell => how = "irq",
           raced' = raced
    PROVE  Orderly'
  <1>1. /\ Typed /\ Newcomers(r) /\ Saved /\ Targets(r) /\ Shell \in Tasks /\ current \in Tasks
        /\ context \in [Tasks -> Contexts]
    BY CoreParts DEF Typed
  <1>2. /\ context' = [context EXCEPT ![current] = how] /\ current' = n
        /\ \A d \in Tasks : d # n => th'[d] = th[d]
        /\ context'[n] = "irq" => th'[n] = th[n]
        /\ context'[n] # "irq" => /\ th'[n].pc \in {"wild", "reap", "user", "foo"}
                                  /\ th'[n].job = "none"
                                  /\ th'[n].pc = "wild" <=> context'[n] \in Unready
                                  /\ th'[n].pc = "reap" <=>
                                        n = Shell /\ context'[n] \in {"call", "idle"}
    BY <1>1, SwitchResets
  <1>3. /\ context'[current] = how
        /\ \A d \in Tasks : d # current => context'[d] = context[d]
    BY <1>1, <1>2
  <1>4. \A c \in Tasks \ {Shell} : ~ Creating(c)
    BY DEF Orderly
  <1>5. context'[n] \notin Unready
    <2>1. SUFFICES ASSUME context[n] = "zero", n # current PROVE FALSE
      BY <1>1, <1>3 DEF Orderly, Unready
    <2>2. PICK c \in Tasks : th[c].new = n /\ th[c].job = "fork"
      BY <1>1, <2>1 DEF Saved
    <2>3. Creating(c)
      BY <1>1, <2>2 DEF Saved, Orderly
    <2>4. c # Shell
      BY <1>1, <2>2, <2>3 DEF Newcomers
    <2> QED  BY <1>4, <2>3, <2>4
  <1>6. context'[Shell] = "irq"
    BY <1>1, <1>3 DEF Orderly
  <1>7. \A d \in Tasks : \/ th'[d] = th[d]
                         \/ d # Shell /\ th'[d].pc \in {"user", "foo"} /\ th'[d].job = "none"
    <2>1. context'[n] # "irq" => n # Shell /\ th'[n].pc \in {"user", "foo"} /\ th'[n].job = "none"
      BY <1>2, <1>5, <1>6
    <2> QED  BY <1>2, <2>1
  <1>8. th'[Shell] = th[Shell]
    BY <1>1, <1>7
  <1>9. \A c \in Tasks \ {Shell} : ~ Creating(c)'
    BY <1>4, <1>7 DEF Creating
  <1>10. \A c \in Tasks : /\ th'[c].job # "exec" /\ th'[c].pc \notin {"wild", "spawn"}
                          /\ context'[c] \notin {"outdated", "image", "cut"}
    BY <1>3, <1>7 DEF Orderly
  <1> QED  BY <1>2, <1>6, <1>8, <1>9, <1>10 DEF Orderly

LEMMA StepOrderly ==
    ASSUME NEW r, Core(r), Orderly, Lab5, Next
    PROVE  Orderly'
  <1>1. /\ Typed /\ Ranked(r) /\ Newcomers(r) /\ Saved /\ Targets(r)
        /\ Shell \in Tasks /\ th \in [Tasks -> Fields] /\ current \in Tasks
        /\ state \in [Tasks -> States] /\ context \in [Tasks -> Contexts]
    BY CoreParts DEF Typed
  <1>2. CASE Tick
    <2>1. PICK n \in Tasks : n = NextRunning(state, current)
      BY <1>1, NextRunningFound DEF Targets
    <2>2. SwitchTo(current, n, "irq", TRUE) /\ ~ masked /\ raced' = raced
      BY <1>1, <1>2, <2>1 DEF Tick, Orderly
    <2>3. current # Shell => ~ Creating(current)
      BY <1>1, <2>2 DEF Orderly
    <2> QED  BY <2>1, <2>2, <2>3, SwitchOrderly
  <1>3. ASSUME NEW c \in Tasks, Fault(c) PROVE Orderly'
    <2>1. c # Shell /\ c = current /\ Placed(r, c) /\ ~ Creating(c)
      BY <1>3, UserIsNotShell DEF Fault
    <2>2. state'[Shell] = "RUNNING"
      BY <1>1, <1>3, <2>1 DEF Targets, Fault
    <2>3. PICK n \in Tasks : n = NextRunning(state', c)
      BY <1>1, <2>1, <2>2, NextRunningFound
    <2>4. SwitchTo(current, n, "call", TRUE) /\ raced' = raced
      BY <1>3, <2>1, <2>3 DEF Fault, past
    <2> QED  BY <2>1, <2>4, SwitchOrderly
  <1>4. ASSUME NEW c \in Tasks, Switch(c) PROVE Orderly'
    <2>1. c = current /\ th[c].pc = "switch" /\ raced' = raced
      BY <1>4 DEF Switch, At, past
    <2>2. PICK n \in Tasks : n = th[c].sel
      BY <1>1, <2>1 DEF Targets
    <2>3. SwitchTo(current, n, th[c].how, masked) /\ th[c].how \in {"call", "foo"}
      BY <1>1, <1>4, <2>1, <2>2 DEF Switch, Fields
    <2>4. c # Shell /\ ~ Creating(c)
      BY <2>1 DEF Orderly, Creating
    <2> QED  BY <2>1, <2>2, <2>3, <2>4, SwitchOrderly
  <1>5. ASSUME NEW c \in Tasks, Choose(c) PROVE Orderly'
    <2> DEFINE v == [th[c] EXCEPT !.pc = "switch", !.sel = NextRunning(state, c)]
    <2>2. v.pc = "switch" /\ v.job = th[c].job
      BY <1>1 DEF Fields
    <2>3. th' = [th EXCEPT ![c] = v]
      BY <1>1, <1>5 DEF Choose
    <2> HIDE DEF v
    <2>4. c = current /\ th[c].pc = "choose" /\ UNCHANGED <<context, current, masked, raced>>
      BY <1>5 DEF Choose, At, cpu, past
    <2>5. c # Shell
      BY <2>4 DEF Orderly
    <2>6. \A d \in Tasks \ {c} : th'[d] = th[d]
          /\ th'[c].pc = "switch" /\ th'[c].job = th[c].job
      BY <1>1, <2>2, <2>3
    <2> QED  BY <1>1, <2>4, <2>5, <2>6 DEF Orderly, Creating
  <1>6. ASSUME NEW c \in Tasks, NEW job \in Jobs, ThreadCreate(c, job) PROVE Orderly'
    <2>1. PICK n \in Tasks :
            /\ state[n] = "none" /\ state' = [state EXCEPT ![n] = "RUNNING"]
            /\ context' = [context EXCEPT ![n] = Function(job)]
            /\ th' = [th EXCEPT ![c].pc = "count", ![c].job = job, ![c].new = n,
                                ![c].count = id_counter]
      BY <1>6 DEF ThreadCreate
    <2> DEFINE v == [th[c] EXCEPT !.pc = "count", !.job = job, !.new = n, !.count = id_counter]
    <2>2. v.pc = "count" /\ v.job = job /\ v.new = n
      BY <1>1 DEF Fields
    <2>3. th' = [th EXCEPT ![c] = v]
      BY <1>1, <2>1
    <2> HIDE DEF v
    <2>4. /\ \A d \in Tasks \ {c} : th'[d] = th[d]
          /\ th'[c].pc = "count" /\ th'[c].job = job /\ th'[c].new = n
      BY <1>1, <2>2, <2>3
    <2>5. /\ c = current /\ current' = current /\ masked' = (job = "fork" /\ MaskedFork)
          /\ th[c].pc = IF job = "fork" THEN "user" ELSE "shell"
          /\ raced' = raced \cup {u \in Tasks \ {c} : Counts(u)}
      BY <1>6 DEF ThreadCreate, At
    <2>6. job \in {"fork", "fork_demo", "thread_demo"}
      BY DEF Jobs, Lab5
    <2>7. c = Shell <=> job # "fork"
      BY <1>1, <2>5, <2>6 DEF Saved
    <2>8. \A d \in Tasks \ {c, Shell} : ~ Creating(d)
      BY <2>5 DEF Orderly
    <2>9. n # Shell /\ n # c
      BY <1>1, <2>1, <2>5 DEF Targets, Newcomers
    <2>10. raced' \subseteq {Shell}
      <3>1. \A u \in Tasks \ {c} : Counts(u) => u = Shell
        BY <2>8 DEF Counts, Creating
      <3> QED  BY <2>5, <3>1 DEF Orderly
    <2>11. \A d \in Tasks \ {Shell} : Creating(d)' => d = current' /\ masked'
      BY <2>4, <2>5, <2>6, <2>7, <2>8 DEF Creating, Lab5
    <2>12. /\ th'[Shell].pc \in {"shell", "count", "enqueue", "append", "close",
                                "fork_demo", "thread_demo"}
           /\ current' # Shell => context'[Shell] = "irq"
      BY <1>1, <2>1, <2>4, <2>5, <2>9 DEF Orderly
    <2>13. Function(job) \in {"zero", "test", "foo"}
      BY <2>6 DEF Function
    <2>14. \A d \in Tasks : /\ th'[d].job # "exec" /\ th'[d].pc \notin {"wild", "spawn"}
                            /\ context'[d] \notin {"outdated", "image", "cut"}
      BY <1>1, <2>1, <2>4, <2>6, <2>13 DEF Orderly
    <2> QED  BY <2>10, <2>11, <2>12, <2>14 DEF Orderly
  <1>7. ASSUME NEW c \in Tasks, Count(c) \/ Enqueue(c) \/ Append(c) \/ Close(c) PROVE Orderly'
    <2>1. /\ c = current /\ UNCHANGED <<context, current, masked, raced>> /\ Creating(c)
          /\ th[c].pc \in {"count", "enqueue", "append", "close"}
      BY <1>7 DEF Count, Enqueue, Append, Close, At, cpu, past, Creating
    <2>2. th[c].job \in IF c = Shell THEN {"fork_demo", "thread_demo", "exec"} ELSE {"fork"}
      BY <1>1, <2>1 DEF Newcomers
    <2>3. /\ \A d \in Tasks \ {c} : th'[d] = th[d]
          /\ th'[c].job = th[c].job /\ th'[c].new = th[c].new
          /\ th[c].pc = "count" => th'[c].pc = "enqueue"
          /\ th[c].pc = "enqueue" => th'[c].pc = "append"
          /\ th[c].pc = "append" => th'[c].pc = "close"
          /\ th[c].pc = "close" => th'[c].pc = th[c].job
      <3>1. th[c] \in Fields
        BY <1>1
      <3> QED  BY <1>1, <1>7, <3>1 DEF Count, Enqueue, Append, Close, At, Fields
    <2>4. th[c].job # "exec"
      BY DEF Orderly
    <2> QED  BY <1>1, <2>1, <2>2, <2>3, <2>4 DEF Orderly, Creating
  <1>8. ASSUME NEW c \in Tasks, ForkReturn(c) \/ DemoReturn(c) PROVE Orderly'
    <2>1. PICK v : /\ th' = [th EXCEPT ![c] = v]
                   /\ \/ ForkReturn(c) /\ v = Locals
                      \/ DemoReturn(c) /\ v = [Locals EXCEPT !.pc = "shell"]
      BY <1>8 DEF ForkReturn, DemoReturn, InShell
    <2>2. /\ v.pc = (IF ForkReturn(c) /\ v = Locals THEN "user" ELSE "shell") /\ v.job = "none"
      <3>1. "shell" \in Pcs
        BY DEF Pcs
      <3> HIDE DEF Locals
      <3> QED  BY <2>1, <3>1, LocalsReset
    <2>3. /\ c = current /\ Creating(c) /\ UNCHANGED <<current, raced>>
          /\ th[c].pc \in {"fork", "fork_demo", "thread_demo"}
      BY <1>8 DEF ForkReturn, DemoReturn, At, Creating, cpu, past
    <2>4. ForkReturn(c) => c # Shell
      BY <1>1, <2>3 DEF ForkReturn, At, Newcomers
    <2>5. DemoReturn(c) => c = Shell
      BY <1>1, <2>3 DEF DemoReturn, At, Newcomers
    <2>6. /\ \A d \in Tasks \ {c} : th'[d] = th[d]
          /\ th'[c].job = "none" /\ th'[c].pc = (IF c = Shell THEN "shell" ELSE "user")
      BY <1>1, <2>1, <2>2, <2>4, <2>5
    <2>7. /\ context'[Shell] = context[Shell]
          /\ \A d \in Tasks : context'[d] \in {context[d], "child"}
      <3>1. th[c].new # Shell
        BY <1>1, <2>3 DEF Newcomers
      <3> QED  BY <1>1, <1>8, <3>1 DEF ForkReturn, DemoReturn, ChildContext
    <2>8. \A d \in Tasks \ {c, Shell} : ~ Creating(d)
      BY <2>3 DEF Orderly
    <2> QED  BY <1>1, <2>3, <2>6, <2>7, <2>8 DEF Orderly, Creating
  <1>9. ASSUME NEW c \in Tasks, Exec(c) \/ Exit(c) \/ Yield(c) PROVE Orderly'
    <2>1. c # Shell /\ c = current /\ ~ Creating(c)
      BY <1>9, UserIsNotShell DEF Exec, Exit, Yield
    <2>2. /\ \A d \in Tasks \ {c} : th'[d] = th[d]
          /\ th'[c].job = th[c].job /\ UNCHANGED <<context, current, masked, raced>>
          /\ th' = th \/ th'[c].pc = "choose"
      <3>1. th[c] \in Fields
        BY <1>1
      <3> QED  BY <1>1, <1>9, <2>1, <3>1 DEF Exec, Exit, Yield, Fields, cpu, past
    <2> QED  BY <1>1, <2>1, <2>2 DEF Orderly, Creating
  <1>10. ~ Idle
    BY DEF Idle, Reap, Visit, Dequeue, Unlink, At, Orderly
  <1>11. \A c \in Tasks : ~ SpawnUserProgram(c)
    <2> SUFFICES ASSUME NEW c \in Tasks, th[c].pc = "exec" PROVE FALSE
      BY DEF SpawnUserProgram, At
    <2>1. th[c].pc = th[c].job
      BY <1>1 DEF Newcomers, Creating
    <2> QED  BY <2>1 DEF Orderly
  <1>12. \A c \in Tasks, p \in 1 .. id_counter - 1 : ~ ThreadStop(c, p)
    BY DEF ThreadStop, Lab5
  <1>13. \A c \in Tasks : ~ EnterProgram(c)
    BY DEF EnterProgram, At, Orderly
  <1>14. ASSUME NEW c \in Tasks, Kernel(c) PROVE Orderly'
    BY <1>4, <1>5, <1>7, <1>8, <1>11, <1>13, <1>14 DEF Kernel
  <1> QED  BY <1>2, <1>3, <1>6, <1>9, <1>10, <1>12, <1>14, Zenon DEF Next

\* Only thread_create's own steps bring a task to its count.
LEMMA WhoCounts ==
    ASSUME NEW r, Core(r), Next,
           \A c \in Tasks : ~ Count(c) /\ \A job \in Jobs : ~ ThreadCreate(c, job)
    PROVE  /\ UNCHANGED <<ids, raced>>
           /\ \A t \in Tasks : state'[t] = "none" => state[t] = "none"
           /\ \A t \in Tasks : th'[t].pc = "count" => th'[t] = th[t]
  <1>1. /\ Typed /\ Ranked(r) /\ Newcomers(r) /\ Saved /\ Targets(r)
        /\ Shell \in Tasks /\ th \in [Tasks -> Fields] /\ current \in Tasks
    BY CoreParts
  <1> DEFINE Kept == /\ UNCHANGED <<ids, raced>>
                     /\ \A t \in Tasks : state'[t] = "none" => state[t] = "none"
                     /\ \A t \in Tasks : th'[t].pc = "count" => th'[t] = th[t]
  <1>2. ASSUME NEW n \in Tasks, NEW how \in {"irq", "call", "foo", "cut"}, NEW daif,
               SwitchTo(current, n, how, daif)
        PROVE  \A t \in Tasks : th'[t].pc = "count" => th'[t] = th[t]
    <2>1. /\ \A d \in Tasks : d # n => th'[d] = th[d]
          /\ context'[n] = "irq" => th'[n] = th[n]
          /\ context'[n] # "irq" => th'[n].pc \in {"wild", "reap", "user", "foo"}
      BY <1>1, <1>2, SwitchResets
    <2> QED  BY <2>1
  <1>3. ASSUME Tick PROVE Kept
    <2>1. PICK n \in Tasks : n = NextRunning(state, current)
      BY <1>1, NextRunningFound DEF Targets
    <2> DEFINE how == IF th[current].pc = "spawn" THEN "cut" ELSE "irq"
    <2>2. SwitchTo(current, n, how, TRUE) /\ how \in {"irq", "cut"} /\ UNCHANGED <<ids, state, raced>>
      BY <1>3, <2>1 DEF Tick
    <2> HIDE DEF how
    <2> QED  BY <1>2, <2>2
  <1>4. ASSUME NEW c \in Tasks, Fault(c) PROVE Kept
    <2>1. c # Shell /\ c = current /\ Placed(r, c)
      BY <1>4, UserIsNotShell DEF Fault
    <2>2. state' = [state EXCEPT ![c] = "TERMINATED"]
      BY <1>4 DEF Fault
    <2>3. state'[Shell] = "RUNNING" /\ \A t \in Tasks : state'[t] = "none" => state[t] = "none"
      BY <1>1, <2>1, <2>2 DEF Targets, Typed
    <2>4. PICK n \in Tasks : n = NextRunning(state', c)
      BY <1>1, <2>1, <2>3, NextRunningFound
    <2>5. SwitchTo(current, n, "call", TRUE) /\ UNCHANGED <<ids, raced>>
      BY <1>4, <2>1, <2>4 DEF Fault, past
    <2> QED  BY <1>2, <2>3, <2>5
  <1>5. ASSUME NEW c \in Tasks, Switch(c) PROVE Kept
    <2>1. c = current /\ th[c].pc = "switch" /\ UNCHANGED <<ids, state, raced>>
      BY <1>5 DEF Switch, At, past
    <2>2. PICK n \in Tasks : n = th[c].sel
      BY <1>1, <2>1 DEF Targets
    <2>3. SwitchTo(current, n, th[c].how, masked) /\ th[c].how \in {"call", "foo"}
      BY <1>1, <1>5, <2>1, <2>2 DEF Switch, Fields
    <2> QED  BY <1>2, <2>1, <2>3
  <1>6. ASSUME NEW c \in Tasks, Choose(c) PROVE Kept
    <2> DEFINE v == [th[c] EXCEPT !.pc = "switch", !.sel = NextRunning(state, c)]
    <2>1. v.pc = "switch"
      BY <1>1 DEF Fields
    <2>2. th' = [th EXCEPT ![c] = v] /\ UNCHANGED <<ids, state, raced>>
      BY <1>1, <1>6 DEF Choose, past
    <2> HIDE DEF v
    <2> QED  BY <1>1, <2>1, <2>2
  <1>7. ASSUME NEW c \in Tasks, Enqueue(c) \/ Append(c) \/ Close(c) PROVE Kept
    <2>1. th[c].job \in {"fork", "fork_demo", "thread_demo", "exec"} /\ th[c] \in Fields
      BY <1>1, <1>7 DEF Enqueue, Append, Close, At, Newcomers, Creating
    <2>2. UNCHANGED <<ids, state, raced>>
      BY <1>7 DEF Enqueue, Append, Close
    <2>3. /\ \A d \in Tasks \ {c} : th'[d] = th[d]
          /\ th'[c].pc \in {"append", "close", th[c].job}
      BY <1>1, <1>7, <2>1 DEF Enqueue, Append, Close, Fields
    <2> QED  BY <2>1, <2>2, <2>3
  <1>8. ASSUME NEW c \in Tasks, ForkReturn(c) \/ DemoReturn(c) PROVE Kept
    <2>1. PICK v : /\ th' = [th EXCEPT ![c] = v]
                   /\ v = Locals \/ v = [Locals EXCEPT !.pc = "shell"]
      BY <1>8 DEF ForkReturn, DemoReturn, InShell
    <2>2. v.pc \in {"user", "shell"}
      <3>1. "shell" \in Pcs
        BY DEF Pcs
      <3> HIDE DEF Locals
      <3> QED  BY <2>1, <3>1, LocalsReset
    <2>3. UNCHANGED <<ids, state, raced>>
      BY <1>8 DEF ForkReturn, DemoReturn, past
    <2> QED  BY <1>1, <2>1, <2>2, <2>3
  <1>9. ASSUME NEW c \in Tasks,
               Exec(c) \/ Exit(c) \/ Yield(c) \/ \E p \in 1 .. id_counter - 1 : ThreadStop(c, p)
        PROVE  Kept
    <2>1. th[c] \in Fields /\ ExecState # "none"
      BY <1>1, ThreadsAssumption
    <2>2. UNCHANGED <<ids, raced>> /\ \A t \in Tasks : state'[t] = "none" => state[t] = "none"
      BY <1>1, <1>9, <2>1 DEF Exec, Exit, Yield, ThreadStop, Typed, past
    <2>3. /\ \A d \in Tasks \ {c} : th'[d] = th[d]
          /\ th' = th \/ th'[c].pc = "choose"
      BY <1>1, <1>9, <2>1 DEF Exec, Exit, Yield, ThreadStop, Fields
    <2> QED  BY <1>1, <2>2, <2>3
  <1>10. ASSUME Idle PROVE Kept
    <2>1. UNCHANGED <<ids, raced, state>>
      BY <1>10 DEF Idle, Reap, Visit, Dequeue, Unlink, past
    <2>2. ASSUME NEW v, th' = [th EXCEPT ![Shell] = v], v.pc # "count" PROVE Kept
      BY <1>1, <2>1, <2>2
    <2>3. ASSUME NEW n, th' = VisitNext(n) PROVE Kept
      <3> DEFINE v == IF n = Shell THEN [Locals EXCEPT !.pc = "choose"]
                      ELSE [Locals EXCEPT !.pc = "visit", !.at = n]
      <3>1. th' = [th EXCEPT ![Shell] = v] /\ v.pc # "count"
        BY <2>3 DEF VisitNext, Locals
      <3> HIDE DEF v
      <3> QED  BY <2>2, <3>1
    <2>4. th[Shell] \in Fields
      BY <1>1
    <2>5. CASE Reap \/ Dequeue
      BY <1>1, <2>1, <2>4, <2>5 DEF Reap, Dequeue, Fields
    <2>6. CASE Visit /\ state[th[Shell].at] = "TERMINATED"
      BY <1>1, <2>1, <2>4, <2>6 DEF Visit, Fields
    <2>7. CASE (Visit /\ state[th[Shell].at] # "TERMINATED") \/ Unlink
      BY <2>3, <2>7 DEF Visit, Unlink
    <2> QED  BY <1>10, <2>5, <2>6, <2>7 DEF Idle
  <1>11. ASSUME NEW c \in Tasks, SpawnUserProgram(c) PROVE Kept
    <2>1. UNCHANGED <<ids, state, raced>> /\ th[c].new \in Tasks
      BY <1>1, <1>11 DEF SpawnUserProgram, At, past, Newcomers, Creating
    <2> DEFINE v == [th[th[c].new] EXCEPT !.pc = "spawn"]
               f == [th EXCEPT ![c] = Locals]
    <2>2. f[th[c].new] \in Fields /\ f \in [Tasks -> Fields] /\ f[c] = Locals
          /\ \A d \in Tasks \ {c} : f[d] = th[d]
      <3> HIDE DEF Locals
      <3> QED  BY <1>1, <2>1, LocalsReset
    <2>3. th' = [f EXCEPT ![th[c].new].pc = "spawn"]
      BY <1>11 DEF SpawnUserProgram
    <2>4. Locals.pc = "user"
      BY LocalsReset
    <2> HIDE DEF f, Locals
    <2>5. \A d \in Tasks : th'[d].pc = "count" => th'[d] = f[d]
      BY <2>1, <2>2, <2>3 DEF Fields
    <2> QED  BY <2>1, <2>2, <2>4, <2>5
  <1>12. ASSUME NEW c \in Tasks, EnterProgram(c) PROVE Kept
    <2>1. UNCHANGED <<ids, state, raced>> /\ th' = [th EXCEPT ![c] = Locals]
      BY <1>12 DEF EnterProgram, past
    <2> HIDE DEF Locals
    <2> QED  BY <1>1, <2>1, LocalsReset
  <1>13. ASSUME NEW c \in Tasks, Kernel(c) PROVE Kept
    BY <1>5, <1>6, <1>7, <1>8, <1>11, <1>12, <1>13 DEF Kernel
  <1> HIDE DEF Kept
  <1>14. Kept
    BY <1>3, <1>4, <1>9, <1>10, <1>13, Zenon DEF Next
  <1> QED  BY <1>14 DEF Kept


\* id_counter stays within the number of tasks that have a pid.
LEMMA StepNumbering ==
    ASSUME NEW r, Core(r), Numbering, Next
    PROVE  Numbering'
  <1>1. /\ Typed /\ Newcomers(r) /\ Saved /\ Targets(r) /\ Shell \in Tasks
        /\ th \in [Tasks -> Fields] /\ pid \in [Tasks -> Int] /\ id_counter \in Int
    BY CoreParts DEF Typed
  <1>2. IsFiniteSet(Counted) /\ Cardinality(Counted) \in Nat
    BY ThreadsAssumption, FS_Subset, FS_CardinalityType DEF Counted
  <1>3. ASSUME NEW c \in Tasks, NEW job \in Jobs, ThreadCreate(c, job) PROVE Numbering'
    <2>1. PICK n \in Tasks :
            /\ state[n] = "none" /\ state' = [state EXCEPT ![n] = "RUNNING"]
            /\ th' = [th EXCEPT ![c].pc = "count", ![c].job = job, ![c].new = n,
                                ![c].count = id_counter]
      BY <1>3 DEF ThreadCreate
    <2> DEFINE v == [th[c] EXCEPT !.pc = "count", !.job = job, !.new = n, !.count = id_counter]
    <2>2. v.new = n /\ v.count = id_counter
      BY <1>1 DEF Fields
    <2>3. th' = [th EXCEPT ![c] = v]
      BY <1>1, <2>1
    <2> HIDE DEF v
    <2>4. pid' = pid /\ id_counter' = id_counter /\ Counted' = Counted
      BY <1>3 DEF ThreadCreate, ids, Counted
    <2>5. \A t \in Tasks : state'[t] = "none" => state[t] = "none"
      BY <1>1, <2>1 DEF Typed
    <2>6. \A d \in Tasks : th'[d].pc = "count" =>
            th'[d].count \in 1 .. Cardinality(Counted) /\ pid[th'[d].new] = -1
      BY <1>1, <2>1, <2>2, <2>3 DEF Numbering, Counts
    <2> QED  BY <2>4, <2>5, <2>6 DEF Numbering, Counts
  <1>4. ASSUME NEW c \in Tasks, Count(c) PROVE Numbering'
    <2>1. PICK n \in Tasks : n = th[c].new /\ th[c].pc = "count" /\ state[n] # "none"
      BY <1>1, <1>4 DEF Count, At, Newcomers, Creating
    <2>2. PICK k \in 1 .. Cardinality(Counted) : k = th[c].count /\ pid[n] = -1
      BY <2>1 DEF Numbering, Counts
    <2>3. /\ id_counter' = k + 1 /\ pid' = [pid EXCEPT ![n] = k]
          /\ th' = [th EXCEPT ![c].pc = "enqueue"] /\ state' = state
      BY <1>4, <2>1, <2>2 DEF Count, NextId
    <2>4. th'[c].pc = "enqueue" /\ \A d \in Tasks \ {c} : th'[d] = th[d]
      BY <1>1, <2>3 DEF Fields
    <2>5. pid'[n] = k /\ k # -1 /\ \A t \in Tasks \ {n} : pid'[t] = pid[t]
      BY <1>1, <1>2, <2>2, <2>3
    <2>6. Counted' = Counted \cup {n} /\ n \notin Counted
      BY <2>1, <2>2, <2>5 DEF Counted
    <2>7. Cardinality(Counted') = Cardinality(Counted) + 1
      BY <1>2, <2>6, FS_AddElement
    <2>8. \A d \in Tasks : Counts(d)' => d # c /\ Counts(d) /\ th'[d] = th[d]
      BY <2>4 DEF Counts
    <2>9. \A d \in Tasks : Counts(d) /\ d # c => th[d].new \in Tasks \ {n}
      BY <1>1, <2>1 DEF Counts, Newcomers, Creating
    <2>10. \A d \in Tasks : Counts(d)' =>
             th'[d].count \in 1 .. Cardinality(Counted') /\ pid'[th'[d].new] = -1
      <3> SUFFICES ASSUME NEW d \in Tasks, Counts(d)'
                   PROVE  th[d].count \in 1 .. Cardinality(Counted') /\ pid'[th[d].new] = -1
        BY <2>8
      <3>1. th[d].count \in 1 .. Cardinality(Counted) /\ pid[th[d].new] = -1
        BY <2>8 DEF Numbering
      <3>2. pid'[th[d].new] = pid[th[d].new]
        BY <2>5, <2>8, <2>9
      <3> QED  BY <1>2, <2>7, <3>1, <3>2
    <2>11. \A t \in Tasks : state'[t] = "none" => pid'[t] = -1
      BY <2>1, <2>3, <2>5 DEF Numbering
    <2>12. id_counter' \in 1 .. Cardinality(Counted')
      BY <1>2, <2>2, <2>3, <2>7
    <2> QED  BY <2>10, <2>11, <2>12 DEF Numbering
  <1>5. CASE \A c \in Tasks : ~ Count(c) /\ \A job \in Jobs : ~ ThreadCreate(c, job)
    <2>1. /\ pid' = pid /\ id_counter' = id_counter
          /\ \A t \in Tasks : state'[t] = "none" => state[t] = "none"
          /\ \A t \in Tasks : th'[t].pc = "count" => th'[t] = th[t]
      BY <1>5, WhoCounts DEF ids
    <2>2. Counted' = Counted
      BY <2>1 DEF Counted
    <2> QED  BY <2>1, <2>2 DEF Numbering, Counts
  <1> QED  BY <1>3, <1>4, <1>5

\* As long as no id_counter++ is cut into, no two pids are the same.
LEMMA StepCounting ==
    ASSUME NEW r, Core(r), Counting, Next
    PROVE  Counting'
  <1>1. /\ Typed /\ Newcomers(r) /\ Saved /\ Targets(r) /\ Shell \in Tasks
        /\ th \in [Tasks -> Fields] /\ pid \in [Tasks -> Int] /\ id_counter \in Int
    BY CoreParts DEF Typed
  <1>2. ASSUME NEW c \in Tasks, NEW job \in Jobs, ThreadCreate(c, job), raced' = {}
        PROVE  Counting'
    <2>1. PICK n \in Tasks :
            th' = [th EXCEPT ![c].pc = "count", ![c].job = job, ![c].new = n,
                             ![c].count = id_counter]
      BY <1>2 DEF ThreadCreate
    <2> DEFINE v == [th[c] EXCEPT !.pc = "count", !.job = job, !.new = n, !.count = id_counter]
    <2>2. v.count = id_counter
      BY <1>1 DEF Fields
    <2>3. th' = [th EXCEPT ![c] = v]
      BY <1>1, <2>1
    <2> HIDE DEF v
    <2>4. pid' = pid /\ id_counter' = id_counter /\ Counted' = Counted
      BY <1>2 DEF ThreadCreate, ids, Counted
    <2>5. raced = {} /\ \A d \in Tasks \ {c} : ~ Counts(d)
      BY <1>2 DEF ThreadCreate
    <2>6. \A d \in Tasks : Counts(d)' => d = c /\ th'[d].count = id_counter
      BY <1>1, <2>2, <2>3, <2>5 DEF Counts
    <2> QED  BY <2>4, <2>5, <2>6 DEF Counting
  <1>3. ASSUME NEW c \in Tasks, Count(c), raced = {} PROVE Counting'
    <2>1. PICK n \in Tasks : n = th[c].new /\ th[c].pc = "count"
      BY <1>1, <1>3 DEF Count, At, Newcomers, Creating
    <2>2. th[c].count = id_counter
      BY <1>3, <2>1 DEF Counting, Counts
    <2>3. /\ id_counter' = id_counter + 1 /\ pid' = [pid EXCEPT ![n] = id_counter]
          /\ th' = [th EXCEPT ![c].pc = "enqueue"]
      BY <1>3, <2>1, <2>2 DEF Count, NextId
    <2>4. th'[c].pc = "enqueue" /\ \A d \in Tasks \ {c} : th'[d] = th[d]
      BY <1>1, <2>3 DEF Fields
    <2>5. \A d \in Tasks : ~ Counts(d)'
      BY <1>3, <2>1, <2>4 DEF Counting, Counts
    <2>6. 0 < id_counter
      <3>1. Shell \in Counted /\ pid[Shell] = 0
        BY <1>1 DEF Counted, Targets
      <3> QED  BY <1>1, <1>3, <3>1 DEF Counting
    <2>7. pid'[n] = id_counter /\ \A t \in Tasks \ {n} : pid'[t] = pid[t]
      BY <1>1, <2>3
    <2>8. \A t \in Counted' : t # n => t \in Counted /\ pid'[t] = pid[t]
      BY <2>7 DEF Counted
    <2>9. \A t \in Counted : pid[t] \in Int /\ 0 <= pid[t] /\ pid[t] < id_counter
      BY <1>1, <1>3 DEF Counting, Counted
    <2>10. \A t \in Counted' : 0 <= pid'[t] /\ pid'[t] < id_counter'
      <3> TAKE t \in Counted'
      <3>1. CASE t = n
        BY <1>1, <2>3, <2>6, <2>7, <3>1
      <3>2. CASE t # n
        BY <1>1, <2>3, <2>8, <2>9, <3>2
      <3> QED  BY <3>1, <3>2
    <2>11. \A t, u \in Counted' : t # u => pid'[t] # pid'[u]
      <3> SUFFICES ASSUME NEW t \in Counted', NEW u \in Counted', t # u PROVE pid'[t] # pid'[u]
        OBVIOUS
      <3>1. \A w \in Counted : pid[w] # id_counter
        BY <1>1, <2>9
      <3>2. \A w, x \in Counted : w # x => pid[w] # pid[x]
        BY <1>3 DEF Counting
      <3> QED  BY <2>7, <2>8, <3>1, <3>2
    <2> QED  BY <2>5, <2>10, <2>11 DEF Counting
  <1>4. ASSUME \A c \in Tasks : ~ Count(c) /\ \A job \in Jobs : ~ ThreadCreate(c, job)
        PROVE  Counting'
    <2>1. /\ pid' = pid /\ id_counter' = id_counter /\ raced' = raced
          /\ \A t \in Tasks : th'[t].pc = "count" => th'[t] = th[t]
      BY <1>4, WhoCounts DEF ids
    <2>2. Counted' = Counted
      BY <2>1 DEF Counted
    <2> QED  BY <2>1, <2>2 DEF Counting, Counts
  <1>5. \A c \in Tasks : Count(c) => raced' = raced
    BY DEF Count, past
  <1> QED  BY <1>2, <1>3, <1>4, <1>5 DEF Counting

LEMMA InitMasked == Init => Orderly /\ Numbering /\ Counting
  <1> SUFFICES ASSUME Init PROVE Orderly /\ Numbering /\ Counting
    OBVIOUS
  <1>1. /\ Shell \in Tasks /\ current = Shell
        /\ th[Shell].pc = "shell" /\ \A t \in Tasks \ {Shell} : th[t].pc = "user"
        /\ \A t \in Tasks : th[t].job = "none" /\ context[t] \in {"idle", "none"}
        /\ raced = {}
    BY ThreadsAssumption DEF Init, InShell, Locals
  <1>2. Orderly
    BY <1>1 DEF Orderly, Creating
  <1>3. Counted = {Shell} /\ pid[Shell] = 0 /\ id_counter = 1
    BY <1>1 DEF Init, Counted
  <1>4. Cardinality(Counted) = 1
    BY <1>3, FS_Singleton
  <1>5. \A t \in Tasks : (state[t] = "none" => pid[t] = -1) /\ ~ Counts(t)
    BY <1>1 DEF Init, Counts
  <1> QED  BY <1>2, <1>3, <1>4, <1>5 DEF Numbering, Counting

LEMMA NextCounting ==
    IInv /\ Numbering /\ Counting /\ [Next]_vars => Numbering' /\ Counting'
  <1> SUFFICES ASSUME NEW r \in [Tasks -> Nat], Core(r), Numbering, Counting, [Next]_vars
               PROVE  Numbering' /\ Counting'
    BY DEF IInv
  <1>1. CASE Next
    BY <1>1, StepNumbering, StepCounting
  <1>2. CASE UNCHANGED vars
    <2>1. UNCHANGED <<state, th, pid, id_counter, raced>>
      BY <1>2 DEF vars, ids, past
    <2> QED  BY <2>1 DEF Numbering, Counting, Counted, Counts
  <1> QED  BY <1>1, <1>2

LEMMA NextOrderly == Lab5 /\ IInv /\ Orderly /\ [Next]_vars => Orderly'
  <1> SUFFICES ASSUME Lab5, NEW r \in [Tasks -> Nat], Core(r), Orderly, [Next]_vars
               PROVE  Orderly'
    BY DEF IInv
  <1>1. CASE Next
    BY <1>1, StepOrderly
  <1>2. CASE UNCHANGED vars
    BY <1>2 DEF vars, cpu, past, Orderly, Creating
  <1> QED  BY <1>1, <1>2

LEMMA MaskedImpliesSound ==
    IInv /\ Orderly /\ Numbering /\ Counting /\ OnlyStaleChoiceRevives => SoundWhenMasked
  <1> SUFFICES ASSUME IInv, Orderly, Numbering, Counting PROVE TypeOK /\ PidsDiffer /\ ReadyWhenResumed
    BY DEF SoundWhenMasked, TerminatedStaysOff
  <1>1. Typed
    BY DEF IInv, Core
  <1>2. id_counter \in 1 .. Cardinality(Tasks)
    <2>1. Counted \in SUBSET Tasks
      BY DEF Counted
    <2>2. Cardinality(Counted) <= Cardinality(Tasks) /\ IsFiniteSet(Counted)
      BY <2>1, ThreadsAssumption, FS_Subset
    <2>3. Cardinality(Counted) \in Nat /\ Cardinality(Tasks) \in Nat
      BY <2>2, ThreadsAssumption, FS_CardinalityType
    <2> QED  BY <2>2, <2>3 DEF Numbering
  <1>3. \A t \in Tasks : th[t].pc \in Pcs
    BY <1>1 DEF Typed, Fields
  <1>4. TypeOK
    BY <1>1, <1>2, <1>3 DEF Typed, TypeOK
  <1>5. PidsDiffer
    BY DEF PidsDiffer, Orderly, Counting, Counted
  <1> QED  BY <1>4, <1>5 DEF Orderly, ReadyWhenResumed

\* In lab 5, where fork is masked, nothing calls kill and exec creates no task,
\* only the shell's id_counter++ is cut into and short of that no two tasks have
\* one pid; no child is resumed before its context is set; and no task runs after
\* its end, but one that foo has chosen before it: for any number of tasks.
THEOREM AlwaysSoundWhenMasked == Lab5 /\ Spec => []SoundWhenMasked
  <1> DEFINE LInv == Lab5 /\ Orderly
             NInv == Numbering /\ Counting
  <1>1. Lab5 /\ Init => LInv /\ NInv
    BY InitMasked
  <1>2. IInv /\ LInv /\ [Next]_vars => LInv'
    <2>1. Lab5 => Lab5'
      BY DEF Lab5
    <2> QED  BY <2>1, NextOrderly
  <1>3. IInv /\ NInv /\ [Next]_vars => NInv'
    BY NextCounting
  <1>4. IInv /\ LInv /\ NInv /\ OnlyStaleChoiceRevives => SoundWhenMasked
    BY MaskedImpliesSound
  <1> HIDE DEF LInv, NInv
  <1>5. Lab5 /\ Spec => []LInv /\ []NInv
    BY <1>1, <1>2, <1>3, Inductive, PTL DEF Spec
  <1> QED  BY <1>4, <1>5, Inductive, OnlyStaleRevives, PTL
=============================================================================
