--------------------------- MODULE InterruptProofs ---------------------------
(***************************************************************************)
(* What an interrupt does before it returns: it runs the deferred tasks    *)
(* (TimerQueue) and hands signals to the task that goes on (Signals).      *)
(*                                                                         *)
(* The queues.  IInv has what holds whatever an interrupt meets (kinds,    *)
(* the stack, no slot taken that was never written) and, as long as no     *)
(* interrupt has met a queue half changed, Whole: the slots below size     *)
(* hold each task once, every task that was set is in one queue, in one    *)
(* frame, dropped or has run, and the timer queue is a heap but for the    *)
(* task that rises in it.  As long as no interrupt came between a new      *)
(* first task and its timer either, OnTime: the timer is not after the     *)
(* first task, which is what makes taking it without a look at its time    *)
(* right.  Add and Pop gather the slots a task rises or sinks through with *)
(* a recursive function.  That it gathers a path has no proof by induction *)
(* but one by the least number of steps at which it would not              *)
(* (LeastNumber).  Unlost is why only an interrupt between a test of a     *)
(* queue and its use, or one that met a queue half changed, loses a frame. *)
(*                                                                         *)
(* Signals.  That a handler returns to the program rests on                *)
(* signal_handling: while a handler runs it is set, so signal does not     *)
(* overwrite sigframe; while it is clear the task is in its program, so    *)
(* what signal saves is a point of the program.  Handling says so for      *)
(* every task not forked in a handler and with no failed exec in one.      *)
(***************************************************************************)
EXTENDS TimerQueue, Signals, FiniteSetTheorems, WellFoundedInduction, TLAPS

\* What may be on the stack.
Frame ==
    [pc : {"shell", "loop", "enable", "target", "pop", "top", "wild"}]
    \cup [pc : {"add", "load", "size", "run"}, task : Ids]
    \cup [pc : {"grow", "sift"}, task : Ids, i : Slots]
    \cup [pc : {"arm"}, delay : Int]
    \cup [pc : {"last"}, task : Ids, size : 1 .. TASK_MAX_SIZE]
    \cup [pc : {"sink"}, task : Ids, last : Ids, i : Slots]

Queue == [size : 0 .. TASK_MAX_SIZE, tasks : [Slots -> Ids \cup {Garbage}]]

Typed ==
    /\ now \in 0 .. MaxNow
    /\ timer \in [on : BOOLEAN, at : Int]
    /\ timeout \in [Ids -> Int]
    /\ timerq \in Queue /\ taskq \in Queue
    /\ stack \in Seq(Frame) /\ Len(stack) \in 1 .. MaxDepth
    /\ due \in [Ids -> Int]
    /\ dropped \subseteq Ids
    /\ ran \in [Ids -> Nat]
    /\ early \subseteq Ids
    /\ cut \subseteq {"queue", "test", "timer"}

\* The shell is below every interrupt and never returns.
ShellBelow == \A k \in DOMAIN stack : stack[k].pc = "shell" <=> k = 1

\* The first n slots hold tasks.
Filled(tasks, n) == \A j \in 0 .. n - 1 : tasks[j] \in Ids

\* Nothing that can be taken off the task queue is garbage, what a pop_task on
\* its way is still to read and an interrupt has changed included.
NoGarbageTaken ==
    /\ Filled(taskq.tasks, taskq.size)
    /\ \A k \in DOMAIN stack : stack[k].pc = "last" => Filled(taskq.tasks, stack[k].size)
    /\ \A k \in DOMAIN stack : stack[k].pc = "top" => taskq.tasks[0] \in Ids

-----------------------------------------------------------------------------
(* While no interrupt has met a queue half changed                         *)

\* A queue in the middle of a change, as if the task that the loop carries
\* were in the slot it has reached.
TimerSlots == IF Top.pc = "sift" THEN [timerq.tasks EXCEPT ![Top.i] = Top.task]
              ELSE timerq.tasks
TaskSlots == IF Top.pc = "sink" THEN [taskq.tasks EXCEPT ![Top.i] = Top.last]
             ELSE taskq.tasks

HeldBy(tasks, n) == {tasks[j] : j \in 0 .. n - 1}
Distinct(tasks, n) == \A j, k \in 0 .. n - 1 : tasks[j] = tasks[k] => j = k

\* The task that a frame holds and no queue.
Load(f) == IF f.pc \in {"add", "load", "grow", "sink", "run"} THEN {f.task} ELSE {}
Loads(s) == {t \in Ids : \E k \in DOMAIN s : t \in Load(s[k])}
Apart(s) == \A j, k \in DOMAIN s : j # k => Load(s[j]) \cap Load(s[k]) = {}

\* Only the running frame is in the middle of a change.  One that has read the
\* size may be interrupted while there is nothing to do.
OneChanges ==
    \A k \in DOMAIN stack :
        /\ stack[k].pc \in {"sift", "top", "size", "last", "sink"} => k = Len(stack)
        /\ stack[k].pc = "grow" =>
              /\ stack[k].i = timerq.size
              /\ k < Len(stack) => /\ timerq.size = 0 /\ taskq.size = 0
                                   /\ \A m \in k + 1 .. Len(stack) : stack[m].pc = "loop"

\* What the running frame has read is still so.
ReadsHold ==
    /\ Top.pc = "sift" => Top.i < timerq.size
    /\ Top.pc \in {"top", "size"} => taskq.size > 0
    /\ Top.pc \in {"size", "last"} => Top.task = taskq.tasks[0]
    /\ Top.pc = "last" => Top.size = taskq.size
    /\ Top.pc = "sink" => \/ Top.i < taskq.size
                          \/ taskq.size = 0 /\ Top.i = 0

\* The places a task can be in.
InTimerq == HeldBy(TimerSlots, timerq.size)
InTaskq == HeldBy(TaskSlots, taskq.size)
OnStack == Loads(stack)
HasRun == {t \in Ids : ran[t] > 0}

\* Sets that share nothing and together make all.
Parted(a, b, c, d, e, all) ==
    /\ a \cap b = {} /\ a \cap c = {} /\ a \cap d = {} /\ a \cap e = {} /\ b \cap c = {}
    /\ b \cap d = {} /\ b \cap e = {} /\ c \cap d = {} /\ c \cap e = {} /\ d \cap e = {}
    /\ a \cup b \cup c \cup d \cup e = all

\* Slots that hold tasks, each once.
HoldsEach(tasks, n) == Filled(tasks, n) /\ Distinct(tasks, n)

\* Every task that was set is in one of the places, once.
OnePlace ==
    /\ HoldsEach(TimerSlots, timerq.size) /\ HoldsEach(TaskSlots, taskq.size)
    /\ Apart(stack) /\ \A t \in Ids : ran[t] <= 1
    /\ Parted(InTimerq, InTaskq, OnStack, HasRun, dropped, Ids \ Fresh)

\* No task but the one at hole is due before its parent.
HeapBut(tasks, n, hole) ==
    \A j \in 1 .. n - 1 : j # hole => timeout[tasks[Parent(j)]] <= timeout[tasks[j]]

\* A heap but for the task at the hole, which rises: what is below it comes
\* after what is above it.
HeapRising(tasks, n, hole) ==
    /\ HeapBut(tasks, n, hole)
    /\ \A j \in 1 .. n - 1 : Parent(j) = hole /\ hole > 0
                             => timeout[tasks[Parent(hole)]] <= timeout[tasks[j]]

\* The timer queue is a heap but for the task that rises in it.
Ordered == IF Top.pc = "sift" THEN HeapRising(TimerSlots, timerq.size, Top.i)
           ELSE HeapBut(timerq.tasks, timerq.size, 0)

Whole == OneChanges /\ ReadsHold /\ OnePlace /\ Ordered

-----------------------------------------------------------------------------
(* Time, while no interrupt met a queue half changed or a timer not yet set *)

Waiting == InTimerq \cup {t \in Ids : \E k \in DOMAIN stack :
                              stack[k].pc \in {"add", "load", "grow"} /\ stack[k].task = t}
Ready == InTaskq \cup {t \in Ids : \E k \in DOMAIN stack :
                              stack[k].pc \in {"sink", "run"} /\ stack[k].task = t}

OnTime ==
    /\ \A t \in Waiting : timeout[t] = due[t] /\ due[t] - now < TvalRange
    /\ \A t \in Ready : due[t] <= now
    /\ Frames({"target", "arm"}) # {} => timerq.size > 0
    /\ timerq.size > 0 /\ Frames({"sift", "target", "arm"}) = {} =>
          timeout[TimerSlots[0]] <= timer.at
    /\ \A k \in DOMAIN stack : stack[k].pc = "arm" =>
          stack[k].delay < TvalRange /\ timeout[TimerSlots[0]] <= now + stack[k].delay
    /\ early = {}

Tame == cut \cap {"queue", "timer"} = {} /\ \A d \in Delays : d < TvalRange

\* No frame is lost, and none will be by what it is still to read.
Unlost ==
    /\ "queue" \notin cut =>
          \A k \in DOMAIN stack : stack[k].pc = "target" => timerq.tasks[0] \in Ids
    /\ "test" \notin cut =>
          \A k \in DOMAIN stack : stack[k].pc = "pop" => k = Len(stack) /\ taskq.size > 0
    /\ cut \cap {"queue", "test"} = {} => \A k \in DOMAIN stack : stack[k].pc # "wild"

IInv ==
    /\ Typed /\ ShellBelow /\ NoGarbageTaken /\ Unlost
    /\ "queue" \notin cut => Whole
    /\ Tame => OnTime
-----------------------------------------------------------------------------
(* Paths through the slots                                                 *)

LEMMA ParentBelow ==
    \A i \in Nat \ {0} : /\ Parent(i) \in Nat /\ Parent(i) < i
                         /\ i = 2 * Parent(i) + 1 \/ i = 2 * Parent(i) + 2
BY DEF Parent

LEMMA ParentOfChild ==
    \A i \in Nat : Parent(2 * i + 1) = i /\ Parent(2 * i + 2) = i
BY DEF Parent

\* Every set of numbers that is not empty has a least one.
LEMMA LeastNumber ==
    ASSUME NEW S \in SUBSET Nat, S # {}
    PROVE  \E n \in S : \A m \in S : n <= m
<1>1. ASSUME \A n \in S : \E m \in S : m < n
      PROVE  FALSE
  <2>. DEFINE R == {p \in Nat \X Nat : p[1] < p[2]}
  <2>1. IsWellFoundedOn(R, Nat)
    BY NatLessThanWellFounded DEF OpToRel
  <2>2. \E x \in S : \A y \in S : ~ (<<y, x>> \in R)
    <3>. HIDE DEF R
    <3>. QED
      BY <2>1, WFMin
  <2>. QED
    BY <1>1, <2>2
<1>. QED
  BY <1>1

\* Where the loop goes from each slot, if it goes on.
Leads(go, step, rank) ==
    /\ go \in [Slots -> BOOLEAN] /\ step \in [Slots -> Slots]
    /\ rank \in [Slots -> 0 .. TASK_MAX_SIZE]
    /\ \A i \in Slots : go[i] => rank[step[i]] < rank[i]

Collects(f, go, step) ==
    f = [i \in Slots |-> IF go[i] THEN f[step[i]] \cup {i} ELSE {i}]

\* P is what a loop passes through that begins at i and stops at m.
PathFromTo(P, i, m, go, step, rank) ==
    /\ P \subseteq Slots /\ i \in P /\ m \in P
    /\ ~ go[m]
    /\ \A j \in P \ {m} : go[j] /\ step[j] \in P
    /\ \A j \in P : rank[m] <= rank[j] /\ rank[j] <= rank[i]
    /\ \A j \in P \ {i} : \E k \in P : go[k] /\ step[k] = j
    /\ \A j, k \in P : go[j] /\ go[k] /\ step[j] = step[k] => j = k

\* A loop that makes headway ends, so what it collects is well defined.
LEMMA CollectorExists ==
    ASSUME NEW go, NEW step, NEW rank, Leads(go, step, rank)
    PROVE  \E f : Collects(f, go, step)
<1>. USE DEF Leads
<1>. DEFINE Upto(f, n) == \A i \in Slots : rank[i] < n =>
                f[i] = IF go[i] THEN f[step[i]] \cup {i} ELSE {i}
            Bad == {n \in Nat : ~ \E f : Upto(f, n)}
<1>1. Bad = {}
  <2>1. SUFFICES ASSUME Bad # {}
                 PROVE  FALSE
    OBVIOUS
  <2>2. PICK n \in Bad : \A m \in Bad : n <= m
    <3>. HIDE DEF Bad
    <3>1. Bad \in SUBSET Nat
      BY DEF Bad
    <3>. QED
      BY <2>1, <3>1, LeastNumber
  <2>3. n \in Nat /\ n # 0
    <3>1. Upto(<<>>, 0)
      BY TimerAssumption DEF Slots
    <3>. QED
      BY <2>2, <3>1
  <2>4. PICK f : Upto(f, n - 1)
    <3>1. n - 1 \in Nat /\ n - 1 \notin Bad
      <4>. HIDE DEF Bad
      <4>. QED
        BY <2>2, <2>3
    <3>. QED
      BY <3>1
  <2>. DEFINE g == [i \in Slots |-> IF rank[i] < n - 1 THEN f[i]
                                    ELSE IF go[i] THEN f[step[i]] \cup {i} ELSE {i}]
  <2>5. ASSUME NEW i \in Slots, rank[i] < n
        PROVE  g[i] = IF go[i] THEN g[step[i]] \cup {i} ELSE {i}
    <3>1. g[i] = IF go[i] THEN f[step[i]] \cup {i} ELSE {i}
      BY <2>4
    <3>2. ASSUME go[i]
          PROVE  g[step[i]] = f[step[i]]
      BY <2>3, <2>5, <3>2
    <3>. HIDE DEF g
    <3>. QED
      BY <3>1, <3>2
  <2>6. Upto(g, n)
    <3>. HIDE DEF g
    <3>. QED
      BY <2>5
  <2>. QED
    BY <2>2, <2>6
<1>2. PICK f : Upto(f, TASK_MAX_SIZE + 1)
  <2>1. TASK_MAX_SIZE + 1 \in Nat /\ TASK_MAX_SIZE + 1 \notin Bad
    <3>. HIDE DEF Bad
    <3>. QED
      BY <1>1, TimerAssumption
  <2>. QED
    BY <2>1
<1>. DEFINE g == [i \in Slots |-> f[i]]
<1>3. Collects(g, go, step)
  <2>1. \A i \in Slots : g[i] = IF go[i] THEN g[step[i]] \cup {i} ELSE {i}
    <3>1. SUFFICES ASSUME NEW i \in Slots
                   PROVE  g[i] = IF go[i] THEN g[step[i]] \cup {i} ELSE {i}
      OBVIOUS
    <3>2. rank[i] < TASK_MAX_SIZE + 1
      BY TimerAssumption
    <3>3. f[i] = IF go[i] THEN f[step[i]] \cup {i} ELSE {i}
      BY <1>2, <3>2
    <3>4. g[i] = f[i] /\ g[step[i]] = f[step[i]]
      OBVIOUS
    <3>. QED
      BY <3>3, <3>4
  <2>. HIDE DEF g
  <2>2. g = [i \in Slots |-> g[i]]
    BY DEF g
  <2>. QED
    BY <2>1, <2>2 DEF Collects
<1>. QED
  BY <1>3

\* What a loop collects is a path.
LEMMA CollectedIsPath ==
    ASSUME NEW go, NEW step, NEW rank, Leads(go, step, rank),
           NEW f, Collects(f, go, step), NEW i \in Slots
    PROVE  \E m \in Slots : PathFromTo(f[i], i, m, go, step, rank)
<1>. USE DEF Leads
<1>0. \A k \in Slots : f[k] = IF go[k] THEN f[step[k]] \cup {k} ELSE {k}
  BY DEF Collects
<1>. DEFINE Path(k) == \E m \in Slots : PathFromTo(f[k], k, m, go, step, rank)
            Bad == {n \in Nat : \E k \in Slots : rank[k] = n /\ ~ Path(k)}
<1>1. Bad = {}
  <2>1. SUFFICES ASSUME Bad # {}
                 PROVE  FALSE
    OBVIOUS
  <2>2. PICK n \in Bad : \A m \in Bad : n <= m
    <3>. HIDE DEF Bad
    <3>1. Bad \in SUBSET Nat
      BY DEF Bad
    <3>. QED
      BY <2>1, <3>1, LeastNumber
  <2>3. PICK k \in Slots : rank[k] = n /\ ~ Path(k)
    BY <2>2
  <2>4. CASE ~ go[k]
    <3>1. f[k] = {k}
      BY <1>0, <2>4
    <3>2. PathFromTo(f[k], k, k, go, step, rank)
      BY <2>4, <3>1, TimerAssumption DEF PathFromTo
    <3>. QED
      BY <2>3, <3>2
  <2>5. CASE go[k]
    <3>. DEFINE s == step[k]
    <3>1. s \in Slots /\ rank[s] < rank[k] /\ rank[s] \in Nat /\ rank[k] \in Nat
      BY <2>5, TimerAssumption
    <3>2. Path(s)
      <4>1. rank[s] \notin Bad
        BY <2>2, <2>3, <3>1
      <4>. QED
        BY <3>1, <4>1
    <3>3. PICK m \in Slots : PathFromTo(f[s], s, m, go, step, rank)
      BY <3>2
    <3>4. f[k] = f[s] \cup {k}
      BY <1>0, <2>5
    <3>. HIDE DEF s
    <3>5. \A j \in f[s] : j \in Slots /\ rank[j] <= rank[s]
                          /\ rank[m] <= rank[j] /\ rank[j] \in Nat
      BY <3>3, TimerAssumption DEF PathFromTo
    <3>6. k \notin f[s]
      BY <3>1, <3>5
    <3>7. \A j \in f[k] \ {m} : go[j] /\ step[j] \in f[k]
      BY <2>5, <3>3, <3>4 DEF PathFromTo, s
    <3>8. \A j \in f[k] : rank[m] <= rank[j] /\ rank[j] <= rank[k]
      <4>1. m \in f[s]
        BY <3>3 DEF PathFromTo
      <4>2. rank[m] \in Nat
        BY <3>5, <4>1
      <4>. QED
        BY <3>1, <3>4, <3>5, <4>1, <4>2
    <3>9. \A j \in f[k] \ {k} : \E l \in f[k] : go[l] /\ step[l] = j
      <4>1. SUFFICES ASSUME NEW j \in f[s]
                     PROVE  \E l \in f[k] : go[l] /\ step[l] = j
        BY <3>4
      <4>2. CASE j = s
        BY <2>5, <3>4, <4>2 DEF s
      <4>3. CASE j # s
        BY <3>3, <3>4, <4>3 DEF PathFromTo
      <4>. QED
        BY <4>2, <4>3
    <3>10. \A j, l \in f[k] : go[j] /\ go[l] /\ step[j] = step[l] => j = l
      <4>1. \A j \in f[s] : go[j] => step[j] # s
        <5>1. SUFFICES ASSUME NEW j \in f[s], go[j], step[j] = s
                       PROVE  FALSE
          OBVIOUS
        <5>2. rank[s] < rank[j]
          BY <3>5, <5>1
        <5>. QED
          BY <3>1, <3>5, <5>2
      <4>2. \A j, l \in f[s] : go[j] /\ go[l] /\ step[j] = step[l] => j = l
        BY <3>3 DEF PathFromTo
      <4>. QED
        BY <3>4, <4>1, <4>2 DEF s
    <3>11. f[k] \subseteq Slots /\ k \in f[k] /\ m \in f[k] /\ ~ go[m]
      BY <3>3, <3>4 DEF PathFromTo
    <3>12. PathFromTo(f[k], k, m, go, step, rank)
      BY <3>7, <3>8, <3>9, <3>10, <3>11 DEF PathFromTo
    <3>. QED
      BY <2>3, <3>12
  <2>. QED
    BY <2>4, <2>5
<1>2. rank[i] \in Nat
  BY TimerAssumption
<1>. QED
  BY <1>1, <1>2

\* From a to b, what is on P moves one place along it, and what was at its
\* start to its end.
Shifts(b, a, W, P, i, m, step) ==
    \A j \in W : b[j] = IF j = m THEN a[i] ELSE IF j \in P THEN a[step[j]] ELSE a[j]

\* b holds on W what a does, each once if a does.
Permutes(b, a, W) ==
    /\ {b[j] : j \in W} = {a[j] : j \in W}
    /\ (\A j, k \in W : a[j] = a[k] => j = k) => \A j, k \in W : b[j] = b[k] => j = k

\* Moving what is on a path one place along it, and what was at its start to
\* its end, loses nothing and doubles nothing.
LEMMA ShiftKeeps ==
    ASSUME NEW go, NEW step, NEW rank, Leads(go, step, rank),
           NEW P, NEW i, NEW m, PathFromTo(P, i, m, go, step, rank),
           NEW W, P \subseteq W, NEW a, NEW b, Shifts(b, a, W, P, i, m, step)
    PROVE  Permutes(b, a, W)
<1>. USE DEF PathFromTo, Shifts
<1>1. ASSUME NEW j \in W PROVE \E k \in W : b[j] = a[k]
  OBVIOUS
<1>2. ASSUME NEW k \in W PROVE \E j \in W : b[j] = a[k]
  <2>1. CASE k \notin P
    BY <2>1
  <2>2. CASE k = i
    BY <2>2
  <2>3. CASE k \in P \ {i}
    <3>1. PICK j \in P : go[j] /\ step[j] = k
      BY <2>3
    <3>2. j # m
      BY <3>1
    <3>. QED
      BY <3>1, <3>2
  <2>. QED
    BY <2>1, <2>2, <2>3
<1>3. ASSUME \A j, k \in W : a[j] = a[k] => j = k, NEW j \in W, NEW k \in W, b[j] = b[k]
      PROVE  j = k
  <2>. DEFINE from(l) == IF l = m THEN i ELSE IF l \in P THEN step[l] ELSE l
  <2>1. \A l \in W : from(l) \in W /\ b[l] = a[from(l)]
    OBVIOUS
  <2>2. from(j) = from(k)
    <3>. HIDE DEF from
    <3>. QED
      BY <1>3, <2>1
  <2>3. \A l \in P \ {m} : step[l] # i
    <3>1. SUFFICES ASSUME NEW l \in P \ {m}, step[l] = i
                   PROVE  FALSE
      OBVIOUS
    <3>2. rank[i] < rank[l] /\ rank[l] <= rank[i]
      BY <3>1 DEF Leads
    <3>3. rank[i] \in Nat /\ rank[l] \in Nat
      BY TimerAssumption DEF Leads
    <3>. QED
      BY <3>2, <3>3
  <2>. QED
    BY <2>2, <2>3
<1>4. {b[j] : j \in W} = {a[j] : j \in W}
  <2>1. \A x : x \in {b[j] : j \in W} <=> x \in {a[j] : j \in W}
    BY ONLY <1>1, <1>2
  <2>. QED
    BY ONLY <2>1
<1>. QED
  BY <1>3, <1>4 DEF Permutes

-----------------------------------------------------------------------------
(* add_task and pop_timer_task                                             *)

RiseGo(q, task) == [i \in Slots |-> Rises(q, task, i)]
RiseTo(q, task) == [i \in Slots |-> IF Rises(q, task, i) THEN Parent(i) ELSE i]
Height == [i \in Slots |-> i]

SinkGo(q, task) == [i \in Slots |-> Sinks(q, task, i)]
SinkTo(q, task) == [i \in Slots |-> IF Sinks(q, task, i) THEN Child(q, i) ELSE i]
Depth == [i \in Slots |-> TASK_MAX_SIZE - i]

LEMMA RiseLeads ==
    ASSUME NEW q, NEW task
    PROVE  Leads(RiseGo(q, task), RiseTo(q, task), Height)
<1>1. RiseGo(q, task) \in [Slots -> BOOLEAN]
  BY DEF RiseGo, Rises
<1>2. \A i \in Slots : Rises(q, task, i) => Parent(i) \in Slots /\ Parent(i) < i
  <2>1. SUFFICES ASSUME NEW i \in Slots, i > 0
                 PROVE  Parent(i) \in Slots /\ Parent(i) < i
    BY DEF Rises
  <2>. QED
    BY <2>1, ParentBelow, TimerAssumption DEF Slots
<1>. QED
  BY <1>1, <1>2, TimerAssumption DEF Leads, RiseGo, RiseTo, Height, Slots

LEMMA ChildInside ==
    ASSUME NEW q, q.size \in 0 .. TASK_MAX_SIZE, NEW task, NEW i \in Slots, Sinks(q, task, i)
    PROVE  /\ Child(q, i) \in 1 .. q.size - 1 /\ Child(q, i) \in Slots
           /\ i < Child(q, i) /\ Parent(Child(q, i)) = i
<1>2. 2 * i + 1 < q.size /\ i \in Nat
  BY TimerAssumption DEF Sinks, Slots
<1>1. Child(q, i) = 2 * i + 1 \/ (Child(q, i) = 2 * i + 2 /\ 2 * i + 2 < q.size)
  BY <1>2, TimerAssumption DEF Child
<1>. QED
  BY <1>1, <1>2, ParentOfChild, TimerAssumption DEF Slots

LEMMA SinkLeads ==
    ASSUME NEW q, q.size \in 0 .. TASK_MAX_SIZE, NEW task
    PROVE  Leads(SinkGo(q, task), SinkTo(q, task), Depth)
<1>1. SinkGo(q, task) \in [Slots -> BOOLEAN]
  BY DEF SinkGo, Sinks
<1>2. \A i \in Slots : Sinks(q, task, i) => Child(q, i) \in Slots /\ i < Child(q, i)
  BY ChildInside
<1>. QED
  BY <1>1, <1>2, TimerAssumption DEF Leads, SinkGo, SinkTo, Depth, Slots

LEMMA RisingCollects ==
    ASSUME NEW q, NEW task
    PROVE  Collects(Rising(q, task), RiseGo(q, task), RiseTo(q, task))
<1>. DEFINE Is(h) == h = [i \in Slots |-> IF Rises(q, task, i) THEN h[Parent(i)] \cup {i}
                                          ELSE {i}]
<1>1. \A h : Is(h) <=> Collects(h, RiseGo(q, task), RiseTo(q, task))
  BY DEF Collects, RiseGo, RiseTo
<1>2. Rising(q, task) = CHOOSE h : Is(h)
  BY DEF Rising
<1>3. \E h : Is(h)
  <2>. HIDE DEF Is
  <2>. QED
    BY <1>1, RiseLeads, CollectorExists
<1>. HIDE DEF Is
<1>. QED
  BY <1>1, <1>2, <1>3

LEMMA SinkingCollects ==
    ASSUME NEW q, q.size \in 0 .. TASK_MAX_SIZE, NEW task
    PROVE  Collects(Sinking(q, task), SinkGo(q, task), SinkTo(q, task))
<1>. DEFINE Is(h) == h = [i \in Slots |-> IF Sinks(q, task, i) THEN h[Child(q, i)] \cup {i}
                                          ELSE {i}]
<1>1. \A h : Is(h) <=> Collects(h, SinkGo(q, task), SinkTo(q, task))
  BY DEF Collects, SinkGo, SinkTo
<1>2. Sinking(q, task) = CHOOSE h : Is(h)
  BY DEF Sinking
<1>3. \E h : Is(h)
  <2>. HIDE DEF Is
  <2>. QED
    BY <1>1, SinkLeads, CollectorExists
<1>. HIDE DEF Is
<1>. QED
  BY <1>1, <1>2, <1>3

\* add_task puts the task in and loses none.
LEMMA AddHolds ==
    ASSUME NEW q \in Queue, ~ Full(q), NEW task \in Ids, Filled(q.tasks, q.size)
    PROVE  /\ Add(q, task) \in Queue
           /\ Add(q, task).size = q.size + 1
           /\ Filled(Add(q, task).tasks, q.size + 1)
           /\ HeldBy(Add(q, task).tasks, q.size + 1) = HeldBy(q.tasks, q.size) \cup {task}
           /\ Distinct(q.tasks, q.size) /\ task \notin HeldBy(q.tasks, q.size)
              => Distinct(Add(q, task).tasks, q.size + 1)
           /\ \A j \in Slots : j > q.size => Add(q, task).tasks[j] = q.tasks[j]
<1>. DEFINE n == q.size
            P == Rising(q, task)[n]
            r == Add(q, task)
            go == RiseGo(q, task)
            step == RiseTo(q, task)
<1>1. n \in Slots /\ n \in Nat /\ q.tasks \in [Slots -> Ids \cup {Garbage}]
  BY TimerAssumption DEF Queue, Full, Slots
<1>2. PICK m \in Slots : PathFromTo(P, n, m, go, step, Height)
  BY <1>1, RiseLeads, RisingCollects, CollectedIsPath
<1>3. \A j \in P : j \in Slots /\ m <= j /\ j <= n
  BY <1>1, <1>2 DEF PathFromTo, Height
<1>4. Min(P) = m
  <2>1. m \in P
    BY <1>2 DEF PathFromTo
  <2>2. \A x \in P : (\A y \in P : x =< y) <=> x = m
    BY <1>3, <2>1, TimerAssumption DEF Slots
  <2>. QED
    BY <2>1, <2>2 DEF Min
<1>5. r = [size |-> n + 1,
           tasks |-> [j \in Slots |-> IF j = m THEN task
                                      ELSE IF j \in P THEN q.tasks[Parent(j)] ELSE q.tasks[j]]]
  <2>1. r = [size |-> n + 1,
             tasks |-> [j \in Slots |-> CASE j = m -> task
                                          [] j \in P \ {m} -> q.tasks[Parent(j)]
                                          [] OTHER -> q.tasks[j]]]
    BY <1>4 DEF Add, Grown
  <2>2. \A j \in Slots : (CASE j = m -> task
                            [] j \in P \ {m} -> q.tasks[Parent(j)]
                            [] OTHER -> q.tasks[j])
                         = IF j = m THEN task
                           ELSE IF j \in P THEN q.tasks[Parent(j)] ELSE q.tasks[j]
    OBVIOUS
  <2>. QED
    BY <2>1, <2>2
<1>. DEFINE a == [q.tasks EXCEPT ![n] = task]
            W == 0 .. n
<1>6. \A j \in P \ {m} : step[j] = Parent(j) /\ Parent(j) \in P /\ Parent(j) < n
                         /\ Parent(j) \in 0 .. n - 1
  <2>1. SUFFICES ASSUME NEW j \in P \ {m}
                 PROVE  step[j] = Parent(j) /\ Parent(j) \in P /\ Parent(j) \in 0 .. n - 1
    BY <1>1
  <2>2. j \in Slots /\ j <= n /\ j > 0 /\ Rises(q, task, j) /\ step[j] \in P
    BY <1>2, <1>3 DEF PathFromTo, RiseGo, Rises
  <2>3. step[j] = Parent(j)
    BY <2>2 DEF RiseTo
  <2>4. j \in Nat \ {0}
    BY <2>2, TimerAssumption DEF Slots
  <2>. QED
    BY <1>1, <2>2, <2>3, <2>4, ParentBelow
<1>7. P \subseteq W /\ W \subseteq Slots
  BY <1>1, <1>3, TimerAssumption DEF Slots
<1>8. \A j \in W : r.tasks[j] = IF j = m THEN a[n] ELSE IF j \in P THEN a[step[j]] ELSE a[j]
  <2>1. SUFFICES ASSUME NEW j \in W
                 PROVE  r.tasks[j] = IF j = m THEN a[n]
                                     ELSE IF j \in P THEN a[step[j]] ELSE a[j]
    OBVIOUS
  <2>2. j \in Slots /\ n \in P
    BY <1>2, <1>7 DEF PathFromTo
  <2>3. r.tasks[j] = IF j = m THEN task
                     ELSE IF j \in P THEN q.tasks[Parent(j)] ELSE q.tasks[j]
    BY <1>5, <2>2
  <2>4. a[n] = task
    BY <1>1
  <2>5. ASSUME j \in P, j # m
        PROVE  a[step[j]] = q.tasks[Parent(j)]
    <3>1. step[j] = Parent(j) /\ Parent(j) # n /\ Parent(j) \in Slots
      BY <1>1, <1>6, <1>3, <2>5
    <3>. QED
      BY <1>1, <3>1
  <2>6. j \notin P => a[j] = q.tasks[j]
    BY <1>1, <2>2
  <2>. HIDE DEF a, r, P, step
  <2>. QED
    BY <2>3, <2>4, <2>5, <2>6
<1>9. /\ {r.tasks[j] : j \in W} = {a[j] : j \in W}
      /\ (\A j, k \in W : a[j] = a[k] => j = k)
         => \A j, k \in W : r.tasks[j] = r.tasks[k] => j = k
  <2>. DEFINE b == r.tasks
  <2>1. Leads(go, step, Height)
    BY RiseLeads
  <2>2. Shifts(b, a, W, P, n, m, step)
    BY <1>8 DEF Shifts
  <2>. HIDE DEF a, b, P, step, go, n, W
  <2>3. Permutes(b, a, W)
    BY <1>2, <1>7, <2>1, <2>2, ShiftKeeps
  <2>. QED
    BY <2>3 DEF b, Permutes
<1>10. HeldBy(a, n + 1) = HeldBy(q.tasks, n) \cup {task}
  <2>1. \A j \in 0 .. n - 1 : a[j] = q.tasks[j]
    BY <1>1, TimerAssumption DEF Slots
  <2>2. a[n] = task
    BY <1>1
  <2>3. 0 .. (n + 1) - 1 = (0 .. n - 1) \cup {n}
    BY <1>1
  <2>. HIDE DEF a, n
  <2>. QED
    BY <2>1, <2>2, <2>3 DEF HeldBy
<1>11. HeldBy(r.tasks, n + 1) = HeldBy(q.tasks, n) \cup {task}
  <2>1. (n + 1) - 1 = n
    BY <1>1
  <2>2. HeldBy(r.tasks, n + 1) = {r.tasks[j] : j \in W} /\ HeldBy(a, n + 1) = {a[j] : j \in W}
    BY <2>1 DEF HeldBy
  <2>. HIDE DEF a, r, W, n
  <2>. QED
    BY <1>9, <1>10, <2>2
<1>12. ASSUME Distinct(q.tasks, n), task \notin HeldBy(q.tasks, n)
       PROVE  Distinct(r.tasks, n + 1)
  <2>1. \A j \in W : a[j] = IF j = n THEN task ELSE q.tasks[j]
    BY <1>1, <1>7
  <2>2. \A j \in W : j # n => j \in 0 .. n - 1
    BY <1>1
  <2>3. \A j, k \in W : a[j] = a[k] => j = k
    <3>. HIDE DEF a, n, W
    <3>. QED
      BY <1>12, <2>1, <2>2 DEF Distinct, HeldBy
  <2>4. \A j, k \in W : r.tasks[j] = r.tasks[k] => j = k
    <3>. HIDE DEF a, n, W, r
    <3>. QED
      BY <1>9, <2>3
  <2>5. 0 .. (n + 1) - 1 = W
    BY <1>1
  <2>. HIDE DEF r, n, W
  <2>. QED
    BY <2>4, <2>5 DEF Distinct
<1>13. Filled(r.tasks, n + 1)
  <2>1. \A x \in HeldBy(r.tasks, n + 1) : x \in Ids
    <3>. HIDE DEF r
    <3>. QED
      BY <1>11 DEF Filled, HeldBy
  <2>. HIDE DEF r, n
  <2>. QED
    BY <2>1 DEF Filled, HeldBy
<1>14. r \in Queue
  <2>1. n + 1 \in 0 .. TASK_MAX_SIZE
    BY <1>1, TimerAssumption DEF Slots
  <2>2. \A j \in Slots : j \in P /\ j # m => q.tasks[Parent(j)] \in Ids \cup {Garbage}
    BY <1>1, <1>3, <1>6
  <2>. HIDE DEF P, n
  <2>. QED
    BY <1>1, <1>5, <2>1, <2>2 DEF Queue
<1>15. \A j \in Slots : j > n => r.tasks[j] = q.tasks[j]
  <2>1. SUFFICES ASSUME NEW j \in Slots, j > n
                 PROVE  r.tasks[j] = q.tasks[j]
    OBVIOUS
  <2>2. j \notin P /\ j # m
    <3>1. m \in P
      BY <1>2 DEF PathFromTo
    <3>. QED
      BY <1>1, <1>3, <2>1, <3>1, TimerAssumption DEF Slots
  <2>. QED
    BY <1>5, <2>2
<1>16. r.size = n + 1
  BY <1>5
<1>17. Distinct(q.tasks, n) /\ task \notin HeldBy(q.tasks, n) => Distinct(r.tasks, n + 1)
  BY <1>12
<1>. QED
  BY <1>11, <1>17, <1>13, <1>14, <1>15, <1>16

\* pop_timer_task takes out the first task and loses no other.
LEMMA PopHolds ==
    ASSUME NEW q \in Queue, q.size > 0, Filled(q.tasks, q.size)
    PROVE  /\ Pop(q) \in Queue
           /\ Pop(q).size = q.size - 1
           /\ Filled(Pop(q).tasks, q.size - 1)
           /\ Distinct(q.tasks, q.size)
              => /\ Distinct(Pop(q).tasks, q.size - 1)
                 /\ HeldBy(Pop(q).tasks, q.size - 1) = HeldBy(q.tasks, q.size) \ {q.tasks[0]}
           /\ timeout \in [Ids -> Int] /\ HeapBut(q.tasks, q.size, 0)
              => HeapBut(Pop(q).tasks, q.size - 1, 0)
           /\ \A j \in Slots : q.tasks[j] \in Ids => Pop(q).tasks[j] \in Ids
<1>. DEFINE n == q.size - 1
            r == [q EXCEPT !.size = @ - 1]
            last == q.tasks[n]
            P == Sinking(r, last)[0]
            go == SinkGo(r, last)
            step == SinkTo(r, last)
            s == Pop(q)
            a == [q.tasks EXCEPT ![0] = last]
            W == 0 .. n - 1
<1>1. /\ n \in 0 .. TASK_MAX_SIZE - 1 /\ n \in Slots /\ 0 \in Slots
      /\ q.tasks \in [Slots -> Ids \cup {Garbage}]
      /\ r.size = n /\ r.tasks = q.tasks
      /\ r.size \in 0 .. TASK_MAX_SIZE
  BY TimerAssumption DEF Queue, Slots
<1>2. PICK m \in Slots : PathFromTo(P, 0, m, go, step, Depth)
  BY <1>1, SinkLeads, SinkingCollects, CollectedIsPath
<1>3. \A j \in P : j \in Slots /\ 0 <= j /\ j <= m
  <2>1. SUFFICES ASSUME NEW j \in P
                 PROVE  j \in Slots /\ 0 <= j /\ j <= m
    OBVIOUS
  <2>2. j \in Slots /\ Depth[m] <= Depth[j]
    BY <1>2 DEF PathFromTo
  <2>3. Depth[m] = TASK_MAX_SIZE - m /\ Depth[j] = TASK_MAX_SIZE - j
    BY <2>2 DEF Depth
  <2>. QED
    BY <2>2, <2>3, TimerAssumption DEF Slots
<1>4. Max(P) = m
  <2>1. m \in P
    BY <1>2 DEF PathFromTo
  <2>2. \A x \in P : (\A y \in P : x >= y) <=> x = m
    BY <1>3, <2>1, TimerAssumption DEF Slots
  <2>. QED
    BY <2>1, <2>2 DEF Max
<1>5. s.size = n /\ s = [size |-> n, tasks |-> s.tasks]
      /\ s.tasks = [j \in Slots |-> IF j = m THEN last
                                    ELSE IF j \in P THEN q.tasks[Child(r, j)] ELSE q.tasks[j]]
  <2>1. s = [r EXCEPT !.tasks = [j \in Slots |-> CASE j = m -> last
                                          [] j \in P \ {m} -> r.tasks[Child(r, j)]
                                          [] OTHER -> r.tasks[j]]]
    <3>. DEFINE l == q.tasks[r.size]
                Q == Sinking(r, l)[0]
    <3>1. s = [r EXCEPT !.tasks = [j \in Slots |-> CASE j = Max(Q) -> l
                                            [] j \in Q \ {Max(Q)} -> r.tasks[Child(r, j)]
                                            [] OTHER -> r.tasks[j]]]
      BY DEF Pop
    <3>2. l = last
      BY <1>1
    <3>3. Q = P
      BY <3>2
    <3>. HIDE DEF Q, P, l, last, r, s
    <3>. QED
      BY <1>4, <3>1, <3>2, <3>3
  <2>2. \A j \in Slots : (CASE j = m -> last
                            [] j \in P \ {m} -> r.tasks[Child(r, j)]
                            [] OTHER -> r.tasks[j])
                         = IF j = m THEN last
                           ELSE IF j \in P THEN q.tasks[Child(r, j)] ELSE q.tasks[j]
    BY <1>1
  <2>3. r = [size |-> n, tasks |-> q.tasks]
    BY DEF Queue
  <2>. HIDE DEF P, r, last, n
  <2>. QED
    BY <2>1, <2>2, <2>3
<1>6. \A j \in P \ {m} : /\ Sinks(r, last, j) /\ step[j] = Child(r, j)
                         /\ Child(r, j) \in P /\ Child(r, j) \in 1 .. n - 1
                         /\ Parent(Child(r, j)) = j
  <2>1. SUFFICES ASSUME NEW j \in P \ {m}
                 PROVE  /\ Sinks(r, last, j) /\ step[j] = Child(r, j)
                        /\ Child(r, j) \in P /\ Child(r, j) \in 1 .. n - 1
                        /\ Parent(Child(r, j)) = j
    OBVIOUS
  <2>2. j \in Slots /\ go[j] /\ step[j] \in P
    BY <1>2, <1>3 DEF PathFromTo
  <2>3. Sinks(r, last, j) /\ step[j] = Child(r, j)
    BY <2>2 DEF SinkGo, SinkTo
  <2>. QED
    BY <1>1, <2>2, <2>3, ChildInside
<1>7. \A j \in P \ {0} : Parent(j) \in P \ {m} /\ Child(r, Parent(j)) = j /\ j \in 1 .. n - 1
  <2>1. SUFFICES ASSUME NEW j \in P \ {0}
                 PROVE  Parent(j) \in P \ {m} /\ Child(r, Parent(j)) = j /\ j \in 1 .. n - 1
    OBVIOUS
  <2>2. PICK k \in P : go[k] /\ step[k] = j
    BY <1>2 DEF PathFromTo
  <2>3. k \in P \ {m}
    BY <1>2, <2>2 DEF PathFromTo
  <2>. QED
    BY <1>6, <2>2, <2>3
<1>8. n = 0 => P = {0} /\ m = 0
  <2>1. SUFFICES ASSUME n = 0
                 PROVE  P = {0} /\ m = 0
    OBVIOUS
  <2>2. \A j \in P : j = 0
    BY <1>7, <2>1
  <2>3. 0 \in P /\ m \in P
    BY <1>2 DEF PathFromTo
  <2>. QED
    BY <2>2, <2>3
<1>9. n > 0 => P \subseteq W
  BY <1>1, <1>7
<1>10. W \subseteq Slots
  BY <1>1, TimerAssumption DEF Slots
<1>11. n > 0 => Permutes(s.tasks, a, W)
  <2>1. SUFFICES ASSUME n > 0
                 PROVE  Permutes(s.tasks, a, W)
    OBVIOUS
  <2>2. ASSUME NEW j \in W
        PROVE  s.tasks[j] = IF j = m THEN a[0] ELSE IF j \in P THEN a[step[j]] ELSE a[j]
    <3>1. j \in Slots /\ 0 \in P
      BY <1>2, <1>10 DEF PathFromTo
    <3>2. s.tasks[j] = IF j = m THEN last
                       ELSE IF j \in P THEN q.tasks[Child(r, j)] ELSE q.tasks[j]
      BY <1>5, <3>1
    <3>3. a[0] = last
      BY <1>1
    <3>4. ASSUME j \in P, j # m
          PROVE  a[step[j]] = q.tasks[Child(r, j)]
      <4>1. step[j] = Child(r, j) /\ Child(r, j) # 0 /\ Child(r, j) \in Slots
        BY <1>3, <1>6, <3>4
      <4>. QED
        BY <1>1, <4>1
    <3>5. j \notin P => a[j] = q.tasks[j]
      BY <1>1, <3>1
    <3>. HIDE DEF a, s, P, step, r, last
    <3>. QED
      BY <3>2, <3>3, <3>4, <3>5
  <2>. DEFINE b == s.tasks
  <2>3. Shifts(b, a, W, P, 0, m, step)
    BY <2>2 DEF Shifts
  <2>4. Leads(go, step, Depth)
    BY <1>1, SinkLeads
  <2>5. P \subseteq W
    BY <1>9, <2>1
  <2>. HIDE DEF a, b, P, step, go, W
  <2>6. Permutes(b, a, W)
    BY <1>2, <2>3, <2>4, <2>5, ShiftKeeps
  <2>. QED
    BY <2>6 DEF b
<1>12. \A j \in W : a[j] = IF j = 0 THEN last ELSE q.tasks[j]
  BY <1>1, <1>10
<1>13. Filled(s.tasks, n)
  <2>1. \A j \in Slots : j <= n => q.tasks[j] \in Ids
    BY <1>1, TimerAssumption DEF Filled, Slots
  <2>2. \A j \in W : a[j] \in Ids
    BY <1>1, <1>10, <1>12, <2>1, TimerAssumption DEF Slots
  <2>3. CASE n = 0
    BY <2>3 DEF Filled
  <2>4. CASE n > 0
    <3>1. {s.tasks[j] : j \in W} = {a[j] : j \in W}
      BY <1>11, <2>4 DEF Permutes
    <3>2. \A j \in W : s.tasks[j] \in Ids
      <4>. HIDE DEF s, a, W
      <4>. QED
        BY <2>2, <3>1
    <3>. QED
      BY <3>2 DEF Filled
  <2>. HIDE DEF s, n
  <2>. QED
    BY <1>1, <2>3, <2>4, TimerAssumption
<1>14. s \in Queue
  <2>1. \A j \in Slots : j \in P /\ j # m => q.tasks[Child(r, j)] \in Ids \cup {Garbage}
    BY <1>1, <1>3, <1>6
  <2>2. n \in 0 .. TASK_MAX_SIZE /\ last \in Ids \cup {Garbage}
    BY <1>1, TimerAssumption
  <2>. HIDE DEF P, n, s, last, r
  <2>3. s.tasks \in [Slots -> Ids \cup {Garbage}]
    BY <1>1, <1>5, <2>1, <2>2
  <2>. QED
    BY <1>5, <2>2, <2>3 DEF Queue
<1>15. ASSUME Distinct(q.tasks, q.size)
       PROVE  /\ Distinct(s.tasks, n)
              /\ HeldBy(s.tasks, n) = HeldBy(q.tasks, q.size) \ {q.tasks[0]}
  <2>0. 0 .. q.size - 1 = 0 .. n /\ n \in Nat
    BY <1>1
  <2>1. \A j, k \in 0 .. n : q.tasks[j] = q.tasks[k] => j = k
    BY <1>15, <2>0 DEF Distinct
  <2>2. CASE n = 0
    BY <2>0, <2>2 DEF Distinct, HeldBy
  <2>3. CASE n > 0
    <3>1. \A j, k \in W : a[j] = a[k] => j = k
      <4>1. SUFFICES ASSUME NEW j \in W, NEW k \in W, a[j] = a[k]
                     PROVE  j = k
        OBVIOUS
      <4>2. j \in 0 .. n /\ k \in 0 .. n /\ j # n /\ k # n /\ n \in 0 .. n
        BY <2>0
      <4>. QED
        BY <1>12, <2>1, <4>1, <4>2
    <3>2. \A j, k \in W : s.tasks[j] = s.tasks[k] => j = k
      BY <1>11, <2>3, <3>1 DEF Permutes
    <3>3. {a[j] : j \in W} = {q.tasks[j] : j \in 0 .. n} \ {q.tasks[0]}
      <4>1. ASSUME NEW j \in W
            PROVE  \E k \in 0 .. n : a[j] = q.tasks[k] /\ q.tasks[k] # q.tasks[0]
        <5>1. CASE j = 0
          BY <1>12, <2>0, <2>1, <2>3, <5>1
        <5>2. CASE j # 0
          BY <1>12, <2>0, <2>1, <5>2
        <5>. QED
          BY <5>1, <5>2
      <4>2. ASSUME NEW k \in 0 .. n, q.tasks[k] # q.tasks[0]
            PROVE  \E j \in W : a[j] = q.tasks[k]
        <5>1. CASE k = n
          BY <1>12, <2>0, <2>3, <5>1
        <5>2. CASE k # n
          BY <1>12, <2>0, <4>2, <5>2
        <5>. QED
          BY <5>1, <5>2
      <4>3. \A x : x \in {a[j] : j \in W}
                   <=> x \in {q.tasks[j] : j \in 0 .. n} \ {q.tasks[0]}
        <5>. HIDE DEF a, W, n
        <5>. QED
          BY ONLY <4>1, <4>2
      <4>. QED
        BY ONLY <4>3
    <3>4. {s.tasks[j] : j \in W} = {a[j] : j \in W}
      BY <1>11, <2>3 DEF Permutes
    <3>5. HeldBy(s.tasks, n) = {s.tasks[j] : j \in W}
      BY DEF HeldBy
    <3>6. HeldBy(q.tasks, q.size) = {q.tasks[j] : j \in 0 .. n}
      BY <2>0 DEF HeldBy
    <3>7. HeldBy(s.tasks, n) = HeldBy(q.tasks, q.size) \ {q.tasks[0]}
      BY ONLY <3>3, <3>4, <3>5, <3>6
    <3>8. Distinct(s.tasks, n)
      BY <3>2 DEF Distinct
    <3>. QED
      BY <3>7, <3>8
  <2>. HIDE DEF s, n
  <2>. QED
    BY <2>0, <2>2, <2>3
<1>16. ASSUME timeout \in [Ids -> Int], HeapBut(q.tasks, q.size, 0)
       PROVE  HeapBut(s.tasks, n, 0)
  <2>. DEFINE at(x) == timeout[x]
  <2>1. \A j \in 0 .. n : q.tasks[j] \in Ids /\ timeout[q.tasks[j]] \in Int
    BY <1>1, <1>16 DEF Filled
  <2>2. \A j \in 1 .. n : timeout[q.tasks[Parent(j)]] <= timeout[q.tasks[j]]
    BY <1>1, <1>16 DEF HeapBut
  <2>3. last \in Ids /\ timeout[last] \in Int
    BY <1>1, <2>1
  <2>4. ASSUME NEW j \in 1 .. n - 1
        PROVE  timeout[s.tasks[Parent(j)]] <= timeout[s.tasks[j]]
    <3>. DEFINE p == Parent(j)
    <3>1. /\ j \in Slots /\ j \in 1 .. n /\ p \in Slots /\ p \in 0 .. n - 1 /\ p < j
          /\ j = 2 * p + 1 \/ j = 2 * p + 2
      <4>1. j \in Slots /\ j \in 1 .. n /\ j \in Nat \ {0}
        BY <1>1, TimerAssumption DEF Slots
      <4>2. /\ p \in Nat /\ p < j
            /\ j = 2 * p + 1 \/ j = 2 * p + 2
        BY <4>1, ParentBelow
      <4>. QED
        BY <1>1, <4>1, <4>2, TimerAssumption DEF Slots
    <3>2. \A l \in Slots : s.tasks[l] = IF l = m THEN last
                              ELSE IF l \in P THEN q.tasks[Child(r, l)] ELSE q.tasks[l]
      BY <1>5
    <3>3. CASE j \in P
      <4>1. p \in P \ {m} /\ Child(r, p) = j
        BY <1>7, <3>1, <3>3
      <4>2. s.tasks[p] = q.tasks[j]
        BY <3>1, <3>2, <4>1
      <4>3. CASE j = m
        <5>1. s.tasks[j] = last
          BY <3>1, <3>2, <4>3
        <5>2. Sinks(r, last, p)
          BY <1>6, <4>1
        <5>3. timeout[last] > timeout[q.tasks[j]]
          BY <1>1, <4>1, <5>2 DEF Sinks
        <5>. QED
          BY <2>1, <2>3, <3>1, <4>2, <5>1, <5>3
      <4>4. CASE j # m
        <5>1. s.tasks[j] = q.tasks[Child(r, j)]
          BY <3>1, <3>2, <3>3, <4>4
        <5>2. Child(r, j) \in 1 .. n - 1 /\ Parent(Child(r, j)) = j
          BY <1>6, <3>3, <4>4
        <5>3. timeout[q.tasks[j]] <= timeout[q.tasks[Child(r, j)]]
          BY <1>1, <2>2, <5>2
        <5>. QED
          BY <4>2, <5>1, <5>3
      <4>. QED
        BY <4>3, <4>4
    <3>4. CASE j \notin P
      <4>0. s.tasks[j] = q.tasks[j]
        <5>1. m \in P
          BY <1>2 DEF PathFromTo
        <5>. QED
          BY <3>1, <3>2, <3>4, <5>1
      <4>1. CASE p \notin P
        <5>1. s.tasks[p] = q.tasks[p]
          <6>1. m \in P
            BY <1>2 DEF PathFromTo
          <6>. QED
            BY <3>1, <3>2, <4>1, <6>1
        <5>. QED
          BY <2>2, <3>1, <4>0, <5>1
      <4>2. r.size = n /\ r.tasks = q.tasks /\ 2 * p + 1 < n /\ p \in Nat
        BY <1>1, <3>1
      <4>3. /\ Child(r, p) \in 0 .. n - 1
            /\ timeout[q.tasks[Child(r, p)]] <= timeout[q.tasks[j]]
        <5>1. 2 * p + 1 \in 0 .. n
          BY <1>1, <4>2
        <5>2. CASE 2 * p + 2 < n /\ timeout[q.tasks[2 * p + 2]] < timeout[q.tasks[2 * p + 1]]
          <6>1. 2 * p + 2 \in 0 .. n
            BY <1>1, <4>2, <5>2
          <6>2. Child(r, p) = 2 * p + 2
            BY <4>2, <5>2 DEF Child
          <6>. QED
            BY <1>1, <2>1, <3>1, <4>2, <5>1, <5>2, <6>1, <6>2
        <5>3. CASE ~ (2 * p + 2 < n /\ timeout[q.tasks[2 * p + 2]] < timeout[q.tasks[2 * p + 1]])
          <6>1. Child(r, p) = 2 * p + 1
            BY <4>2, <5>3 DEF Child
          <6>2. j = 2 * p + 2 => timeout[q.tasks[2 * p + 1]] <= timeout[q.tasks[j]]
            BY <1>1, <2>1, <3>1, <5>1, <5>3
          <6>. QED
            BY <1>1, <2>1, <3>1, <4>2, <5>1, <6>1, <6>2
        <5>. QED
          BY <5>2, <5>3
      <4>4. CASE p \in P /\ p # m
        <5>1. s.tasks[p] = q.tasks[Child(r, p)]
          BY <3>1, <3>2, <4>4
        <5>. QED
          BY <4>0, <4>3, <5>1
      <4>5. CASE p = m
        <5>1. s.tasks[p] = last
          BY <3>1, <3>2, <4>5
        <5>2. ~ Sinks(r, last, p)
          BY <1>2, <3>1, <4>5 DEF PathFromTo, SinkGo
        <5>3. ~ (timeout[last] > timeout[q.tasks[Child(r, p)]])
          BY <4>2, <5>2 DEF Sinks
        <5>4. timeout[q.tasks[Child(r, p)]] \in Int /\ timeout[q.tasks[j]] \in Int
          BY <1>1, <2>1, <3>1, <4>3
        <5>5. timeout[last] <= timeout[q.tasks[j]]
          <6>. HIDE DEF last, n, r, p
          <6>. QED
            BY <2>3, <4>3, <5>3, <5>4
        <5>. QED
          BY <4>0, <5>1, <5>5
      <4>. QED
        BY <4>1, <4>4, <4>5
    <3>. QED
      BY <3>3, <3>4
  <2>. QED
    BY <2>4 DEF HeapBut
<1>17. Distinct(q.tasks, q.size)
       => /\ Distinct(s.tasks, n)
          /\ HeldBy(s.tasks, n) = HeldBy(q.tasks, q.size) \ {q.tasks[0]}
  BY <1>15
<1>18. timeout \in [Ids -> Int] /\ HeapBut(q.tasks, q.size, 0) => HeapBut(s.tasks, n, 0)
  BY <1>16
<1>19. s.size = n
  BY <1>5
<1>20. ASSUME NEW j \in Slots, q.tasks[j] \in Ids
       PROVE  s.tasks[j] \in Ids
  <2>1. last \in Ids
    BY <1>1 DEF Filled
  <2>2. ASSUME j \in P \ {m}
        PROVE  q.tasks[Child(r, j)] \in Ids
    <3>1. Child(r, j) \in 0 .. q.size - 1
      BY <1>1, <1>6, <2>2
    <3>. QED
      BY <3>1 DEF Filled
  <2>3. s.tasks[j] = IF j = m THEN last ELSE IF j \in P THEN q.tasks[Child(r, j)] ELSE q.tasks[j]
    BY <1>5
  <2>. HIDE DEF s, P, r, last
  <2>. QED
    BY <1>20, <2>1, <2>2, <2>3
<1>. QED
  BY <1>13, <1>14, <1>17, <1>18, <1>19, <1>20

\* In a heap no task is due before the first one.
LEMMA FirstIsLeast ==
    ASSUME timeout \in [Ids -> Int], NEW tasks, NEW n \in Nat,
           Filled(tasks, n), HeapBut(tasks, n, 0), NEW k \in 0 .. n - 1
    PROVE  timeout[tasks[0]] <= timeout[tasks[k]]
<1>. DEFINE Bad == {j \in Nat : j < n /\ timeout[tasks[j]] < timeout[tasks[0]]}
<1>1. \A j \in 0 .. n - 1 : timeout[tasks[j]] \in Int
  BY DEF Filled
<1>2. Bad = {}
  <2>1. SUFFICES ASSUME Bad # {}
                 PROVE  FALSE
    OBVIOUS
  <2>2. PICK j \in Bad : \A i \in Bad : j <= i
    <3>1. Bad \in SUBSET Nat
      OBVIOUS
    <3>. HIDE DEF Bad
    <3>. QED
      BY <2>1, <3>1, LeastNumber
  <2>3. j \in 1 .. n - 1 /\ j \in Nat \ {0} /\ 0 \in 0 .. n - 1
    BY <1>1
  <2>4. Parent(j) \in 0 .. n - 1 /\ Parent(j) \in Nat /\ Parent(j) < j
    BY <2>3, ParentBelow
  <2>5. timeout[tasks[Parent(j)]] <= timeout[tasks[j]]
    BY <2>3 DEF HeapBut
  <2>6. Parent(j) \in Bad
    BY <1>1, <2>2, <2>3, <2>4, <2>5
  <2>7. j <= Parent(j)
    <3>. HIDE DEF Bad
    <3>. QED
      BY <2>2, <2>6
  <2>. QED
    BY <2>3, <2>4, <2>7
<1>3. k \notin Bad /\ k \in Nat /\ k < n /\ 0 \in 0 .. n - 1
  BY <1>2
<1>. QED
  BY <1>1, <1>3

-----------------------------------------------------------------------------
(* The stack and the types                                                 *)

ReplacesTop(s, r, f) ==
    /\ r \in Seq(Frame) /\ Len(r) = Len(s) /\ DOMAIN r = DOMAIN s
    /\ r[Len(s)] = f /\ \A k \in DOMAIN s : k # Len(s) => r[k] = s[k]

Grows(s, r, f) ==
    /\ r \in Seq(Frame) /\ Len(r) = Len(s) + 1
    /\ r[Len(s) + 1] = f /\ \A k \in DOMAIN s : k \in DOMAIN r /\ r[k] = s[k]

Shrinks(s, r) ==
    /\ r \in Seq(Frame) /\ Len(r) = Len(s) - 1
    /\ \A k \in DOMAIN r : k \in DOMAIN s /\ k # Len(s) /\ r[k] = s[k]

LEMMA Replaced ==
    ASSUME NEW s \in Seq(Frame), Len(s) > 0, NEW f \in Frame
    PROVE  ReplacesTop(s, [s EXCEPT ![Len(s)] = f], f)
BY DEF ReplacesTop

LEMMA Pushed ==
    ASSUME NEW s \in Seq(Frame), NEW f \in Frame
    PROVE  Grows(s, Append(s, f), f)
BY DEF Grows

LEMMA Popped ==
    ASSUME NEW s \in Seq(Frame), Len(s) > 1
    PROVE  Shrinks(s, SubSeq(s, 1, Len(s) - 1))
BY DEF Shrinks

LEMMA FrameKinds ==
    ASSUME NEW f \in Frame
    PROVE  /\ f.pc \in {"shell", "loop", "enable", "target", "pop", "top", "wild", "add",
                        "load", "size", "run", "grow", "sift", "arm", "last", "sink"}
           /\ f.pc \in {"add", "load", "size", "run", "grow", "sift", "last", "sink"} =>
                 f.task \in Ids
           /\ f.pc \in {"grow", "sift", "sink"} => f.i \in Slots
           /\ f.pc \in {"grow", "sift"} => f = [pc |-> f.pc, task |-> f.task, i |-> f.i]
           /\ f.pc = "arm" => f.delay \in Int
           /\ f.pc = "last" => f.size \in 1 .. TASK_MAX_SIZE
           /\ f.pc = "sink" => /\ f.last \in Ids
                               /\ f = [pc |-> "sink", task |-> f.task, last |-> f.last, i |-> f.i]
BY DEF Frame

LEMMA FrameMade ==
    /\ Shell \in Frame /\ Loop \in Frame
    /\ \A pc \in {"enable", "target", "pop", "top", "wild"} : [pc |-> pc] \in Frame
    /\ \A pc \in {"add", "load", "size", "run"}, t \in Ids : [pc |-> pc, task |-> t] \in Frame
    /\ \A pc \in {"grow", "sift"}, t \in Ids, i \in Slots :
          [pc |-> pc, task |-> t, i |-> i] \in Frame
    /\ \A d \in Int : [pc |-> "arm", delay |-> d] \in Frame
    /\ \A t \in Ids, n \in 1 .. TASK_MAX_SIZE : [pc |-> "last", task |-> t, size |-> n] \in Frame
    /\ \A t, l \in Ids, i \in Slots : [pc |-> "sink", task |-> t, last |-> l, i |-> i] \in Frame
BY DEF Frame, Shell, Loop

\* The timer never fires before the time it is set for, if the delay is in range.
LEMMA TvalInRange ==
    \A d \in Int : Tval(d) \in Int /\ (d < TvalRange => d <= Tval(d))
<1>. SUFFICES ASSUME NEW d \in Int
              PROVE  Tval(d) \in Int /\ (d < TvalRange => d <= Tval(d))
  OBVIOUS
<1>. DEFINE x == d + TvalRange
            M == 2 * TvalRange
<1>1. x \in Int /\ M \in Nat /\ M > 0
  BY TimerAssumption
<1>2. x % M \in 0 .. M - 1
  <2>. HIDE DEF x, M
  <2>. QED
    BY <1>1
<1>3. x \in 0 .. M - 1 => x % M = x
  <2>. HIDE DEF x, M
  <2>. QED
    BY <1>1
<1>4. d < TvalRange => x <= x % M
  <2>1. d < TvalRange => x < M
    BY TimerAssumption
  <2>. HIDE DEF x, M
  <2>. QED
    BY <1>1, <1>2, <1>3, <2>1
<1>5. Tval(d) = (x % M) - TvalRange
  BY DEF Tval
<1>. QED
  BY <1>1, <1>2, <1>4, <1>5, TimerAssumption

Basic == Typed /\ ShellBelow /\ NoGarbageTaken

LEMMA HeldFilled ==
    ASSUME NEW q \in Queue
    PROVE  Garbage \notin Held(q) <=> Filled(q.tasks, q.size)
<1>1. \A j \in 0 .. q.size - 1 : q.tasks[j] \in Ids \cup {Garbage}
  BY TimerAssumption DEF Queue, Slots
<1>2. Garbage \notin Ids
  BY TimerAssumption DEF Garbage
<1>. QED
  BY <1>1, <1>2 DEF Held, Filled

\* What is known of the running frame.
LEMMA TopKnown ==
    ASSUME Typed
    PROVE  /\ Top \in Frame /\ Top = stack[Len(stack)]
           /\ Len(stack) \in DOMAIN stack /\ Len(stack) \in Nat /\ Len(stack) > 0
           /\ DOMAIN stack = 1 .. Len(stack)
           /\ \A k \in DOMAIN stack : stack[k] \in Frame
BY DEF Typed, Top

\* A frame that returns is not the shell's.
LEMMA NotTheShell ==
    ASSUME Typed, ShellBelow
    PROVE  Top.pc # "shell" <=> Len(stack) > 1
BY TopKnown DEF ShellBelow

LEMMA InitBasic == Init => Basic
<1>. SUFFICES ASSUME Init
              PROVE  Basic
  OBVIOUS
<1>. USE DEF Init
<1>1. timerq \in Queue /\ taskq \in Queue
  BY TimerAssumption DEF Queue, Slots
<1>2. stack \in Seq(Frame) /\ Len(stack) = 1 /\ stack[1] = Shell
  BY FrameMade
<1>3. timer \in [on : BOOLEAN, at : Int]
  OBVIOUS
<1>4. Typed
  BY <1>1, <1>2, <1>3, TimerAssumption DEF Typed
<1>5. ShellBelow
  BY <1>2 DEF ShellBelow, Shell
<1>6. NoGarbageTaken
  BY <1>2 DEF NoGarbageTaken, Filled, Shell
<1>. QED
  BY <1>4, <1>5, <1>6 DEF Basic

\* The stack keeps its shape when the running frame goes on ...
LEMMA GotoBasic ==
    ASSUME Typed, ShellBelow, Top.pc # "shell", NEW f \in Frame, f.pc # "shell",
           stack' = [stack EXCEPT ![Len(stack)] = f]
    PROVE  /\ stack' \in Seq(Frame) /\ Len(stack') \in 1 .. MaxDepth
           /\ ShellBelow' /\ ReplacesTop(stack, stack', f)
<1>1. ReplacesTop(stack, stack', f)
  BY Replaced, TopKnown DEF Typed
<1>2. Len(stack) > 1
  BY NotTheShell
<1>. QED
  BY <1>1, <1>2, TopKnown DEF ReplacesTop, ShellBelow, Typed

\* ... when a frame is pushed ...
LEMMA PushBasic ==
    ASSUME Typed, ShellBelow, NEW f \in Frame, f.pc # "shell", stack' = Append(stack, f)
    PROVE  /\ stack' \in Seq(Frame) /\ Len(stack') = Len(stack) + 1
           /\ ShellBelow' /\ Grows(stack, stack', f)
<1>1. Grows(stack, stack', f)
  BY Pushed DEF Typed
<1>2. DOMAIN stack' = 1 .. Len(stack) + 1
  BY <1>1, TopKnown DEF Grows
<1>. QED
  BY <1>1, <1>2, TopKnown DEF Grows, ShellBelow, Typed

\* ... and when one returns.
LEMMA DoneBasic ==
    ASSUME Typed, ShellBelow, Top.pc # "shell", Done
    PROVE  /\ stack' \in Seq(Frame) /\ Len(stack') \in 1 .. MaxDepth
           /\ ShellBelow' /\ Shrinks(stack, stack')
<1>1. Len(stack) > 1
  BY NotTheShell
<1>2. Shrinks(stack, stack')
  BY <1>1, Popped DEF Typed, Done
<1>3. DOMAIN stack' = 1 .. Len(stack) - 1
  BY <1>2, TopKnown DEF Shrinks
<1>4. ShellBelow'
  BY <1>2 DEF Shrinks, ShellBelow
<1>5. Len(stack') = Len(stack) - 1 /\ Len(stack) \in 1 .. MaxDepth
  BY <1>2 DEF Shrinks, Typed
<1>6. stack' \in Seq(Frame)
  BY <1>2 DEF Shrinks
<1>. QED
  BY <1>1, <1>2, <1>4, <1>5, <1>6, TimerAssumption

-----------------------------------------------------------------------------
(* Types are kept by every action, whatever interrupts met                 *)

\* What the rest of a state says is typed if it was and changes as said.
LEMMA TypedAgain ==
    ASSUME Typed,
           now' \in 0 .. MaxNow, timer' \in [on : BOOLEAN, at : Int],
           timeout' \in [Ids -> Int], timerq' \in Queue, taskq' \in Queue,
           stack' \in Seq(Frame), Len(stack') \in 1 .. MaxDepth,
           due' \in [Ids -> Int], dropped' \subseteq Ids, ran' \in [Ids -> Nat],
           early' \subseteq Ids, cut' \subseteq {"queue", "test", "timer"}
    PROVE  Typed'
BY DEF Typed

LEMMA BasicAdvance ==
    ASSUME Basic, Advance
    PROVE  Basic'
<1>1. now' \in 0 .. MaxNow
  BY TimerAssumption DEF Basic, Typed, Advance
<1>. QED
  BY <1>1 DEF Basic, Typed, ShellBelow, NoGarbageTaken, Advance

LEMMA BasicSetTimeout ==
    ASSUME Basic, NEW t \in Ids, NEW delay \in Delays, SetTimeout(t, delay)
    PROVE  Basic'
<1>. DEFINE f == [pc |-> "add", task |-> t]
<1>1. f \in Frame /\ f.pc = "add"
  BY FrameMade
<1>2. stack' = Append(stack, f) /\ Len(stack) = 1
  BY NotTheShell, TopKnown DEF SetTimeout, Push, Basic
<1>. HIDE DEF f
<1>3. /\ stack' \in Seq(Frame) /\ Len(stack') = 2 /\ ShellBelow'
      /\ Grows(stack, stack', f)
  BY <1>1, <1>2, PushBasic DEF Basic
<1>4. timeout' \in [Ids -> Int] /\ due' \in [Ids -> Int]
  <2>1. now + delay \in Int
    BY TimerAssumption DEF Basic, Typed
  <2>. QED
    BY <2>1 DEF SetTimeout, Set, Basic, Typed
<1>5. Typed'
  BY <1>3, <1>4, TimerAssumption DEF SetTimeout, Basic, Typed
<1>6. NoGarbageTaken'
  <2>1. \A k \in DOMAIN stack' : stack'[k].pc \in {"last", "top"} =>
          k \in DOMAIN stack /\ stack'[k] = stack[k]
    BY <1>1, <1>2, <1>3, TopKnown DEF Grows, Basic
  <2>. QED
    BY <2>1 DEF NoGarbageTaken, SetTimeout, Basic
<1>. QED
  BY <1>3, <1>5, <1>6 DEF Basic

\* A step of the running frame that writes neither the task queue nor anything
\* a pop_task reads, and goes on with a frame that is no such read.
LEMMA BasicGoto ==
    ASSUME Basic, Top.pc # "shell", NEW f \in Frame, f.pc \notin {"shell", "last", "top"}, Goto(f),
           timer' \in [on : BOOLEAN, at : Int], timerq' \in Queue, dropped' \subseteq Ids,
           UNCHANGED <<now, timeout, taskq, due, ran, early>>,
           cut' \subseteq {"queue", "test", "timer"}
    PROVE  Basic'
<1>1. /\ stack' \in Seq(Frame) /\ Len(stack') \in 1 .. MaxDepth
      /\ ShellBelow' /\ ReplacesTop(stack, stack', f)
  BY GotoBasic DEF Basic, Goto
<1>2. Typed'
  BY <1>1, TypedAgain DEF Basic, Typed
<1>3. NoGarbageTaken'
  <2>1. \A k \in DOMAIN stack' : stack'[k].pc \in {"last", "top"} =>
          k \in DOMAIN stack /\ stack'[k] = stack[k]
    BY <1>1 DEF ReplacesTop
  <2>. QED
    BY <2>1 DEF NoGarbageTaken, Basic
<1>. QED
  BY <1>1, <1>2, <1>3 DEF Basic

LEMMA BasicAdd ==
    ASSUME Basic, AddTest \/ AddLoad \/ AddGrow \/ AddSift \/ AddTarget \/ AddArm
    PROVE  Basic'
<1>0. Top \in Frame /\ Typed /\ timer \in [on : BOOLEAN, at : Int] /\ timerq \in Queue
      /\ dropped \subseteq Ids /\ now \in Int /\ timeout \in [Ids -> Int]
      /\ cut \subseteq {"queue", "test", "timer"}
  BY TopKnown DEF Basic, Typed
<1>1. CASE AddTest
  <2>1. Top.task \in Ids /\ Top.pc = "add"
    BY <1>0, <1>1, FrameKinds DEF AddTest
  <2>2. CASE Full(timerq)
    <3>1. [pc |-> "enable"] \in Frame
      BY FrameMade
    <3>2. Goto([pc |-> "enable"]) /\ dropped' = dropped \cup {Top.task}
      BY <1>1, <2>2 DEF AddTest
    <3>. QED
      BY <1>0, <1>1, <2>1, <3>1, <3>2, BasicGoto DEF AddTest
  <2>3. CASE ~ Full(timerq)
    <3>. DEFINE f == [pc |-> "load", task |-> Top.task]
    <3>1. f \in Frame /\ f.pc = "load"
      BY <2>1, FrameMade
    <3>2. Goto(f) /\ dropped' = dropped
      BY <1>1, <2>3 DEF AddTest
    <3>. HIDE DEF f
    <3>. QED
      BY <1>0, <1>1, <2>1, <3>1, <3>2, BasicGoto DEF AddTest
  <2>. QED
    BY <2>2, <2>3
<1>6. CASE AddLoad
  <2>0. /\ Top.task \in Ids /\ Top.pc = "load" /\ timer' = timer /\ dropped' = dropped
        /\ timerq' = timerq /\ UNCHANGED <<now, timeout, taskq, due, ran, early>>
    BY <1>0, <1>6, FrameKinds DEF AddLoad
  <2>1. CASE Full(timerq)
    <3>1. [pc |-> "wild"] \in Frame
      BY FrameMade
    <3>2. Goto([pc |-> "wild"]) /\ cut' \subseteq {"queue", "test", "timer"}
      BY <1>0, <1>6, <2>1 DEF AddLoad, GoWild
    <3>. QED
      BY <1>0, <2>0, <3>1, <3>2, BasicGoto
  <2>2. CASE ~ Full(timerq)
    <3>. DEFINE f == [pc |-> "grow", task |-> Top.task, i |-> timerq.size]
    <3>1. timerq.size \in Slots
      BY <1>0, <2>2, TimerAssumption DEF Queue, Slots, Full
    <3>2. f \in Frame /\ f.pc = "grow"
      BY <2>0, <3>1, FrameMade
    <3>3. Goto(f) /\ cut' = cut
      BY <1>6, <2>2 DEF AddLoad
    <3>. HIDE DEF f
    <3>. QED
      BY <1>0, <2>0, <3>2, <3>3, BasicGoto
  <2>. QED
    BY <2>1, <2>2
<1>2. CASE AddGrow
  <2>. DEFINE f == [Top EXCEPT !.pc = "sift"]
  <2>1. Top.task \in Ids /\ Top.pc = "grow" /\ Top.i \in Slots
        /\ Top = [pc |-> "grow", task |-> Top.task, i |-> Top.i]
    BY <1>0, <1>2, FrameKinds DEF AddGrow
  <2>2. f = [pc |-> "sift", task |-> Top.task, i |-> Top.i]
    BY <2>1
  <2>3. f \in Frame /\ f.pc = "sift"
    BY <2>1, <2>2, FrameMade
  <2>4. timerq' \in Queue
    <3>1. Top.i + 1 \in 0 .. TASK_MAX_SIZE
      BY <2>1, TimerAssumption DEF Slots
    <3>2. timerq' = [timerq EXCEPT !.size = Top.i + 1]
      BY <1>2 DEF AddGrow, Grown
    <3>. QED
      BY <1>0, <3>1, <3>2 DEF Queue
  <2>5. Goto(f) /\ timer' = timer /\ dropped' = dropped
        /\ UNCHANGED <<now, timeout, taskq, due, ran, early, cut>>
    BY <1>2 DEF AddGrow
  <2>. HIDE DEF f
  <2>. QED
    BY <1>0, <2>1, <2>3, <2>4, <2>5, BasicGoto
<1>3. CASE AddSift
  <2>1. Top.task \in Ids /\ Top.pc = "sift" /\ Top.i \in Slots
        /\ Top = [pc |-> "sift", task |-> Top.task, i |-> Top.i]
    BY <1>0, <1>3, FrameKinds DEF AddSift
  <2>0. timer' = timer /\ dropped' = dropped
        /\ UNCHANGED <<now, timeout, taskq, due, ran, early, cut>>
    BY <1>3 DEF AddSift
  <2>2. CASE Top.i > 0 /\ timerq.tasks[Parent(Top.i)] = Garbage
    <3>1. [pc |-> "wild"] \in Frame
      BY FrameMade
    <3>2. Goto([pc |-> "wild"]) /\ timerq' = timerq
      BY <1>3, <2>2 DEF AddSift, GoWild
    <3>. QED
      BY <1>0, <2>0, <2>1, <3>1, <3>2, BasicGoto
  <2>3. CASE ~ (Top.i > 0 /\ timerq.tasks[Parent(Top.i)] = Garbage)
             /\ Rises(timerq, Top.task, Top.i)
    <3>. DEFINE f == [Top EXCEPT !.i = Parent(@)]
    <3>1. Parent(Top.i) \in Slots
      BY <2>1, <2>3, ParentBelow, TimerAssumption DEF Rises, Slots
    <3>2. f = [pc |-> "sift", task |-> Top.task, i |-> Parent(Top.i)]
      BY <2>1
    <3>3. f \in Frame /\ f.pc = "sift"
      BY <2>1, <3>1, <3>2, FrameMade
    <3>4. Goto(f) /\ timerq' = [timerq EXCEPT !.tasks[Top.i] = timerq.tasks[Parent(Top.i)]]
      BY <1>3, <2>3 DEF AddSift
    <3>5. timerq' \in Queue
      BY <1>0, <2>1, <3>1, <3>4 DEF Queue
    <3>. HIDE DEF f
    <3>. QED
      BY <1>0, <2>0, <2>1, <3>3, <3>4, <3>5, BasicGoto
  <2>4. CASE ~ (Top.i > 0 /\ timerq.tasks[Parent(Top.i)] = Garbage)
             /\ ~ Rises(timerq, Top.task, Top.i)
    <3>1. [pc |-> "target"] \in Frame
      BY FrameMade
    <3>2. Goto([pc |-> "target"]) /\ timerq' = [timerq EXCEPT !.tasks[Top.i] = Top.task]
      BY <1>3, <2>4 DEF AddSift
    <3>3. timerq' \in Queue
      BY <1>0, <2>1, <3>2 DEF Queue
    <3>. QED
      BY <1>0, <2>0, <2>1, <3>1, <3>2, <3>3, BasicGoto
  <2>. QED
    BY <2>2, <2>3, <2>4
<1>4. CASE AddTarget
  <2>0. Top.pc = "target" /\ timer' = timer /\ dropped' = dropped /\ timerq' = timerq
        /\ UNCHANGED <<now, timeout, taskq, due, ran, early, cut>>
    BY <1>4 DEF AddTarget
  <2>1. CASE timerq.tasks[0] = Garbage
    <3>1. [pc |-> "wild"] \in Frame
      BY FrameMade
    <3>2. Goto([pc |-> "wild"])
      BY <1>4, <2>1 DEF AddTarget, GoWild
    <3>. QED
      BY <1>0, <2>0, <3>1, <3>2, BasicGoto
  <2>2. CASE timerq.tasks[0] # Garbage
    <3>. DEFINE f == [pc |-> "arm", delay |-> timeout[timerq.tasks[0]] - now]
    <3>1. timerq.tasks[0] \in Ids
      BY <1>0, <2>2, TimerAssumption DEF Queue, Slots
    <3>2. timeout[timerq.tasks[0]] - now \in Int
      BY <1>0, <3>1
    <3>3. f \in Frame /\ f.pc = "arm"
      BY <3>2, FrameMade
    <3>4. Goto(f)
      BY <1>4, <2>2 DEF AddTarget
    <3>. HIDE DEF f
    <3>. QED
      BY <1>0, <2>0, <3>3, <3>4, BasicGoto
  <2>. QED
    BY <2>1, <2>2
<1>5. CASE AddArm
  <2>1. Top.delay \in Int /\ Top.pc = "arm"
    BY <1>0, <1>5, FrameKinds DEF AddArm
  <2>2. timer' \in [on : BOOLEAN, at : Int]
    <3>1. now + Tval(Top.delay) \in Int
      BY <1>0, <2>1, TvalInRange
    <3>2. timer' = [timer EXCEPT !.at = now + Tval(Top.delay)]
      BY <1>5 DEF AddArm
    <3>. QED
      BY <1>0, <3>1, <3>2
  <2>3. [pc |-> "enable"] \in Frame
    BY FrameMade
  <2>4. Goto([pc |-> "enable"]) /\ timerq' = timerq /\ dropped' = dropped
        /\ UNCHANGED <<now, timeout, taskq, due, ran, early, cut>>
    BY <1>5 DEF AddArm
  <2>. QED
    BY <1>0, <2>1, <2>2, <2>3, <2>4, BasicGoto
<1>. QED
  BY <1>1, <1>2, <1>3, <1>4, <1>5, <1>6

LEMMA BasicEnable ==
    ASSUME Basic, Enable
    PROVE  Basic'
<1>1. /\ stack' \in Seq(Frame) /\ Len(stack') \in 1 .. MaxDepth
      /\ ShellBelow' /\ Shrinks(stack, stack')
  BY DoneBasic DEF Basic, Enable
<1>2. timer' \in [on : BOOLEAN, at : Int]
  BY DEF Basic, Typed, Enable
<1>3. Typed'
  BY <1>1, <1>2, TypedAgain DEF Basic, Typed, Enable
<1>4. NoGarbageTaken'
  BY <1>1 DEF Basic, NoGarbageTaken, Enable, Shrinks
<1>. QED
  BY <1>1, <1>3, <1>4 DEF Basic

LEMMA BasicUartIrq ==
    ASSUME Basic, UartIrq
    PROVE  Basic'
<1>1. Loop \in Frame /\ Loop.pc = "loop"
  BY FrameMade DEF Loop
<1>2. /\ stack' \in Seq(Frame) /\ Len(stack') = Len(stack) + 1
      /\ ShellBelow' /\ Grows(stack, stack', Loop)
  BY <1>1, PushBasic DEF Basic, UartIrq, Push
<1>3. Len(stack') \in 1 .. MaxDepth
  BY <1>2, TimerAssumption DEF UartIrq, Basic, Typed
<1>4. cut' \subseteq {"queue", "test", "timer"}
  BY DEF UartIrq, Basic, Typed, Hits
<1>5. Typed'
  BY <1>2, <1>3, <1>4, TypedAgain DEF Basic, Typed, UartIrq
<1>6. NoGarbageTaken'
  <2>1. \A k \in DOMAIN stack' : stack'[k].pc \in {"last", "top"} =>
          k \in DOMAIN stack /\ stack'[k] = stack[k]
    BY <1>1, <1>2, TopKnown DEF Grows, Basic
  <2>. QED
    BY <2>1 DEF NoGarbageTaken, Basic, UartIrq
<1>. QED
  BY <1>2, <1>5, <1>6 DEF Basic

\* What an interrupt pushes holds no read of the task queue.
LEMMA BasicTimerIrq ==
    ASSUME Basic, TimerIrq
    PROVE  Basic'
<1>0. /\ Typed /\ ShellBelow /\ timer \in [on : BOOLEAN, at : Int] /\ timerq \in Queue
      /\ taskq \in Queue /\ now \in Int /\ timeout \in [Ids -> Int] /\ dropped \subseteq Ids
  BY DEF Basic, Typed
<1>1. cut' \subseteq {"queue", "test", "timer"}
  BY <1>0 DEF TimerIrq, Typed, Hits
<1>. DEFINE Irq(f) ==
        /\ f \in Frame /\ f.pc \in {"loop", "wild"} /\ stack' = Append(stack, f)
        /\ timer' \in [on : BOOLEAN, at : Int] /\ timerq' \in Queue /\ taskq' \in Queue
        /\ timeout' \in [Ids -> Int] /\ dropped' \subseteq Ids
        /\ Filled(taskq'.tasks, taskq'.size)
        /\ \A j \in Slots : taskq.tasks[j] \in Ids => taskq'.tasks[j] \in Ids
<1>2. ASSUME NEW f, Irq(f)
      PROVE  Basic'
  <2>1. /\ stack' \in Seq(Frame) /\ Len(stack') = Len(stack) + 1
        /\ ShellBelow' /\ Grows(stack, stack', f)
    BY <1>0, <1>2, PushBasic
  <2>2. Len(stack') \in 1 .. MaxDepth
    BY <1>0, <2>1, TimerAssumption DEF TimerIrq, Typed
  <2>3. UNCHANGED <<now, due, ran, early>>
    BY DEF TimerIrq
  <2>4. Typed'
    BY <1>0, <1>1, <1>2, <2>1, <2>2, <2>3, TypedAgain DEF Typed
  <2>5. \A k \in DOMAIN stack' : stack'[k].pc \in {"last", "top"} =>
          k \in DOMAIN stack /\ stack'[k] = stack[k]
    BY <1>0, <1>2, <2>1, TopKnown DEF Grows
  <2>6. NoGarbageTaken'
    <3>0. ASSUME NEW k \in DOMAIN stack', stack'[k].pc = "top"
          PROVE  taskq'.tasks[0] \in Ids
      <4>1. taskq.tasks[0] \in Ids
        BY <2>5, <3>0 DEF Basic, NoGarbageTaken
      <4>. QED
        BY <1>2, <4>1, TimerAssumption DEF Slots
    <3>1. ASSUME NEW k \in DOMAIN stack', stack'[k].pc = "last"
          PROVE  Filled(taskq'.tasks, stack'[k].size)
      <4>1. k \in DOMAIN stack /\ stack'[k] = stack[k] /\ Filled(taskq.tasks, stack[k].size)
        BY <2>5, <3>1 DEF Basic, NoGarbageTaken
      <4>2. stack[k].size \in 1 .. TASK_MAX_SIZE
        BY <1>0, <3>1, <4>1, TopKnown, FrameKinds
      <4>3. \A j \in 0 .. stack[k].size - 1 : j \in Slots
        BY <4>2, TimerAssumption DEF Slots
      <4>. QED
        BY <1>2, <4>1, <4>3 DEF Filled
    <3>. QED
      BY <1>2, <3>0, <3>1 DEF NoGarbageTaken
  <2>. QED
    BY <2>1, <2>4, <2>6 DEF Basic
<1>3. Filled(taskq.tasks, taskq.size)
  BY DEF Basic, NoGarbageTaken
<1>4. CASE timerq.size = 0
  <2>1. Irq(Loop)
    <3>1. timer' = [on |-> TRUE, at |-> now + 2] /\ stack' = Append(stack, Loop)
          /\ UNCHANGED <<timeout, timerq, taskq, dropped>>
      BY <1>4 DEF TimerIrq, Push
    <3>. QED
      BY <1>0, <1>3, <3>1, FrameMade DEF Loop
  <2>. HIDE DEF Irq
  <2>. QED
    BY <1>2, <2>1
<1>5. CASE timerq.size # 0 /\ Garbage \in Held(timerq)
  <2>1. Irq([pc |-> "wild"])
    <3>1. stack' = Append(stack, [pc |-> "wild"])
          /\ UNCHANGED <<timer, timeout, timerq, taskq, dropped>>
      BY <1>5 DEF TimerIrq, Push
    <3>. QED
      BY <1>0, <1>3, <3>1, FrameMade
  <2>. HIDE DEF Irq
  <2>. QED
    BY <1>2, <2>1
<1>6. CASE timerq.size # 0 /\ Garbage \notin Held(timerq)
  <2>. DEFINE task == timerq.tasks[0]
              left == Pop(timerq)
              at == IF left.size = 0 THEN now + 2
                    ELSE now + Tval(LeftUntil(timeout[left.tasks[0]]))
  <2>1. /\ timerq' = left /\ timer' = [on |-> TRUE, at |-> at]
        /\ timeout' = [timeout EXCEPT ![task] = 0]
        /\ IF Full(taskq) THEN dropped' = dropped \cup {task} /\ UNCHANGED taskq
           ELSE taskq' = Add(taskq, task) /\ UNCHANGED dropped
        /\ stack' = Append(stack, Loop)
    BY <1>6 DEF TimerIrq, Push
  <2>2. Filled(timerq.tasks, timerq.size) /\ timerq.size > 0
    BY <1>0, <1>6, HeldFilled, TimerAssumption DEF Queue
  <2>3. left \in Queue /\ Filled(left.tasks, left.size)
    BY <1>0, <2>2, PopHolds
  <2>4. task \in Ids
    BY <1>0, <2>2, TimerAssumption DEF Filled, Queue
  <2>5. at \in Int
    <3>1. ASSUME left.size # 0
          PROVE  Tval(LeftUntil(timeout[left.tasks[0]])) \in Int
      <4>1. left.tasks[0] \in Ids
        BY <2>3, <3>1, TimerAssumption DEF Filled, Queue
      <4>2. LeftUntil(timeout[left.tasks[0]]) \in Int
        BY <1>0, <4>1 DEF LeftUntil
      <4>. QED
        BY <4>2, TvalInRange
    <3>. HIDE DEF left
    <3>. QED
      BY <1>0, <3>1
  <2>6. /\ taskq' \in Queue /\ Filled(taskq'.tasks, taskq'.size) /\ dropped' \subseteq Ids
        /\ \A j \in Slots : taskq.tasks[j] \in Ids => taskq'.tasks[j] \in Ids
    <3>1. CASE Full(taskq)
      BY <1>0, <1>3, <2>1, <2>4, <3>1
    <3>2. CASE ~ Full(taskq)
      <4>1. taskq' = Add(taskq, task) /\ dropped' = dropped
        BY <2>1, <3>2
      <4>2. /\ taskq' \in Queue /\ taskq'.size = taskq.size + 1
            /\ Filled(taskq'.tasks, taskq.size + 1)
            /\ \A j \in Slots : j > taskq.size => taskq'.tasks[j] = taskq.tasks[j]
        BY <1>0, <1>3, <2>4, <3>2, <4>1, AddHolds
      <4>3. \A j \in Slots : j <= taskq.size => taskq'.tasks[j] \in Ids
        BY <1>0, <4>2, TimerAssumption DEF Filled, Slots, Queue
      <4>4. \A j \in Slots : taskq.tasks[j] \in Ids => taskq'.tasks[j] \in Ids
        <5>1. \A j \in Slots : j <= taskq.size \/ j > taskq.size
          BY <1>0 DEF Slots, Queue
        <5>. QED
          BY <4>2, <4>3, <5>1
      <4>5. Filled(taskq'.tasks, taskq'.size)
        BY <4>2
      <4>. QED
        BY <1>0, <4>1, <4>2, <4>4, <4>5
    <3>. QED
      BY <3>1, <3>2
  <2>7. Irq(Loop)
    <3>. HIDE DEF at, left, task
    <3>. QED
      BY <1>0, <2>1, <2>3, <2>4, <2>5, <2>6, FrameMade DEF Loop
  <2>. HIDE DEF Irq
  <2>. QED
    BY <1>2, <2>7
<1>. QED
  BY <1>4, <1>5, <1>6

LEMMA BasicTasks ==
    ASSUME Basic, LoopTest \/ PopTest \/ PopTop \/ PopSize \/ PopLast \/ PopSink
    PROVE  Basic'
<1>0. /\ Top \in Frame /\ Typed /\ ShellBelow /\ timer \in [on : BOOLEAN, at : Int]
      /\ timerq \in Queue /\ taskq \in Queue /\ dropped \subseteq Ids
      /\ Filled(taskq.tasks, taskq.size) /\ cut \subseteq {"queue", "test", "timer"}
  BY TopKnown DEF Basic, Typed, NoGarbageTaken
<1>1. CASE LoopTest
  <2>1. Top.pc = "loop" /\ UNCHANGED <<now, timer, timeout, timerq, taskq, due, dropped, ran,
                                       early, cut>>
    BY <1>1 DEF LoopTest
  <2>2. CASE MoreTasks(taskq.size)
    <3>1. [pc |-> "pop"] \in Frame /\ Goto([pc |-> "pop"])
      BY <1>1, <2>2, FrameMade DEF LoopTest
    <3>. QED
      BY <1>0, <2>1, <3>1, BasicGoto
  <2>3. CASE ~ MoreTasks(taskq.size)
    <3>1. /\ stack' \in Seq(Frame) /\ Len(stack') \in 1 .. MaxDepth
          /\ ShellBelow' /\ Shrinks(stack, stack')
      BY <1>0, <1>1, <2>1, <2>3, DoneBasic DEF LoopTest
    <3>2. Typed'
      BY <2>1, <3>1, TypedAgain DEF Basic, Typed
    <3>3. NoGarbageTaken'
      BY <2>1, <3>1 DEF Basic, NoGarbageTaken, Shrinks
    <3>. QED
      BY <3>1, <3>2, <3>3 DEF Basic
  <2>. QED
    BY <2>2, <2>3
<1>2. CASE PopTest
  <2>1. Top.pc = "pop" /\ UNCHANGED <<now, timer, timeout, timerq, taskq, due, dropped, ran,
                                      early, cut>>
    BY <1>2 DEF PopTest
  <2>2. CASE taskq.size = 0
    <3>1. [pc |-> "wild"] \in Frame /\ Goto([pc |-> "wild"])
      BY <1>2, <2>2, FrameMade DEF PopTest, GoWild
    <3>. QED
      BY <1>0, <2>1, <3>1, BasicGoto
  <2>3. CASE taskq.size # 0
    <3>. DEFINE f == [pc |-> "top"]
    <3>1. taskq.tasks[0] \in Ids
      BY <1>0, <2>3, TimerAssumption DEF Filled, Queue
    <3>2. f \in Frame /\ f.pc = "top"
      BY FrameMade
    <3>3. stack' = [stack EXCEPT ![Len(stack)] = f]
      BY <1>2, <2>3 DEF PopTest, Goto
    <3>. HIDE DEF f
    <3>4. /\ stack' \in Seq(Frame) /\ Len(stack') \in 1 .. MaxDepth
          /\ ShellBelow' /\ ReplacesTop(stack, stack', f)
      BY <1>0, <2>1, <3>2, <3>3, GotoBasic
    <3>5. Typed'
      BY <1>0, <2>1, <3>4, TypedAgain DEF Typed
    <3>6. NoGarbageTaken'
      BY <1>0, <2>1, <3>1, <3>2, <3>4 DEF NoGarbageTaken, ReplacesTop, Basic
    <3>. QED
      BY <3>4, <3>5, <3>6 DEF Basic
  <2>. QED
    BY <2>2, <2>3
<1>5. CASE PopTop
  <2>. DEFINE f == [pc |-> "size", task |-> taskq.tasks[0]]
  <2>1. Top.pc = "top" /\ UNCHANGED <<now, timer, timeout, timerq, taskq, due, dropped, ran,
                                      early, cut>> /\ Goto(f)
    BY <1>5 DEF PopTop
  <2>2. taskq.tasks[0] \in Ids
    BY <1>0, <2>1, TopKnown DEF Basic, NoGarbageTaken
  <2>3. f \in Frame /\ f.pc = "size"
    BY <2>2, FrameMade
  <2>. HIDE DEF f
  <2>. QED
    BY <1>0, <2>1, <2>3, BasicGoto
<1>6. CASE PopSize
  <2>1. Top.pc = "size" /\ UNCHANGED <<now, timer, timeout, timerq, taskq, due, dropped, ran,
                                      early, cut>>
    BY <1>6 DEF PopSize
  <2>2. CASE taskq.size = 0
    <3>1. [pc |-> "wild"] \in Frame /\ Goto([pc |-> "wild"])
      BY <1>6, <2>2, FrameMade DEF PopSize, GoWild
    <3>. QED
      BY <1>0, <2>1, <3>1, BasicGoto
  <2>3. CASE taskq.size # 0
    <3>. DEFINE f == [pc |-> "last", task |-> Top.task, size |-> taskq.size]
    <3>1. Top.task \in Ids /\ taskq.size \in 1 .. TASK_MAX_SIZE
      BY <1>0, <2>1, <2>3, FrameKinds, TimerAssumption DEF Queue
    <3>2. f \in Frame /\ f.pc = "last" /\ f.size = taskq.size
      BY <3>1, FrameMade
    <3>3. stack' = [stack EXCEPT ![Len(stack)] = f]
      BY <1>6, <2>3 DEF PopSize, Goto
    <3>. HIDE DEF f
    <3>4. /\ stack' \in Seq(Frame) /\ Len(stack') \in 1 .. MaxDepth
          /\ ShellBelow' /\ ReplacesTop(stack, stack', f)
      BY <1>0, <2>1, <3>2, <3>3, GotoBasic
    <3>5. Typed'
      BY <1>0, <2>1, <3>4, TypedAgain DEF Typed
    <3>6. NoGarbageTaken'
      BY <1>0, <2>1, <3>2, <3>4 DEF NoGarbageTaken, ReplacesTop, Basic
    <3>. QED
      BY <3>4, <3>5, <3>6 DEF Basic
  <2>. QED
    BY <2>2, <2>3
<1>3. CASE PopLast
  <2>. DEFINE f == [pc |-> "sink", task |-> Top.task, last |-> taskq.tasks[Top.size - 1], i |-> 0]
  <2>1. Top.pc = "last" /\ UNCHANGED <<now, timer, timeout, timerq, due, dropped, ran, early, cut>>
        /\ taskq' = [taskq EXCEPT !.size = Top.size - 1]
        /\ stack' = [stack EXCEPT ![Len(stack)] = f]
    BY <1>3 DEF PopLast, Goto
  <2>2. Top.task \in Ids /\ Top.size \in 1 .. TASK_MAX_SIZE
    BY <1>0, <2>1, FrameKinds
  <2>3. Filled(taskq.tasks, Top.size)
    BY <1>0, <2>1, TopKnown DEF Basic, NoGarbageTaken
  <2>4. taskq.tasks[Top.size - 1] \in Ids /\ 0 \in Slots
    BY <2>2, <2>3, TimerAssumption DEF Filled, Slots
  <2>5. f \in Frame /\ f.pc = "sink"
    BY <2>2, <2>4, FrameMade
  <2>. HIDE DEF f
  <2>6. /\ stack' \in Seq(Frame) /\ Len(stack') \in 1 .. MaxDepth
        /\ ShellBelow' /\ ReplacesTop(stack, stack', f)
    BY <1>0, <2>1, <2>5, GotoBasic
  <2>7. taskq' \in Queue /\ taskq'.size = Top.size - 1 /\ taskq'.tasks = taskq.tasks
    BY <1>0, <2>1, <2>2, TimerAssumption DEF Queue
  <2>8. Typed'
    BY <1>0, <2>1, <2>6, <2>7, TypedAgain DEF Typed
  <2>9. NoGarbageTaken'
    <3>1. Filled(taskq.tasks, Top.size - 1)
      BY <2>2, <2>3, TimerAssumption DEF Filled
    <3>. QED
      BY <2>5, <2>6, <2>7, <3>1 DEF NoGarbageTaken, ReplacesTop, Basic
  <2>. QED
    BY <2>6, <2>8, <2>9 DEF Basic
<1>4. CASE PopSink
  <2>0. Top.pc = "sink" /\ UNCHANGED <<now, timer, timeout, timerq, due, dropped, ran, early, cut>>
    BY <1>4 DEF PopSink
  <2>1. /\ Top.task \in Ids /\ Top.last \in Ids /\ Top.i \in Slots
        /\ Top = [pc |-> "sink", task |-> Top.task, last |-> Top.last, i |-> Top.i]
    BY <1>0, <2>0, FrameKinds
  <2>2. ASSUME NEW f \in Frame, f.pc \in {"sink", "run"}, Goto(f), NEW x \in Ids,
               taskq' = [taskq EXCEPT !.tasks[Top.i] = x]
        PROVE  Basic'
    <3>1. /\ stack' \in Seq(Frame) /\ Len(stack') \in 1 .. MaxDepth
          /\ ShellBelow' /\ ReplacesTop(stack, stack', f)
      BY <1>0, <2>0, <2>2, GotoBasic DEF Goto
    <3>2. taskq' \in Queue /\ taskq'.size = taskq.size
          /\ \A j \in Slots : taskq'.tasks[j] = IF j = Top.i THEN x ELSE taskq.tasks[j]
      BY <1>0, <2>1, <2>2 DEF Queue
    <3>3. Typed'
      BY <1>0, <2>0, <3>1, <3>2, TypedAgain DEF Typed
    <3>4. ASSUME NEW n \in 0 .. TASK_MAX_SIZE, Filled(taskq.tasks, n)
          PROVE  Filled(taskq'.tasks, n)
      BY <2>2, <3>2, <3>4, TimerAssumption DEF Filled, Slots
    <3>5. \A k \in DOMAIN stack' : stack'[k].pc = "last" =>
             /\ k \in DOMAIN stack /\ stack'[k] = stack[k]
             /\ stack[k].size \in 0 .. TASK_MAX_SIZE
      <4>1. SUFFICES ASSUME NEW k \in DOMAIN stack', stack'[k].pc = "last"
                     PROVE  /\ k \in DOMAIN stack /\ stack'[k] = stack[k]
                            /\ stack[k].size \in 0 .. TASK_MAX_SIZE
        OBVIOUS
      <4>2. k \in DOMAIN stack /\ stack'[k] = stack[k]
        BY <2>2, <3>1, <4>1 DEF ReplacesTop
      <4>3. stack[k].size \in 1 .. TASK_MAX_SIZE
        BY <1>0, <4>1, <4>2, TopKnown, FrameKinds
      <4>. QED
        BY <4>2, <4>3
    <3>6. taskq.size \in 0 .. TASK_MAX_SIZE
      BY <1>0 DEF Queue
    <3>8. \A k \in DOMAIN stack' : stack'[k].pc = "top" => taskq'.tasks[0] \in Ids
      <4>1. SUFFICES ASSUME NEW k \in DOMAIN stack', stack'[k].pc = "top"
                     PROVE  taskq'.tasks[0] \in Ids
        OBVIOUS
      <4>2. taskq.tasks[0] \in Ids
        BY <2>2, <3>1, <4>1 DEF ReplacesTop, Basic, NoGarbageTaken
      <4>. QED
        BY <2>2, <3>2, <4>2, TimerAssumption DEF Slots
    <3>7. NoGarbageTaken'
      BY <1>0, <3>2, <3>4, <3>5, <3>6, <3>8 DEF NoGarbageTaken, Basic
    <3>. QED
      BY <3>1, <3>3, <3>7 DEF Basic
  <2>3. CASE Sinks(taskq, Top.last, Top.i)
    <3>. DEFINE f == [Top EXCEPT !.i = Child(taskq, @)]
                x == taskq.tasks[Child(taskq, Top.i)]
    <3>1. Child(taskq, Top.i) \in 1 .. taskq.size - 1 /\ Child(taskq, Top.i) \in Slots
      BY <1>0, <2>1, <2>3, ChildInside DEF Queue
    <3>2. x \in Ids
      BY <1>0, <3>1 DEF Filled
    <3>3. f = [pc |-> "sink", task |-> Top.task, last |-> Top.last, i |-> Child(taskq, Top.i)]
      BY <2>1
    <3>4. f \in Frame /\ f.pc = "sink"
      BY <2>1, <3>1, <3>3, FrameMade
    <3>5. Goto(f) /\ taskq' = [taskq EXCEPT !.tasks[Top.i] = x]
      BY <1>4, <2>3 DEF PopSink
    <3>. HIDE DEF f, x
    <3>. QED
      BY <2>2, <3>2, <3>4, <3>5
  <2>4. CASE ~ Sinks(taskq, Top.last, Top.i)
    <3>. DEFINE f == [pc |-> "run", task |-> Top.task]
    <3>1. f \in Frame /\ f.pc = "run"
      BY <2>1, FrameMade
    <3>2. Goto(f) /\ taskq' = [taskq EXCEPT !.tasks[Top.i] = Top.last]
      BY <1>4, <2>4 DEF PopSink
    <3>. HIDE DEF f
    <3>. QED
      BY <2>1, <2>2, <3>1, <3>2
  <2>. QED
    BY <2>3, <2>4
<1>. QED
  BY <1>1, <1>2, <1>3, <1>4, <1>5, <1>6

LEMMA BasicRun ==
    ASSUME Basic, Run
    PROVE  Basic'
<1>0. /\ Top \in Frame /\ Typed /\ ShellBelow /\ Top.pc = "run" /\ Top.task \in Ids
      /\ Len(stack) \in 1 .. MaxDepth
  BY TopKnown, FrameKinds DEF Basic, Run, Typed
<1>1. ran' \in [Ids -> Nat] /\ early' \subseteq Ids
      /\ UNCHANGED <<now, timer, timerq, taskq, dropped, cut>>
  BY <1>0 DEF Run, Typed
<1>2. Loop \in Frame /\ Loop.pc = "loop"
  BY FrameMade DEF Loop
<1>. DEFINE mid == [stack EXCEPT ![Len(stack)] = Loop]
<1>3. ReplacesTop(stack, mid, Loop) /\ Len(stack) > 1
  BY <1>0, <1>2, Replaced, NotTheShell, TopKnown DEF Typed
<1>4. ASSUME NEW t \in Ids, NEW delay \in Delays, Len(stack) < MaxDepth, Set(t, delay),
             stack' = Append(mid, [pc |-> "add", task |-> t])
      PROVE  Basic'
  <2>. DEFINE f == [pc |-> "add", task |-> t]
  <2>1. f \in Frame /\ f.pc = "add"
    BY <1>4, FrameMade
  <2>. HIDE DEF f, mid
  <2>2. Grows(mid, stack', f)
    BY <1>3, <1>4, <2>1, Pushed DEF ReplacesTop, f
  <2>3. timeout' \in [Ids -> Int] /\ due' \in [Ids -> Int]
    <3>1. now + delay \in Int
      BY <1>0, TimerAssumption DEF Typed
    <3>. QED
      BY <1>0, <1>4, <3>1 DEF Set, Typed
  <2>4. stack' \in Seq(Frame) /\ Len(stack') = Len(stack) + 1
        /\ DOMAIN stack' = 1 .. Len(stack) + 1 /\ DOMAIN stack = 1 .. Len(stack)
    BY <1>0, <1>3, <2>2, TopKnown DEF ReplacesTop, Grows
  <2>5. ASSUME NEW k \in DOMAIN stack'
        PROVE  stack'[k] = IF k = Len(stack) + 1 THEN f ELSE IF k = Len(stack) THEN Loop
                           ELSE stack[k]
    BY <1>0, <1>3, <2>2, <2>4 DEF ReplacesTop, Grows
  <2>6. Typed'
    <3>1. Len(stack') \in 1 .. MaxDepth
      BY <1>0, <1>4, <2>4, TimerAssumption
    <3>. QED
      BY <1>0, <1>1, <2>3, <2>4, <3>1, TypedAgain DEF Typed
  <2>7. ShellBelow'
    BY <1>0, <1>2, <1>3, <2>1, <2>4, <2>5 DEF ShellBelow
  <2>8. \A k \in DOMAIN stack' : stack'[k].pc \in {"last", "top"} =>
          k \in DOMAIN stack /\ stack'[k] = stack[k]
    BY <1>0, <1>2, <2>1, <2>4, <2>5
  <2>9. NoGarbageTaken'
    BY <1>1, <2>8 DEF NoGarbageTaken, Basic
  <2>. QED
    BY <2>6, <2>7, <2>9 DEF Basic
<1>5. ASSUME Goto(Loop), UNCHANGED <<timeout, due>>
      PROVE  Basic'
  <2>1. /\ stack' \in Seq(Frame) /\ Len(stack') \in 1 .. MaxDepth
        /\ ShellBelow' /\ ReplacesTop(stack, stack', Loop)
    BY <1>0, <1>2, <1>5, GotoBasic DEF Goto
  <2>2. Typed'
    BY <1>0, <1>1, <1>5, <2>1, TypedAgain DEF Typed
  <2>3. NoGarbageTaken'
    BY <1>1, <1>2, <2>1 DEF NoGarbageTaken, ReplacesTop, Basic
  <2>. QED
    BY <2>1, <2>2, <2>3 DEF Basic
<1>. QED
  BY <1>4, <1>5 DEF Run, Fresh

LEMMA BasicNext ==
    ASSUME Basic, Next
    PROVE  Basic'
BY BasicAdvance, BasicSetTimeout, BasicAdd, BasicEnable, BasicUartIrq, BasicTimerIrq,
   BasicTasks, BasicRun DEF Next, Step

-----------------------------------------------------------------------------
(* How the stack's loads change                                            *)

LEMMA LoadKnown ==
    ASSUME NEW f \in Frame
    PROVE  Load(f) \subseteq Ids
BY FrameKinds DEF Load

LEMMA LoadsReplaced ==
    ASSUME NEW s \in Seq(Frame), Len(s) > 0, NEW r, NEW f \in Frame,
           ReplacesTop(s, r, f), Apart(s)
    PROVE  /\ Loads(r) = (Loads(s) \ Load(s[Len(s)])) \cup Load(f)
           /\ Load(f) \cap (Loads(s) \ Load(s[Len(s)])) = {} => Apart(r)
           /\ Load(s[Len(s)]) \subseteq Loads(s)
<1>1. Len(s) \in DOMAIN s /\ DOMAIN r = DOMAIN s /\ \A k \in DOMAIN s : s[k] \in Frame
  BY DEF ReplacesTop
<1>2. Load(s[Len(s)]) \subseteq Ids /\ Load(f) \subseteq Ids
  BY <1>1, LoadKnown
<1>3. \A k \in DOMAIN s : k # Len(s) => Load(s[k]) \cap Load(s[Len(s)]) = {}
  BY <1>1 DEF Apart
<1>4. \A k \in DOMAIN s : Load(s[k]) \subseteq Loads(s)
  <2>1. \A k \in DOMAIN s : Load(s[k]) \subseteq Ids
    BY <1>1, LoadKnown
  <2>. QED
    BY <2>1 DEF Loads
<1>5. ASSUME NEW t \in Ids
      PROVE  t \in Loads(r) <=> t \in Load(f) \/ (t \in Loads(s) /\ t \notin Load(s[Len(s)]))
  <2>1. t \in Loads(r) <=> \E k \in DOMAIN s : t \in Load(r[k])
    BY <1>1 DEF Loads
  <2>2. t \in Loads(s) <=> \E k \in DOMAIN s : t \in Load(s[k])
    BY DEF Loads
  <2>. QED
    BY <1>1, <1>3, <2>1, <2>2 DEF ReplacesTop
<1>6. Loads(r) = (Loads(s) \ Load(s[Len(s)])) \cup Load(f)
  <2>1. Loads(r) \subseteq Ids /\ Loads(s) \subseteq Ids
    BY DEF Loads
  <2>. QED
    BY <1>2, <1>5, <2>1
<1>7. ASSUME Load(f) \cap (Loads(s) \ Load(s[Len(s)])) = {}
      PROVE  Apart(r)
  <2>1. SUFFICES ASSUME NEW j \in DOMAIN s, NEW k \in DOMAIN s, j # k
                 PROVE  Load(r[j]) \cap Load(r[k]) = {}
    BY <1>1 DEF Apart
  <2>2. CASE j = Len(s)
    <3>1. r[j] = f /\ r[k] = s[k]
      BY <2>1, <2>2 DEF ReplacesTop
    <3>. QED
      BY <1>3, <1>4, <1>7, <2>1, <2>2, <3>1
  <2>3. CASE k = Len(s)
    <3>1. r[k] = f /\ r[j] = s[j]
      BY <2>1, <2>3 DEF ReplacesTop
    <3>. QED
      BY <1>3, <1>4, <1>7, <2>1, <2>3, <3>1
  <2>4. CASE j # Len(s) /\ k # Len(s)
    BY <2>1, <2>4 DEF ReplacesTop, Apart
  <2>. QED
    BY <2>2, <2>3, <2>4
<1>. QED
  BY <1>1, <1>4, <1>6, <1>7

LEMMA LoadsGrown ==
    ASSUME NEW s \in Seq(Frame), NEW r, NEW f \in Frame, Grows(s, r, f), Apart(s)
    PROVE  /\ Loads(r) = Loads(s) \cup Load(f)
           /\ Load(f) \cap Loads(s) = {} => Apart(r)
<1>1. /\ DOMAIN s = 1 .. Len(s) /\ DOMAIN r = 1 .. Len(s) + 1 /\ Len(s) \in Nat
      /\ r[Len(s) + 1] = f /\ \A k \in DOMAIN s : s[k] \in Frame /\ r[k] = s[k]
  BY DEF Grows
<1>2. ASSUME NEW k \in DOMAIN r
      PROVE  (k = Len(s) + 1 /\ r[k] = f) \/ (k \in DOMAIN s /\ r[k] = s[k])
  <2>1. k \in 1 .. Len(s) + 1
    BY <1>1
  <2>2. k = Len(s) + 1 \/ k \in 1 .. Len(s)
    BY <1>1, <2>1
  <2>. QED
    BY <1>1, <2>2
<1>3. Load(f) \subseteq Ids /\ \A k \in DOMAIN s : Load(s[k]) \subseteq Loads(s)
  <2>1. \A k \in DOMAIN s : Load(s[k]) \subseteq Ids
    BY <1>1, LoadKnown
  <2>. QED
    BY <2>1, LoadKnown DEF Loads
<1>4. Len(s) + 1 \in DOMAIN r /\ \A k \in DOMAIN s : k \in DOMAIN r
  BY <1>1
<1>5. ASSUME NEW t \in Ids
      PROVE  t \in Loads(r) <=> t \in Loads(s) \/ t \in Load(f)
  BY <1>1, <1>2, <1>4 DEF Loads
<1>6. Loads(r) = Loads(s) \cup Load(f)
  <2>1. Loads(r) \subseteq Ids /\ Loads(s) \subseteq Ids
    BY DEF Loads
  <2>. QED
    BY <1>3, <1>5, <2>1
<1>7. ASSUME Load(f) \cap Loads(s) = {}
      PROVE  Apart(r)
  <2>1. SUFFICES ASSUME NEW j \in DOMAIN r, NEW k \in DOMAIN r, j # k
                 PROVE  Load(r[j]) \cap Load(r[k]) = {}
    BY DEF Apart
  <2>2. CASE j \in DOMAIN s /\ k \in DOMAIN s
    BY <1>1, <2>1, <2>2 DEF Apart
  <2>3. CASE j = Len(s) + 1 \/ k = Len(s) + 1
    BY <1>1, <1>2, <1>3, <1>7, <2>1, <2>3
  <2>. QED
    BY <1>2, <2>2, <2>3
<1>. QED
  BY <1>6, <1>7

LEMMA LoadsShrunk ==
    ASSUME NEW s \in Seq(Frame), Len(s) > 1, NEW r, Shrinks(s, r), Apart(s),
           Load(s[Len(s)]) = {}
    PROVE  Loads(r) = Loads(s) /\ Apart(r)
<1>1. /\ DOMAIN s = 1 .. Len(s) /\ DOMAIN r = 1 .. Len(s) - 1 /\ Len(s) \in Nat
      /\ \A k \in DOMAIN r : k \in DOMAIN s /\ r[k] = s[k]
  BY DEF Shrinks
<1>2. \A k \in DOMAIN s : k = Len(s) \/ k \in DOMAIN r
  BY <1>1
<1>3. ASSUME NEW t \in Ids
      PROVE  t \in Loads(r) <=> t \in Loads(s)
  BY <1>1, <1>2 DEF Loads
<1>4. Loads(r) = Loads(s)
  BY <1>3 DEF Loads
<1>5. Apart(r)
  BY <1>1 DEF Apart
<1>. QED
  BY <1>4, <1>5

-----------------------------------------------------------------------------
(* How the slots change                                                    *)

Swaps(a, b, n, i, c) ==
    /\ i \in 0 .. n - 1 /\ c \in 0 .. n - 1 /\ b[i] = a[c] /\ b[c] = a[i]
    /\ \A j \in 0 .. n - 1 : j # i /\ j # c => b[j] = a[j]

LEMMA SwapKeeps ==
    ASSUME NEW n \in Nat, NEW a, NEW b, NEW i, NEW c, Swaps(a, b, n, i, c), HoldsEach(a, n)
    PROVE  HoldsEach(b, n) /\ HeldBy(b, n) = HeldBy(a, n)
<1>1. Filled(b, n)
  BY DEF Swaps, HoldsEach, Filled
<1>2. Distinct(b, n)
  BY DEF Swaps, HoldsEach, Distinct
<1>3. HeldBy(b, n) = HeldBy(a, n)
  BY DEF Swaps, HeldBy
<1>. QED
  BY <1>1, <1>2, <1>3 DEF HoldsEach

Same(a, b, n) == \A j \in 0 .. n - 1 : b[j] = a[j]

LEMMA SameKeeps ==
    ASSUME NEW n \in Nat, NEW a, NEW b, Same(a, b, n), HoldsEach(a, n)
    PROVE  HoldsEach(b, n) /\ HeldBy(b, n) = HeldBy(a, n)
BY DEF Same, HoldsEach, Filled, Distinct, HeldBy

\* A task is written past the last slot.
LEMMA OneMore ==
    ASSUME NEW n \in Nat, NEW a, NEW b, Same(a, b, n), HoldsEach(a, n),
           b[n] \in Ids, b[n] \notin HeldBy(a, n)
    PROVE  HoldsEach(b, n + 1) /\ HeldBy(b, n + 1) = HeldBy(a, n) \cup {b[n]}
<1>1. \A j \in 0 .. (n + 1) - 1 : j = n \/ j \in 0 .. n - 1
  OBVIOUS
<1>2. \A j \in 0 .. n - 1 : b[j] = a[j] /\ a[j] \in HeldBy(a, n) /\ a[j] \in Ids
  BY DEF Same, HeldBy, HoldsEach, Filled
<1>3. Filled(b, n + 1)
  BY <1>1, <1>2 DEF Filled
<1>4. Distinct(b, n + 1)
  BY <1>1, <1>2 DEF HoldsEach, Distinct
<1>5. HeldBy(b, n + 1) = HeldBy(a, n) \cup {b[n]}
  BY <1>1, <1>2 DEF HeldBy
<1>. QED
  BY <1>3, <1>4, <1>5 DEF HoldsEach

\* The last task is written over the first, which is taken.
LEMMA FirstTaken ==
    ASSUME NEW n \in Nat, n > 0, NEW a, NEW b, HoldsEach(a, n),
           b[0] = a[n - 1], \A j \in 1 .. n - 2 : b[j] = a[j]
    PROVE  HoldsEach(b, n - 1) /\ HeldBy(b, n - 1) = HeldBy(a, n) \ {a[0]}
<1>1. \A j \in 0 .. (n - 1) - 1 : j = 0 \/ j \in 1 .. n - 2
  OBVIOUS
<1>2. \A j \in 0 .. n - 1 : a[j] \in Ids
  BY DEF HoldsEach, Filled
<1>3. \A j, k \in 0 .. n - 1 : a[j] = a[k] => j = k
  BY DEF HoldsEach, Distinct
<1>4. Filled(b, n - 1)
  BY <1>1, <1>2 DEF Filled
<1>5. Distinct(b, n - 1)
  BY <1>1, <1>3 DEF Distinct
<1>6. ASSUME NEW j \in 0 .. (n - 1) - 1
      PROVE  \E k \in 1 .. n - 1 : b[j] = a[k]
  BY <1>1
<1>7. ASSUME NEW k \in 1 .. n - 1
      PROVE  \E j \in 0 .. (n - 1) - 1 : b[j] = a[k]
  <2>1. CASE k = n - 1
    <3>1. 0 \in 0 .. (n - 1) - 1
      OBVIOUS
    <3>. QED
      BY <2>1, <3>1
  <2>2. CASE k # n - 1
    <3>1. k \in 1 .. n - 2 /\ k \in 0 .. (n - 1) - 1
      BY <2>2
    <3>. QED
      BY <3>1
  <2>. QED
    BY <2>1, <2>2
<1>8. HeldBy(b, n - 1) = {a[k] : k \in 1 .. n - 1}
  BY <1>6, <1>7 DEF HeldBy
<1>9. HeldBy(a, n) \ {a[0]} = {a[k] : k \in 1 .. n - 1}
  BY <1>3 DEF HeldBy
<1>. QED
  BY <1>4, <1>5, <1>8, <1>9 DEF HoldsEach

-----------------------------------------------------------------------------
(* Which frames are in the middle of a change                              *)

LEMMA WholeStays ==
    ASSUME Whole, UNCHANGED <<timeout, timerq, taskq, stack, dropped, ran>>
    PROVE  Whole'
<1>1. Top' = Top
  BY DEF Top
<1>2. TimerSlots' = TimerSlots /\ TaskSlots' = TaskSlots
  BY <1>1 DEF TimerSlots, TaskSlots
<1>3. InTimerq' = InTimerq /\ InTaskq' = InTaskq /\ OnStack' = OnStack /\ HasRun' = HasRun
      /\ Fresh' = Fresh
  BY <1>2 DEF InTimerq, InTaskq, OnStack, HasRun, Fresh, HeldBy
<1>4. OneChanges'
  BY DEF Whole, OneChanges
<1>5. ReadsHold'
  BY <1>1 DEF Whole, ReadsHold
<1>6. OnePlace'
  BY <1>2, <1>3 DEF Whole, OnePlace
<1>7. Ordered'
  <2>1. CASE Top.pc = "sift"
    BY <1>1, <1>2, <2>1 DEF Whole, Ordered, HeapRising, HeapBut
  <2>2. CASE Top.pc # "sift"
    BY <1>1, <2>2 DEF Whole, Ordered, HeapBut
  <2>. QED
    BY <2>1, <2>2
<1>. QED
  BY <1>4, <1>5, <1>6, <1>7 DEF Whole

\* What a step of the running frame does to the stack.
LEMMA WholeGoto ==
    ASSUME Basic, OneChanges, Apart(stack), Top.pc # "shell",
           NEW f \in Frame, f.pc # "shell", Goto(f),
           Top.pc # "loop" \/ taskq.size > 0, f.pc = "grow" => f.i = timerq'.size
    PROVE  /\ Top' = f /\ OneChanges' /\ Load(Top) \subseteq OnStack
           /\ OnStack' = (OnStack \ Load(Top)) \cup Load(f)
           /\ Load(f) \cap (OnStack \ Load(Top)) = {} => Apart(stack)'
<1>1. /\ stack' \in Seq(Frame) /\ ReplacesTop(stack, stack', f)
      /\ stack \in Seq(Frame) /\ Len(stack) > 0 /\ Top = stack[Len(stack)]
      /\ DOMAIN stack = 1 .. Len(stack) /\ Len(stack) \in Nat
  BY GotoBasic, TopKnown DEF Basic, Goto, Typed
<1>2. Top' = f /\ Len(stack') = Len(stack) /\ DOMAIN stack' = DOMAIN stack
  BY <1>1 DEF ReplacesTop, Top
<1>3. \A k \in DOMAIN stack : k < Len(stack) => stack[k].pc # "grow"
  <2>1. SUFFICES ASSUME NEW k \in DOMAIN stack, k < Len(stack), stack[k].pc = "grow"
                 PROVE  FALSE
    OBVIOUS
  <2>2. taskq.size = 0 /\ \A m \in k + 1 .. Len(stack) : stack[m].pc = "loop"
    BY <2>1 DEF OneChanges
  <2>. QED
    BY <1>1, <2>1, <2>2
<1>4. OneChanges'
  <2>1. ASSUME NEW k \in DOMAIN stack'
        PROVE  /\ stack'[k].pc \in {"sift", "top", "size", "last", "sink"} => k = Len(stack')
               /\ stack'[k].pc = "grow" => k = Len(stack') /\ stack'[k].i = timerq'.size
    BY <1>1, <1>2, <1>3 DEF ReplacesTop, OneChanges
  <2>. QED
    BY <1>1, <1>2, <2>1 DEF OneChanges
<1>5. /\ Loads(stack') = (Loads(stack) \ Load(Top)) \cup Load(f)
      /\ Load(f) \cap (Loads(stack) \ Load(Top)) = {} => Apart(stack')
      /\ Load(Top) \subseteq Loads(stack)
  BY <1>1, LoadsReplaced
<1>. QED
  BY <1>2, <1>4, <1>5 DEF OnStack

LEMMA WholeDone ==
    ASSUME Basic, OneChanges, Apart(stack), Top.pc \in {"enable", "loop"}, Done,
           UNCHANGED <<timerq, taskq>>
    PROVE  /\ Top'.pc \notin {"sift", "top", "size", "last", "sink"} /\ OneChanges'
           /\ OnStack' = OnStack /\ Apart(stack)'
           /\ Len(stack') < Len(stack)
<1>1. /\ stack' \in Seq(Frame) /\ Shrinks(stack, stack') /\ Len(stack') = Len(stack) - 1
      /\ stack \in Seq(Frame) /\ Len(stack) > 1 /\ Top = stack[Len(stack)]
      /\ DOMAIN stack = 1 .. Len(stack) /\ Len(stack) \in Nat
      /\ DOMAIN stack' = 1 .. Len(stack) - 1
  BY DoneBasic, NotTheShell, TopKnown DEF Basic, Typed, Shrinks
<1>2. \A k \in DOMAIN stack' : k \in DOMAIN stack /\ stack'[k] = stack[k] /\ k < Len(stack)
  BY <1>1 DEF Shrinks
<1>3. ASSUME NEW k \in DOMAIN stack'
      PROVE  /\ stack'[k].pc \notin {"sift", "top", "size", "last", "sink"}
             /\ stack'[k].pc = "grow" =>
                   /\ stack'[k].i = timerq.size /\ timerq.size = 0 /\ taskq.size = 0
                   /\ \A m \in k + 1 .. Len(stack) : stack[m].pc = "loop"
  BY <1>1, <1>2 DEF OneChanges
<1>4. OneChanges'
  BY <1>1, <1>2, <1>3 DEF OneChanges
<1>5. Top'.pc \notin {"sift", "top", "size", "last", "sink"}
  BY <1>1, <1>3 DEF Top
<1>6. Loads(stack') = Loads(stack) /\ Apart(stack')
  BY <1>1, LoadsShrunk DEF Load
<1>. QED
  BY <1>1, <1>4, <1>5, <1>6 DEF OnStack

\* No frame is in the middle of a change that an interrupt could disturb.
Quiet ==
    \A k \in DOMAIN stack :
        /\ stack[k].pc \notin {"sift", "top", "size", "last", "sink"}
        /\ stack[k].pc = "grow" => timerq.size = 0 /\ taskq.size = 0

LEMMA NotHit ==
    ASSUME Basic, OneChanges, ReadsHold, "queue" \notin Hits
    PROVE  Quiet
<1>1. Frames({"top", "size", "last", "sink"}) = {}
      /\ (Frames({"grow", "sift"}) # {} => ~ timerq.size + taskq.size > 0)
  BY DEF Hits
<1>2. timerq.size \in Nat /\ taskq.size \in Nat
  BY TimerAssumption DEF Basic, Typed, Queue
<1>3. Frames({"grow", "sift"}) # {} => timerq.size = 0 /\ taskq.size = 0
  BY <1>1, <1>2
<1>4. ASSUME NEW k \in DOMAIN stack
      PROVE  /\ stack[k].pc \notin {"sift", "top", "size", "last", "sink"}
             /\ stack[k].pc = "grow" => timerq.size = 0 /\ taskq.size = 0
  <2>1. stack[k].pc \in {"top", "size", "last", "sink"} =>
           k \in Frames({"top", "size", "last", "sink"})
    BY DEF Frames
  <2>2. stack[k].pc \in {"grow", "sift"} => k \in Frames({"grow", "sift"})
    BY DEF Frames
  <2>3. stack[k].pc = "sift" => timerq.size # 0
    <3>1. stack[k].pc = "sift" => Top.pc = "sift"
      BY DEF OneChanges, Top
    <3>2. Top.pc = "sift" => Top.i < timerq.size /\ Top.i \in Slots
      BY TopKnown, FrameKinds DEF ReadsHold, Basic
    <3>. QED
      BY <3>1, <3>2 DEF Slots
  <2>. QED
    BY <1>1, <1>3, <2>1, <2>2, <2>3
<1>. QED
  BY <1>4 DEF Quiet

\* What an interrupt does to the stack.
LEMMA WholePush ==
    ASSUME Basic, OneChanges, Apart(stack), Quiet, NEW f \in Frame, f.pc \in {"loop", "wild"},
           stack' = Append(stack, f),
           timerq.size = 0 /\ taskq.size = 0
               => f.pc = "loop" /\ timerq'.size = 0 /\ taskq'.size = 0
    PROVE  /\ Top' = f /\ OneChanges' /\ OnStack' = OnStack /\ Apart(stack)'
           /\ Top.pc \notin {"sift", "top", "size", "last", "sink"}
<1>1. /\ stack' \in Seq(Frame) /\ Grows(stack, stack', f) /\ Len(stack') = Len(stack) + 1
      /\ stack \in Seq(Frame) /\ Len(stack) \in DOMAIN stack /\ Top = stack[Len(stack)]
      /\ DOMAIN stack = 1 .. Len(stack) /\ Len(stack) \in Nat
      /\ DOMAIN stack' = 1 .. Len(stack) + 1
  BY PushBasic, TopKnown DEF Basic, Typed
<1>2. ASSUME NEW k \in 1 .. Len(stack) + 1
      PROVE  \/ k = Len(stack) + 1 /\ stack'[k] = f
             \/ k \in DOMAIN stack /\ stack'[k] = stack[k] /\ k <= Len(stack)
  BY <1>1 DEF Grows
<1>3. Top' = f
  BY <1>1 DEF Grows, Top
<1>4. ASSUME NEW k \in DOMAIN stack'
      PROVE  stack'[k].pc \notin {"sift", "top", "size", "last", "sink"}
  BY <1>1, <1>2 DEF Quiet
<1>5. ASSUME NEW k \in DOMAIN stack', stack'[k].pc = "grow"
      PROVE  /\ stack'[k].i = timerq'.size /\ timerq'.size = 0 /\ taskq'.size = 0
             /\ \A m \in k + 1 .. Len(stack') : stack'[m].pc = "loop"
  <2>1. k \in DOMAIN stack /\ stack'[k] = stack[k] /\ k <= Len(stack)
    BY <1>1, <1>2, <1>5
  <2>2. timerq.size = 0 /\ taskq.size = 0 /\ stack[k].i = timerq.size
    BY <1>5, <2>1 DEF Quiet, OneChanges
  <2>3. f.pc = "loop" /\ timerq'.size = 0 /\ taskq'.size = 0
    BY <2>2
  <2>4. ASSUME NEW m \in k + 1 .. Len(stack')
        PROVE  stack'[m].pc = "loop"
    <3>1. m \in 1 .. Len(stack) + 1 /\ k \in Nat /\ k < m
      BY <1>1, <2>1
    <3>2. CASE m = Len(stack) + 1
      BY <1>2, <2>3, <3>1, <3>2
    <3>3. CASE m # Len(stack) + 1
      <4>1. m \in k + 1 .. Len(stack) /\ k < Len(stack) /\ stack'[m] = stack[m]
        BY <1>1, <1>2, <2>1, <3>1, <3>3
      <4>. QED
        BY <1>5, <2>1, <4>1 DEF OneChanges
    <3>. QED
      BY <3>2, <3>3
  <2>. QED
    BY <2>1, <2>2, <2>3, <2>4
<1>6. OneChanges'
  BY <1>4, <1>5 DEF OneChanges
<1>7. Load(f) = {}
  BY DEF Load
<1>8. Loads(stack') = Loads(stack) /\ Apart(stack')
  <2>1. Loads(stack') = Loads(stack) \cup Load(f)
        /\ (Load(f) \cap Loads(stack) = {} => Apart(stack'))
    BY <1>1, LoadsGrown
  <2>. QED
    BY <1>7, <2>1
<1>9. Top.pc \notin {"sift", "top", "size", "last", "sink"}
  BY <1>1 DEF Quiet
<1>. QED
  BY <1>3, <1>6, <1>8, <1>9 DEF OnStack

-----------------------------------------------------------------------------
(* How the order changes                                                   *)

\* Times that are not those of tasks in the queue do not matter.
LEMMA HeapStays ==
    ASSUME NEW a, NEW n \in Nat, HeapBut(a, n, 0), timerq'.tasks = a, timerq'.size = n,
           \A j \in 0 .. n - 1 : timeout'[a[j]] = timeout[a[j]]
    PROVE  HeapBut(timerq.tasks, timerq.size, 0)'
<1>1. \A j \in 1 .. n - 1 : j \in 0 .. n - 1 /\ Parent(j) \in 0 .. n - 1
  <2>1. SUFFICES ASSUME NEW j \in 1 .. n - 1
                 PROVE  j \in 0 .. n - 1 /\ Parent(j) \in 0 .. n - 1
    OBVIOUS
  <2>2. Parent(j) \in Nat /\ Parent(j) < j
    BY ParentBelow
  <2>. QED
    BY <2>2
<1>. QED
  BY <1>1 DEF HeapBut

\* Something is put at the end, to rise from there.
LEMMA HeapGrows ==
    ASSUME timeout \in [Ids -> Int], NEW a, NEW b, NEW n \in Nat, HeapBut(a, n, 0), Same(a, b, n)
    PROVE  HeapRising(b, n + 1, n)
<1>1. \A j \in 1 .. n : Parent(j) \in 0 .. n - 1
  <2>1. SUFFICES ASSUME NEW j \in 1 .. n
                 PROVE  Parent(j) \in 0 .. n - 1
    OBVIOUS
  <2>2. Parent(j) \in Nat /\ Parent(j) < j
    BY ParentBelow
  <2>. QED
    BY <2>2
<1>2. \A j \in 1 .. n : j = n \/ j \in 1 .. n - 1
  OBVIOUS
<1>3. (n + 1) - 1 = n
  OBVIOUS
<1>4. HeapBut(b, n + 1, n)
  <2>1. \A j \in 1 .. n - 1 : timeout[b[Parent(j)]] <= timeout[b[j]]
    <3>1. \A j \in 1 .. n - 1 : j # 0 /\ b[j] = a[j] /\ b[Parent(j)] = a[Parent(j)]
      BY <1>1, <1>2 DEF Same
    <3>. QED
      BY <3>1 DEF HeapBut
  <2>. QED
    BY <1>2, <1>3, <2>1 DEF HeapBut
<1>5. \A j \in 1 .. (n + 1) - 1 : Parent(j) # n
  BY <1>1, <1>3
<1>. QED
  BY <1>4, <1>5 DEF HeapRising

\* One turn of the loop.
LEMMA HeapRises ==
    ASSUME timeout \in [Ids -> Int], NEW n \in Nat, NEW i \in 1 .. n - 1,
           NEW a, NEW b, Filled(a, n), Swaps(a, b, n, i, Parent(i)),
           timeout[a[Parent(i)]] > timeout[a[i]], HeapRising(a, n, i)
    PROVE  HeapRising(b, n, Parent(i))
<1>. DEFINE p == Parent(i)
            T(x) == timeout[x]
<1>1. p \in Nat /\ p < i /\ p \in 0 .. n - 1
  BY ParentBelow
<1>2. \A j \in 1 .. n - 1 : Parent(j) \in 0 .. n - 1 /\ Parent(j) < j
  <2>1. SUFFICES ASSUME NEW j \in 1 .. n - 1
                 PROVE  Parent(j) \in 0 .. n - 1 /\ Parent(j) < j
    OBVIOUS
  <2>2. Parent(j) \in Nat /\ Parent(j) < j
    BY ParentBelow
  <2>. QED
    BY <2>2
<1>3. \A j \in 0 .. n - 1 : a[j] \in Ids /\ T(a[j]) \in Int
  BY DEF Filled
<1>4. b[i] = a[p] /\ b[p] = a[i] /\ \A j \in 0 .. n - 1 : j # i /\ j # p => b[j] = a[j]
  BY DEF Swaps
<1>5. \A j \in 1 .. n - 1 : j # i => T(a[Parent(j)]) <= T(a[j])
  BY DEF HeapRising, HeapBut
<1>6. \A j \in 1 .. n - 1 : Parent(j) = i => T(a[p]) <= T(a[j])
  BY DEF HeapRising
<1>7. T(a[p]) > T(a[i])
  OBVIOUS
<1>. HIDE DEF p, T
<1>8. ASSUME NEW j \in 1 .. n - 1, j # p
      PROVE  T(b[Parent(j)]) <= T(b[j])
  <2>1. CASE j = i
    BY <1>1, <1>3, <1>4, <1>7, <2>1 DEF p
  <2>2. CASE j # i /\ Parent(j) = i
    BY <1>1, <1>2, <1>4, <1>6, <1>8, <2>2
  <2>3. CASE j # i /\ Parent(j) = p
    <3>1. T(a[p]) <= T(a[j]) /\ b[j] = a[j] /\ b[Parent(j)] = a[i]
      BY <1>2, <1>4, <1>5, <1>8, <2>3
    <3>2. T(a[p]) \in Int /\ T(a[j]) \in Int /\ T(a[i]) \in Int
      BY <1>1, <1>3
    <3>. QED
      BY <1>7, <3>1, <3>2
  <2>4. CASE j # i /\ Parent(j) # i /\ Parent(j) # p
    BY <1>2, <1>4, <1>5, <1>8, <2>4
  <2>. QED
    BY <2>1, <2>2, <2>3, <2>4
<1>9. ASSUME NEW j \in 1 .. n - 1, Parent(j) = p, p > 0
      PROVE  T(b[Parent(p)]) <= T(b[j])
  <2>1. p \in 1 .. n - 1 /\ Parent(p) \in 0 .. n - 1 /\ Parent(p) < p /\ p # i
    BY <1>1, <1>2, <1>9
  <2>2. b[Parent(p)] = a[Parent(p)] /\ T(a[Parent(p)]) <= T(a[p])
    BY <1>1, <1>4, <1>5, <2>1
  <2>3. CASE j = i
    BY <1>4, <2>2, <2>3
  <2>4. CASE j # i
    <3>1. T(a[p]) <= T(a[j]) /\ b[j] = a[j]
      BY <1>2, <1>4, <1>5, <1>9, <2>4
    <3>2. T(a[Parent(p)]) \in Int /\ T(a[p]) \in Int /\ T(a[j]) \in Int
      BY <1>1, <1>3, <2>1
    <3>. QED
      BY <2>2, <3>1, <3>2
  <2>. QED
    BY <2>3, <2>4
<1>. QED
  BY <1>8, <1>9 DEF HeapRising, HeapBut, p, T

\* The end of the loop.
LEMMA HeapRisen ==
    ASSUME NEW n \in Nat, NEW a, NEW i \in 0 .. n - 1, HeapRising(a, n, i),
           i = 0 \/ timeout[a[Parent(i)]] <= timeout[a[i]]
    PROVE  HeapBut(a, n, 0)
BY DEF HeapRising, HeapBut

-----------------------------------------------------------------------------
(* Every task stays in one place, in order                                 *)

LEMMA InitWhole == Init => Whole
<1>. SUFFICES ASSUME Init
              PROVE  Whole
  OBVIOUS
<1>1. stack = <<Shell>> /\ Len(stack) = 1 /\ DOMAIN stack = {1} /\ Top = Shell
  BY DEF Init, Top
<1>2. timerq.size = 0 /\ taskq.size = 0 /\ dropped = {} /\ Fresh = Ids /\ HasRun = {}
      /\ \A t \in Ids : ran[t] = 0
  BY DEF Init, Fresh, HasRun
<1>3. OneChanges /\ ReadsHold
  BY <1>1 DEF OneChanges, ReadsHold, Shell
<1>4. OnStack = {} /\ Apart(stack)
  BY <1>1 DEF OnStack, Loads, Load, Apart, Shell
<1>5. InTimerq = {} /\ InTaskq = {}
  BY <1>2 DEF InTimerq, InTaskq, HeldBy
<1>6. HoldsEach(TimerSlots, timerq.size) /\ HoldsEach(TaskSlots, taskq.size)
  BY <1>2 DEF HoldsEach, Filled, Distinct
<1>7. OnePlace
  BY <1>2, <1>4, <1>5, <1>6 DEF OnePlace, Parted
<1>8. Ordered
  BY <1>1, <1>2 DEF Ordered, Shell, HeapBut
<1>. QED
  BY <1>3, <1>7, <1>8 DEF Whole

\* What a state in order says of the running frame.
LEMMA WholeKnown ==
    ASSUME Basic, Whole
    PROVE  /\ OneChanges /\ ReadsHold /\ OnePlace /\ Ordered /\ Apart(stack)
           /\ Top \in Frame /\ timerq \in Queue /\ taskq \in Queue
           /\ timeout \in [Ids -> Int] /\ ran \in [Ids -> Nat] /\ dropped \subseteq Ids
           /\ timerq.size \in Nat /\ taskq.size \in Nat
           /\ timerq.size <= TASK_MAX_SIZE /\ taskq.size <= TASK_MAX_SIZE
           /\ HoldsEach(TimerSlots, timerq.size) /\ HoldsEach(TaskSlots, taskq.size)
           /\ Parted(InTimerq, InTaskq, OnStack, HasRun, dropped, Ids \ Fresh)
           /\ Top.pc # "sift" => TimerSlots = timerq.tasks
           /\ Top.pc # "sink" => TaskSlots = taskq.tasks
           /\ Top.pc # "sift" => HeapBut(timerq.tasks, timerq.size, 0)
BY TopKnown, TimerAssumption
   DEF Basic, Typed, Whole, OnePlace, TimerSlots, TaskSlots, Ordered, Queue

\* A step of the running frame that touches no queue, keeps the task it holds
\* or drops it, and may read the task queue.
LEMMA WholeMoves ==
    ASSUME Basic, Whole, Top.pc \notin {"shell", "sift", "sink"},
           NEW f \in Frame, f.pc \notin {"shell", "sift", "sink"}, Goto(f),
           Top.pc # "loop" \/ taskq.size > 0,
           f.pc = "grow" => f.i = timerq.size,
           f.pc \in {"top", "size"} => taskq.size > 0,
           f.pc \in {"size", "last"} => f.task = taskq.tasks[0],
           f.pc = "last" => f.size = taskq.size,
           Load(f) \subseteq Load(Top), dropped' = dropped \cup (Load(Top) \ Load(f)),
           UNCHANGED <<timeout, timerq, taskq, ran>>
    PROVE  Whole'
<1>0. /\ OneChanges /\ Apart(stack) /\ OnePlace /\ Ordered
      /\ Parted(InTimerq, InTaskq, OnStack, HasRun, dropped, Ids \ Fresh)
      /\ HoldsEach(TimerSlots, timerq.size) /\ HoldsEach(TaskSlots, taskq.size)
      /\ TimerSlots = timerq.tasks /\ TaskSlots = taskq.tasks
  BY WholeKnown
<1>1. /\ Top' = f /\ OneChanges' /\ Load(Top) \subseteq OnStack /\ Apart(stack)'
      /\ OnStack' = (OnStack \ Load(Top)) \cup Load(f)
  BY <1>0, WholeGoto
<1>2. TimerSlots' = TimerSlots /\ TaskSlots' = TaskSlots
  BY <1>0, <1>1 DEF TimerSlots, TaskSlots
<1>3. InTimerq' = InTimerq /\ InTaskq' = InTaskq /\ HasRun' = HasRun /\ Fresh' = Fresh
  BY <1>2 DEF InTimerq, InTaskq, HeldBy, HasRun, Fresh
<1>4. ReadsHold'
  BY <1>1 DEF ReadsHold
<1>5. Parted(InTimerq, InTaskq, OnStack, HasRun, dropped, Ids \ Fresh)'
  BY <1>0, <1>1, <1>3 DEF Parted
<1>6. OnePlace'
  BY <1>0, <1>1, <1>2, <1>5 DEF OnePlace
<1>7. Ordered'
  BY <1>0, <1>1 DEF Ordered, HeapBut
<1>. QED
  BY <1>1, <1>4, <1>6, <1>7 DEF Whole

LEMMA WholeGrow ==
    ASSUME Basic, Whole, AddGrow
    PROVE  Whole'
<1>. DEFINE n == timerq.size
            f == [pc |-> "sift", task |-> Top.task, i |-> n]
<1>0. /\ OneChanges /\ ReadsHold /\ OnePlace /\ Ordered /\ Apart(stack) /\ Top \in Frame
      /\ timerq \in Queue /\ timeout \in [Ids -> Int] /\ n \in Nat
      /\ HoldsEach(timerq.tasks, n) /\ HoldsEach(TaskSlots, taskq.size)
      /\ Parted(InTimerq, InTaskq, OnStack, HasRun, dropped, Ids \ Fresh)
      /\ TimerSlots = timerq.tasks /\ HeapBut(timerq.tasks, n, 0) /\ TaskSlots = taskq.tasks
  BY WholeKnown DEF AddGrow
<1>1. /\ Top.pc = "grow" /\ Top.task \in Ids /\ Top.i = n /\ n \in Slots
      /\ [Top EXCEPT !.pc = "sift"] = f
  <2>1. Top.pc = "grow" /\ Top.task \in Ids /\ Top.i \in Slots
        /\ Top = [pc |-> "grow", task |-> Top.task, i |-> Top.i]
    BY <1>0, FrameKinds DEF AddGrow
  <2>2. Top.i = n
    BY <2>1, TopKnown DEF OneChanges, Whole, Basic
  <2>. QED
    BY <2>1, <2>2
<1>2. /\ timerq'.size = n + 1 /\ timerq'.tasks = timerq.tasks
      /\ Goto(f) /\ UNCHANGED <<timeout, taskq, dropped, ran>>
  BY <1>0, <1>1 DEF AddGrow, Grown, Queue
<1>3. f \in Frame /\ f.pc = "sift" /\ f.task = Top.task /\ f.i = n
  BY <1>1, FrameMade
<1>4. Load(f) = {} /\ Load(Top) = {Top.task}
  BY <1>1, <1>3 DEF Load
<1>. HIDE DEF f
<1>5. Top' = f /\ OneChanges' /\ Top.task \in OnStack /\ OnStack' = OnStack \ {Top.task}
      /\ Apart(stack)'
  <2>1. /\ Top' = f /\ OneChanges' /\ Load(Top) \subseteq OnStack
        /\ OnStack' = (OnStack \ Load(Top)) \cup Load(f)
        /\ Load(f) \cap (OnStack \ Load(Top)) = {} => Apart(stack)'
    BY <1>0, <1>1, <1>2, <1>3, WholeGoto
  <2>. QED
    BY <1>4, <2>1
<1>6. TimerSlots' = [timerq.tasks EXCEPT ![n] = Top.task] /\ TaskSlots' = TaskSlots
  BY <1>0, <1>2, <1>3, <1>5 DEF TimerSlots, TaskSlots
<1>7. Same(timerq.tasks, TimerSlots', n) /\ TimerSlots'[n] = Top.task
  <2>1. n \in DOMAIN timerq.tasks /\ \A j \in 0 .. n - 1 : j # n
    BY <1>0, <1>1 DEF Queue
  <2>2. \A j \in 0 .. n - 1 : j \in DOMAIN timerq.tasks
    BY <1>0, <1>1, TimerAssumption DEF Queue, Slots
  <2>. QED
    BY <1>6, <2>1, <2>2 DEF Same
<1>8. InTimerq = HeldBy(timerq.tasks, n) /\ Top.task \notin InTimerq
  BY <1>0, <1>5 DEF InTimerq, Parted
<1>9. HoldsEach(TimerSlots', n + 1) /\ HeldBy(TimerSlots', n + 1) = InTimerq \cup {Top.task}
  BY <1>0, <1>1, <1>7, <1>8, OneMore
<1>10. HoldsEach(TimerSlots, timerq.size)' /\ InTimerq' = InTimerq \cup {Top.task}
  BY <1>2, <1>9 DEF InTimerq
<1>11. InTaskq' = InTaskq /\ HasRun' = HasRun /\ Fresh' = Fresh
  BY <1>2, <1>6 DEF InTaskq, HasRun, Fresh
<1>12. Parted(InTimerq, InTaskq, OnStack, HasRun, dropped, Ids \ Fresh)'
  BY <1>0, <1>2, <1>5, <1>10, <1>11 DEF Parted
<1>13. OnePlace'
  BY <1>0, <1>2, <1>5, <1>6, <1>10, <1>12 DEF OnePlace
<1>14. HeapRising(TimerSlots', n + 1, n)
  BY <1>0, <1>7, HeapGrows
<1>15. Ordered'
  BY <1>2, <1>3, <1>5, <1>14 DEF Ordered, HeapRising, HeapBut
<1>16. ReadsHold'
  BY <1>0, <1>2, <1>3, <1>5 DEF ReadsHold
<1>. QED
  BY <1>5, <1>13, <1>15, <1>16 DEF Whole

\* A turn of the loop exchanges the rising task and its parent.
LEMMA WholeSift ==
    ASSUME Basic, Whole, AddSift
    PROVE  Whole'
<1>. DEFINE n == timerq.size
            i == Top.i
            p == Parent(i)
<1>0. /\ OneChanges /\ ReadsHold /\ OnePlace /\ Ordered /\ Apart(stack) /\ Top \in Frame
      /\ timerq \in Queue /\ timeout \in [Ids -> Int] /\ n \in Nat /\ n <= TASK_MAX_SIZE
      /\ HoldsEach(TimerSlots, n) /\ HoldsEach(TaskSlots, taskq.size)
      /\ Parted(InTimerq, InTaskq, OnStack, HasRun, dropped, Ids \ Fresh)
      /\ TaskSlots = taskq.tasks
  BY WholeKnown DEF AddSift
<1>1. /\ Top.pc = "sift" /\ Top.task \in Ids /\ i \in Slots
      /\ Top = [pc |-> "sift", task |-> Top.task, i |-> i]
  BY <1>0, FrameKinds DEF AddSift
<1>2. i \in 0 .. n - 1 /\ TimerSlots = [timerq.tasks EXCEPT ![i] = Top.task]
      /\ HeapRising(TimerSlots, n, i)
  BY <1>0, <1>1 DEF ReadsHold, TimerSlots, Ordered, Slots
<1>3. timerq.tasks \in [Slots -> Ids \cup {Garbage}] /\ \A j \in 0 .. n - 1 : j \in Slots
  BY <1>0, TimerAssumption DEF Queue, Slots
<1>4. TimerSlots[i] = Top.task /\ \A j \in Slots : j # i => TimerSlots[j] = timerq.tasks[j]
  BY <1>1, <1>2, <1>3
<1>5. i > 0 => p \in 0 .. i - 1 /\ p \in 0 .. n - 1 /\ TimerSlots[p] = timerq.tasks[p]
               /\ timerq.tasks[p] \in Ids
  <2>1. SUFFICES ASSUME i > 0
                 PROVE  p \in 0 .. i - 1 /\ p \in 0 .. n - 1 /\ TimerSlots[p] = timerq.tasks[p]
                        /\ timerq.tasks[p] \in Ids
    OBVIOUS
  <2>2. p \in Nat /\ p < i
    BY <1>2, <2>1, ParentBelow
  <2>3. p \in 0 .. i - 1 /\ p \in 0 .. n - 1
    BY <1>0, <1>2, <2>2
  <2>4. TimerSlots[p] = timerq.tasks[p]
    BY <1>3, <1>4, <2>2, <2>3
  <2>. QED
    BY <1>0, <2>3, <2>4 DEF HoldsEach, Filled
<1>6. ~ (i > 0 /\ timerq.tasks[p] = Garbage) /\ UNCHANGED <<timeout, taskq, dropped, ran>>
  BY <1>5, TimerAssumption DEF AddSift, Garbage
<1>7. Load(Top) = {}
  BY <1>1 DEF Load
<1>8. ASSUME NEW f \in Frame, f.pc \in {"sift", "target"}, Goto(f), timerq'.size = n,
             HoldsEach(TimerSlots', n), HeldBy(TimerSlots', n) = HeldBy(TimerSlots, n),
             f.pc = "sift" => f.i < n /\ HeapRising(TimerSlots', n, f.i),
             f.pc = "target" => HeapBut(timerq'.tasks, n, 0)
      PROVE  Whole'
  <2>1. Load(f) = {}
    BY <1>8 DEF Load
  <2>2. Top' = f /\ OneChanges' /\ OnStack' = OnStack /\ Apart(stack)'
    <3>1. /\ Top' = f /\ OneChanges' /\ OnStack' = (OnStack \ Load(Top)) \cup Load(f)
          /\ Load(f) \cap (OnStack \ Load(Top)) = {} => Apart(stack)'
      BY <1>0, <1>1, <1>8, WholeGoto
    <3>. QED
      BY <1>7, <2>1, <3>1
  <2>3. TaskSlots' = TaskSlots
    BY <1>0, <1>6, <1>8, <2>2 DEF TaskSlots
  <2>4. InTimerq' = InTimerq
    BY <1>8 DEF InTimerq
  <2>5. InTaskq' = InTaskq /\ HasRun' = HasRun /\ Fresh' = Fresh
    BY <1>6, <2>3 DEF InTaskq, HasRun, Fresh
  <2>6. Parted(InTimerq, InTaskq, OnStack, HasRun, dropped, Ids \ Fresh)'
    BY <1>0, <1>6, <2>2, <2>4, <2>5 DEF Parted
  <2>7. OnePlace'
    BY <1>0, <1>6, <1>8, <2>2, <2>3, <2>6 DEF OnePlace
  <2>8. Ordered'
    BY <1>6, <1>8, <2>2 DEF Ordered, HeapRising, HeapBut
  <2>9. ReadsHold'
    BY <1>8, <2>2 DEF ReadsHold
  <2>. QED
    BY <2>2, <2>7, <2>8, <2>9 DEF Whole
<1>9. CASE Rises(timerq, Top.task, i)
  <2>. DEFINE f == [pc |-> "sift", task |-> Top.task, i |-> p]
  <2>1. i > 0 /\ timeout[timerq.tasks[p]] > timeout[Top.task] /\ i \in 1 .. n - 1
    BY <1>2, <1>9 DEF Rises
  <2>2. /\ timerq' = [timerq EXCEPT !.tasks[i] = timerq.tasks[p]]
        /\ Goto([Top EXCEPT !.i = Parent(@)])
    BY <1>6, <1>9 DEF AddSift
  <2>3. [Top EXCEPT !.i = Parent(@)] = f
    BY <1>1
  <2>4. f \in Frame /\ f.pc = "sift" /\ f.i = p /\ f.task = Top.task
    <3>1. p \in Slots
      BY <1>3, <1>5, <2>1
    <3>. QED
      BY <1>1, <3>1, FrameMade
  <2>5. Goto(f)
    BY <2>2, <2>3
  <2>. HIDE DEF f
  <2>6. timerq'.size = n /\ timerq'.tasks = [timerq.tasks EXCEPT ![i] = timerq.tasks[p]]
    BY <1>0, <2>2 DEF Queue
  <2>7. Top' = f
    BY <1>0, <1>1, <2>4, <2>5, WholeGoto
  <2>8. TimerSlots' = [timerq'.tasks EXCEPT ![p] = Top.task]
    BY <2>4, <2>7 DEF TimerSlots
  <2>9. Swaps(TimerSlots, TimerSlots', n, i, p)
    <3>1. \A j \in Slots : TimerSlots'[j] = IF j = p THEN Top.task ELSE IF j = i
                                            THEN timerq.tasks[p] ELSE timerq.tasks[j]
      BY <1>3, <2>6, <2>8
    <3>2. i \in Slots /\ p \in Slots /\ i # p
      BY <1>1, <1>2, <1>3, <1>5, <2>1
    <3>3. TimerSlots'[i] = TimerSlots[p] /\ TimerSlots'[p] = TimerSlots[i]
      BY <1>4, <1>5, <2>1, <3>1, <3>2
    <3>4. \A j \in 0 .. n - 1 : j # i /\ j # p => TimerSlots'[j] = TimerSlots[j]
      BY <1>3, <1>4, <3>1
    <3>. QED
      BY <1>2, <1>5, <2>1, <3>3, <3>4 DEF Swaps
  <2>10. HoldsEach(TimerSlots', n) /\ HeldBy(TimerSlots', n) = HeldBy(TimerSlots, n)
    BY <1>0, <2>9, SwapKeeps
  <2>11. HeapRising(TimerSlots', n, p)
    <3>1. Filled(TimerSlots, n) /\ timeout[TimerSlots[p]] > timeout[TimerSlots[i]]
      BY <1>0, <1>4, <1>5, <2>1 DEF HoldsEach
    <3>. QED
      BY <1>0, <1>2, <2>1, <2>9, <3>1, HeapRises
  <2>12. f.i < n
    <3>1. p \in 0 .. n - 1
      BY <1>5, <2>1
    <3>. HIDE DEF p
    <3>. QED
      BY <1>0, <2>4, <3>1
  <2>. QED
    BY <1>8, <2>4, <2>5, <2>6, <2>10, <2>11, <2>12
<1>10. CASE ~ Rises(timerq, Top.task, i)
  <2>. DEFINE f == [pc |-> "target"]
  <2>1. /\ timerq' = [timerq EXCEPT !.tasks[i] = Top.task] /\ Goto(f)
    BY <1>6, <1>10 DEF AddSift
  <2>2. f \in Frame /\ f.pc = "target"
    BY FrameMade
  <2>. HIDE DEF f
  <2>3. timerq'.size = n /\ timerq'.tasks = TimerSlots
    BY <1>0, <1>2, <2>1 DEF Queue
  <2>4. Top' = f
    BY <1>0, <1>1, <2>1, <2>2, WholeGoto
  <2>5. TimerSlots' = TimerSlots
    BY <2>2, <2>3, <2>4 DEF TimerSlots
  <2>6. i = 0 \/ timeout[TimerSlots[p]] <= timeout[TimerSlots[i]]
    <3>1. SUFFICES ASSUME i > 0
                   PROVE  timeout[TimerSlots[p]] <= timeout[TimerSlots[i]]
      BY <1>2
    <3>2. timeout[timerq.tasks[p]] \in Int /\ timeout[Top.task] \in Int
          /\ ~ timeout[timerq.tasks[p]] > timeout[Top.task]
      BY <1>0, <1>1, <1>5, <1>10, <3>1 DEF Rises
    <3>. QED
      BY <1>4, <1>5, <3>1, <3>2
  <2>7. HeapBut(TimerSlots, n, 0)
    BY <1>0, <1>2, <2>6, HeapRisen
  <2>. QED
    BY <1>0, <1>8, <2>1, <2>2, <2>3, <2>5, <2>7
<1>. QED
  BY <1>9, <1>10

LEMMA WholeAdd ==
    ASSUME Basic, Whole, "queue" \notin cut',
           AddTest \/ AddLoad \/ AddGrow \/ AddSift \/ AddTarget \/ AddArm
    PROVE  Whole'
<1>0. Top \in Frame
  BY WholeKnown
<1>8. CASE AddLoad
  <2>1. /\ Top.task \in Ids /\ Top.pc = "load" /\ Load(Top) = {Top.task}
        /\ UNCHANGED <<timeout, timerq, taskq, ran, dropped>>
    BY <1>0, <1>8, FrameKinds DEF AddLoad, Load
  <2>2. ~ Full(timerq) /\ Goto([pc |-> "grow", task |-> Top.task, i |-> timerq.size])
    BY <1>8 DEF AddLoad
  <2>. DEFINE f == [pc |-> "grow", task |-> Top.task, i |-> timerq.size]
  <2>3. timerq.size \in Slots
    BY <2>2, WholeKnown, TimerAssumption DEF Queue, Slots, Full
  <2>4. f \in Frame /\ f.pc = "grow" /\ Load(f) = {Top.task} /\ f.i = timerq.size
    BY <2>1, <2>3, FrameMade DEF Load
  <2>5. Goto(f)
    BY <2>2
  <2>. HIDE DEF f
  <2>6. Load(f) \subseteq Load(Top) /\ dropped' = dropped \cup (Load(Top) \ Load(f))
    BY <2>1, <2>4
  <2>. QED
    BY <2>1, <2>4, <2>5, <2>6, WholeMoves
<1>1. CASE AddTest
  <2>1. Top.task \in Ids /\ Top.pc = "add" /\ Load(Top) = {Top.task}
        /\ UNCHANGED <<timeout, timerq, taskq, ran>>
    BY <1>0, <1>1, FrameKinds DEF AddTest, Load
  <2>2. CASE Full(timerq)
    <3>. DEFINE f == [pc |-> "enable"]
    <3>1. f \in Frame /\ f.pc = "enable" /\ Load(f) = {}
      BY FrameMade DEF Load
    <3>2. Goto(f) /\ dropped' = dropped \cup {Top.task}
      BY <1>1, <2>2 DEF AddTest
    <3>. HIDE DEF f
    <3>3. Load(f) \subseteq Load(Top) /\ dropped' = dropped \cup (Load(Top) \ Load(f))
      BY <2>1, <3>1, <3>2
    <3>. QED
      BY <2>1, <3>1, <3>2, <3>3, WholeMoves
  <2>3. CASE ~ Full(timerq)
    <3>. DEFINE f == [pc |-> "load", task |-> Top.task]
    <3>2. f \in Frame /\ f.pc = "load" /\ Load(f) = {Top.task}
      BY <2>1, FrameMade DEF Load
    <3>3. Goto(f) /\ dropped' = dropped
      BY <1>1, <2>3 DEF AddTest
    <3>. HIDE DEF f
    <3>4. Load(f) \subseteq Load(Top) /\ dropped' = dropped \cup (Load(Top) \ Load(f))
      BY <2>1, <3>2, <3>3
    <3>. QED
      BY <2>1, <3>2, <3>3, <3>4, WholeMoves
  <2>. QED
    BY <2>2, <2>3
<1>2. ASSUME NEW f \in Frame, f.pc \in {"wild", "arm", "enable"}, Goto(f),
             Top.pc \in {"target", "arm"}, UNCHANGED <<timeout, timerq, taskq, ran, dropped>>
      PROVE  Whole'
  <2>1. Load(f) = {} /\ Load(Top) = {}
    BY <1>2 DEF Load
  <2>2. Load(f) \subseteq Load(Top) /\ dropped' = dropped \cup (Load(Top) \ Load(f))
    BY <1>2, <2>1
  <2>. QED
    BY <1>2, <2>2, WholeMoves
<1>3. CASE AddTarget
  <2>1. Top.pc = "target" /\ UNCHANGED <<timeout, timerq, taskq, ran, dropped>>
    BY <1>3 DEF AddTarget
  <2>2. CASE timerq.tasks[0] = Garbage
    <3>1. [pc |-> "wild"] \in Frame /\ Goto([pc |-> "wild"])
      BY <1>3, <2>2, FrameMade DEF AddTarget, GoWild
    <3>. QED
      BY <1>2, <2>1, <3>1
  <2>3. CASE timerq.tasks[0] # Garbage
    <3>. DEFINE f == [pc |-> "arm", delay |-> timeout[timerq.tasks[0]] - now]
    <3>1. f \in Frame /\ f.pc = "arm" /\ Goto(f)
      <4>1. timerq.tasks[0] \in Ids
        BY <2>3, WholeKnown, TimerAssumption DEF Queue, Slots
      <4>2. timeout[timerq.tasks[0]] - now \in Int
        BY <4>1 DEF Basic, Typed
      <4>. QED
        BY <1>3, <2>3, <4>2, FrameMade DEF AddTarget
    <3>. HIDE DEF f
    <3>. QED
      BY <1>2, <2>1, <3>1
  <2>. QED
    BY <2>2, <2>3
<1>4. CASE AddArm
  <2>1. Top.pc = "arm" /\ UNCHANGED <<timeout, timerq, taskq, ran, dropped>>
        /\ Goto([pc |-> "enable"]) /\ [pc |-> "enable"] \in Frame
    BY <1>4, FrameMade DEF AddArm
  <2>. QED
    BY <1>2, <2>1
<1>. QED
  BY <1>1, <1>8, <1>3, <1>4, WholeGrow, WholeSift

\* The last task is put at the top, in the place of the one that is taken.
LEMMA WholePop ==
    ASSUME Basic, Whole, PopLast
    PROVE  /\ Whole' /\ InTaskq' \subseteq InTaskq /\ Top.task \in InTaskq
           /\ \E f \in Frame : Goto(f) /\ f.pc = "sink" /\ f.task = Top.task
<1>. DEFINE n == taskq.size
            f == [pc |-> "sink", task |-> Top.task, last |-> taskq.tasks[Top.size - 1], i |-> 0]
<1>0. /\ OneChanges /\ ReadsHold /\ OnePlace /\ Ordered /\ Apart(stack) /\ Top \in Frame
      /\ taskq \in Queue /\ n \in Nat /\ n <= TASK_MAX_SIZE
      /\ HoldsEach(TimerSlots, timerq.size) /\ HoldsEach(taskq.tasks, n)
      /\ Parted(InTimerq, InTaskq, OnStack, HasRun, dropped, Ids \ Fresh)
      /\ TimerSlots = timerq.tasks /\ TaskSlots = taskq.tasks /\ Top.pc = "last"
      /\ UNCHANGED <<timeout, timerq, dropped, ran>>
  BY WholeKnown DEF PopLast
<1>1. Top.task \in Ids /\ Top.size = n /\ n \in 1 .. TASK_MAX_SIZE /\ Top.task = taskq.tasks[0]
  BY <1>0, FrameKinds DEF ReadsHold
<1>2. Goto(f) /\ taskq'.size = n - 1 /\ taskq'.tasks = taskq.tasks
  BY <1>0, <1>1 DEF PopLast, Queue
<1>3. f \in Frame /\ f.pc = "sink" /\ f.task = Top.task /\ f.i = 0 /\ f.last = taskq.tasks[n - 1]
  <2>1. taskq.tasks[n - 1] \in Ids /\ 0 \in Slots
    BY <1>0, <1>1, TimerAssumption DEF HoldsEach, Filled, Slots
  <2>. QED
    BY <1>1, <2>1, FrameMade
<1>4. Load(f) = {Top.task} /\ Load(Top) = {}
  BY <1>0, <1>3 DEF Load
<1>. HIDE DEF f
<1>5. Top.task \in InTaskq /\ InTaskq = HeldBy(taskq.tasks, n)
  BY <1>0, <1>1 DEF InTaskq, HeldBy
<1>6. /\ Top' = f /\ OneChanges' /\ OnStack' = OnStack \cup {Top.task} /\ Apart(stack)'
  <2>1. /\ Top' = f /\ OneChanges' /\ OnStack' = (OnStack \ Load(Top)) \cup Load(f)
        /\ Load(f) \cap (OnStack \ Load(Top)) = {} => Apart(stack)'
    BY <1>0, <1>2, <1>3, WholeGoto
  <2>2. Load(f) \cap OnStack = {}
    BY <1>0, <1>4, <1>5 DEF Parted
  <2>. QED
    BY <1>4, <2>1, <2>2
<1>7. TimerSlots' = TimerSlots /\ TaskSlots' = [taskq.tasks EXCEPT ![0] = taskq.tasks[n - 1]]
  BY <1>0, <1>2, <1>3, <1>6 DEF TimerSlots, TaskSlots
<1>8. TaskSlots'[0] = taskq.tasks[n - 1] /\ \A j \in 1 .. n - 2 : TaskSlots'[j] = taskq.tasks[j]
  <2>1. taskq.tasks \in [Slots -> Ids \cup {Garbage}] /\ 0 \in Slots
        /\ \A j \in 1 .. n - 2 : j \in Slots /\ j # 0
    BY <1>0, <1>1, TimerAssumption DEF Queue, Slots
  <2>. QED
    BY <1>7, <2>1
<1>9. HoldsEach(TaskSlots', n - 1) /\ HeldBy(TaskSlots', n - 1) = InTaskq \ {Top.task}
  BY <1>0, <1>1, <1>5, <1>8, FirstTaken
<1>10. InTaskq' = InTaskq \ {Top.task} /\ HoldsEach(TaskSlots, taskq.size)'
  BY <1>2, <1>9 DEF InTaskq
<1>11. InTimerq' = InTimerq /\ HasRun' = HasRun /\ Fresh' = Fresh
  BY <1>0, <1>7 DEF InTimerq, HasRun, Fresh
<1>12. Parted(InTimerq, InTaskq, OnStack, HasRun, dropped, Ids \ Fresh)'
  BY <1>0, <1>5, <1>6, <1>10, <1>11 DEF Parted
<1>13. OnePlace'
  BY <1>0, <1>6, <1>7, <1>10, <1>12 DEF OnePlace
<1>14. Ordered'
  BY <1>0, <1>3, <1>6 DEF Ordered, HeapBut
<1>15. ReadsHold'
  BY <1>0, <1>1, <1>2, <1>3, <1>6 DEF ReadsHold
<1>16. Whole'
  BY <1>6, <1>13, <1>14, <1>15 DEF Whole
<1>. QED
  BY <1>2, <1>3, <1>5, <1>10, <1>16

LEMMA WholeSink ==
    ASSUME Basic, Whole, PopSink
    PROVE  /\ Whole' /\ InTaskq' = InTaskq
           /\ \E f \in Frame : Goto(f) /\ f.pc \in {"sink", "run"} /\ f.task = Top.task
<1>. DEFINE n == taskq.size
            i == Top.i
            c == Child(taskq, i)
<1>0. /\ OneChanges /\ ReadsHold /\ OnePlace /\ Ordered /\ Apart(stack) /\ Top \in Frame
      /\ taskq \in Queue /\ n \in Nat /\ n <= TASK_MAX_SIZE /\ n \in 0 .. TASK_MAX_SIZE
      /\ HoldsEach(TimerSlots, timerq.size) /\ HoldsEach(TaskSlots, n)
      /\ Parted(InTimerq, InTaskq, OnStack, HasRun, dropped, Ids \ Fresh)
      /\ TimerSlots = timerq.tasks /\ Top.pc = "sink"
      /\ UNCHANGED <<timeout, timerq, dropped, ran>>
  BY WholeKnown DEF PopSink, Queue
<1>1. /\ Top.task \in Ids /\ Top.last \in Ids /\ i \in Slots
      /\ Top = [pc |-> "sink", task |-> Top.task, last |-> Top.last, i |-> i]
  BY <1>0, FrameKinds
<1>2. TaskSlots = [taskq.tasks EXCEPT ![i] = Top.last]
      /\ taskq.tasks \in [Slots -> Ids \cup {Garbage}] /\ \A j \in 0 .. n - 1 : j \in Slots
  BY <1>0, TimerAssumption DEF TaskSlots, Queue, Slots
<1>3. TaskSlots[i] = Top.last /\ \A j \in Slots : j # i => TaskSlots[j] = taskq.tasks[j]
  BY <1>1, <1>2
<1>4. Load(Top) = {Top.task}
  BY <1>0 DEF Load
<1>5. ASSUME NEW f \in Frame, f.pc \in {"sink", "run"}, f.task = Top.task, Goto(f),
             taskq'.size = n, HoldsEach(TaskSlots', n),
             HeldBy(TaskSlots', n) = HeldBy(TaskSlots, n),
             f.pc = "sink" => f.i < n
      PROVE  Whole' /\ InTaskq' = InTaskq
  <2>1. Load(f) = {Top.task}
    BY <1>5 DEF Load
  <2>2. Top' = f /\ OneChanges' /\ OnStack' = OnStack /\ Apart(stack)'
    <3>1. /\ Top' = f /\ OneChanges' /\ Load(Top) \subseteq OnStack
          /\ OnStack' = (OnStack \ Load(Top)) \cup Load(f)
          /\ Load(f) \cap (OnStack \ Load(Top)) = {} => Apart(stack)'
      BY <1>0, <1>5, WholeGoto
    <3>. QED
      BY <1>4, <2>1, <3>1
  <2>3. TimerSlots' = TimerSlots
    BY <1>0, <1>5, <2>2 DEF TimerSlots
  <2>4. InTaskq' = InTaskq
    BY <1>5 DEF InTaskq
  <2>5. InTimerq' = InTimerq /\ HasRun' = HasRun /\ Fresh' = Fresh
    BY <1>0, <2>3 DEF InTimerq, HasRun, Fresh
  <2>6. Parted(InTimerq, InTaskq, OnStack, HasRun, dropped, Ids \ Fresh)'
    BY <1>0, <2>2, <2>4, <2>5 DEF Parted
  <2>7. OnePlace'
    BY <1>0, <1>5, <2>2, <2>3, <2>6 DEF OnePlace
  <2>8. Ordered'
    BY <1>0, <1>5, <2>2 DEF Ordered, HeapBut
  <2>9. ReadsHold'
    BY <1>5, <2>2 DEF ReadsHold
  <2>10. Whole'
    BY <2>2, <2>7, <2>8, <2>9 DEF Whole
  <2>. QED
    BY <2>4, <2>10
<1>6. CASE Sinks(taskq, Top.last, i)
  <2>. DEFINE f == [pc |-> "sink", task |-> Top.task, last |-> Top.last, i |-> c]
  <2>1. c \in 1 .. n - 1 /\ c \in Slots /\ i < c
    BY <1>0, <1>1, <1>6, ChildInside
  <2>2. /\ taskq' = [taskq EXCEPT !.tasks[i] = taskq.tasks[c]]
        /\ Goto([Top EXCEPT !.i = Child(taskq, @)])
    BY <1>6 DEF PopSink
  <2>3. [Top EXCEPT !.i = Child(taskq, @)] = f
    BY <1>1
  <2>4. f \in Frame /\ f.pc = "sink" /\ f.i = c /\ f.task = Top.task /\ f.last = Top.last
    BY <1>1, <2>1, FrameMade
  <2>5. Goto(f)
    BY <2>2, <2>3
  <2>. HIDE DEF f
  <2>6. taskq'.size = n /\ taskq'.tasks = [taskq.tasks EXCEPT ![i] = taskq.tasks[c]]
    BY <1>0, <2>2 DEF Queue
  <2>7. Top' = f
    BY <1>0, <2>4, <2>5, WholeGoto
  <2>8. TaskSlots' = [taskq'.tasks EXCEPT ![c] = Top.last]
    BY <2>4, <2>7 DEF TaskSlots
  <2>. HIDE DEF c
  <2>9. Swaps(TaskSlots, TaskSlots', n, i, c)
    <3>1. \A j \in Slots : TaskSlots'[j] = IF j = c THEN Top.last ELSE IF j = i
                                           THEN taskq.tasks[c] ELSE taskq.tasks[j]
      BY <1>2, <2>6, <2>8
    <3>2. i \in 0 .. n - 1 /\ c \in 0 .. n - 1 /\ i # c
      BY <1>0, <1>1, <2>1 DEF Slots
    <3>3. TaskSlots'[i] = TaskSlots[c] /\ TaskSlots'[c] = TaskSlots[i]
      BY <1>1, <1>3, <2>1, <3>1, <3>2
    <3>4. \A j \in 0 .. n - 1 : j # i /\ j # c => TaskSlots'[j] = TaskSlots[j]
      BY <1>2, <1>3, <3>1
    <3>. QED
      BY <3>2, <3>3, <3>4 DEF Swaps
  <2>10. HoldsEach(TaskSlots', n) /\ HeldBy(TaskSlots', n) = HeldBy(TaskSlots, n)
    BY <1>0, <2>9, SwapKeeps
  <2>11. f.i < n
    BY <1>0, <2>1, <2>4
  <2>. QED
    BY <1>5, <2>4, <2>5, <2>6, <2>10, <2>11
<1>7. CASE ~ Sinks(taskq, Top.last, i)
  <2>. DEFINE f == [pc |-> "run", task |-> Top.task]
  <2>1. taskq' = [taskq EXCEPT !.tasks[i] = Top.last] /\ Goto(f)
    BY <1>7 DEF PopSink
  <2>2. f \in Frame /\ f.pc = "run" /\ f.task = Top.task
    BY <1>1, FrameMade
  <2>. HIDE DEF f
  <2>3. taskq'.size = n /\ taskq'.tasks = TaskSlots
    BY <1>0, <1>2, <2>1 DEF Queue
  <2>4. Top' = f
    BY <1>0, <2>1, <2>2, WholeGoto
  <2>5. TaskSlots' = TaskSlots
    BY <2>2, <2>3, <2>4 DEF TaskSlots
  <2>. QED
    BY <1>0, <1>5, <2>1, <2>2, <2>3, <2>5
<1>. QED
  BY <1>6, <1>7

\* A frame returns that holds nothing.
LEMMA WholeReturns ==
    ASSUME Basic, Whole, Top.pc \in {"enable", "loop"}, Done,
           UNCHANGED <<timeout, timerq, taskq, dropped, ran>>
    PROVE  Whole'
<1>0. /\ OneChanges /\ ReadsHold /\ OnePlace /\ Ordered /\ Apart(stack)
      /\ HoldsEach(TimerSlots, timerq.size) /\ HoldsEach(TaskSlots, taskq.size)
      /\ Parted(InTimerq, InTaskq, OnStack, HasRun, dropped, Ids \ Fresh)
      /\ TimerSlots = timerq.tasks /\ TaskSlots = taskq.tasks
  BY WholeKnown
<1>1. Top'.pc \notin {"sift", "top", "size", "last", "sink"} /\ OneChanges' /\ OnStack' = OnStack
      /\ Apart(stack)'
  BY <1>0, WholeDone
<1>2. TimerSlots' = TimerSlots /\ TaskSlots' = TaskSlots
  BY <1>0, <1>1 DEF TimerSlots, TaskSlots
<1>3. InTimerq' = InTimerq /\ InTaskq' = InTaskq /\ HasRun' = HasRun /\ Fresh' = Fresh
  BY <1>2 DEF InTimerq, InTaskq, HasRun, Fresh
<1>4. Parted(InTimerq, InTaskq, OnStack, HasRun, dropped, Ids \ Fresh)'
  BY <1>0, <1>1, <1>3 DEF Parted
<1>5. OnePlace'
  BY <1>0, <1>1, <1>2, <1>4 DEF OnePlace
<1>6. Ordered'
  BY <1>0, <1>1 DEF Ordered, HeapBut
<1>7. ReadsHold'
  BY <1>1 DEF ReadsHold
<1>. QED
  BY <1>1, <1>5, <1>6, <1>7 DEF Whole

LEMMA WholeTasks ==
    ASSUME Basic, Whole, Enable \/ LoopTest \/ PopTest \/ PopTop \/ PopSize \/ PopLast \/ PopSink
    PROVE  Whole'
<1>1. CASE Enable
  BY <1>1, WholeReturns DEF Enable
<1>2. ASSUME NEW f \in Frame, f.pc \in {"pop", "top", "size", "wild", "last"}, Goto(f),
             f.pc \in {"top", "size"} => taskq.size > 0,
             f.pc \in {"size", "last"} => f.task = taskq.tasks[0],
             f.pc = "last" => f.size = taskq.size,
             Top.pc \in {"loop", "pop", "top", "size"}, Top.pc # "loop" \/ taskq.size > 0,
             UNCHANGED <<timeout, timerq, taskq, ran, dropped>>
      PROVE  Whole'
  <2>1. Load(f) = {} /\ Load(Top) = {}
    BY <1>2 DEF Load
  <2>2. Load(f) \subseteq Load(Top) /\ dropped' = dropped \cup (Load(Top) \ Load(f))
    BY <1>2, <2>1
  <2>. QED
    BY <1>2, <2>2, WholeMoves
<1>3. CASE LoopTest
  <2>1. Top.pc = "loop" /\ UNCHANGED <<timeout, timerq, taskq, ran, dropped>>
    BY <1>3 DEF LoopTest
  <2>2. CASE MoreTasks(taskq.size)
    <3>1. [pc |-> "pop"] \in Frame /\ Goto([pc |-> "pop"]) /\ taskq.size > 0
      BY <1>3, <2>2, FrameMade DEF LoopTest, MoreTasks
    <3>. QED
      BY <1>2, <2>1, <3>1
  <2>3. CASE ~ MoreTasks(taskq.size)
    BY <1>3, <2>1, <2>3, WholeReturns DEF LoopTest
  <2>. QED
    BY <2>2, <2>3
<1>4. CASE PopTest
  <2>1. Top.pc = "pop" /\ UNCHANGED <<timeout, timerq, taskq, ran, dropped>>
    BY <1>4 DEF PopTest
  <2>2. CASE taskq.size = 0
    <3>1. [pc |-> "wild"] \in Frame /\ Goto([pc |-> "wild"])
      BY <1>4, <2>2, FrameMade DEF PopTest, GoWild
    <3>. QED
      BY <1>2, <2>1, <3>1
  <2>3. CASE taskq.size # 0
    <3>1. [pc |-> "top"] \in Frame /\ Goto([pc |-> "top"]) /\ taskq.size > 0
      BY <1>4, <2>3, FrameMade, WholeKnown DEF PopTest
    <3>. QED
      BY <1>2, <2>1, <3>1
  <2>. QED
    BY <2>2, <2>3
<1>5. CASE PopTop
  <2>. DEFINE f == [pc |-> "size", task |-> taskq.tasks[0]]
  <2>1. Top.pc = "top" /\ UNCHANGED <<timeout, timerq, taskq, ran, dropped>> /\ Goto(f)
    BY <1>5 DEF PopTop
  <2>2. taskq.size > 0
    BY <2>1, WholeKnown DEF ReadsHold
  <2>3. taskq.tasks[0] \in Ids
    BY <2>2, WholeKnown DEF Basic, NoGarbageTaken, Filled
  <2>4. f \in Frame /\ f.pc = "size" /\ f.task = taskq.tasks[0]
    BY <2>3, FrameMade
  <2>. HIDE DEF f
  <2>. QED
    BY <1>2, <2>1, <2>2, <2>4
<1>6. CASE PopSize
  <2>1. /\ Top.pc = "size" /\ UNCHANGED <<timeout, timerq, taskq, ran, dropped>>
        /\ taskq.size > 0 /\ Top.task = taskq.tasks[0] /\ Top.task \in Ids
    BY <1>6, WholeKnown, FrameKinds DEF PopSize, ReadsHold
  <2>. DEFINE f == [pc |-> "last", task |-> Top.task, size |-> taskq.size]
  <2>2. taskq.size \in 1 .. TASK_MAX_SIZE
    BY <2>1, WholeKnown, TimerAssumption
  <2>3. f \in Frame /\ f.pc = "last" /\ f.size = taskq.size /\ f.task = taskq.tasks[0]
    BY <2>1, <2>2, FrameMade
  <2>4. Goto(f)
    BY <1>6, <2>1, WholeKnown DEF PopSize
  <2>. HIDE DEF f
  <2>. QED
    BY <1>2, <2>1, <2>3, <2>4
<1>. QED
  BY <1>1, <1>3, <1>4, <1>5, <1>6, WholePop, WholeSink

-----------------------------------------------------------------------------
(* New tasks                                                               *)

\* A task that was fresh is set and on the stack.
LEMMA FreshSet ==
    ASSUME Basic, Whole, NEW t \in Fresh, NEW delay \in Delays, Set(t, delay)
    PROVE  /\ Fresh' = Fresh \ {t} /\ t \in Ids
           /\ t \notin InTimerq /\ t \notin InTaskq /\ t \notin OnStack
           /\ t \notin HasRun /\ t \notin dropped
           /\ \A u \in Ids : u # t => timeout'[u] = timeout[u] /\ due'[u] = due[u]
           /\ timeout'[t] = now + delay /\ due'[t] = now + delay
<1>0. timeout \in [Ids -> Int] /\ due \in [Ids -> Int] /\ now \in Nat /\ delay \in Nat
  BY TimerAssumption DEF Basic, Typed
<1>1. t \in Ids /\ timeout' = [timeout EXCEPT ![t] = now + delay]
      /\ due' = [due EXCEPT ![t] = now + delay]
  BY DEF Fresh, Set
<1>2. /\ \A u \in Ids : u # t => timeout'[u] = timeout[u] /\ due'[u] = due[u]
      /\ timeout'[t] = now + delay /\ due'[t] = now + delay /\ timeout'[t] # -1
  BY <1>0, <1>1
<1>3. Fresh' = Fresh \ {t}
  BY <1>1, <1>2 DEF Fresh
<1>4. Parted(InTimerq, InTaskq, OnStack, HasRun, dropped, Ids \ Fresh)
  BY WholeKnown
<1>5. /\ t \notin InTimerq /\ t \notin InTaskq /\ t \notin OnStack
      /\ t \notin HasRun /\ t \notin dropped
  BY <1>4 DEF Parted
<1>. QED
  BY <1>1, <1>2, <1>3, <1>5

\* The new task is pushed, alone or by one that ran.
LEMMA WholeSet ==
    ASSUME Basic, Whole, NEW t \in Fresh, NEW delay \in Delays, Set(t, delay),
           Top.pc \notin {"sift", "sink"}, UNCHANGED <<timerq, taskq, dropped>>,
           Top'.pc = "add", OneChanges', Apart(stack)',
           NEW x \in SUBSET OnStack, OnStack' = (OnStack \ x) \cup {t}, HasRun' = HasRun \cup x,
           \A u \in Ids : ran'[u] <= 1
    PROVE  Whole'
<1>0. /\ OnePlace /\ timerq \in Queue /\ timeout \in [Ids -> Int] /\ timerq.size \in Nat
      /\ HoldsEach(timerq.tasks, timerq.size) /\ HoldsEach(taskq.tasks, taskq.size)
      /\ Parted(InTimerq, InTaskq, OnStack, HasRun, dropped, Ids \ Fresh)
      /\ TimerSlots = timerq.tasks /\ TaskSlots = taskq.tasks
      /\ HeapBut(timerq.tasks, timerq.size, 0)
  BY WholeKnown
<1>1. TimerSlots' = TimerSlots /\ TaskSlots' = TaskSlots
  BY <1>0 DEF TimerSlots, TaskSlots
<1>2. InTimerq' = InTimerq /\ InTaskq' = InTaskq
  BY <1>1 DEF InTimerq, InTaskq
<1>3. /\ Fresh' = Fresh \ {t} /\ t \in Ids
      /\ t \notin InTimerq /\ t \notin InTaskq /\ t \notin OnStack
      /\ t \notin HasRun /\ t \notin dropped
      /\ \A u \in Ids : u # t => timeout'[u] = timeout[u]
  BY FreshSet
<1>4. Fresh \subseteq Ids
  BY DEF Fresh
<1>5. Parted(InTimerq, InTaskq, OnStack, HasRun, dropped, Ids \ Fresh)'
  BY <1>0, <1>2, <1>3, <1>4 DEF Parted
<1>6. OnePlace'
  BY <1>0, <1>1, <1>5 DEF OnePlace
<1>7. \A j \in 0 .. timerq.size - 1 : timeout'[timerq.tasks[j]] = timeout[timerq.tasks[j]]
  <2>1. SUFFICES ASSUME NEW j \in 0 .. timerq.size - 1
                 PROVE  timeout'[timerq.tasks[j]] = timeout[timerq.tasks[j]]
    OBVIOUS
  <2>2. timerq.tasks[j] \in Ids /\ timerq.tasks[j] \in InTimerq
    BY <1>0 DEF HoldsEach, Filled, InTimerq, HeldBy
  <2>. QED
    BY <1>3, <2>2
<1>8. HeapBut(timerq.tasks, timerq.size, 0)'
  BY <1>0, <1>7, HeapStays
<1>9. Ordered' /\ ReadsHold'
  BY <1>8 DEF Ordered, ReadsHold
<1>. QED
  BY <1>6, <1>9 DEF Whole

LEMMA WholeSetTimeout ==
    ASSUME Basic, Whole, NEW t \in Ids, NEW delay \in Delays, SetTimeout(t, delay)
    PROVE  Whole'
<1>. DEFINE f == [pc |-> "add", task |-> t]
<1>0. /\ Set(t, delay) /\ t \in Fresh /\ stack' = Append(stack, f) /\ Top.pc = "shell"
      /\ UNCHANGED <<timerq, taskq, dropped, ran>>
  BY DEF SetTimeout, Push
<1>1. f \in Frame /\ f.pc = "add" /\ Load(f) = {t}
  BY FrameMade DEF Load
<1>. HIDE DEF f
<1>2. stack \in Seq(Frame) /\ Len(stack) = 1 /\ DOMAIN stack = {1} /\ stack[1] = Top
  <2>1. stack \in Seq(Frame) /\ Len(stack) \in Nat /\ Len(stack) > 0 /\ ~ Len(stack) > 1
        /\ Top = stack[Len(stack)] /\ DOMAIN stack = 1 .. Len(stack)
    BY <1>0, NotTheShell, TopKnown DEF Basic, Typed
  <2>2. Len(stack) = 1
    BY <2>1
  <2>. QED
    BY <2>1, <2>2
<1>3. Grows(stack, stack', f)
  BY <1>0, <1>1, <1>2, Pushed
<1>4. Len(stack') = 2 /\ DOMAIN stack' = {1, 2} /\ stack'[1] = Top /\ stack'[2] = f
  BY <1>2, <1>3 DEF Grows
<1>5. Top' = f /\ OneChanges'
  BY <1>0, <1>1, <1>4 DEF Top, OneChanges
<1>6. t \notin OnStack /\ Apart(stack)
  BY <1>0, FreshSet, WholeKnown
<1>7. OnStack' = OnStack \cup {t} /\ Apart(stack)'
  <2>1. Loads(stack') = Loads(stack) \cup Load(f)
        /\ (Load(f) \cap Loads(stack) = {} => Apart(stack'))
    BY <1>1, <1>2, <1>3, <1>6, LoadsGrown
  <2>. QED
    BY <1>1, <1>6, <2>1 DEF OnStack
<1>8. HasRun' = HasRun /\ \A u \in Ids : ran'[u] <= 1
  BY <1>0 DEF HasRun, Whole, OnePlace
<1>9. {} \in SUBSET OnStack /\ OnStack' = (OnStack \ {}) \cup {t} /\ HasRun' = HasRun \cup {}
  BY <1>7, <1>8
<1>. QED
  BY <1>0, <1>1, <1>5, <1>7, <1>8, <1>9, WholeSet

LEMMA WholeRun ==
    ASSUME Basic, Whole, Run
    PROVE  Whole'
<1>. DEFINE task == Top.task
            mid == [stack EXCEPT ![Len(stack)] = Loop]
<1>0. /\ OneChanges /\ ReadsHold /\ OnePlace /\ Ordered /\ Apart(stack) /\ Top \in Frame
      /\ HoldsEach(TimerSlots, timerq.size) /\ HoldsEach(TaskSlots, taskq.size)
      /\ Parted(InTimerq, InTaskq, OnStack, HasRun, dropped, Ids \ Fresh)
      /\ TimerSlots = timerq.tasks /\ TaskSlots = taskq.tasks /\ Top.pc = "run"
      /\ ran \in [Ids -> Nat] /\ UNCHANGED <<timerq, taskq, dropped>>
  BY WholeKnown DEF Run
<1>1. task \in Ids /\ Load(Top) = {task}
  BY <1>0, FrameKinds DEF Load
<1>2. Loop \in Frame /\ Loop.pc = "loop" /\ Load(Loop) = {}
  BY FrameMade DEF Loop, Load
<1>3. /\ stack \in Seq(Frame) /\ Len(stack) > 1 /\ Len(stack) \in Nat
      /\ DOMAIN stack = 1 .. Len(stack) /\ Top = stack[Len(stack)]
  BY <1>0, NotTheShell, TopKnown DEF Basic, Typed
<1>4. ReplacesTop(stack, mid, Loop)
  <2>1. Len(stack) > 0
    BY <1>3
  <2>. QED
    BY <1>2, <1>3, <2>1, Replaced
<1>. HIDE DEF mid
<1>5. Loads(mid) = OnStack \ {task} /\ Apart(mid) /\ task \in OnStack
  <2>1. /\ Loads(mid) = (Loads(stack) \ Load(Top)) \cup Load(Loop)
        /\ Load(Loop) \cap (Loads(stack) \ Load(Top)) = {} => Apart(mid)
        /\ Load(Top) \subseteq Loads(stack)
    BY <1>0, <1>2, <1>3, <1>4, LoadsReplaced
  <2>. QED
    BY <1>1, <1>2, <2>1 DEF OnStack
<1>6. task \notin HasRun
  BY <1>0, <1>5 DEF Parted
<1>7. HasRun' = HasRun \cup {task} /\ \A u \in Ids : ran'[u] <= 1
  <2>1. ran' = [ran EXCEPT ![task] = @ + 1]
    BY DEF Run
  <2>2. \A u \in Ids : ran'[u] = IF u = task THEN ran[u] + 1 ELSE ran[u]
    BY <1>0, <2>1
  <2>3. ran[task] = 0
    BY <1>0, <1>1, <1>6 DEF HasRun
  <2>. HIDE DEF task
  <2>4. \A u \in Ids : ran[u] \in Nat /\ ran[u] <= 1
    BY <1>0 DEF OnePlace
  <2>. QED
    BY <1>1, <2>2, <2>3, <2>4 DEF HasRun
<1>8. \A k \in DOMAIN stack : k < Len(stack) => stack[k].pc \notin {"sift", "top", "size", "last", "sink", "grow"}
  <2>1. SUFFICES ASSUME NEW k \in DOMAIN stack, k < Len(stack)
                 PROVE  stack[k].pc \notin {"sift", "top", "size", "last", "sink", "grow"}
    OBVIOUS
  <2>2. stack[k].pc = "grow" => stack[Len(stack)].pc = "loop"
    <3>1. Len(stack) \in k + 1 .. Len(stack)
      BY <1>3, <2>1
    <3>. QED
      BY <1>0, <2>1, <3>1 DEF OneChanges
  <2>3. stack[k].pc \notin {"sift", "top", "size", "last", "sink"}
    BY <1>0, <1>3, <2>1 DEF OneChanges
  <2>. QED
    BY <1>0, <1>3, <2>2, <2>3
<1>9. ASSUME NEW t \in Fresh, NEW delay \in Delays, Set(t, delay),
             stack' = Append(mid, [pc |-> "add", task |-> t])
      PROVE  Whole'
  <2>. DEFINE f == [pc |-> "add", task |-> t]
  <2>1. f \in Frame /\ f.pc = "add" /\ Load(f) = {t}
    BY FrameMade DEF Load, Fresh
  <2>2. stack' = Append(mid, f)
    BY <1>9
  <2>. HIDE DEF f
  <2>3. mid \in Seq(Frame) /\ Len(mid) = Len(stack) /\ DOMAIN mid = DOMAIN stack
        /\ mid[Len(stack)] = Loop /\ \A k \in DOMAIN stack : k # Len(stack) => mid[k] = stack[k]
    BY <1>4 DEF ReplacesTop
  <2>4. Grows(mid, stack', f)
    BY <2>1, <2>2, <2>3, Pushed
  <2>5. /\ Len(stack') = Len(stack) + 1 /\ DOMAIN stack' = 1 .. Len(stack) + 1
        /\ stack'[Len(stack) + 1] = f
        /\ \A k \in DOMAIN stack : stack'[k] = mid[k]
    BY <1>3, <2>3, <2>4 DEF Grows
  <2>6. Top' = f
    BY <2>5 DEF Top
  <2>7. \A k \in DOMAIN stack' : stack'[k].pc \notin {"sift", "top", "size", "last", "sink", "grow"}
    <3>1. SUFFICES ASSUME NEW k \in DOMAIN stack'
                   PROVE  stack'[k].pc \notin {"sift", "top", "size", "last", "sink", "grow"}
      OBVIOUS
    <3>2. k = Len(stack) + 1 \/ k = Len(stack) \/ (k \in DOMAIN stack /\ k < Len(stack))
      BY <1>3, <2>5
    <3>3. Len(stack) \in DOMAIN stack
      BY <1>3
    <3>. QED
      BY <1>2, <1>8, <2>1, <2>3, <2>5, <3>2, <3>3
  <2>8. OneChanges'
    BY <2>7 DEF OneChanges
  <2>9. t \notin OnStack
    BY <1>9, FreshSet
  <2>10. OnStack' = (OnStack \ {task}) \cup {t} /\ Apart(stack)'
    <3>1. Loads(stack') = Loads(mid) \cup Load(f)
          /\ (Load(f) \cap Loads(mid) = {} => Apart(stack'))
      BY <1>5, <2>1, <2>3, <2>4, LoadsGrown
    <3>. QED
      BY <1>5, <2>1, <2>9, <3>1 DEF OnStack
  <2>11. {task} \in SUBSET OnStack
    BY <1>5
  <2>. QED
    BY <1>0, <1>7, <1>9, <2>1, <2>6, <2>8, <2>10, <2>11, WholeSet
<1>10. ASSUME Goto(Loop), UNCHANGED <<timeout, due>>
       PROVE  Whole'
  <2>1. Top' = Loop /\ OneChanges' /\ OnStack' = OnStack \ {task} /\ Apart(stack)'
    <3>1. /\ Top' = Loop /\ OneChanges' /\ OnStack' = (OnStack \ Load(Top)) \cup Load(Loop)
          /\ Load(Loop) \cap (OnStack \ Load(Top)) = {} => Apart(stack)'
      BY <1>0, <1>2, <1>10, WholeGoto
    <3>. QED
      BY <1>1, <1>2, <3>1
  <2>2. TimerSlots' = TimerSlots /\ TaskSlots' = TaskSlots
    BY <1>0, <1>2, <2>1 DEF TimerSlots, TaskSlots
  <2>3. InTimerq' = InTimerq /\ InTaskq' = InTaskq /\ Fresh' = Fresh
    BY <1>0, <1>10, <2>2 DEF InTimerq, InTaskq, Fresh
  <2>4. Parted(InTimerq, InTaskq, OnStack, HasRun, dropped, Ids \ Fresh)'
    BY <1>0, <1>5, <1>7, <2>1, <2>3 DEF Parted
  <2>5. OnePlace'
    BY <1>0, <1>7, <2>1, <2>2, <2>4 DEF OnePlace
  <2>6. HeapBut(timerq.tasks, timerq.size, 0)
    BY <1>0, WholeKnown
  <2>7. Ordered' /\ ReadsHold'
    BY <1>0, <1>2, <1>10, <2>1, <2>6 DEF Ordered, ReadsHold, HeapBut
  <2>. QED
    BY <2>1, <2>5, <2>7 DEF Whole
<1>. QED
  BY <1>9, <1>10 DEF Run, mid

-----------------------------------------------------------------------------
(* Interrupts                                                              *)

LEMMA WholeUartIrq ==
    ASSUME Basic, Whole, UartIrq, "queue" \notin cut'
    PROVE  Whole'
<1>0. /\ OneChanges /\ ReadsHold /\ OnePlace /\ Ordered /\ Apart(stack)
      /\ HoldsEach(TimerSlots, timerq.size) /\ HoldsEach(TaskSlots, taskq.size)
      /\ Parted(InTimerq, InTaskq, OnStack, HasRun, dropped, Ids \ Fresh)
      /\ taskq.size > 0 /\ taskq.size \in Nat /\ stack' = Append(stack, Loop)
      /\ UNCHANGED <<timeout, timerq, taskq, dropped, ran>>
  BY WholeKnown DEF UartIrq, Push
<1>1. Quiet
  <2>1. "queue" \notin Hits
    BY DEF UartIrq
  <2>. QED
    BY <1>0, <2>1, NotHit
<1>2. Loop \in Frame /\ Loop.pc = "loop"
  BY FrameMade DEF Loop
<1>3. /\ Top' = Loop /\ OneChanges' /\ OnStack' = OnStack /\ Apart(stack)'
      /\ Top.pc \notin {"sift", "top", "size", "last", "sink"}
  BY <1>0, <1>1, <1>2, WholePush
<1>4. TimerSlots = timerq.tasks /\ TaskSlots = taskq.tasks
      /\ HeapBut(timerq.tasks, timerq.size, 0)
  BY <1>3, WholeKnown
<1>5. TimerSlots' = TimerSlots /\ TaskSlots' = TaskSlots
  BY <1>0, <1>2, <1>3, <1>4 DEF TimerSlots, TaskSlots
<1>6. InTimerq' = InTimerq /\ InTaskq' = InTaskq /\ HasRun' = HasRun /\ Fresh' = Fresh
  BY <1>0, <1>5 DEF InTimerq, InTaskq, HasRun, Fresh
<1>7. Parted(InTimerq, InTaskq, OnStack, HasRun, dropped, Ids \ Fresh)'
  BY <1>0, <1>3, <1>6 DEF Parted
<1>8. OnePlace'
  BY <1>0, <1>3, <1>5, <1>7 DEF OnePlace
<1>9. Ordered' /\ ReadsHold'
  BY <1>0, <1>2, <1>3, <1>4 DEF Ordered, ReadsHold, HeapBut
<1>. QED
  BY <1>3, <1>8, <1>9 DEF Whole

\* The first task goes from one queue to the other, or is dropped.
LEMMA WholeTimerIrq ==
    ASSUME Basic, Whole, TimerIrq, "queue" \notin cut'
    PROVE  Whole'
<1>. DEFINE n == timerq.size
            task == timerq.tasks[0]
<1>0. /\ OneChanges /\ ReadsHold /\ OnePlace /\ Ordered /\ Apart(stack)
      /\ timerq \in Queue /\ taskq \in Queue /\ timeout \in [Ids -> Int]
      /\ n \in Nat /\ taskq.size \in Nat /\ dropped \subseteq Ids
      /\ HoldsEach(TimerSlots, n) /\ HoldsEach(TaskSlots, taskq.size)
      /\ Parted(InTimerq, InTaskq, OnStack, HasRun, dropped, Ids \ Fresh) /\ ran' = ran
  BY WholeKnown DEF TimerIrq
<1>1. Quiet
  <2>1. "queue" \notin Hits
    BY DEF TimerIrq
  <2>. QED
    BY <1>0, <2>1, NotHit
<1>2. Loop \in Frame /\ Loop.pc = "loop"
  BY FrameMade DEF Loop
<1>3. Top.pc \notin {"sift", "top", "size", "last", "sink"}
  BY <1>1, TopKnown DEF Quiet, Basic
<1>4. /\ TimerSlots = timerq.tasks /\ TaskSlots = taskq.tasks /\ HeapBut(timerq.tasks, n, 0)
      /\ Garbage \notin Held(timerq)
  <2>1. TimerSlots = timerq.tasks /\ TaskSlots = taskq.tasks /\ HeapBut(timerq.tasks, n, 0)
    BY <1>3, WholeKnown
  <2>. QED
    BY <1>0, <2>1, HeldFilled DEF HoldsEach
<1>5. CASE n = 0
  <2>1. stack' = Append(stack, Loop) /\ UNCHANGED <<timeout, timerq, taskq, dropped>>
    BY <1>5 DEF TimerIrq, Push
  <2>2. Top' = Loop /\ OneChanges' /\ OnStack' = OnStack /\ Apart(stack)'
    BY <1>0, <1>1, <1>2, <2>1, WholePush
  <2>3. TimerSlots' = TimerSlots /\ TaskSlots' = TaskSlots
    BY <1>2, <1>4, <2>1, <2>2 DEF TimerSlots, TaskSlots
  <2>4. InTimerq' = InTimerq /\ InTaskq' = InTaskq /\ HasRun' = HasRun /\ Fresh' = Fresh
    BY <1>0, <2>1, <2>3 DEF InTimerq, InTaskq, HasRun, Fresh
  <2>5. Parted(InTimerq, InTaskq, OnStack, HasRun, dropped, Ids \ Fresh)'
    BY <1>0, <2>1, <2>2, <2>4 DEF Parted
  <2>6. OnePlace'
    BY <1>0, <2>1, <2>2, <2>3, <2>5 DEF OnePlace
  <2>7. Ordered' /\ ReadsHold'
    BY <1>2, <1>4, <2>1, <2>2 DEF Ordered, ReadsHold, HeapBut
  <2>. QED
    BY <2>2, <2>6, <2>7 DEF Whole
<1>6. CASE n > 0
  <2>. DEFINE left == Pop(timerq)
  <2>1. /\ timerq' = left /\ timeout' = [timeout EXCEPT ![task] = 0]
        /\ IF Full(taskq) THEN dropped' = dropped \cup {task} /\ UNCHANGED taskq
           ELSE taskq' = Add(taskq, task) /\ UNCHANGED dropped
        /\ stack' = Append(stack, Loop)
    BY <1>4, <1>6 DEF TimerIrq, Push
  <2>2. /\ left \in Queue /\ left.size = n - 1 /\ HoldsEach(left.tasks, n - 1)
        /\ HeldBy(left.tasks, n - 1) = HeldBy(timerq.tasks, n) \ {task}
        /\ HeapBut(left.tasks, n - 1, 0)
    BY <1>0, <1>4, <1>6, PopHolds DEF HoldsEach
  <2>3. task \in InTimerq /\ task \in Ids /\ InTimerq = HeldBy(timerq.tasks, n)
    BY <1>0, <1>4, <1>6 DEF InTimerq, HeldBy, HoldsEach, Filled
  <2>4. Top' = Loop /\ OneChanges' /\ OnStack' = OnStack /\ Apart(stack)'
    BY <1>0, <1>1, <1>2, <1>6, <2>1, WholePush
  <2>. HIDE DEF left, task
  <2>5. TimerSlots' = left.tasks /\ TaskSlots' = taskq'.tasks
    BY <1>2, <2>1, <2>4 DEF TimerSlots, TaskSlots
  <2>6. HoldsEach(TimerSlots, timerq.size)' /\ InTimerq' = InTimerq \ {task}
    BY <2>1, <2>2, <2>3, <2>5 DEF InTimerq
  <2>7. task \notin InTaskq /\ task \notin dropped /\ task \notin Fresh
    BY <1>0, <2>3 DEF Parted
  <2>8. HoldsEach(TaskSlots, taskq.size)'
        /\ \/ InTaskq' = InTaskq /\ dropped' = dropped \cup {task}
           \/ InTaskq' = InTaskq \cup {task} /\ dropped' = dropped
    <3>1. CASE Full(taskq)
      BY <1>0, <1>4, <2>1, <2>5, <3>1 DEF InTaskq
    <3>2. CASE ~ Full(taskq)
      <4>1. taskq' = Add(taskq, task) /\ dropped' = dropped
        BY <2>1, <3>2
      <4>2. InTaskq = HeldBy(taskq.tasks, taskq.size)
        BY <1>4 DEF InTaskq
      <4>3. /\ taskq'.size = taskq.size + 1
            /\ HoldsEach(taskq'.tasks, taskq.size + 1)
            /\ HeldBy(taskq'.tasks, taskq.size + 1) = InTaskq \cup {task}
        BY <1>0, <1>4, <2>3, <2>7, <3>2, <4>1, <4>2, AddHolds DEF HoldsEach
      <4>. QED
        BY <2>5, <4>1, <4>3 DEF InTaskq
    <3>. QED
      BY <3>1, <3>2
  <2>9. HasRun' = HasRun /\ Fresh' = Fresh
    <3>1. \A u \in Ids : timeout'[u] = IF u = task THEN 0 ELSE timeout[u]
      BY <1>0, <2>1
    <3>. QED
      BY <1>0, <2>7, <3>1 DEF HasRun, Fresh
  <2>10. Parted(InTimerq, InTaskq, OnStack, HasRun, dropped, Ids \ Fresh)'
    <3>1. CASE InTaskq' = InTaskq /\ dropped' = dropped \cup {task}
      BY <1>0, <2>3, <2>4, <2>6, <2>9, <3>1 DEF Parted
    <3>2. CASE InTaskq' = InTaskq \cup {task} /\ dropped' = dropped
      BY <1>0, <2>3, <2>4, <2>6, <2>9, <3>2 DEF Parted
    <3>. QED
      BY <2>8, <3>1, <3>2
  <2>11. OnePlace'
    BY <1>0, <2>4, <2>6, <2>8, <2>10 DEF OnePlace
  <2>12. \A j \in 0 .. (n - 1) - 1 : timeout'[left.tasks[j]] = timeout[left.tasks[j]]
    <3>1. SUFFICES ASSUME NEW j \in 0 .. (n - 1) - 1
                   PROVE  timeout'[left.tasks[j]] = timeout[left.tasks[j]]
      OBVIOUS
    <3>2. left.tasks[j] \in Ids /\ left.tasks[j] # task
      BY <2>2 DEF HoldsEach, Filled, HeldBy
    <3>. QED
      BY <1>0, <2>1, <3>2
  <2>13. HeapBut(timerq.tasks, timerq.size, 0)'
    <3>1. n - 1 \in Nat
      BY <1>0, <1>6
    <3>2. timerq'.tasks = left.tasks /\ timerq'.size = n - 1
      BY <2>1, <2>2
    <3>. HIDE DEF n
    <3>. QED
      BY <2>2, <2>12, <3>1, <3>2, HeapStays
  <2>14. Ordered' /\ ReadsHold'
    BY <1>2, <2>4, <2>13 DEF Ordered, ReadsHold
  <2>. QED
    BY <2>4, <2>11, <2>14 DEF Whole
<1>. QED
  BY <1>0, <1>5, <1>6

LEMMA WholeNext ==
    ASSUME Basic, Whole, Next, "queue" \notin cut'
    PROVE  Whole'
<1>1. CASE Advance
  BY <1>1, WholeStays DEF Advance
<1>. QED
  BY <1>1, WholeSetTimeout, WholeTimerIrq, WholeUartIrq, WholeAdd, WholeTasks, WholeRun
  DEF Next, Step

-----------------------------------------------------------------------------
(* Time                                                                    *)

\* Every frame is f, an old one or at the head of the loop over the tasks.
StackGoes(f) ==
    \A k \in DOMAIN stack' : \/ stack'[k] = f
                             \/ stack'[k].pc = "loop"
                             \/ k \in DOMAIN stack /\ stack'[k] = stack[k]

\* No frame at one of these places has gone.
StackKeeps(pcs) ==
    \A k \in DOMAIN stack : stack[k].pc \in pcs => \E m \in DOMAIN stack' : stack'[m].pc \in pcs

LEMMA GotoGoes ==
    ASSUME Basic, Top.pc # "shell", NEW f \in Frame, f.pc # "shell", Goto(f)
    PROVE  /\ StackGoes(f)
           /\ \A pcs : Top.pc \notin pcs \/ f.pc \in pcs => StackKeeps(pcs)
<1>1. ReplacesTop(stack, stack', f)
  BY GotoBasic DEF Basic, Goto
<1>. QED
  BY <1>1, TopKnown DEF Basic, ReplacesTop, StackGoes, StackKeeps

LEMMA PushGoes ==
    ASSUME Basic, NEW f \in Frame, f.pc # "shell", stack' = Append(stack, f)
    PROVE  /\ StackGoes(f) /\ \A pcs : StackKeeps(pcs)
<1>1. Grows(stack, stack', f) /\ Len(stack') = Len(stack) + 1
      /\ DOMAIN stack' = 1 .. Len(stack) + 1 /\ DOMAIN stack = 1 .. Len(stack)
      /\ Len(stack) \in Nat
  BY PushBasic, TopKnown DEF Basic, Grows
<1>2. \A k \in DOMAIN stack' : k = Len(stack) + 1 \/ k \in DOMAIN stack
  BY <1>1
<1>3. StackGoes(f)
  BY <1>1, <1>2 DEF Grows, StackGoes
<1>4. \A k \in DOMAIN stack : k \in DOMAIN stack' /\ stack'[k] = stack[k]
  BY <1>1 DEF Grows
<1>. QED
  BY <1>3, <1>4 DEF StackKeeps

LEMMA DoneGoes ==
    ASSUME Basic, Top.pc # "shell", Done
    PROVE  /\ \A f : StackGoes(f)
           /\ \A pcs : Top.pc \notin pcs => StackKeeps(pcs)
<1>1. Shrinks(stack, stack') /\ Len(stack') = Len(stack) - 1
      /\ DOMAIN stack' = 1 .. Len(stack) - 1 /\ DOMAIN stack = 1 .. Len(stack)
      /\ Len(stack) \in Nat /\ Top = stack[Len(stack)]
  BY DoneBasic, TopKnown DEF Basic, Shrinks
<1>2. \A k \in DOMAIN stack : k = Len(stack) \/ k \in DOMAIN stack'
  BY <1>1
<1>3. \A k \in DOMAIN stack' : k \in DOMAIN stack /\ stack'[k] = stack[k]
  BY <1>1 DEF Shrinks
<1>. QED
  BY <1>1, <1>2, <1>3 DEF StackGoes, StackKeeps

\* Where nothing is on the way to the timer, the timer is in time.
TimerSet ==
    timerq.size > 0 /\ Frames({"sift", "target", "arm"}) = {} =>
        timeout[TimerSlots[0]] <= timer.at

LEMMA KeepsBusy ==
    ASSUME NEW pcs, StackKeeps(pcs), Frames(pcs)' = {}
    PROVE  Frames(pcs) = {}
BY DEF StackKeeps, Frames

\* The first of the timer queue, when there is one.
LEMMA FirstKnown ==
    ASSUME Basic, Whole, timerq.size > 0
    PROVE  /\ TimerSlots[0] \in Ids /\ TimerSlots[0] \in InTimerq
           /\ timeout[TimerSlots[0]] \in Int
<1>1. 0 \in 0 .. timerq.size - 1 /\ Filled(TimerSlots, timerq.size)
  BY WholeKnown DEF HoldsEach
<1>. QED
  BY <1>1 DEF Filled, InTimerq, HeldBy, Basic, Typed

LEMMA WaitingKnown ==
    ASSUME Basic, Whole
    PROVE  /\ Waiting \subseteq Ids /\ Ready \subseteq Ids
           /\ Waiting \subseteq InTimerq \cup OnStack /\ Ready \subseteq InTaskq \cup OnStack
           /\ Waiting \cap Fresh = {} /\ Ready \cap Fresh = {}
<1>1. InTimerq \subseteq Ids /\ InTaskq \subseteq Ids
  BY WholeKnown DEF InTimerq, InTaskq, HeldBy, HoldsEach, Filled
<1>2. Waiting \subseteq Ids /\ Ready \subseteq Ids
  BY <1>1 DEF Waiting, Ready
<1>3. ASSUME NEW t \in Ids, NEW k \in DOMAIN stack, stack[k].task = t,
             stack[k].pc \in {"add", "load", "grow", "sink", "run"}
      PROVE  t \in OnStack
  BY <1>3 DEF OnStack, Loads, Load
<1>4. Waiting \subseteq InTimerq \cup OnStack /\ Ready \subseteq InTaskq \cup OnStack
  BY <1>3 DEF Waiting, Ready
<1>5. InTimerq \cap Fresh = {} /\ InTaskq \cap Fresh = {} /\ OnStack \cap Fresh = {}
  BY WholeKnown DEF Parted
<1>. QED
  BY <1>2, <1>4, <1>5

\* A step that sets no task and takes none from the timer queue.
LEMMA TimeKept ==
    ASSUME Basic, Whole, Basic', Whole', OnTime, NEW f, StackGoes(f),
           UNCHANGED <<now, timeout, due, early>>,
           InTimerq' \subseteq Waiting, InTaskq' \subseteq Ready,
           f.pc \in {"add", "load", "grow"} => f.task \in Waiting,
           f.pc \in {"sink", "run"} => f.task \in Ready,
           timerq'.size >= timerq.size,
           f.pc \in {"target", "arm"} => timerq'.size > 0,
           Frames({"arm"}) # {} => timeout[TimerSlots'[0]] <= timeout[TimerSlots[0]],
           f.pc = "arm" => f.delay < TvalRange /\ timeout[TimerSlots'[0]] <= now + f.delay,
           TimerSet'
    PROVE  OnTime'
<1>0. timerq.size \in Nat /\ timerq'.size \in Nat /\ now \in Int /\ timeout \in [Ids -> Int]
  BY TimerAssumption DEF Basic, Typed, Queue
<1>1. ASSUME NEW t \in Waiting'
      PROVE  t \in Waiting
  <2>1. CASE t \in InTimerq'
    BY <2>1
  <2>2. CASE t \in Ids /\ \E k \in DOMAIN stack' : stack'[k].pc \in {"add", "load", "grow"}
                                                   /\ stack'[k].task = t
    BY <2>2 DEF StackGoes, Waiting
  <2>. QED
    BY <2>1, <2>2 DEF Waiting
<1>2. ASSUME NEW t \in Ready'
      PROVE  t \in Ready
  <2>1. CASE t \in InTaskq'
    BY <2>1
  <2>2. CASE t \in Ids /\ \E k \in DOMAIN stack' : stack'[k].pc \in {"sink", "run"}
                                                   /\ stack'[k].task = t
    BY <2>2 DEF StackGoes, Ready
  <2>. QED
    BY <2>1, <2>2 DEF Ready
<1>3. \A t \in Waiting' : timeout'[t] = due'[t] /\ due'[t] - now' < TvalRange
  BY <1>1 DEF OnTime
<1>4. \A t \in Ready' : due'[t] <= now'
  BY <1>2 DEF OnTime
<1>5. Frames({"target", "arm"})' # {} => timerq'.size > 0
  <2>1. SUFFICES ASSUME NEW k \in DOMAIN stack', stack'[k].pc \in {"target", "arm"}
                 PROVE  timerq'.size > 0
    BY DEF Frames
  <2>2. CASE stack'[k] = f
    BY <2>1, <2>2
  <2>3. CASE k \in DOMAIN stack /\ stack'[k] = stack[k]
    <3>1. Frames({"target", "arm"}) # {}
      BY <2>1, <2>3 DEF Frames
    <3>2. timerq.size > 0
      BY <3>1 DEF OnTime
    <3>. QED
      BY <1>0, <3>2
  <2>. QED
    BY <2>1, <2>2, <2>3 DEF StackGoes
<1>6. ASSUME NEW k \in DOMAIN stack', stack'[k].pc = "arm"
      PROVE  stack'[k].delay < TvalRange /\ timeout'[TimerSlots'[0]] <= now' + stack'[k].delay
  <2>1. CASE stack'[k] = f
    BY <1>6, <2>1
  <2>2. CASE k \in DOMAIN stack /\ stack'[k] = stack[k]
    <3>1. Frames({"arm"}) # {} /\ Frames({"target", "arm"}) # {}
      BY <1>6, <2>2 DEF Frames
    <3>2. timerq.size > 0 /\ stack[k].delay < TvalRange
          /\ timeout[TimerSlots[0]] <= now + stack[k].delay
      BY <1>6, <2>2, <3>1 DEF OnTime
    <3>3. timerq'.size > 0
      BY <1>0, <3>2
    <3>4. timeout[TimerSlots[0]] \in Int /\ timeout'[TimerSlots'[0]] \in Int
      <4>1. timeout[TimerSlots[0]] \in Int
        BY <3>2, FirstKnown
      <4>2. 0 \in 0 .. timerq'.size - 1 /\ Filled(TimerSlots', timerq'.size)
        BY <1>0, <3>3 DEF Whole, OnePlace, HoldsEach
      <4>3. TimerSlots'[0] \in Ids
        BY <4>2 DEF Filled
      <4>. QED
        BY <1>0, <4>1, <4>3
    <3>5. stack[k].delay \in Int
      BY <1>6, <2>2, TopKnown, FrameKinds DEF Basic
    <3>6. timeout'[TimerSlots'[0]] <= timeout[TimerSlots[0]]
      BY <3>1
    <3>. QED
      BY <1>0, <2>2, <3>2, <3>4, <3>5, <3>6
  <2>. QED
    BY <1>6, <2>1, <2>2 DEF StackGoes
<1>7. early' = {}
  BY DEF OnTime
<1>. QED
  BY <1>3, <1>4, <1>5, <1>6, <1>7 DEF OnTime, TimerSet

LEMMA TimeAdvance ==
    ASSUME Basic, Whole, OnTime, Advance
    PROVE  OnTime'
<1>0. now \in Int /\ now' = now + 1 /\ timeout \in [Ids -> Int] /\ due \in [Ids -> Int]
      /\ TvalRange \in Int
      /\ UNCHANGED <<timer, timeout, timerq, taskq, stack, due, early>>
  BY TimerAssumption DEF Basic, Typed, Advance
<1>1. Top' = Top /\ TimerSlots' = TimerSlots /\ TaskSlots' = TaskSlots
  BY <1>0 DEF Top, TimerSlots, TaskSlots
<1>2. Waiting' = Waiting /\ Ready' = Ready
  BY <1>0, <1>1 DEF Waiting, Ready, InTimerq, InTaskq, HeldBy
<1>3. \A t \in Waiting : timeout[t] = due[t] /\ due[t] - (now + 1) < TvalRange
  <2>1. \A t \in Waiting : due[t] \in Int /\ timeout[t] = due[t] /\ due[t] - now < TvalRange
    BY <1>0, WaitingKnown DEF OnTime
  <2>. QED
    BY <1>0, <2>1
<1>4. \A t \in Ready : due[t] <= now + 1
  <2>1. \A t \in Ready : due[t] \in Int /\ due[t] <= now
    BY <1>0, WaitingKnown DEF OnTime
  <2>. QED
    BY <1>0, <2>1
<1>5. ASSUME NEW k \in DOMAIN stack, stack[k].pc = "arm"
      PROVE  stack[k].delay < TvalRange /\ timeout[TimerSlots[0]] <= (now + 1) + stack[k].delay
  <2>1. stack[k].delay < TvalRange /\ timeout[TimerSlots[0]] <= now + stack[k].delay
        /\ Frames({"target", "arm"}) # {}
    BY <1>5 DEF OnTime, Frames
  <2>2. timerq.size > 0
    BY <2>1 DEF OnTime
  <2>3. timeout[TimerSlots[0]] \in Int /\ stack[k].delay \in Int
    BY <1>5, <2>2, FirstKnown, TopKnown, FrameKinds DEF Basic
  <2>. QED
    BY <1>0, <2>1, <2>3
<1>6. Frames({"target", "arm"})' = Frames({"target", "arm"})
      /\ Frames({"sift", "target", "arm"})' = Frames({"sift", "target", "arm"})
  BY <1>0 DEF Frames
<1>. QED
  BY <1>0, <1>1, <1>2, <1>3, <1>4, <1>5, <1>6 DEF OnTime

\* A task is set, for a time that the timer holds.
LEMMA TimeSet ==
    ASSUME Basic, Whole, Basic', Whole', OnTime, \A d \in Delays : d < TvalRange,
           NEW t \in Fresh, NEW delay \in Delays, Set(t, delay),
           StackGoes([pc |-> "add", task |-> t]),
           StackKeeps({"sift", "target", "arm"}),
           UNCHANGED <<now, timer, timerq, taskq, early>>,
           Top.pc \notin {"sift", "sink"}, Top'.pc = "add"
    PROVE  OnTime'
<1>. DEFINE f == [pc |-> "add", task |-> t]
<1>0. now \in Nat /\ delay \in Nat /\ delay < TvalRange
  BY TimerAssumption DEF Basic, Typed
<1>1. /\ t \in Ids /\ t \notin InTimerq /\ t \notin InTaskq /\ t \notin OnStack
      /\ \A u \in Ids : u # t => timeout'[u] = timeout[u] /\ due'[u] = due[u]
      /\ timeout'[t] = now + delay /\ due'[t] = now + delay
  BY FreshSet
<1>2. TimerSlots' = TimerSlots /\ TaskSlots' = TaskSlots
  BY DEF TimerSlots, TaskSlots
<1>3. InTimerq' = InTimerq /\ InTaskq' = InTaskq
  BY <1>2 DEF InTimerq, InTaskq
<1>4. f.pc = "add" /\ f.task = t /\ StackGoes(f)
  OBVIOUS
<1>. HIDE DEF f
<1>5. ASSUME NEW u \in Waiting', u # t
      PROVE  u \in Waiting /\ u \in Ids
  <2>1. CASE u \in InTimerq'
    BY <1>3, <2>1, WaitingKnown DEF Waiting
  <2>2. CASE u \in Ids /\ \E k \in DOMAIN stack' : stack'[k].pc \in {"add", "load", "grow"}
                                                   /\ stack'[k].task = u
    BY <1>4, <1>5, <2>2 DEF StackGoes, Waiting
  <2>. QED
    BY <2>1, <2>2 DEF Waiting
<1>6. ASSUME NEW u \in Ready'
      PROVE  u \in Ready /\ u \in Ids /\ u # t
  <2>1. u \in Ready
    <3>1. CASE u \in InTaskq'
      BY <1>3, <3>1 DEF Ready
    <3>2. CASE u \in Ids /\ \E k \in DOMAIN stack' : stack'[k].pc \in {"sink", "run"}
                                                     /\ stack'[k].task = u
      BY <1>4, <3>2 DEF StackGoes, Ready
    <3>. QED
      BY <3>1, <3>2 DEF Ready
  <2>. QED
    BY <1>1, <2>1, WaitingKnown
<1>7. \A u \in Waiting' : timeout'[u] = due'[u] /\ due'[u] - now' < TvalRange
  <2>1. SUFFICES ASSUME NEW u \in Waiting'
                 PROVE  timeout'[u] = due'[u] /\ due'[u] - now' < TvalRange
    OBVIOUS
  <2>2. CASE u = t
    BY <1>0, <1>1, <2>2
  <2>3. CASE u # t
    BY <1>1, <1>5, <2>1, <2>3 DEF OnTime
  <2>. QED
    BY <2>2, <2>3
<1>8. \A u \in Ready' : due'[u] <= now'
  BY <1>1, <1>6 DEF OnTime
<1>9. timerq.size > 0 => timeout'[TimerSlots'[0]] = timeout[TimerSlots[0]]
  BY <1>1, <1>2, FirstKnown
<1>10. \A k \in DOMAIN stack' : stack'[k].pc \in {"target", "arm"} =>
          k \in DOMAIN stack /\ stack'[k] = stack[k]
  BY <1>4 DEF StackGoes
<1>11. Frames({"target", "arm"})' # {} => timerq'.size > 0
  BY <1>10 DEF OnTime, Frames
<1>12. ASSUME NEW k \in DOMAIN stack', stack'[k].pc = "arm"
       PROVE  stack'[k].delay < TvalRange /\ timeout'[TimerSlots'[0]] <= now' + stack'[k].delay
  <2>1. k \in DOMAIN stack /\ stack'[k] = stack[k] /\ Frames({"target", "arm"}) # {}
    BY <1>10, <1>12 DEF Frames
  <2>2. timerq.size > 0
    BY <2>1 DEF OnTime
  <2>. QED
    BY <1>9, <1>12, <2>1, <2>2 DEF OnTime
<1>13. TimerSet'
  <2>1. SUFFICES ASSUME timerq'.size > 0, Frames({"sift", "target", "arm"})' = {}
                 PROVE  timeout'[TimerSlots'[0]] <= timer'.at
    BY DEF TimerSet
  <2>2. Frames({"sift", "target", "arm"}) = {}
    BY <2>1, KeepsBusy
  <2>. QED
    BY <1>9, <2>1, <2>2 DEF OnTime
<1>. QED
  BY <1>7, <1>8, <1>11, <1>12, <1>13 DEF OnTime, TimerSet

LEMMA TimeAdd ==
    ASSUME Basic, Whole, Basic', Whole', OnTime, "queue" \notin cut',
           AddTest \/ AddLoad \/ AddGrow \/ AddSift \/ AddTarget \/ AddArm
    PROVE  OnTime'
<1>. DEFINE Busy == {"sift", "target", "arm"}
<1>0. /\ Top \in Frame /\ timerq \in Queue /\ timerq.size \in Nat /\ timeout \in [Ids -> Int]
      /\ due \in [Ids -> Int] /\ now \in Int /\ DOMAIN stack = 1 .. Len(stack)
      /\ Top = stack[Len(stack)] /\ Len(stack) \in DOMAIN stack
      /\ OneChanges /\ ReadsHold /\ timer \in [on : BOOLEAN, at : Int]
      /\ InTimerq \subseteq Waiting /\ InTaskq \subseteq Ready
  BY WholeKnown, TopKnown DEF Basic, Typed, Waiting, Ready
<1>1. Top.pc \in {"add", "load", "grow", "sift", "target", "arm"}
      /\ UNCHANGED <<now, timeout, taskq, due, early>>
  BY DEF AddTest, AddLoad, AddGrow, AddSift, AddTarget, AddArm
<1>2. \A t \in Ids : Top.pc \in {"add", "load", "grow"} /\ Top.task = t => t \in Waiting
  BY <1>0 DEF Waiting
<1>3. ASSUME NEW f \in Frame, f.pc # "shell", Goto(f)
      PROVE  /\ Top' = f /\ StackGoes(f)
             /\ \A pcs : Top.pc \notin pcs \/ f.pc \in pcs => StackKeeps(pcs)
  <2>1. Top' = f
    <3>1. ReplacesTop(stack, stack', f)
      BY <1>1, <1>3, GotoBasic DEF Basic, Goto
    <3>. QED
      BY <3>1 DEF ReplacesTop, Top
  <2>2. StackGoes(f) /\ \A pcs : Top.pc \notin pcs \/ f.pc \in pcs => StackKeeps(pcs)
    BY <1>1, <1>3, GotoGoes
  <2>. QED
    BY <2>1, <2>2
\* The slots as seen by others change only where the loop writes.
<1>4. ASSUME NEW f \in Frame, f.pc \notin {"shell", "sift", "sink"}, Goto(f), timerq' = timerq,
             Top.pc # "sift"
      PROVE  TimerSlots' = TimerSlots /\ InTimerq' = InTimerq /\ InTaskq' = InTaskq
  <2>1. Top' = f
    BY <1>3, <1>4
  <2>2. TimerSlots' = TimerSlots /\ TaskSlots' = TaskSlots
    BY <1>1, <1>4, <2>1 DEF TimerSlots, TaskSlots
  <2>. QED
    BY <1>1, <1>4, <2>2 DEF InTimerq, InTaskq
<1>5. CASE AddTest \/ AddLoad
  <2>1. Top.task \in Ids /\ Top.pc \in {"add", "load"} /\ timerq' = timerq /\ timer' = timer
    BY <1>0, <1>5, FrameKinds DEF AddTest, AddLoad
  <2>2. ASSUME NEW f \in Frame, f.pc \in {"enable", "load", "grow"}, Goto(f),
               f.pc \in {"load", "grow"} => f.task = Top.task
        PROVE  OnTime'
    <3>1. TimerSlots' = TimerSlots /\ InTimerq' = InTimerq /\ InTaskq' = InTaskq
      BY <1>4, <2>1, <2>2
    <3>2. StackGoes(f) /\ StackKeeps(Busy)
      BY <1>3, <2>1, <2>2
    <3>3. TimerSet'
      <4>1. Frames(Busy)' = {} => Frames(Busy) = {}
        BY <3>2, KeepsBusy
      <4>. QED
        BY <1>1, <2>1, <3>1, <4>1 DEF TimerSet, OnTime
    <3>4. Frames({"arm"}) # {} => timeout[TimerSlots'[0]] <= timeout[TimerSlots[0]]
      <4>1. Frames({"arm"}) # {} => timerq.size > 0
        BY DEF OnTime, Frames
      <4>. QED
        BY <3>1, <4>1, FirstKnown
    <3>5. f.pc \in {"add", "load", "grow"} => f.task \in Waiting
      BY <1>2, <2>1, <2>2
    <3>. QED
      BY <1>0, <1>1, <2>1, <2>2, <3>1, <3>2, <3>3, <3>4, <3>5, TimeKept
  <2>3. CASE AddTest /\ Full(timerq)
    <3>1. [pc |-> "enable"] \in Frame /\ Goto([pc |-> "enable"])
      BY <2>3, FrameMade DEF AddTest
    <3>. QED
      BY <2>2, <3>1
  <2>4. CASE AddTest /\ ~ Full(timerq)
    <3>. DEFINE f == [pc |-> "load", task |-> Top.task]
    <3>1. f \in Frame /\ f.pc = "load" /\ f.task = Top.task
      BY <2>1, FrameMade
    <3>2. Goto(f)
      BY <2>4 DEF AddTest
    <3>. HIDE DEF f
    <3>. QED
      BY <2>2, <3>1, <3>2
  <2>5. CASE AddLoad
    <3>. DEFINE f == [pc |-> "grow", task |-> Top.task, i |-> timerq.size]
    <3>1. ~ Full(timerq) /\ Goto(f)
      BY <2>5 DEF AddLoad
    <3>2. timerq.size \in Slots
      BY <3>1, WholeKnown, TimerAssumption DEF Queue, Slots, Full
    <3>3. f \in Frame /\ f.pc = "grow" /\ f.task = Top.task
      BY <2>1, <3>2, FrameMade
    <3>. HIDE DEF f
    <3>. QED
      BY <2>2, <3>1, <3>3
  <2>. QED
    BY <1>5, <2>3, <2>4, <2>5
<1>6. CASE AddGrow
  <2>. DEFINE n == timerq.size
              f == [pc |-> "sift", task |-> Top.task, i |-> n]
  <2>1. /\ Top.pc = "grow" /\ Top.task \in Ids /\ Top.i = n /\ n \in Slots
        /\ [Top EXCEPT !.pc = "sift"] = f
    <3>1. Top.pc = "grow" /\ Top.task \in Ids /\ Top.i \in Slots
          /\ Top = [pc |-> "grow", task |-> Top.task, i |-> Top.i]
      BY <1>0, <1>6, FrameKinds DEF AddGrow
    <3>2. Top.i = n
      BY <1>0, <3>1 DEF OneChanges
    <3>. QED
      BY <3>1, <3>2
  <2>2. timerq'.size = n + 1 /\ timerq'.tasks = timerq.tasks /\ Goto(f) /\ timer' = timer
    BY <1>0, <1>6, <2>1 DEF AddGrow, Grown, Queue
  <2>3. f \in Frame /\ f.pc = "sift" /\ f.task = Top.task /\ f.i = n
    BY <2>1, FrameMade
  <2>. HIDE DEF f
  <2>4. Top' = f /\ StackGoes(f)
    BY <1>3, <2>2, <2>3
  <2>5. TimerSlots' = [timerq.tasks EXCEPT ![n] = Top.task] /\ TaskSlots' = TaskSlots
        /\ TimerSlots = timerq.tasks
    BY <1>1, <2>1, <2>2, <2>3, <2>4 DEF TimerSlots, TaskSlots
  <2>6. InTimerq' \subseteq Waiting /\ InTaskq' = InTaskq
    <3>1. ASSUME NEW j \in 0 .. (n + 1) - 1
          PROVE  TimerSlots'[j] \in Waiting
      <4>1. /\ j \in Slots /\ (j = n \/ j \in 0 .. n - 1)
            /\ timerq.tasks \in [Slots -> Ids \cup {Garbage}]
        BY <1>0, <2>1, <3>1, TimerAssumption DEF Slots, Queue
      <4>2. CASE j = n
        BY <1>2, <2>1, <2>5, <4>1, <4>2
      <4>3. CASE j \in 0 .. n - 1 /\ j # n
        BY <1>0, <2>5, <4>1, <4>3 DEF InTimerq, HeldBy
      <4>. QED
        BY <1>0, <4>1, <4>2, <4>3
    <3>. QED
      BY <1>1, <2>2, <2>5, <3>1 DEF InTimerq, InTaskq, HeldBy
  <2>7. Frames({"arm"}) # {} => timeout[TimerSlots'[0]] <= timeout[TimerSlots[0]]
    <3>1. SUFFICES ASSUME Frames({"arm"}) # {}
                   PROVE  timeout[TimerSlots'[0]] <= timeout[TimerSlots[0]]
      OBVIOUS
    <3>2. n > 0
      BY <3>1 DEF OnTime, Frames
    <3>3. timerq.tasks \in [Slots -> Ids \cup {Garbage}] /\ 0 \in Slots
      BY <1>0, TimerAssumption DEF Queue, Slots
    <3>4. TimerSlots'[0] = TimerSlots[0]
      BY <2>1, <2>5, <3>2, <3>3
    <3>. QED
      BY <3>2, <3>4, FirstKnown
  <2>8. TimerSet'
    <3>1. Frames({"sift", "target", "arm"})' # {}
      <4>1. (\E k \in DOMAIN stack : stack[k].pc = "sift")'
        <5>1. ReplacesTop(stack, stack', f)
          BY <1>1, <2>2, <2>3, GotoBasic DEF Basic, Goto
        <5>. QED
          BY <1>0, <2>3, <5>1 DEF ReplacesTop
      <4>. QED
        BY <4>1 DEF Frames
    <3>. QED
      BY <3>1 DEF TimerSet
  <2>9. timerq'.size >= timerq.size
    BY <1>0, <2>2
  <2>. QED
    BY <1>0, <1>1, <2>3, <2>4, <2>6, <2>7, <2>8, <2>9, TimeKept
<1>7. CASE AddSift
  <2>. DEFINE n == timerq.size
              i == Top.i
              p == Parent(i)
  <2>1. /\ Top.pc = "sift" /\ Top.task \in Ids /\ i \in Slots /\ i < n /\ i \in Nat /\ n > 0
        /\ Top = [pc |-> "sift", task |-> Top.task, i |-> i] /\ timer' = timer
    <3>1. Top.pc = "sift" /\ Top.task \in Ids /\ i \in Slots
          /\ Top = [pc |-> "sift", task |-> Top.task, i |-> i] /\ timer' = timer
      BY <1>0, <1>7, FrameKinds DEF AddSift
    <3>. QED
      BY <1>0, <3>1 DEF ReadsHold, Slots
  <2>2. TimerSlots = [timerq.tasks EXCEPT ![i] = Top.task]
        /\ timerq.tasks \in [Slots -> Ids \cup {Garbage}] /\ 0 \in Slots
        /\ TimerSlots[i] = Top.task /\ \A j \in Slots : j # i => TimerSlots[j] = timerq.tasks[j]
    <3>1. TimerSlots = [timerq.tasks EXCEPT ![i] = Top.task]
          /\ timerq.tasks \in [Slots -> Ids \cup {Garbage}] /\ 0 \in Slots
      BY <1>0, <2>1, TimerAssumption DEF TimerSlots, Queue, Slots
    <3>. QED
      BY <2>1, <3>1
  <2>3. i > 0 => /\ p \in Slots /\ p < i /\ TimerSlots[p] = timerq.tasks[p]
                 /\ timerq.tasks[p] \in Ids
    <3>1. SUFFICES ASSUME i > 0
                   PROVE  p \in Slots /\ p < i /\ TimerSlots[p] = timerq.tasks[p]
                          /\ timerq.tasks[p] \in Ids
      OBVIOUS
    <3>2. p \in Nat /\ p < i
      BY <2>1, <3>1, ParentBelow DEF Slots
    <3>3. p \in Slots /\ p \in 0 .. n - 1
      <4>1. p \in 0 .. n - 1 /\ n <= TASK_MAX_SIZE
        BY <1>0, <2>1, <3>2, WholeKnown
      <4>. HIDE DEF p
      <4>. QED
        BY <1>0, <4>1, TimerAssumption DEF Slots
    <3>4. TimerSlots[p] = timerq.tasks[p]
      BY <2>2, <3>2, <3>3
    <3>. QED
      BY <3>2, <3>3, <3>4, WholeKnown DEF HoldsEach, Filled
  <2>4. ~ (i > 0 /\ timerq.tasks[p] = Garbage)
    BY <2>3, TimerAssumption DEF Garbage
  <2>5. ASSUME NEW f \in Frame, f.pc \in {"sift", "target"}, Goto(f), timerq'.size = n,
               \A j \in 0 .. n - 1 : TimerSlots'[j] \in InTimerq,
               timeout[TimerSlots'[0]] <= timeout[TimerSlots[0]]
        PROVE  OnTime'
    <3>1. StackGoes(f) /\ Top' = f
      BY <1>3, <2>5
    <3>2. InTimerq' \subseteq Waiting
      <4>1. HeldBy(TimerSlots', timerq'.size) \subseteq InTimerq
        BY <2>5 DEF HeldBy
      <4>. QED
        BY <1>0, <4>1 DEF InTimerq
    <3>3. TaskSlots' = TaskSlots
      BY <1>1, <2>1, <2>5, <3>1 DEF TaskSlots
    <3>4. InTaskq' \subseteq Ready
      BY <1>0, <1>1, <3>3 DEF InTaskq
    <3>5. TimerSet'
      <4>1. (\E k \in DOMAIN stack : stack[k].pc \in {"sift", "target"})'
        <5>1. ReplacesTop(stack, stack', f)
          BY <1>1, <2>5, GotoBasic DEF Basic, Goto
        <5>. QED
          BY <1>0, <2>5, <5>1 DEF ReplacesTop
      <4>2. Frames({"sift", "target", "arm"})' # {}
        BY <4>1 DEF Frames
      <4>. QED
        BY <4>2 DEF TimerSet
    <3>6. timerq'.size >= timerq.size /\ timerq'.size > 0
      BY <1>0, <2>1, <2>5
    <3>. QED
      BY <1>1, <2>5, <3>1, <3>2, <3>4, <3>5, <3>6, TimeKept
  <2>6. CASE Rises(timerq, Top.task, i)
    <3>. DEFINE f == [pc |-> "sift", task |-> Top.task, i |-> p]
    <3>1. i > 0 /\ timeout[timerq.tasks[p]] > timeout[Top.task]
      BY <2>6 DEF Rises
    <3>2. /\ timerq' = [timerq EXCEPT !.tasks[i] = timerq.tasks[p]]
          /\ Goto([Top EXCEPT !.i = Parent(@)])
      BY <1>7, <2>4, <2>6 DEF AddSift
    <3>3. [Top EXCEPT !.i = Parent(@)] = f
      BY <2>1
    <3>4. f \in Frame /\ f.pc = "sift" /\ f.i = p /\ f.task = Top.task
      BY <2>1, <2>3, <3>1, FrameMade
    <3>5. Goto(f)
      BY <3>2, <3>3
    <3>. HIDE DEF f, p
    <3>6. timerq'.size = n /\ timerq'.tasks = [timerq.tasks EXCEPT ![i] = timerq.tasks[p]]
      BY <1>0, <3>2 DEF Queue
    <3>7. Top' = f
      BY <1>3, <3>4, <3>5
    <3>8. TimerSlots' = [timerq'.tasks EXCEPT ![p] = Top.task]
      BY <3>4, <3>7 DEF TimerSlots
    <3>9. \A j \in Slots : TimerSlots'[j] = IF j = p THEN TimerSlots[i] ELSE IF j = i
                                            THEN TimerSlots[p] ELSE TimerSlots[j]
      BY <2>1, <2>2, <2>3, <3>1, <3>6, <3>8
    <3>10. i \in 0 .. n - 1 /\ p \in 0 .. n - 1 /\ \A j \in 0 .. n - 1 : j \in Slots
      BY <1>0, <2>1, <2>3, <3>1, TimerAssumption DEF Slots, Queue
    <3>11. \A j \in 0 .. n - 1 : TimerSlots'[j] \in InTimerq
      BY <3>9, <3>10 DEF InTimerq, HeldBy
    <3>12. timeout[TimerSlots'[0]] <= timeout[TimerSlots[0]]
      <4>1. TimerSlots'[0] = TimerSlots[0] \/ (p = 0 /\ TimerSlots'[0] = Top.task)
        BY <2>2, <3>1, <3>9
      <4>2. timeout[TimerSlots[0]] \in Int /\ timeout[Top.task] \in Int
        BY <1>0, <2>1, <3>10, FirstKnown
      <4>3. p = 0 => timeout[Top.task] <= timeout[TimerSlots[0]]
        BY <2>3, <3>1, <4>2
      <4>. QED
        BY <4>1, <4>2, <4>3
    <3>. QED
      BY <2>5, <3>4, <3>5, <3>6, <3>11, <3>12
  <2>7. CASE ~ Rises(timerq, Top.task, i)
    <3>. DEFINE f == [pc |-> "target"]
    <3>1. /\ timerq' = [timerq EXCEPT !.tasks[i] = Top.task] /\ Goto(f)
      BY <1>7, <2>4, <2>7 DEF AddSift
    <3>2. f \in Frame /\ f.pc = "target"
      BY FrameMade
    <3>. HIDE DEF f
    <3>3. timerq'.size = n /\ timerq'.tasks = TimerSlots
      BY <1>0, <2>2, <3>1 DEF Queue
    <3>4. Top' = f
      BY <1>3, <3>1, <3>2
    <3>5. TimerSlots' = TimerSlots
      BY <3>2, <3>3, <3>4 DEF TimerSlots
    <3>6. timeout[TimerSlots'[0]] <= timeout[TimerSlots[0]]
      BY <2>1, <3>5, FirstKnown
    <3>7. \A j \in 0 .. n - 1 : TimerSlots'[j] \in InTimerq
      BY <3>5 DEF InTimerq, HeldBy
    <3>. QED
      BY <2>5, <3>1, <3>2, <3>3, <3>6, <3>7
  <2>. QED
    BY <2>6, <2>7
<1>8. CASE AddTarget
  <2>1. Top.pc = "target" /\ timerq' = timerq /\ timer' = timer
    BY <1>8 DEF AddTarget
  <2>2. timerq.size > 0
    BY <1>0, <2>1 DEF OnTime, Frames
  <2>3. TimerSlots = timerq.tasks /\ TimerSlots[0] \in Ids /\ TimerSlots[0] \in Waiting
        /\ timeout[TimerSlots[0]] \in Int
    BY <1>0, <2>1, <2>2, FirstKnown DEF TimerSlots
  <2>. DEFINE f == [pc |-> "arm", delay |-> timeout[timerq.tasks[0]] - now]
  <2>4. Goto(f)
    BY <1>8, <2>3, TimerAssumption DEF AddTarget, Garbage
  <2>5. f \in Frame /\ f.pc = "arm" /\ f.delay = timeout[TimerSlots[0]] - now
    <3>1. timeout[timerq.tasks[0]] - now \in Int
      BY <1>0, <2>3
    <3>. QED
      BY <2>3, <3>1, FrameMade
  <2>. HIDE DEF f
  <2>6. f.delay < TvalRange
    BY <2>3, <2>5 DEF OnTime
  <2>7. TimerSlots' = TimerSlots /\ InTimerq' = InTimerq /\ InTaskq' = InTaskq
    BY <1>4, <2>1, <2>4, <2>5
  <2>8. timeout[TimerSlots[0]] <= now + f.delay
    BY <1>0, <2>3, <2>5
  <2>9. StackGoes(f) /\ StackKeeps({"sift", "target", "arm"})
    BY <1>3, <2>4, <2>5
  <2>10. TimerSet'
    <3>1. Frames({"sift", "target", "arm"}) # {}
      BY <1>0, <2>1 DEF Frames
    <3>. QED
      BY <2>9, <3>1, KeepsBusy DEF TimerSet
  <2>11. timeout[TimerSlots'[0]] <= timeout[TimerSlots[0]]
    BY <2>3, <2>7
  <2>12. timerq'.size >= timerq.size /\ timerq'.size > 0
    BY <1>0, <2>1, <2>2
  <2>. HIDE DEF f
  <2>. QED
    BY <1>0, <1>1, <2>5, <2>6, <2>7, <2>8, <2>9, <2>10, <2>11, <2>12, TimeKept
<1>9. CASE AddArm
  <2>. DEFINE f == [pc |-> "enable"]
  <2>1. Top.pc = "arm" /\ timerq' = timerq /\ Goto(f) /\ f \in Frame /\ f.pc = "enable"
        /\ timer' = [timer EXCEPT !.at = now + Tval(Top.delay)]
    BY <1>9, FrameMade DEF AddArm
  <2>2. timerq.size > 0 /\ Top.delay < TvalRange /\ timeout[TimerSlots[0]] <= now + Top.delay
    BY <1>0, <2>1 DEF OnTime, Frames
  <2>3. Top.delay \in Int /\ timeout[TimerSlots[0]] \in Int
    BY <1>0, <2>1, <2>2, FrameKinds, FirstKnown
  <2>4. timer'.at = now + Tval(Top.delay) /\ Tval(Top.delay) \in Int /\ Top.delay <= Tval(Top.delay)
    BY <1>0, <2>1, <2>2, <2>3, TvalInRange
  <2>. HIDE DEF f
  <2>5. TimerSlots' = TimerSlots /\ InTimerq' = InTimerq /\ InTaskq' = InTaskq
    BY <1>4, <2>1
  <2>6. StackGoes(f)
    BY <1>3, <2>1
  <2>7. timeout'[TimerSlots'[0]] <= timer'.at
    BY <1>0, <1>1, <2>2, <2>3, <2>4, <2>5
  <2>8. TimerSet'
    BY <2>7 DEF TimerSet
  <2>9. timeout[TimerSlots'[0]] <= timeout[TimerSlots[0]]
    BY <2>3, <2>5
  <2>10. InTimerq' \subseteq Waiting /\ InTaskq' \subseteq Ready /\ timerq'.size >= timerq.size
    BY <1>0, <2>1, <2>5
  <2>. QED
    BY <1>1, <2>1, <2>6, <2>8, <2>9, <2>10, TimeKept
<1>. QED
  BY <1>5, <1>6, <1>7, <1>8, <1>9

\* A step that leaves the timer queue and what is on its way to it alone.
LEMMA TimeQuiet ==
    ASSUME Basic, Whole, Basic', Whole', OnTime, NEW f, StackGoes(f),
           StackKeeps({"sift", "target", "arm"}), Top.pc # "sift", Top'.pc # "sift",
           timerq' = timerq, timer'.at = timer.at \/ timerq.size = 0,
           UNCHANGED <<now, timeout, due, early>>, InTaskq' \subseteq Ready,
           f.pc \notin {"add", "load", "grow", "target", "arm"},
           f.pc \in {"sink", "run"} => f.task \in Ready
    PROVE  OnTime'
<1>1. TimerSlots' = TimerSlots
  BY DEF TimerSlots
<1>2. InTimerq' \subseteq Waiting
  BY <1>1 DEF InTimerq, Waiting
<1>3. TimerSet'
  <2>1. SUFFICES ASSUME timerq'.size > 0, Frames({"sift", "target", "arm"})' = {}
                 PROVE  timeout'[TimerSlots'[0]] <= timer'.at
    BY DEF TimerSet
  <2>2. Frames({"sift", "target", "arm"}) = {}
    BY <2>1, KeepsBusy
  <2>. QED
    BY <1>1, <2>1, <2>2 DEF OnTime
<1>4. Frames({"arm"}) # {} => timeout[TimerSlots'[0]] <= timeout[TimerSlots[0]]
  <2>1. Frames({"arm"}) # {} => timerq.size > 0
    BY DEF OnTime, Frames
  <2>. QED
    BY <1>1, <2>1, FirstKnown
<1>5. timerq'.size >= timerq.size
  BY WholeKnown
<1>. QED
  BY <1>2, <1>3, <1>4, <1>5, TimeKept

LEMMA TimeTasks ==
    ASSUME Basic, Whole, Basic', Whole', OnTime,
           Enable \/ LoopTest \/ PopTest \/ PopTop \/ PopSize \/ PopLast \/ PopSink
    PROVE  OnTime'
<1>0. /\ InTaskq \subseteq Ready /\ Top \in Frame /\ timer \in [on : BOOLEAN, at : Int]
      /\ OneChanges /\ Apart(stack) /\ Len(stack) \in DOMAIN stack /\ Top = stack[Len(stack)]
  BY WholeKnown, TopKnown DEF Ready, Basic, Typed
<1>1. UNCHANGED <<now, timeout, timerq, due, early>> /\ timer'.at = timer.at
      /\ Top.pc \in {"enable", "loop", "pop", "top", "size", "last", "sink"}
  BY <1>0 DEF Enable, LoopTest, PopTest, PopTop, PopSize, PopLast, PopSink
<1>2. ASSUME NEW f \in Frame, f.pc \in {"pop", "wild", "top", "size", "last", "sink", "run"},
             Goto(f),
             InTaskq' \subseteq InTaskq, f.pc \in {"sink", "run"} => f.task \in Ready
      PROVE  OnTime'
  <2>1. StackGoes(f) /\ StackKeeps({"sift", "target", "arm"})
    BY <1>1, <1>2, GotoGoes
  <2>2. Top' = f
    <3>1. ReplacesTop(stack, stack', f)
      BY <1>1, <1>2, GotoBasic DEF Basic, Goto
    <3>. QED
      BY <3>1 DEF ReplacesTop, Top
  <2>. QED
    BY <1>0, <1>1, <1>2, <2>1, <2>2, TimeQuiet
<1>3. ASSUME Done, Top.pc \in {"enable", "loop"}, UNCHANGED taskq
      PROVE  OnTime'
  <2>1. StackGoes(Loop) /\ StackKeeps({"sift", "target", "arm"})
    BY <1>3, DoneGoes
  <2>2. Top'.pc \notin {"sift", "sink"}
    BY <1>0, <1>1, <1>3, WholeDone
  <2>3. InTaskq' = InTaskq
    BY <1>3, <2>2 DEF InTaskq, TaskSlots
  <2>4. Loop.pc = "loop"
    BY DEF Loop
  <2>. QED
    BY <1>0, <1>1, <2>1, <2>2, <2>3, <2>4, TimeQuiet
<1>4. ASSUME NEW f \in Frame, f.pc \in {"pop", "wild", "top", "size", "last"}, Goto(f),
             Top.pc \in {"loop", "pop", "top", "size"}, UNCHANGED taskq
      PROVE  OnTime'
  <2>1. Top' = f
    <3>1. ReplacesTop(stack, stack', f)
      BY <1>1, <1>4, GotoBasic DEF Basic, Goto
    <3>. QED
      BY <3>1 DEF ReplacesTop, Top
  <2>2. InTaskq' = InTaskq
    BY <1>4, <2>1 DEF InTaskq, TaskSlots
  <2>. QED
    BY <1>2, <1>4, <2>2
<1>5. CASE Enable
  BY <1>3, <1>5 DEF Enable
<1>6. CASE LoopTest
  <2>1. CASE MoreTasks(taskq.size)
    <3>1. [pc |-> "pop"] \in Frame /\ Goto([pc |-> "pop"]) /\ UNCHANGED taskq /\ Top.pc = "loop"
      BY <1>6, <2>1, FrameMade DEF LoopTest
    <3>. QED
      BY <1>4, <3>1
  <2>2. CASE ~ MoreTasks(taskq.size)
    BY <1>3, <1>6, <2>2 DEF LoopTest
  <2>. QED
    BY <2>1, <2>2
<1>7. CASE PopTest
  <2>1. \E f \in Frame : Goto(f) /\ f.pc \in {"wild", "top"} /\ Top.pc = "pop" /\ UNCHANGED taskq
    <3>1. [pc |-> "wild"] \in Frame /\ [pc |-> "top"] \in Frame
      BY FrameMade
    <3>. QED
      BY <1>7, <3>1 DEF PopTest, GoWild
  <2>. QED
    BY <1>4, <2>1
<1>10. CASE PopTop
  <2>. DEFINE f == [pc |-> "size", task |-> taskq.tasks[0]]
  <2>1. Top.pc = "top" /\ UNCHANGED taskq /\ Goto(f)
    BY <1>10 DEF PopTop
  <2>2. taskq.tasks[0] \in Ids
    BY <2>1, TopKnown DEF Basic, NoGarbageTaken
  <2>3. f \in Frame /\ f.pc = "size"
    BY <2>2, FrameMade
  <2>. HIDE DEF f
  <2>. QED
    BY <1>4, <2>1, <2>3
<1>11. CASE PopSize
  <2>1. Top.pc = "size" /\ UNCHANGED taskq /\ taskq.size > 0 /\ Top.task \in Ids
    BY <1>0, <1>11, WholeKnown, FrameKinds DEF PopSize, ReadsHold
  <2>. DEFINE f == [pc |-> "last", task |-> Top.task, size |-> taskq.size]
  <2>2. f \in Frame /\ f.pc = "last"
    BY <2>1, WholeKnown, FrameMade, TimerAssumption
  <2>3. Goto(f)
    BY <1>11, <2>1, WholeKnown DEF PopSize
  <2>. HIDE DEF f
  <2>. QED
    BY <1>4, <2>1, <2>2, <2>3
<1>8. CASE PopLast
  <2>1. InTaskq' \subseteq InTaskq /\ Top.task \in InTaskq
        /\ \E f \in Frame : Goto(f) /\ f.pc = "sink" /\ f.task = Top.task
    BY <1>8, WholePop
  <2>. QED
    BY <1>0, <1>2, <2>1
<1>9. CASE PopSink
  <2>1. InTaskq' = InTaskq
        /\ \E f \in Frame : Goto(f) /\ f.pc \in {"sink", "run"} /\ f.task = Top.task
    BY <1>9, WholeSink
  <2>2. Top.task \in Ready
    <3>1. Top.pc = "sink" /\ Top.task \in Ids
      BY <1>0, <1>9, FrameKinds DEF PopSink
    <3>. QED
      BY <1>0, <3>1 DEF Ready
  <2>. QED
    BY <1>2, <2>1, <2>2
<1>. QED
  BY <1>5, <1>6, <1>7, <1>8, <1>9, <1>10, <1>11

LEMMA TimeRun ==
    ASSUME Basic, Whole, Basic', Whole', OnTime, \A d \in Delays : d < TvalRange, Run
    PROVE  OnTime'
<1>. DEFINE mid == [stack EXCEPT ![Len(stack)] = Loop]
<1>0. /\ Top \in Frame /\ Top.pc = "run" /\ Top.task \in Ids /\ now \in Int /\ due \in [Ids -> Int]
      /\ UNCHANGED <<now, timer, timerq, taskq>>
      /\ stack \in Seq(Frame) /\ Len(stack) \in Nat /\ Len(stack) > 0
      /\ DOMAIN stack = 1 .. Len(stack) /\ Top = stack[Len(stack)] /\ Len(stack) \in DOMAIN stack
  BY TopKnown, FrameKinds DEF Basic, Typed, Run
<1>1. Top.task \in Ready
  BY <1>0 DEF Ready
<1>2. early' = early
  <2>1. due[Top.task] <= now
    BY <1>1 DEF OnTime
  <2>2. ~ now < due[Top.task]
    BY <1>0, <2>1
  <2>. QED
    BY <2>2 DEF Run
<1>3. Loop \in Frame /\ Loop.pc = "loop"
  BY FrameMade DEF Loop
<1>4. ASSUME NEW t \in Fresh, NEW delay \in Delays, Set(t, delay),
             stack' = Append(mid, [pc |-> "add", task |-> t])
      PROVE  OnTime'
  <2>. DEFINE f == [pc |-> "add", task |-> t]
  <2>1. f \in Frame /\ f.pc = "add" /\ stack' = Append(mid, f)
    BY <1>4, FrameMade DEF Fresh
  <2>. HIDE DEF f, mid
  <2>2. ReplacesTop(stack, mid, Loop)
    BY <1>0, <1>3, Replaced DEF mid
  <2>3. /\ mid \in Seq(Frame) /\ Len(mid) = Len(stack) /\ DOMAIN mid = DOMAIN stack
        /\ mid[Len(stack)] = Loop /\ \A k \in DOMAIN stack : k # Len(stack) => mid[k] = stack[k]
    BY <2>2 DEF ReplacesTop
  <2>4. Grows(mid, stack', f)
    BY <2>1, <2>3, Pushed
  <2>5. /\ Len(stack') = Len(stack) + 1 /\ DOMAIN stack' = 1 .. Len(stack) + 1
        /\ stack'[Len(stack) + 1] = f
        /\ \A k \in DOMAIN stack : k \in DOMAIN stack' /\ stack'[k] = mid[k]
    BY <1>0, <2>3, <2>4 DEF Grows
  <2>6. Top' = f
    BY <2>5 DEF Top
  <2>7. \A k \in DOMAIN stack' : k = Len(stack) + 1 \/ k \in DOMAIN stack
    BY <1>0, <2>5
  <2>8. StackGoes(f)
    BY <1>3, <2>3, <2>5, <2>7 DEF StackGoes
  <2>9. StackKeeps({"sift", "target", "arm"})
    BY <1>0, <2>3, <2>5 DEF StackKeeps
  <2>10. StackGoes([pc |-> "add", task |-> t])
    BY <2>8 DEF f
  <2>. QED
    BY <1>0, <1>2, <1>4, <2>1, <2>6, <2>9, <2>10, TimeSet
<1>5. ASSUME Goto(Loop), UNCHANGED <<timeout, due>>
      PROVE  OnTime'
  <2>1. StackGoes(Loop) /\ StackKeeps({"sift", "target", "arm"})
    BY <1>0, <1>3, <1>5, GotoGoes
  <2>2. Top' = Loop
    <3>1. ReplacesTop(stack, stack', Loop)
      BY <1>0, <1>3, <1>5, GotoBasic DEF Basic, Goto
    <3>. QED
      BY <3>1 DEF ReplacesTop, Top
  <2>3. InTaskq' \subseteq Ready
    <3>1. InTaskq' = InTaskq
      BY <1>0, <1>3, <2>2 DEF InTaskq, TaskSlots
    <3>. QED
      BY <3>1 DEF Ready
  <2>. QED
    BY <1>0, <1>2, <1>3, <1>5, <2>1, <2>2, <2>3, TimeQuiet
<1>. QED
  BY <1>4, <1>5 DEF Run

LEMMA TimeSetTimeout ==
    ASSUME Basic, Whole, Basic', Whole', OnTime, \A d \in Delays : d < TvalRange,
           NEW t \in Ids, NEW delay \in Delays, SetTimeout(t, delay)
    PROVE  OnTime'
<1>. DEFINE f == [pc |-> "add", task |-> t]
<1>1. f \in Frame /\ f.pc = "add"
  BY FrameMade
<1>2. stack' = Append(stack, f) /\ Top.pc = "shell" /\ t \in Fresh /\ Set(t, delay)
      /\ UNCHANGED <<now, timer, timerq, taskq, early>>
  BY DEF SetTimeout, Push
<1>. HIDE DEF f
<1>3. StackGoes(f) /\ StackKeeps({"sift", "target", "arm"})
  BY <1>1, <1>2, PushGoes
<1>4. Top' = f
  <2>1. Grows(stack, stack', f)
    BY <1>1, <1>2, PushBasic DEF Basic
  <2>. QED
    BY <2>1 DEF Grows, Top
<1>5. StackGoes([pc |-> "add", task |-> t])
  BY <1>3 DEF f
<1>. QED
  BY <1>1, <1>2, <1>3, <1>4, <1>5, TimeSet

LEMMA TimeUartIrq ==
    ASSUME Basic, Whole, Basic', Whole', OnTime, UartIrq, "queue" \notin cut'
    PROVE  OnTime'
<1>1. Loop \in Frame /\ Loop.pc = "loop"
  BY FrameMade DEF Loop
<1>2. stack' = Append(stack, Loop) /\ UNCHANGED <<now, timer, timeout, timerq, taskq, due, early>>
      /\ "queue" \notin Hits
  BY DEF UartIrq, Push
<1>3. StackGoes(Loop) /\ StackKeeps({"sift", "target", "arm"})
  BY <1>1, <1>2, PushGoes
<1>4. Top' = Loop
  <2>1. Grows(stack, stack', Loop)
    BY <1>1, <1>2, PushBasic DEF Basic
  <2>. QED
    BY <2>1 DEF Grows, Top
<1>5. Top.pc \notin {"sift", "sink"}
  <2>1. Quiet
    BY <1>2, NotHit, WholeKnown
  <2>. QED
    BY <2>1, TopKnown DEF Quiet, Basic
<1>6. InTaskq' \subseteq Ready
  <2>1. InTaskq' = InTaskq
    BY <1>1, <1>2, <1>4, <1>5 DEF InTaskq, TaskSlots
  <2>. QED
    BY <2>1 DEF Ready
<1>. QED
  BY <1>1, <1>2, <1>3, <1>4, <1>5, <1>6, TimeQuiet

\* The first task is due when the timer fires, and the timer is set for the next.
LEMMA TimeTimerIrq ==
    ASSUME Basic, Whole, Basic', Whole', OnTime, TimerIrq, cut' \cap {"queue", "timer"} = {}
    PROVE  OnTime'
<1>. DEFINE n == timerq.size
            task == timerq.tasks[0]
            left == Pop(timerq)
<1>0. /\ timerq \in Queue /\ taskq \in Queue /\ timeout \in [Ids -> Int] /\ due \in [Ids -> Int]
      /\ n \in Nat /\ now \in Int /\ timer \in [on : BOOLEAN, at : Int]
      /\ Parted(InTimerq, InTaskq, OnStack, HasRun, dropped, Ids \ Fresh)
      /\ UNCHANGED <<now, due, early>> /\ now >= timer.at
  BY WholeKnown DEF TimerIrq, Basic, Typed
<1>1. Quiet /\ Frames({"target", "arm"}) = {}
  <2>1. "queue" \notin Hits /\ "timer" \notin Hits
    BY DEF TimerIrq
  <2>2. Frames({"target", "arm"}) = {}
    BY <2>1 DEF Hits
  <2>. QED
    BY <2>1, <2>2, NotHit, WholeKnown
<1>2. Loop \in Frame /\ Loop.pc = "loop"
  BY FrameMade DEF Loop
<1>3. Top.pc \notin {"sift", "sink"}
  BY <1>1, TopKnown DEF Quiet, Basic
<1>4. /\ TimerSlots = timerq.tasks /\ TaskSlots = taskq.tasks
      /\ HeapBut(timerq.tasks, n, 0) /\ HoldsEach(timerq.tasks, n)
      /\ HoldsEach(taskq.tasks, taskq.size)
      /\ Garbage \notin Held(timerq)
  <2>1. TimerSlots = timerq.tasks /\ TaskSlots = taskq.tasks
        /\ HeapBut(timerq.tasks, n, 0) /\ HoldsEach(timerq.tasks, n)
        /\ HoldsEach(taskq.tasks, taskq.size)
    BY <1>3, WholeKnown
  <2>. QED
    BY <1>0, <2>1, HeldFilled DEF HoldsEach
<1>5. stack' = Append(stack, Loop)
  BY <1>4 DEF TimerIrq, Push
<1>6. StackGoes(Loop) /\ StackKeeps({"sift", "target", "arm"})
  BY <1>2, <1>5, PushGoes
<1>7. Top' = Loop
  <2>1. Grows(stack, stack', Loop)
    BY <1>2, <1>5, PushBasic DEF Basic
  <2>. QED
    BY <2>1 DEF Grows, Top
<1>8. TimerSlots' = timerq'.tasks /\ TaskSlots' = taskq'.tasks
  BY <1>2, <1>7 DEF TimerSlots, TaskSlots
<1>9. CASE n = 0
  <2>1. UNCHANGED <<timeout, timerq, taskq>>
    BY <1>9 DEF TimerIrq
  <2>2. InTaskq' \subseteq Ready
    <3>1. InTaskq' = InTaskq
      BY <1>4, <1>8, <2>1 DEF InTaskq
    <3>. QED
      BY <3>1 DEF Ready
  <2>. QED
    BY <1>0, <1>2, <1>3, <1>6, <1>7, <1>9, <2>1, <2>2, TimeQuiet
<1>10. CASE n > 0
  <2>1. /\ timerq' = left /\ timeout' = [timeout EXCEPT ![task] = 0]
        /\ timer'.at = IF left.size = 0 THEN now + 2
                       ELSE now + Tval(LeftUntil(timeout[left.tasks[0]]))
        /\ Full(taskq) => UNCHANGED taskq
        /\ ~ Full(taskq) => taskq' = Add(taskq, task)
    BY <1>4, <1>10 DEF TimerIrq
  <2>2. /\ left \in Queue /\ left.size = n - 1 /\ HoldsEach(left.tasks, n - 1)
        /\ HeldBy(left.tasks, n - 1) = HeldBy(timerq.tasks, n) \ {task}
    BY <1>0, <1>4, <1>10, PopHolds DEF HoldsEach
  <2>3. task \in InTimerq /\ task \in Ids /\ InTimerq = HeldBy(timerq.tasks, n)
    BY <1>0, <1>4, <1>10 DEF InTimerq, HeldBy, HoldsEach, Filled
  <2>4. due[task] <= now /\ task \notin OnStack /\ task \notin InTaskq
    <3>1. Frames({"sift", "target", "arm"}) = {}
      BY <1>1 DEF Frames, Quiet
    <3>2. timeout[task] <= timer.at /\ timeout[task] = due[task]
      BY <1>4, <1>10, <2>3, <3>1 DEF OnTime, Waiting
    <3>3. task \notin OnStack /\ task \notin InTaskq
      BY <1>0, <2>3 DEF Parted
    <3>. HIDE DEF task
    <3>. QED
      BY <1>0, <2>3, <3>2, <3>3
  <2>. HIDE DEF left, task
  <2>5. InTimerq' = InTimerq \ {task}
    BY <1>8, <2>1, <2>2, <2>3 DEF InTimerq
  <2>6. InTaskq' \subseteq InTaskq \cup {task}
    <3>0. InTaskq' = HeldBy(taskq'.tasks, taskq'.size) /\ InTaskq = HeldBy(taskq.tasks, taskq.size)
      BY <1>4, <1>8 DEF InTaskq
    <3>1. CASE Full(taskq)
      BY <2>1, <3>0, <3>1
    <3>2. CASE ~ Full(taskq)
      <4>1. HeldBy(taskq'.tasks, taskq.size + 1) = HeldBy(taskq.tasks, taskq.size) \cup {task}
            /\ taskq'.size = taskq.size + 1
        BY <1>0, <1>4, <2>1, <2>3, <3>2, AddHolds DEF HoldsEach
      <4>. QED
        BY <3>0, <4>1
    <3>. QED
      BY <3>1, <3>2
  <2>7. \A u \in Ids : u # task => timeout'[u] = timeout[u]
    BY <1>0, <2>1
  <2>8. ASSUME NEW u \in Waiting'
        PROVE  u \in Waiting /\ u # task /\ u \in Ids
    <3>1. CASE u \in InTimerq'
      BY <2>5, <3>1, WaitingKnown DEF Waiting
    <3>2. CASE u \in Ids /\ \E k \in DOMAIN stack' : stack'[k].pc \in {"add", "load", "grow"}
                                                     /\ stack'[k].task = u
      <4>1. PICK k \in DOMAIN stack : stack[k].pc \in {"add", "load", "grow"} /\ stack[k].task = u
        BY <1>2, <1>6, <3>2 DEF StackGoes
      <4>2. u \in Waiting
        BY <3>2, <4>1 DEF Waiting
      <4>3. u \in OnStack
        BY <3>2, <4>1 DEF OnStack, Loads, Load
      <4>. QED
        BY <2>4, <3>2, <4>2, <4>3
    <3>. QED
      BY <3>1, <3>2 DEF Waiting
  <2>9. ASSUME NEW u \in Ready'
        PROVE  u \in Ready \/ u = task
    <3>1. CASE u \in InTaskq'
      BY <2>6, <3>1 DEF Ready
    <3>2. CASE u \in Ids /\ \E k \in DOMAIN stack' : stack'[k].pc \in {"sink", "run"}
                                                     /\ stack'[k].task = u
      BY <1>2, <1>6, <3>2 DEF StackGoes, Ready
    <3>. QED
      BY <3>1, <3>2 DEF Ready
  <2>10. \A u \in Waiting' : timeout'[u] = due'[u] /\ due'[u] - now' < TvalRange
    BY <1>0, <2>7, <2>8 DEF OnTime
  <2>11. \A u \in Ready' : due'[u] <= now'
    BY <1>0, <2>4, <2>9 DEF OnTime
  <2>12. Frames({"target", "arm"})' = {}
    BY <1>1, <1>2, <1>6 DEF StackGoes, Frames
  <2>13. \A k \in DOMAIN stack' : stack'[k].pc # "arm"
    BY <2>12 DEF Frames
  <2>14. timerq'.size > 0 => timeout'[TimerSlots'[0]] <= timer'.at
    <3>1. SUFFICES ASSUME timerq'.size > 0
                   PROVE  timeout'[TimerSlots'[0]] <= timer'.at
      OBVIOUS
    <3>. DEFINE next == left.tasks[0]
                d == LeftUntil(timeout[next])
    <3>2. next \in Ids /\ next \in HeldBy(left.tasks, n - 1) /\ left.size # 0
      <4>1. 0 \in 0 .. (n - 1) - 1 /\ left.size > 0
        BY <1>0, <2>1, <2>2, <3>1
      <4>. QED
        BY <2>2, <4>1 DEF HoldsEach, Filled, HeldBy
    <3>3. next # task /\ next \in Waiting
      BY <2>2, <2>3, <3>2 DEF Waiting
    <3>4. timeout[next] \in Int /\ timeout[next] - now < TvalRange
      BY <1>0, <3>2, <3>3 DEF OnTime
    <3>5. TimerSlots'[0] = next /\ timeout'[next] = timeout[next]
          /\ timer'.at = now + Tval(d)
      BY <1>8, <2>1, <2>7, <3>2, <3>3
    <3>. HIDE DEF next
    <3>6. d \in Int /\ d < TvalRange /\ timeout[next] <= now + d
      BY <1>0, <3>4, TimerAssumption DEF LeftUntil
    <3>7. Tval(d) \in Int /\ d <= Tval(d)
      BY <3>6, TvalInRange
    <3>. HIDE DEF d
    <3>. QED
      BY <1>0, <3>4, <3>5, <3>6, <3>7
  <2>15. early' = {}
    BY <1>0 DEF OnTime
  <2>. QED
    BY <2>10, <2>11, <2>12, <2>13, <2>14, <2>15 DEF OnTime
<1>. QED
  BY <1>0, <1>9, <1>10

LEMMA InitOnTime == Init => OnTime
<1>. SUFFICES ASSUME Init
              PROVE  OnTime
  OBVIOUS
<1>1. stack = <<Shell>> /\ DOMAIN stack = {1} /\ Len(stack) = 1
      /\ timerq.size = 0 /\ taskq.size = 0 /\ early = {}
  BY DEF Init
<1>2. Waiting = {} /\ Ready = {}
  BY <1>1 DEF Waiting, Ready, InTimerq, InTaskq, HeldBy, Shell
<1>3. \A pcs : "shell" \notin pcs => Frames(pcs) = {}
  BY <1>1 DEF Frames, Shell
<1>. QED
  BY <1>1, <1>2, <1>3 DEF OnTime, Shell

LEMMA TimeNext ==
    ASSUME Basic, Whole, Basic', Whole', OnTime, Tame', Next
    PROVE  OnTime'
<1>1. cut' \cap {"queue", "timer"} = {} /\ "queue" \notin cut' /\ \A d \in Delays : d < TvalRange
  BY DEF Tame
<1>. QED
  BY <1>1, TimeAdvance, TimeSetTimeout, TimeTimerIrq, TimeUartIrq, TimeAdd, TimeTasks, TimeRun
  DEF Next, Step

-----------------------------------------------------------------------------
(* Frames that are lost                                                    *)

\* An interrupt that hit a window is not forgotten.
LEMMA CutStays == ASSUME Next PROVE cut \subseteq cut'
BY DEF Next, Step, Advance, SetTimeout, TimerIrq, UartIrq, AddTest, AddLoad, AddGrow, AddSift,
       AddTarget, AddArm, Enable, LoopTest, PopTest, PopTop, PopSize, PopLast, PopSink, Run

\* What loses a frame.
Loses ==
    \/ AddLoad /\ Full(timerq)
    \/ AddSift /\ Top.i > 0 /\ timerq.tasks[Parent(Top.i)] = Garbage
    \/ AddTarget /\ timerq.tasks[0] = Garbage
    \/ PopTest /\ taskq.size = 0
    \/ PopSize /\ taskq.size = 0
    \/ TimerIrq /\ Garbage \in Held(timerq)

\* The frame that a step leaves behind, and which step leaves which.
Leaving(f) ==
    /\ StackGoes(f)
    /\ f.pc = "target" => AddSift
    /\ f.pc = "pop" => LoopTest
    /\ f.pc = "wild" => Loses

LEMMA StepLeaves ==
    ASSUME Basic, Next
    PROVE  \E f : Leaving(f)
<1>0. /\ stack \in Seq(Frame) /\ Len(stack) > 0 /\ Len(stack) \in Nat /\ Top \in Frame
      /\ DOMAIN stack = 1 .. Len(stack) /\ Len(stack) \in DOMAIN stack
  BY TopKnown DEF Basic, Typed
<1>1. ASSUME NEW f, Goto(f)
      PROVE  StackGoes(f)
  BY <1>0, <1>1 DEF Goto, StackGoes
<1>2. ASSUME NEW f \in Frame, f.pc # "shell", stack' = Append(stack, f)
      PROVE  StackGoes(f)
  BY <1>2, PushGoes
<1>3. CASE Advance
  <2>1. StackGoes(Loop) /\ Loop.pc = "loop"
    BY <1>3 DEF Advance, StackGoes, Loop
  <2>. QED
    BY <2>1 DEF Leaving
<1>4. CASE \E t \in Ids, delay \in Delays : SetTimeout(t, delay)
  <2>1. PICK t \in Ids, delay \in Delays : SetTimeout(t, delay)
    BY <1>4
  <2>. DEFINE f == [pc |-> "add", task |-> t]
  <2>2. f \in Frame /\ f.pc = "add" /\ stack' = Append(stack, f)
    BY <2>1, FrameMade DEF SetTimeout, Push
  <2>. HIDE DEF f
  <2>. QED
    BY <1>2, <2>2 DEF Leaving
<1>5. CASE TimerIrq \/ UartIrq
  <2>1. \/ stack' = Append(stack, Loop)
        \/ (stack' = Append(stack, [pc |-> "wild"]) /\ TimerIrq /\ Garbage \in Held(timerq))
    BY <1>5 DEF TimerIrq, UartIrq, Push
  <2>2. Loop \in Frame /\ Loop.pc = "loop" /\ [pc |-> "wild"] \in Frame
    BY FrameMade DEF Loop
  <2>3. CASE stack' = Append(stack, Loop)
    BY <1>2, <2>2, <2>3 DEF Leaving
  <2>4. CASE stack' = Append(stack, [pc |-> "wild"]) /\ TimerIrq /\ Garbage \in Held(timerq)
    BY <1>2, <2>2, <2>4 DEF Leaving, Loses
  <2>. QED
    BY <2>1, <2>3, <2>4
<1>6. CASE AddTest \/ AddLoad \/ AddTarget \/ AddArm
  <2>1. \E f : Goto(f) /\ f.pc \notin {"target", "pop"} /\ (f.pc = "wild" => Loses)
    <3>1. CASE AddTest
      BY <3>1 DEF AddTest
    <3>2. CASE AddLoad
      BY <3>2 DEF AddLoad, GoWild, Loses
    <3>3. CASE AddTarget
      BY <3>3 DEF AddTarget, GoWild, Loses
    <3>4. CASE AddArm
      BY <3>4 DEF AddArm
    <3>. QED
      BY <1>6, <3>1, <3>2, <3>3, <3>4
  <2>2. PICK f : Goto(f) /\ f.pc \notin {"target", "pop"} /\ (f.pc = "wild" => Loses)
    BY <2>1
  <2>3. StackGoes(f)
    BY <1>1, <2>2
  <2>. QED
    BY <2>2, <2>3 DEF Leaving
<1>7. CASE AddGrow \/ AddSift
  <2>1. Top = [pc |-> Top.pc, task |-> Top.task, i |-> Top.i]
    BY <1>0, <1>7, FrameKinds DEF AddGrow, AddSift
  <2>2. \E f : /\ Goto(f) /\ f.pc # "pop"
               /\ f.pc = "target" => AddSift
               /\ f.pc = "wild" => Loses
    <3>1. CASE AddGrow
      <4>1. [Top EXCEPT !.pc = "sift"].pc = "sift"
        BY <2>1
      <4>. QED
        BY <3>1, <4>1 DEF AddGrow
    <3>2. CASE AddSift
      <4>1. [Top EXCEPT !.i = Parent(@)].pc = "sift"
        BY <2>1, <3>2 DEF AddSift
      <4>. DEFINE g == [Top EXCEPT !.i = Parent(@)]
      <4>2. \/ Goto([pc |-> "wild"]) /\ Loses
            \/ Goto(g)
            \/ Goto([pc |-> "target"])
        BY <3>2 DEF AddSift, GoWild, Loses
      <4>. HIDE DEF g
      <4>3. g.pc = "sift"
        BY <4>1 DEF g
      <4>. QED
        BY <3>2, <4>2, <4>3
    <3>. QED
      BY <1>7, <3>1, <3>2
  <2>3. PICK f : /\ Goto(f) /\ f.pc # "pop"
                 /\ f.pc = "target" => AddSift
                 /\ f.pc = "wild" => Loses
    BY <2>2
  <2>4. StackGoes(f)
    BY <1>1, <2>3
  <2>. QED
    BY <2>3, <2>4 DEF Leaving
<1>8. CASE Enable \/ LoopTest
  <2>1. Top.pc # "shell" /\ (Done \/ (LoopTest /\ Goto([pc |-> "pop"])))
    BY <1>8 DEF Enable, LoopTest
  <2>2. CASE Done
    <3>1. StackGoes(Loop)
      BY <2>1, <2>2, DoneGoes
    <3>. QED
      BY <3>1 DEF Leaving, Loop
  <2>3. CASE LoopTest /\ Goto([pc |-> "pop"])
    BY <1>1, <2>3 DEF Leaving
  <2>. QED
    BY <2>1, <2>2, <2>3
<1>9. CASE PopTest \/ PopTop \/ PopSize \/ PopLast
  <2>1. \E f : Goto(f) /\ f.pc \notin {"target", "pop"} /\ (f.pc = "wild" => Loses)
    <3>1. CASE PopTest
      BY <3>1 DEF PopTest, GoWild, Loses
    <3>2. CASE PopTop
      BY <3>2 DEF PopTop
    <3>3. CASE PopSize
      BY <3>3 DEF PopSize, GoWild, Loses
    <3>4. CASE PopLast
      BY <3>4 DEF PopLast
    <3>. QED
      BY <1>9, <3>1, <3>2, <3>3, <3>4
  <2>2. PICK f : Goto(f) /\ f.pc \notin {"target", "pop"} /\ (f.pc = "wild" => Loses)
    BY <2>1
  <2>3. StackGoes(f)
    BY <1>1, <2>2
  <2>. QED
    BY <2>2, <2>3 DEF Leaving
<1>10. CASE PopSink
  <2>1. Top = [pc |-> "sink", task |-> Top.task, last |-> Top.last, i |-> Top.i]
    BY <1>0, <1>10, FrameKinds DEF PopSink
  <2>2. [Top EXCEPT !.i = Child(taskq, @)].pc = "sink"
    BY <2>1
  <2>3. PICK f : Goto(f) /\ f.pc \in {"sink", "run"}
    <3>1. CASE Sinks(taskq, Top.last, Top.i)
      <4>. DEFINE g == [Top EXCEPT !.i = Child(taskq, @)]
      <4>1. Goto(g)
        BY <1>10, <3>1 DEF PopSink
      <4>2. g.pc = "sink"
        BY <2>2
      <4>. HIDE DEF g
      <4>. QED
        BY <4>1, <4>2
    <3>2. CASE ~ Sinks(taskq, Top.last, Top.i)
      BY <1>10, <3>2 DEF PopSink
    <3>. QED
      BY <3>1, <3>2
  <2>4. StackGoes(f)
    BY <1>1, <2>3
  <2>. QED
    BY <2>3, <2>4 DEF Leaving
<1>11. CASE Run
  <2>. DEFINE mid == [stack EXCEPT ![Len(stack)] = Loop]
  <2>1. Loop \in Frame /\ Loop.pc = "loop"
    BY FrameMade DEF Loop
  <2>2. CASE Goto(Loop)
    BY <1>1, <2>1, <2>2 DEF Leaving
  <2>3. ASSUME NEW t \in Ids, stack' = Append(mid, [pc |-> "add", task |-> t])
        PROVE  \E f : Leaving(f)
    <3>. DEFINE f == [pc |-> "add", task |-> t]
    <3>1. f \in Frame /\ f.pc = "add"
      BY FrameMade
    <3>2. ReplacesTop(stack, mid, Loop)
      BY <1>0, <2>1, Replaced
    <3>. HIDE DEF f, mid
    <3>3. Grows(mid, stack', f)
      BY <2>3, <3>1, <3>2, Pushed DEF ReplacesTop, f
    <3>4. DOMAIN stack' = 1 .. Len(stack) + 1
      BY <1>0, <3>2, <3>3 DEF ReplacesTop, Grows
    <3>5. ASSUME NEW k \in DOMAIN stack'
          PROVE  \/ stack'[k] = f
                 \/ stack'[k] = Loop
                 \/ k \in DOMAIN stack /\ stack'[k] = stack[k]
      <4>1. CASE k = Len(stack) + 1
        BY <1>0, <3>2, <3>3, <4>1 DEF ReplacesTop, Grows
      <4>2. CASE k # Len(stack) + 1
        <5>1. k \in DOMAIN stack
          BY <1>0, <3>4, <4>2
        <5>2. stack'[k] = mid[k]
          BY <1>0, <3>2, <3>3, <5>1 DEF ReplacesTop, Grows
        <5>. QED
          BY <3>2, <5>1, <5>2 DEF ReplacesTop
      <4>. QED
        BY <4>1, <4>2
    <3>6. StackGoes(f)
      BY <2>1, <3>5 DEF StackGoes
    <3>. QED
      BY <3>1, <3>6 DEF Leaving
  <2>. QED
    BY <1>11, <2>2, <2>3 DEF Run, Fresh
<1>. QED
  BY <1>3, <1>4, <1>5, <1>6, <1>7, <1>8, <1>9, <1>10, <1>11 DEF Next, Step

\* The loop that moves a task up leaves a task in the first slot.
LEMMA SiftFills ==
    ASSUME Basic, Whole, AddSift
    PROVE  /\ timerq'.tasks[0] \in Ids
           /\ Top.i > 0 => timerq.tasks[Parent(Top.i)] \in Ids
<1>. DEFINE i == Top.i
<1>1. /\ Top.pc = "sift" /\ Top.task \in Ids /\ i \in Slots /\ i < timerq.size
      /\ timerq \in Queue /\ timerq.size \in Nat /\ timerq.size <= TASK_MAX_SIZE
      /\ Filled(TimerSlots, timerq.size)
      /\ TimerSlots = [timerq.tasks EXCEPT ![i] = Top.task]
  BY WholeKnown, FrameKinds DEF AddSift, ReadsHold, HoldsEach, TimerSlots
<1>2. timerq.tasks \in [Slots -> Ids \cup {Garbage}] /\ 0 \in Slots /\ i \in Nat
  BY <1>1, TimerAssumption DEF Queue, Slots
<1>3. ASSUME NEW j \in 0 .. timerq.size - 1, j # i
      PROVE  timerq.tasks[j] \in Ids
  <2>1. TimerSlots[j] \in Ids /\ j \in Slots
    BY <1>1, TimerAssumption DEF Filled, Slots
  <2>. QED
    BY <1>1, <1>2, <1>3, <2>1
<1>4. ASSUME i > 0
      PROVE  timerq.tasks[0] \in Ids /\ timerq.tasks[Parent(i)] \in Ids
  <2>1. Parent(i) \in 0 .. timerq.size - 1 /\ Parent(i) # i /\ 0 \in 0 .. timerq.size - 1
    BY <1>1, <1>2, <1>4, ParentBelow
  <2>. QED
    BY <1>3, <1>4, <2>1
<1>5. timerq'.tasks[0] \in Ids
  <2>1. CASE i > 0
    <3>1. timerq' = timerq \/ \E x : timerq' = [timerq EXCEPT !.tasks[i] = x]
      BY DEF AddSift
    <3>. QED
      BY <1>1, <1>2, <1>4, <2>1, <3>1 DEF Queue
  <2>2. CASE i = 0
    <3>1. timerq' = [timerq EXCEPT !.tasks[i] = Top.task]
      BY <2>2 DEF AddSift, Rises
    <3>. QED
      BY <1>1, <1>2, <2>2, <3>1 DEF Queue
  <2>. QED
    BY <1>2, <2>1, <2>2
<1>. QED
  BY <1>4, <1>5

\* What is in the first slot is a task for good, once it is.
LEMMA FirstStays ==
    ASSUME Basic, Whole, Next, "queue" \notin cut', timerq.tasks[0] \in Ids
    PROVE  timerq'.tasks[0] \in Ids
<1>1. CASE AddSift
  BY <1>1, SiftFills
<1>2. CASE TimerIrq
  <2>1. timerq \in Queue /\ 0 \in Slots
    BY TimerAssumption DEF Basic, Typed, Slots
  <2>2. CASE timerq.size = 0 \/ Garbage \in Held(timerq)
    BY <1>2, <2>2 DEF TimerIrq
  <2>3. CASE timerq.size # 0 /\ Garbage \notin Held(timerq)
    <3>1. timerq' = Pop(timerq) /\ Filled(timerq.tasks, timerq.size) /\ timerq.size > 0
      BY <1>2, <2>1, <2>3, HeldFilled, TimerAssumption DEF TimerIrq, Queue
    <3>. QED
      BY <2>1, <3>1, PopHolds
  <2>. QED
    BY <2>2, <2>3
<1>3. CASE ~ AddSift /\ ~ TimerIrq
  <2>1. timerq'.tasks = timerq.tasks
    BY <1>3 DEF Next, Step, Advance, SetTimeout, UartIrq, AddTest, AddLoad, AddGrow, AddTarget,
                AddArm, Enable, LoopTest, PopTest, PopTop, PopSize, PopLast, PopSink, Run,
                Basic, Typed, Queue
  <2>. QED
    BY <2>1
<1>. QED
  BY <1>1, <1>2, <1>3

LEMMA UnlostNext ==
    ASSUME Basic, Basic', Next, Unlost, "queue" \notin cut' => Whole /\ Whole'
    PROVE  Unlost'
<1>0. /\ cut \subseteq cut' /\ Top = stack[Len(stack)] /\ Len(stack) \in DOMAIN stack
      /\ DOMAIN stack = 1 .. Len(stack) /\ Top \in Frame /\ taskq.size \in Nat
      /\ Garbage \notin Ids
  BY CutStays, TopKnown, TimerAssumption DEF Basic, Typed, Queue, Garbage
<1>1. PICK f : Leaving(f)
  BY StepLeaves
<1>2. ASSUME "queue" \notin cut', NEW k \in DOMAIN stack', stack'[k].pc = "target"
      PROVE  timerq'.tasks[0] \in Ids
  <2>1. Whole /\ (AddSift \/ \E j \in DOMAIN stack : stack[j].pc = "target")
    BY <1>1, <1>2 DEF Leaving, StackGoes
  <2>2. CASE AddSift
    BY <2>1, <2>2, SiftFills
  <2>3. CASE \E j \in DOMAIN stack : stack[j].pc = "target"
    <3>1. timerq.tasks[0] \in Ids
      BY <1>0, <1>2, <2>3 DEF Unlost
    <3>. QED
      BY <1>2, <2>1, <3>1, FirstStays
  <2>. QED
    BY <2>1, <2>2, <2>3
<1>3. ASSUME "test" \notin cut', NEW k \in DOMAIN stack', stack'[k].pc = "pop"
      PROVE  k = Len(stack') /\ taskq'.size > 0
  <2>1. \A j \in DOMAIN stack : stack[j].pc = "pop" => j = Len(stack) /\ taskq.size > 0
    BY <1>0, <1>3 DEF Unlost
  <2>2. CASE Top.pc = "pop"
    <3>1. Advance \/ PopTest
      <4>1. "test" \notin Hits => Top.pc # "pop"
        BY <1>0 DEF Hits, Frames
      <4>2. ~ TimerIrq /\ ~ UartIrq
        BY <1>3, <2>2, <4>1 DEF TimerIrq, UartIrq
      <4>. QED
        BY <2>2, <4>2 DEF Next, Step, SetTimeout, AddTest, AddLoad, AddGrow, AddSift, AddTarget,
                          AddArm, Enable, LoopTest, PopTop, PopSize, PopLast, PopSink, Run
    <3>2. CASE Advance
      BY <1>3, <2>1, <3>2 DEF Advance
    <3>3. CASE PopTest
      <4>1. PICK g : Goto(g) /\ g.pc \in {"wild", "top"}
        BY <3>3 DEF PopTest, GoWild
      <4>2. DOMAIN stack' = DOMAIN stack /\ stack'[k] = IF k = Len(stack) THEN g ELSE stack[k]
        BY <1>0, <1>3, <4>1 DEF Goto
      <4>. QED
        BY <1>3, <2>1, <4>1, <4>2
    <3>. QED
      BY <3>1, <3>2, <3>3
  <2>3. CASE Top.pc # "pop"
    <3>1. \A j \in DOMAIN stack : stack[j].pc # "pop"
      BY <1>0, <2>1, <2>3
    <3>2. LoopTest
      BY <1>1, <1>3, <3>1 DEF Leaving, StackGoes
    <3>3. Goto([pc |-> "pop"]) /\ taskq.size > 0 /\ taskq' = taskq
      <4>1. ~ Done
        <5>1. ASSUME Done
              PROVE  FALSE
          <6>1. Shrinks(stack, stack')
            BY <3>2, <5>1, DoneBasic DEF Basic, LoopTest
          <6>. QED
            BY <1>3, <3>1, <6>1 DEF Shrinks
        <5>. QED
          BY <5>1
      <4>. QED
        BY <3>2, <4>1 DEF LoopTest, MoreTasks
    <3>4. /\ DOMAIN stack' = DOMAIN stack /\ Len(stack') = Len(stack)
          /\ \A j \in DOMAIN stack : j # Len(stack) => stack'[j] = stack[j]
      <4>1. [pc |-> "pop"] \in Frame /\ [pc |-> "pop"].pc = "pop"
        BY FrameMade
      <4>2. ReplacesTop(stack, stack', [pc |-> "pop"])
        BY <3>2, <3>3, <4>1, GotoBasic DEF Basic, Goto, LoopTest
      <4>. QED
        BY <4>2 DEF ReplacesTop
    <3>. QED
      BY <1>3, <3>1, <3>3, <3>4
  <2>. QED
    BY <2>2, <2>3
<1>4. ASSUME cut' \cap {"queue", "test"} = {}, NEW k \in DOMAIN stack', stack'[k].pc = "wild"
      PROVE  FALSE
  <2>1. "queue" \notin cut' /\ "test" \notin cut' /\ cut \cap {"queue", "test"} = {}
        /\ "queue" \notin cut /\ "test" \notin cut
    BY <1>0, <1>4
  <2>2. Whole
    BY <2>1
  <2>3. \A j \in DOMAIN stack : stack[j].pc # "wild"
    BY <2>1 DEF Unlost
  <2>4. Loses
    BY <1>1, <1>4, <2>3 DEF Leaving, StackGoes
  <2>5. ~ (AddLoad /\ Full(timerq))
    BY <2>1 DEF AddLoad
  <2>6. ~ (AddSift /\ Top.i > 0 /\ timerq.tasks[Parent(Top.i)] = Garbage)
    BY <1>0, <2>2, SiftFills
  <2>7. ~ (AddTarget /\ timerq.tasks[0] = Garbage)
    BY <1>0, <2>1 DEF AddTarget, Unlost
  <2>8. ~ (PopTest /\ taskq.size = 0)
    BY <1>0, <2>1 DEF PopTest, Unlost
  <2>9. ~ (PopSize /\ taskq.size = 0)
    BY <1>0, <2>2, WholeKnown DEF PopSize, ReadsHold
  <2>10. ~ (TimerIrq /\ Garbage \in Held(timerq))
    <3>1. SUFFICES ASSUME TimerIrq
                   PROVE  Garbage \notin Held(timerq)
      OBVIOUS
    <3>2. "queue" \notin Hits
      BY <2>1, <3>1 DEF TimerIrq
    <3>3. Top.pc # "sift"
      <4>1. Quiet
        BY <2>2, <3>2, NotHit, WholeKnown
      <4>. QED
        BY <1>0, <4>1 DEF Quiet
    <3>. QED
      BY <2>2, <3>3, WholeKnown, HeldFilled DEF HoldsEach
  <2>. QED
    BY <2>4, <2>5, <2>6, <2>7, <2>8, <2>9, <2>10 DEF Loses
<1>. QED
  BY <1>2, <1>3, <1>4 DEF Unlost

-----------------------------------------------------------------------------
(* The theorems                                                            *)

LEMMA IInvStays ==
    ASSUME IInv, [Next]_vars
    PROVE  IInv'
<1>1. CASE UNCHANGED vars
  <2>1. Top' = Top
    BY <1>1 DEF vars, Top
  <2>2. Typed' /\ ShellBelow' /\ NoGarbageTaken' /\ Unlost'
    BY <1>1 DEF vars, IInv, Typed, ShellBelow, NoGarbageTaken, Unlost
  <2>3. "queue" \notin cut' => Whole'
    BY <1>1, WholeStays DEF vars, IInv
  <2>4. Tame' => OnTime'
    <3>1. TimerSlots' = TimerSlots /\ TaskSlots' = TaskSlots
      BY <1>1, <2>1 DEF vars, TimerSlots, TaskSlots
    <3>2. Waiting' = Waiting /\ Ready' = Ready
      BY <1>1, <3>1 DEF vars, Waiting, Ready, InTimerq, InTaskq
    <3>3. OnTime => OnTime'
      BY <1>1, <3>1, <3>2 DEF vars, OnTime, Frames
    <3>. QED
      BY <1>1, <3>3 DEF vars, IInv, Tame
  <2>. QED
    BY <2>2, <2>3, <2>4 DEF IInv
<1>2. CASE Next
  <2>1. Basic /\ Basic'
    BY <1>2, BasicNext DEF IInv, Basic
  <2>2. cut \subseteq cut'
    BY <1>2, CutStays
  <2>3. ASSUME "queue" \notin cut'
        PROVE  Whole /\ Whole'
    BY <1>2, <2>1, <2>2, <2>3, WholeNext DEF IInv
  <2>4. ASSUME Tame'
        PROVE  OnTime'
    <3>1. "queue" \notin cut' /\ Tame
      BY <2>2, <2>4 DEF Tame
    <3>. QED
      BY <1>2, <2>1, <2>3, <2>4, <3>1, TimeNext DEF IInv
  <2>5. Unlost'
    BY <1>2, <2>1, <2>3, UnlostNext DEF IInv
  <2>. QED
    BY <2>1, <2>3, <2>4, <2>5 DEF IInv, Basic
<1>. QED
  BY <1>1, <1>2

\* The queues and the stack are as IInv says at every step of the shell and of
\* the interrupts, for any capacity, any tasks and delays and any depth.
THEOREM Inductive == Spec => []IInv
<1>1. Init => IInv
  <2>1. Init => Unlost
    BY DEF Init, Unlost, Shell
  <2>. QED
    BY <2>1, InitBasic, InitWhole, InitOnTime DEF IInv, Basic
<1>2. IInv /\ [Next]_vars => IInv'
  BY IInvStays
<1>. QED
  BY <1>1, <1>2, PTL DEF Spec

\* Whatever interrupts met, the queues hold tasks and the stack has its depth.
THEOREM TypesHold == Spec => []TypeOK
<1>1. IInv => TypeOK
  <2>1. SUFFICES ASSUME IInv
                 PROVE  TypeOK
    OBVIOUS
  <2>2. timerq \in Queue /\ taskq \in Queue /\ Filled(taskq.tasks, taskq.size)
    BY <2>1 DEF IInv, Typed, NoGarbageTaken
  <2>3. Garbage \notin Held(taskq)
    BY <2>2, HeldFilled
  <2>. QED
    BY <2>1, <2>2, <2>3 DEF IInv, Typed, TypeOK, Queue
<1>. QED
  BY <1>1, Inductive, PTL

\* Where a task is in the first n slots.
SlotsOf(tasks, n, t) == {j \in 0 .. n - 1 : tasks[j] = t}

LEMMA SlotOnce ==
    ASSUME NEW tasks, NEW n \in Nat, Distinct(tasks, n), NEW t
    PROVE  /\ t \in HeldBy(tasks, n) => \E i : SlotsOf(tasks, n, t) = {i}
           /\ t \notin HeldBy(tasks, n) => SlotsOf(tasks, n, t) = {}
<1>. DEFINE A == SlotsOf(tasks, n, t)
<1>1. ASSUME t \in HeldBy(tasks, n)
      PROVE  \E i : A = {i}
  <2>1. PICK i \in 0 .. n - 1 : t = tasks[i]
    BY <1>1 DEF HeldBy
  <2>2. i \in A /\ \A j \in A : j = i
    BY <2>1 DEF Distinct, SlotsOf
  <2>. HIDE DEF A
  <2>3. A = {i}
    BY <2>2
  <2>. QED
    BY <2>3
<1>2. ASSUME t \notin HeldBy(tasks, n)
      PROVE  A = {}
  BY <1>2 DEF HeldBy, SlotsOf
<1>. QED
  BY <1>1, <1>2

LEMMA OneOfPlaces ==
    ASSUME IInv, "queue" \notin cut, Settled, NEW t \in Ids \ Fresh
    PROVE  Cardinality(Places(t)) = 1
<1>. DEFINE S == {j \in DOMAIN stack :
                    /\ stack[j].pc \in {"add", "load", "grow", "sift", "last", "sink", "run"}
                    /\ stack[j].task = t}
            A == SlotsOf(timerq.tasks, timerq.size, t)
            B == SlotsOf(taskq.tasks, taskq.size, t)
            D == {j \in {0} : t \in dropped}
<1>0. Basic /\ Whole
  BY DEF IInv, Basic
<1>1. /\ \A k \in DOMAIN stack : stack[k].pc \notin {"sift", "last", "sink"}
      /\ Top.pc \notin {"sift", "sink"}
  <2>1. \A k \in DOMAIN stack : stack[k].pc \notin {"sift", "last", "sink"}
    BY DEF Settled, Frames
  <2>. QED
    BY <1>0, <2>1, TopKnown DEF Basic
<1>2. /\ HoldsEach(timerq.tasks, timerq.size) /\ HoldsEach(taskq.tasks, taskq.size)
      /\ InTimerq = HeldBy(timerq.tasks, timerq.size) /\ InTaskq = HeldBy(taskq.tasks, taskq.size)
      /\ Parted(InTimerq, InTaskq, OnStack, HasRun, dropped, Ids \ Fresh)
      /\ Apart(stack) /\ ran \in [Ids -> Nat] /\ \A u \in Ids : ran[u] <= 1
  BY <1>0, <1>1, WholeKnown DEF InTimerq, InTaskq, OnePlace
<1>3. /\ t \in InTimerq => \E i : A = {i}
      /\ t \notin InTimerq => A = {}
  <2>1. timerq.size \in Nat /\ Distinct(timerq.tasks, timerq.size)
    BY <1>0, <1>2, WholeKnown DEF HoldsEach
  <2>2. InTimerq = HeldBy(timerq.tasks, timerq.size)
    BY <1>2
  <2>. QED
    BY <2>1, <2>2, SlotOnce
<1>4. /\ t \in InTaskq => \E i : B = {i}
      /\ t \notin InTaskq => B = {}
  <2>1. taskq.size \in Nat /\ Distinct(taskq.tasks, taskq.size)
    BY <1>0, <1>2, WholeKnown DEF HoldsEach
  <2>2. InTaskq = HeldBy(taskq.tasks, taskq.size)
    BY <1>2
  <2>. QED
    BY <2>1, <2>2, SlotOnce
<1>5. \A k \in DOMAIN stack : k \in S <=> t \in Load(stack[k])
  BY <1>1 DEF Load
<1>6. /\ t \in OnStack => \E i : S = {i}
      /\ t \notin OnStack => S = {}
  <2>1. ASSUME t \in OnStack
        PROVE  \E i : S = {i}
    <3>1. PICK i \in DOMAIN stack : t \in Load(stack[i])
      BY <2>1 DEF OnStack, Loads
    <3>2. i \in S /\ \A k \in S : k = i
      BY <1>2, <1>5, <3>1 DEF Apart
    <3>. HIDE DEF S
    <3>. QED
      BY <3>2
  <2>2. ASSUME t \notin OnStack
        PROVE  S = {}
    BY <1>5, <2>2 DEF OnStack, Loads
  <2>. QED
    BY <2>1, <2>2
<1>7. /\ t \in HasRun => 1 .. ran[t] = {1}
      /\ t \notin HasRun => 1 .. ran[t] = {}
  <2>1. ran[t] \in Nat /\ ran[t] <= 1 /\ (t \in HasRun <=> ran[t] > 0)
    BY <1>2 DEF HasRun
  <2>. QED
    BY <2>1
<1>8. /\ t \in dropped => D = {0}
      /\ t \notin dropped => D = {}
  OBVIOUS
<1>9. Places(t) = {<<"stack", i>> : i \in S} \cup {<<"timerq", i>> : i \in A}
                  \cup {<<"taskq", i>> : i \in B} \cup {<<"ran", i>> : i \in 1 .. ran[t]}
                  \cup {<<"dropped", i>> : i \in D}
  BY DEF Places, SlotsOf
<1>. HIDE DEF S, A, B, D
<1>10. \E p : Places(t) = {p}
  <2>1. t \in InTimerq \/ t \in InTaskq \/ t \in OnStack \/ t \in HasRun \/ t \in dropped
    BY <1>2 DEF Parted
  <2>2. CASE t \in InTimerq
    <3>1. t \notin InTaskq /\ t \notin OnStack /\ t \notin HasRun /\ t \notin dropped
      BY <1>2, <2>2 DEF Parted
    <3>2. S = {} /\ B = {} /\ 1 .. ran[t] = {} /\ D = {}
      BY <1>3, <1>4, <1>6, <1>7, <1>8, <3>1
    <3>3. PICK i : A = {i}
      BY <2>2, <1>3
    <3>4. Places(t) = {<<"timerq", i>>}
      BY <1>9, <3>2, <3>3
    <3>. QED
      BY <3>4
  <2>3. CASE t \in InTaskq
    <3>1. t \notin InTimerq /\ t \notin OnStack /\ t \notin HasRun /\ t \notin dropped
      BY <1>2, <2>3 DEF Parted
    <3>2. S = {} /\ A = {} /\ 1 .. ran[t] = {} /\ D = {}
      BY <1>3, <1>4, <1>6, <1>7, <1>8, <3>1
    <3>3. PICK i : B = {i}
      BY <2>3, <1>4
    <3>4. Places(t) = {<<"taskq", i>>}
      BY <1>9, <3>2, <3>3
    <3>. QED
      BY <3>4
  <2>4. CASE t \in OnStack
    <3>1. t \notin InTimerq /\ t \notin InTaskq /\ t \notin HasRun /\ t \notin dropped
      BY <1>2, <2>4 DEF Parted
    <3>2. A = {} /\ B = {} /\ 1 .. ran[t] = {} /\ D = {}
      BY <1>3, <1>4, <1>6, <1>7, <1>8, <3>1
    <3>3. PICK i : S = {i}
      BY <2>4, <1>6
    <3>4. Places(t) = {<<"stack", i>>}
      BY <1>9, <3>2, <3>3
    <3>. QED
      BY <3>4
  <2>5. CASE t \in HasRun
    <3>1. t \notin InTimerq /\ t \notin InTaskq /\ t \notin OnStack /\ t \notin dropped
      BY <1>2, <2>5 DEF Parted
    <3>2. S = {} /\ A = {} /\ B = {} /\ D = {}
      BY <1>3, <1>4, <1>6, <1>7, <1>8, <3>1
    <3>3. PICK i : 1 .. ran[t] = {i}
      BY <2>5, <1>7
    <3>4. Places(t) = {<<"ran", i>>}
      BY <1>9, <3>2, <3>3
    <3>. QED
      BY <3>4
  <2>6. CASE t \in dropped
    <3>1. t \notin InTimerq /\ t \notin InTaskq /\ t \notin OnStack /\ t \notin HasRun
      BY <1>2, <2>6 DEF Parted
    <3>2. S = {} /\ A = {} /\ B = {} /\ 1 .. ran[t] = {}
      BY <1>3, <1>4, <1>6, <1>7, <1>8, <3>1
    <3>3. PICK i : D = {i}
      BY <2>6, <1>8
    <3>4. Places(t) = {<<"dropped", i>>}
      BY <1>9, <3>2, <3>3
    <3>. QED
      BY <3>4
  <2>. QED
    BY <2>1, <2>2, <2>3, <2>4, <2>5, <2>6
<1>. QED
  BY <1>10, FS_Singleton

\* Until an interrupt meets a queue half changed, every task that was set is in
\* one place, runs once at most, and the task due first is the first of the
\* timer queue; and until one comes between a test of a queue and its use
\* either, nothing is stored outside the slots: for any capacity and depth.
THEOREM QueuesAlwaysSound == Spec => []QueuesSound
<1>1. IInv => EachTaskOnce
  BY OneOfPlaces DEF EachTaskOnce
<1>2. IInv => EarliestOnTop
  <2>1. SUFFICES ASSUME IInv, "queue" \notin cut, Settled, NEW t \in Held(timerq)
                 PROVE  timeout[timerq.tasks[0]] <= timeout[t]
    BY DEF EarliestOnTop
  <2>2. Basic /\ Whole
    BY <2>1 DEF IInv, Basic
  <2>3. Top.pc # "sift"
    BY <2>1, <2>2, TopKnown DEF Settled, Frames, Basic
  <2>4. HeapBut(timerq.tasks, timerq.size, 0) /\ Filled(timerq.tasks, timerq.size)
        /\ timerq.size \in Nat /\ timeout \in [Ids -> Int]
    BY <2>2, <2>3, WholeKnown DEF HoldsEach
  <2>5. PICK k \in 0 .. timerq.size - 1 : t = timerq.tasks[k]
    BY <2>1 DEF Held
  <2>. QED
    BY <2>4, <2>5, FirstIsLeast
<1>3. IInv => OnlyCutsGoWild
  BY TopKnown DEF IInv, Unlost, OnlyCutsGoWild, Running
<1>4. TypeOK /\ EachTaskOnce /\ EarliestOnTop /\ OnlyCutsGoWild <=> QueuesSound
  BY DEF QueuesSound
<1>. QED
  BY <1>1, <1>2, <1>3, <1>4, Inductive, TypesHold, PTL

\* A task whose delay the timer can hold does not run before its time, although
\* the interrupt takes the first one without a look at its time.
THEOREM NeverBeforeDue == Spec => []NotBeforeDue
<1>1. IInv => NotBeforeDue
  BY DEF IInv, NotBeforeDue, Tame, OnTime
<1>. QED
  BY <1>1, Inductive, PTL

-----------------------------------------------------------------------------
(* Signals                                                                 *)

ExecCall == [NoCall EXCEPT !.op = "exec"]
Calls  == {NoCall, ExecCall}
            \cup [op : {"sigkill"}, target : Tasks, signo : Signal, loaded : SUBSET Signal]
Points == [runs : -1 .. NSIG, call : Calls]

SignalTyped ==
    /\ state \in [Tasks -> States]
    /\ signal_handlers \in [Tasks -> SUBSET Signal]
    /\ signal_pending \in [Tasks -> SUBSET Signal]
    /\ signal_handling \in [Tasks -> BOOLEAN]
    /\ sigframe \in [Tasks -> Points]
    /\ point \in [Tasks -> Points]
    /\ owed \in [Tasks -> SUBSET Signal]
    /\ shifted \in [Tasks -> BOOLEAN]
    /\ torn \in [Tasks -> BOOLEAN]
    /\ strayed \in [Tasks -> {"no", "forked", "failed"}]

\* A task off its program's and its handlers' code makes no call.
LostHasNoFrame ==
    \A t \in Tasks : /\ point[t].runs = -1 => point[t] = NoFrame
                     /\ sigframe[t].runs = -1 => sigframe[t] = NoFrame

Handling ==
    \A t \in Tasks : strayed[t] = "no" =>
        /\ InHandler(t) => signal_handling[t] /\ sigframe[t].runs = 0
        /\ point[t].runs # -1

SignalIInv == SignalTyped /\ LostHasNoFrame /\ Handling /\ OnlyShiftOrTearMixesSignals

-----------------------------------------------------------------------------
\* What the shifts make of the bits above the lowest one.
LEMMA ShiftedTyped ==
    ASSUME NEW S \in SUBSET Signal, NEW s \in S, \A b \in S : s <= b
    PROVE  {b - (s - 1) : b \in S \ {s}} \in SUBSET Signal
<1>. SUFFICES ASSUME NEW b \in S \ {s}
              PROVE  b - (s - 1) \in 1 .. NSIG
  BY DEF Signal
<1>1. s \in 1 .. NSIG /\ b \in 1 .. NSIG /\ s <= b
  BY DEF Signal
<1>. QED
  BY <1>1, SignalsAssumption

LEMMA PointsTyped ==
    /\ NoCall \in Calls
    /\ Program \in Points /\ NoFrame \in Points
    /\ \A s \in Signal : Handler(s) \in Points
BY SignalsAssumption DEF Points, Calls, NoCall, Program, NoFrame, Handler, Signal

\* Whatever becomes of the task that takes a step, the others have states.
LEMMA LeavesTyped ==
    ASSUME SignalTyped, NEW t \in Tasks, NEW st \in States, Leaves(t, st)
    PROVE  state' \in [Tasks -> States]
<1>1. "off" \in States
  BY DEF States
<1>2. state \in [Tasks -> States]
  BY DEF SignalTyped
<1>3. Others(t) \in [Tasks -> States]
  BY <1>1, <1>2 DEF Others
<1>. QED
  BY <1>3 DEF Leaves

LEMMA StepTyped ==
    ASSUME SignalTyped, NEW t \in Tasks, StepOf(t)
    PROVE  state' \in [Tasks -> States]
<1>1. state[t] \in States
  BY DEF SignalTyped
<1>. QED
  BY <1>1, LeavesTyped DEF StepOf

LEMMA SignalInitHolds == SignalInit => SignalIInv
<1>. SUFFICES ASSUME SignalInit PROVE SignalIInv
  OBVIOUS
<1>1. SignalTyped
  BY PointsTyped DEF SignalInit, SignalTyped, States
<1>2. LostHasNoFrame
  BY DEF SignalInit, LostHasNoFrame, Program, NoFrame
<1>3. Handling
  BY DEF SignalInit, Handling, Program, InHandler, Signal
<1>4. OnlyShiftOrTearMixesSignals
  BY DEF SignalInit, OnlyShiftOrTearMixesSignals
<1>. QED
  BY <1>1, <1>2, <1>3, <1>4 DEF SignalIInv

-----------------------------------------------------------------------------
LEMMA NextTyped ==
    ASSUME SignalTyped, SignalNext
    PROVE  SignalTyped'
<1>. USE DEF SignalTyped
<1>1. ASSUME NEW t \in Tasks, NEW s \in Signal, DeliverSignal(t, s)
      PROVE  SignalTyped'
  <2>1. {b - (s - 1) : b \in signal_pending[t] \ {s}} \in SUBSET Signal
    BY <1>1, ShiftedTyped DEF DeliverSignal, Shifted, MayHandle
  <2>2. Handler(s) \in Points
    BY PointsTyped
  <2>3. state[t] \in States /\ "terminated" \in States
    BY DEF States
  <2>4. state' \in [Tasks -> States]
    BY <1>1, <2>3, LeavesTyped DEF DeliverSignal, Shifted, MayHandle
  <2>. QED
    BY <1>1, <2>1, <2>2, <2>4 DEF DeliverSignal, Shifted, MayHandle
<1>2. ASSUME NEW t \in Tasks, Sigreturn(t)
      PROVE  SignalTyped'
  BY <1>2, StepTyped DEF Sigreturn
<1>3. ASSUME NEW t \in Tasks, StorePending(t)
      PROVE  SignalTyped'
  <2>1. /\ point[t].call \in Calls
        /\ point[t].call.op = "sigkill"
        /\ NoCall.op # "sigkill" /\ ExecCall.op # "sigkill"
    BY <1>3 DEF StorePending, Points, NoCall, ExecCall
  <2>2. /\ point[t].call.target \in Tasks
        /\ point[t].call.signo \in Signal
        /\ point[t].call.loaded \in SUBSET Signal
    BY <2>1 DEF Calls
  <2>. QED
    BY <1>3, <2>2, PointsTyped, StepTyped DEF StorePending, Points
<1>4. ASSUME NEW t \in Tasks, SyscallExec(t)
      PROVE  SignalTyped'
  <2>1. ExecCall \in Calls /\ "pending" \in States
    BY DEF Calls, States
  <2>2. point' = [point EXCEPT ![t].call = ExecCall]
    BY <1>4 DEF SyscallExec, ExecCall
  <2>3. point' \in [Tasks -> Points]
    BY <2>1, <2>2 DEF Points
  <2>4. state' \in [Tasks -> States]
    BY <1>4, <2>1, LeavesTyped DEF SyscallExec
  <2>. QED
    BY <1>4, <2>3, <2>4 DEF SyscallExec
<1>9. ASSUME NEW t \in Tasks, ExecFails(t)
      PROVE  SignalTyped'
  <2>1. PICK goes \in {Program, NoFrame} :
            /\ point' = [point EXCEPT ![t] = goes]
            /\ strayed' = [strayed EXCEPT ![t] =
                  IF InHandler(t) \/ goes = NoFrame THEN "failed" ELSE @]
    BY <1>9 DEF ExecFails
  <2>. QED
    BY <1>9, <2>1, PointsTyped, StepTyped DEF ExecFails
<1>10. ASSUME NEW t \in Tasks, ExecDone(t)
      PROVE  SignalTyped'
  BY <1>10, PointsTyped, StepTyped DEF ExecDone
<1>5. ASSUME NEW t \in Tasks, SyscallExit(t)
      PROVE  SignalTyped'
  BY <1>5, LeavesTyped DEF SyscallExit, States
<1>6. ASSUME NEW t \in Tasks, NEW s \in Handled, SyscallSignal(t, s)
      PROVE  SignalTyped'
  BY <1>6, StepTyped, SignalsAssumption DEF SyscallSignal, Signal
<1>7. ASSUME NEW t \in Tasks, NEW k \in Kills, SyscallSigkill(t, k[1], k[2])
      PROVE  SignalTyped'
  <2>1. k[1] \in Tasks /\ k[2] \in Signal
    BY SignalsAssumption DEF Signal
  <2>2. [op |-> "sigkill", target |-> k[1], signo |-> k[2],
         loaded |-> signal_pending[k[1]]] \in Calls
    BY <2>1, SignalsAssumption DEF Calls, Signal
  <2>. QED
    BY <1>7, <2>2, StepTyped DEF SyscallSigkill, Points
<1>8. ASSUME NEW t \in Tasks, NEW u \in Tasks, SyscallFork(t, u)
      PROVE  SignalTyped'
  BY <1>8 DEF SyscallFork, Others, States
<1>. QED
  BY <1>1, <1>2, <1>3, <1>4, <1>5, <1>6, <1>7, <1>8, <1>9, <1>10
     DEF SignalNext

-----------------------------------------------------------------------------
LEMMA NextLostHasNoFrame ==
    ASSUME SignalTyped, LostHasNoFrame, SignalNext
    PROVE  LostHasNoFrame'
<1>. USE DEF LostHasNoFrame, SignalTyped
<1>1. ASSUME NEW t \in Tasks, NEW s \in Signal, DeliverSignal(t, s)
      PROVE  LostHasNoFrame'
  <2>1. Handler(s).runs # -1
    BY SignalsAssumption DEF Handler, Signal
  <2>. QED
    BY <1>1, <2>1 DEF DeliverSignal, Shifted, MayHandle
<1>2. ASSUME NEW t \in Tasks, Sigreturn(t)
      PROVE  LostHasNoFrame'
  BY <1>2 DEF Sigreturn
<1>3. ASSUME NEW t \in Tasks, StorePending(t)
      PROVE  LostHasNoFrame'
  <2>1. point[t].runs # -1
    BY <1>3 DEF StorePending, NoFrame, NoCall
  <2>2. point'[t].runs = point[t].runs
    BY <1>3 DEF StorePending, Points
  <2>. QED
    BY <1>3, <2>1, <2>2 DEF StorePending
<1>4. ASSUME NEW t \in Tasks, SyscallExec(t)
      PROVE  LostHasNoFrame'
  <2>1. point[t].runs # -1
    BY <1>4 DEF SyscallExec, InUser
  <2>2. point'[t].runs = point[t].runs
    BY <1>4 DEF SyscallExec, Points
  <2>. QED
    BY <1>4, <2>1, <2>2 DEF SyscallExec
<1>9. ASSUME NEW t \in Tasks, ExecFails(t)
      PROVE  LostHasNoFrame'
  BY <1>9 DEF ExecFails, Program, NoFrame
<1>10. ASSUME NEW t \in Tasks, ExecDone(t)
      PROVE  LostHasNoFrame'
  BY <1>10 DEF ExecDone, Program
<1>5. ASSUME NEW t \in Tasks, SyscallExit(t)
      PROVE  LostHasNoFrame'
  BY <1>5 DEF SyscallExit
<1>6. ASSUME NEW t \in Tasks, NEW s \in Handled, SyscallSignal(t, s)
      PROVE  LostHasNoFrame'
  BY <1>6 DEF SyscallSignal
<1>7. ASSUME NEW t \in Tasks, NEW k \in Kills, SyscallSigkill(t, k[1], k[2])
      PROVE  LostHasNoFrame'
  <2>1. point[t].runs # -1
    BY <1>7 DEF SyscallSigkill, InUser
  <2>2. point'[t].runs = point[t].runs
    BY <1>7 DEF SyscallSigkill, Points
  <2>. QED
    BY <1>7, <2>1, <2>2 DEF SyscallSigkill
<1>8. ASSUME NEW t \in Tasks, NEW u \in Tasks, SyscallFork(t, u)
      PROVE  LostHasNoFrame'
  BY <1>8 DEF SyscallFork
<1>. QED
  BY <1>1, <1>2, <1>3, <1>4, <1>5, <1>6, <1>7, <1>8, <1>9, <1>10
     DEF SignalNext

\* A system call other than exec leaves what the task runs as it is.
LEMMA NextHandling ==
    ASSUME SignalTyped, LostHasNoFrame, Handling, SignalNext
    PROVE  Handling'
<1>. USE DEF Handling, InHandler, SignalTyped
<1>1. ASSUME NEW t \in Tasks, NEW s \in Signal, DeliverSignal(t, s)
      PROVE  Handling'
  <2>. DEFINE r == point[t].runs
  <2>0. r \in -1 .. NSIG
    BY DEF Points
  <2>1. strayed[t] = "no" => r \notin 1 .. NSIG /\ r # -1
    BY <1>1 DEF DeliverSignal, Shifted, MayHandle, Signal
  <2>. HIDE DEF r
  <2>3. strayed[t] = "no" => r = 0
    BY <2>0, <2>1, SignalsAssumption
  <2>4. strayed[t] = "no" => point[t].runs = 0
    BY <2>3 DEF r
  <2>2. Handler(s).runs # -1
    BY SignalsAssumption DEF Handler, Signal
  <2>. QED
    BY <1>1, <2>4, <2>2 DEF DeliverSignal, Shifted, MayHandle
<1>2. ASSUME NEW t \in Tasks, Sigreturn(t)
      PROVE  Handling'
  <2>1. 0 \notin Signal
    BY DEF Signal
  <2>. QED
    BY <1>2, <2>1 DEF Sigreturn
<1>3. ASSUME NEW t \in Tasks, StorePending(t)
      PROVE  Handling'
  <2>1. point'[t].runs = point[t].runs
    BY <1>3 DEF StorePending, Points
  <2>. QED
    BY <1>3, <2>1 DEF StorePending
<1>4. ASSUME NEW t \in Tasks, SyscallExec(t)
      PROVE  Handling'
  <2>1. point'[t].runs = point[t].runs
    BY <1>4 DEF SyscallExec, Points
  <2>. QED
    BY <1>4, <2>1 DEF SyscallExec
<1>9. ASSUME NEW t \in Tasks, ExecFails(t)
      PROVE  Handling'
  <2>1. Program.runs = 0 /\ 0 \notin Signal
    BY DEF Program, Signal
  <2>2. PICK goes \in {Program, NoFrame} :
            /\ point' = [point EXCEPT ![t] = goes]
            /\ strayed' = [strayed EXCEPT ![t] =
                  IF InHandler(t) \/ goes = NoFrame THEN "failed" ELSE @]
    BY <1>9 DEF ExecFails
  <2>3. goes # Program => strayed'[t] = "failed"
    BY <2>2
  <2>. QED
    BY <1>9, <2>1, <2>2, <2>3 DEF ExecFails
<1>10. ASSUME NEW t \in Tasks, ExecDone(t)
      PROVE  Handling'
  <2>1. Program.runs = 0 /\ 0 \notin Signal
    BY DEF Program, Signal
  <2>. QED
    BY <1>10, <2>1 DEF ExecDone
<1>5. ASSUME NEW t \in Tasks, SyscallExit(t)
      PROVE  Handling'
  BY <1>5 DEF SyscallExit
<1>6. ASSUME NEW t \in Tasks, NEW s \in Handled, SyscallSignal(t, s)
      PROVE  Handling'
  BY <1>6 DEF SyscallSignal
<1>7. ASSUME NEW t \in Tasks, NEW k \in Kills, SyscallSigkill(t, k[1], k[2])
      PROVE  Handling'
  <2>1. point'[t].runs = point[t].runs
    BY <1>7 DEF SyscallSigkill, Points
  <2>. QED
    BY <1>7, <2>1 DEF SyscallSigkill
<1>8. ASSUME NEW t \in Tasks, NEW u \in Tasks, SyscallFork(t, u)
      PROVE  Handling'
  <2>1. point[t].runs # -1
    BY <1>8 DEF SyscallFork, InUser, LostHasNoFrame
  <2>. QED
    BY <1>8, <2>1 DEF SyscallFork
<1>. QED
  BY <1>1, <1>2, <1>3, <1>4, <1>5, <1>6, <1>7, <1>8, <1>9, <1>10
     DEF SignalNext

LEMMA NextOwed ==
    ASSUME SignalTyped, OnlyShiftOrTearMixesSignals, SignalNext
    PROVE  OnlyShiftOrTearMixesSignals'
<1>. USE DEF OnlyShiftOrTearMixesSignals, SignalTyped
<1>1. ASSUME NEW t \in Tasks, NEW s \in Signal, DeliverSignal(t, s)
      PROVE  OnlyShiftOrTearMixesSignals'
  <2>. DEFINE rest == {b - (s - 1) : b \in signal_pending[t] \ {s}}
  <2>1. ~ shifted'[t] => ~ shifted[t] /\ rest = signal_pending[t] \ {s}
    BY <1>1 DEF DeliverSignal, Shifted, MayHandle
  <2>2. signal_pending' = [signal_pending EXCEPT ![t] = rest]
    BY <1>1 DEF DeliverSignal, Shifted, MayHandle
  <2>3. /\ owed' = [owed EXCEPT ![t] = @ \ {s}]
        /\ torn' = torn
        /\ \A u \in Tasks \ {t} : shifted'[u] = shifted[u]
    BY <1>1 DEF DeliverSignal, Shifted, MayHandle
  <2>. HIDE DEF rest
  <2>. QED
    BY <2>1, <2>2, <2>3
<1>2. ASSUME NEW t \in Tasks, Sigreturn(t)
      PROVE  OnlyShiftOrTearMixesSignals'
  BY <1>2 DEF Sigreturn
<1>3. ASSUME NEW t \in Tasks, StorePending(t)
      PROVE  OnlyShiftOrTearMixesSignals'
  BY <1>3 DEF StorePending
<1>4. ASSUME NEW t \in Tasks, SyscallExec(t)
      PROVE  OnlyShiftOrTearMixesSignals'
  BY <1>4 DEF SyscallExec
<1>9. ASSUME NEW t \in Tasks, ExecFails(t)
      PROVE  OnlyShiftOrTearMixesSignals'
  BY <1>9 DEF ExecFails
<1>10. ASSUME NEW t \in Tasks, ExecDone(t)
      PROVE  OnlyShiftOrTearMixesSignals'
  BY <1>10 DEF ExecDone
<1>5. ASSUME NEW t \in Tasks, SyscallExit(t)
      PROVE  OnlyShiftOrTearMixesSignals'
  BY <1>5 DEF SyscallExit
<1>6. ASSUME NEW t \in Tasks, NEW s \in Handled, SyscallSignal(t, s)
      PROVE  OnlyShiftOrTearMixesSignals'
  BY <1>6 DEF SyscallSignal
<1>7. ASSUME NEW t \in Tasks, NEW k \in Kills, SyscallSigkill(t, k[1], k[2])
      PROVE  OnlyShiftOrTearMixesSignals'
  BY <1>7 DEF SyscallSigkill
<1>8. ASSUME NEW t \in Tasks, NEW u \in Tasks, SyscallFork(t, u)
      PROVE  OnlyShiftOrTearMixesSignals'
  BY <1>8 DEF SyscallFork
<1>. QED
  BY <1>1, <1>2, <1>3, <1>4, <1>5, <1>6, <1>7, <1>8, <1>9, <1>10
     DEF SignalNext

-----------------------------------------------------------------------------
\* The conjuncts of SignalIInv hold together in every state of every behaviour.
THEOREM SignalsInductive == SignalSpec => []SignalIInv
<1>1. ASSUME SignalIInv, [SignalNext]_SignalVars
      PROVE  SignalIInv'
  <2>1. CASE SignalNext
    BY <1>1, <2>1, NextTyped, NextLostHasNoFrame, NextHandling, NextOwed DEF SignalIInv
  <2>2. CASE UNCHANGED SignalVars
    BY <1>1, <2>2 DEF SignalIInv, SignalTyped, LostHasNoFrame, Handling, InHandler,
                      OnlyShiftOrTearMixesSignals, SignalVars
  <2>. QED
    BY <1>1, <2>1, <2>2
<1>. QED
  BY <1>1, SignalInitHolds, PTL DEF SignalSpec

\* Signals stay signals: the shifts never push a bit below the first one.
THEOREM SignalTypesHold == SignalSpec => []SignalTypeOK
<1>1. SignalIInv => SignalTypeOK
  BY DEF SignalIInv, SignalTyped, SignalTypeOK, Points
<1>. QED
  BY <1>1, SignalsInductive, PTL

\* Whatever the interleaving of ticks, senders, handlers and forks, a handler
\* that returns gives its task back to the program.
THEOREM HandlersReturnToProgram == SignalSpec => []ReturnsToProgram
<1>1. SignalIInv => ReturnsToProgram
  <2>1. NoFrame.runs = -1
    BY DEF NoFrame
  <2>. QED
    BY <2>1 DEF SignalIInv, Handling, ReturnsToProgram
<1>. QED
  BY <1>1, SignalsInductive, PTL

\* The shift in signal and the torn store of a sender are all that can make a
\* signal another one, lose it or deliver it twice.
THEOREM SignalsAccounted == SignalSpec => []OnlyShiftOrTearMixesSignals
<1>1. SignalIInv => OnlyShiftOrTearMixesSignals
  BY DEF SignalIInv
<1>. QED
  BY <1>1, SignalsInductive, PTL
=============================================================================
