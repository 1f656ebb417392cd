------------------------------ MODULE Threads ------------------------------
(***************************************************************************)
(* Threads on the one processor: the ring of kernel/thread.c, schedule,    *)
(* switch_to, the timer interrupt that calls schedule, and the system      *)
(* calls that create and end threads.  A timer tick comes between any two  *)
(* steps while interrupts are enabled; within irq_handler they are not.    *)
(* The way to user mode, load_all or from_el1_to_el0 and its eret, is one  *)
(* step here; Exceptions cuts it.                                          *)
(*                                                                         *)
(* Shell is the first task, pid 0.  thread_init makes it with idle as its  *)
(* function, but main goes on as this task and runs the shell.  The idle   *)
(* loop, the only one that reaps terminated tasks, is entered only when    *)
(* the shell's exec command drops the shell before any tick has saved it.  *)
(* Shell stays the head of run_queue: kill_zombies runs on no other task,  *)
(* so dequeue never takes the head.                                        *)
(***************************************************************************)
EXTENDS Integers, FiniteSets, FiniteSetsExt

CONSTANTS
    Tasks,          \* bounds the tasks ever created
    Shell,
    MaskedFork,     \* fork inside disable_irq, enable_irq: lab 5 and lab 6
    ExecState,      \* the state exec sets: TASK_PENDING in lab 7
    ShellTasks,     \* the shell creates a task while there are this many at most
    ShellJobs,      \* the commands of the shell that create a task
    Kill,           \* programs call kill
    NULL

ASSUME ThreadsAssumption ==
    /\ Shell \in Tasks /\ NULL \notin Tasks
    /\ IsFiniteSet(Tasks)
    /\ MaskedFork \in BOOLEAN /\ Kill \in BOOLEAN
    /\ ExecState \in {"RUNNING", "PENDING"}
    /\ ShellTasks \in Nat /\ ShellJobs \subseteq {"fork_demo", "thread_demo", "exec"}

VARIABLES
    next, prev,     \* the ring; run_queue is Shell
    state,          \* task_struct.state; "none" when not created
    pid, id_counter,
    context,        \* what task_struct.context makes a task do when resumed
    current,        \* tpidr_el1
    masked,         \* interrupts disabled
    th,             \* where each task is, and its locals
    freed,          \* history: how often a task's stacks were freed
    overlap,        \* history: an update of the ring was cut into or dropped
    stale,          \* history: a tick came between the choice of a task and the switch
    raced           \* history: the tasks whose id_counter++ another one cut into

ring == <<next, prev>>
ids  == <<pid, id_counter>>
cpu  == <<current, masked>>
past == <<freed, overlap, stale, raced>>
vars == <<ring, state, ids, context, cpu, th, past>>

States   == {"none", "RUNNING", "PENDING", "TERMINATED"}

\* What a task does when switch_to comes to it: enter the function it was
\* created with (idle for Shell), nothing sensible, or go on where it was.
Contexts == {"none", "zero", "idle", "test", "foo", "image",
             "child", "irq", "call", "outdated", "cut"}

\* The locals: job and new of thread_create's caller with count the value
\* id_counter++ has read, sel of schedule with how the context it saves, at and
\* to of kill_zombies.
Locals == [pc |-> "user", job |-> "none", new |-> NULL, count |-> 0,
           how |-> "call", sel |-> NULL, at |-> NULL, to |-> NULL]

InShell == [Locals EXCEPT !.pc = "shell"]

\* thread_init has run.
Init ==
    /\ next = [t \in Tasks |-> IF t = Shell THEN Shell ELSE NULL]
    /\ prev = next
    /\ state = [t \in Tasks |-> IF t = Shell THEN "RUNNING" ELSE "none"]
    /\ pid = [t \in Tasks |-> IF t = Shell THEN 0 ELSE -1]
    /\ id_counter = 1
    /\ context = [t \in Tasks |-> IF t = Shell THEN "idle" ELSE "none"]
    /\ current = Shell
    /\ masked = FALSE
    /\ th = [t \in Tasks |-> IF t = Shell THEN InShell ELSE Locals]
    /\ freed = [t \in Tasks |-> 0]
    /\ overlap = FALSE /\ stale = FALSE /\ raced = {}

At(c, pc) == current = c /\ th[c].pc = pc

-----------------------------------------------------------------------------
(* schedule and switch_to                                                  *)

\* The task i steps along the ring from t.
Step(t, i) ==
    LET at[j \in Nat] == IF j = 0 THEN t ELSE next[at[j - 1]] IN at[i]

Rounds == 1 .. Cardinality(Tasks)

\* Slips: any task that is not pending; the first one from the head of the ring.
NextNotPending(st, c) ==
    Step(c, Min({i \in Rounds : st[Step(c, i)] # "PENDING"}))
FirstRunning(st, c) ==
    Step(Shell, Min({i \in Rounds : st[Step(Shell, i)] = "RUNNING"}))

\* The loop of schedule: the first task after c whose state, in st, is RUNNING.
NextRunning(st, c) ==
    Step(c, Min({i \in Rounds : st[Step(c, i)] = "RUNNING"}))

\* The contexts that lead to no code of the kernel's: a forked one not set yet
\* jumps to 0, exec's enters the image at EL1, two are not where the task was.
Unready == {"zero", "image", "outdated", "cut"}

\* switch_to(c, n), c's context saved as how.  Through irq_handler and through
\* eret a task goes on with interrupts enabled; foo and idle go on as the
\* processor is.
SwitchTo(c, n, how, daif) ==
    LET saved == [context EXCEPT ![c] = how]
        idle  == n = Shell /\ saved[n] \in {"call", "idle"} IN
    /\ context' = saved
    /\ current' = n
    /\ masked' = (daif /\ (idle \/ saved[n] = "foo"))
    /\ th' = [th EXCEPT ![n] =
                CASE saved[n] = "irq"        -> @
                  [] saved[n] \in Unready   -> [Locals EXCEPT !.pc = "wild"]
                  [] saved[n] = "foo"        -> [Locals EXCEPT !.pc = "foo", !.how = "foo"]
                  [] idle                    -> [Locals EXCEPT !.pc = "reap"]
                  [] OTHER                   -> Locals]

\* c has chosen the task it will give the processor to.
Chosen(c) == \/ th[c].pc = "switch"
             \/ th[c].job = "exec" /\ th[c].pc \in {"close", "exec"}

\* The timer interrupt: irq_handler calls schedule before anything else, and
\* what is left of it runs when c is resumed.  In spawn_user_program's last
\* instructions it spoils elr_el1 or the context.lr that is to go there.
Tick ==
    LET c == current IN
    /\ ~ masked
    /\ th[c].pc # "wild"
    /\ SwitchTo(c, NextRunning(state, c), IF th[c].pc = "spawn" THEN "cut" ELSE "irq", TRUE)
    /\ stale' = (stale \/ Chosen(c))
    /\ UNCHANGED <<ring, state, ids, freed, overlap, raced>>

\* schedule called with interrupts enabled: first the choice, then switch_to.
Choose(c) ==
    /\ At(c, "choose")
    /\ th' = [th EXCEPT ![c].pc = "switch", ![c].sel = NextRunning(state, c)]
    /\ UNCHANGED <<ring, state, ids, context, cpu, past>>

Switch(c) ==
    /\ At(c, "switch")
    /\ SwitchTo(c, th[c].sel, th[c].how, masked)
    /\ UNCHANGED <<ring, state, ids, past>>

-----------------------------------------------------------------------------
(* thread_create: called by fork, by fork_demo, by thread_demo for each of *)
(* its threads, and by the shell's exec                                    *)

InUpdate(t) == th[t].pc \in {"append", "close", "unlink"}

\* Every store to the ring notes whether it cuts into another update.
NoteOverlap(c) == overlap' = (overlap \/ \E u \in Tasks \ {c} : InUpdate(u))

Jobs == ShellJobs \cup {"fork"}

\* thread_create's argument.
Function(job) == CASE job = "fork"        -> "zero"
                   [] job = "fork_demo"   -> "test"
                   [] job = "thread_demo" -> "foo"
                   [] job = "exec"        -> "image"

Counts(c) == th[c].pc = "count"

ThreadCreate(c, job) ==
    /\ At(c, IF job = "fork" THEN "user" ELSE "shell")
    /\ job # "fork" => Cardinality({t \in Tasks : state[t] # "none"}) <= ShellTasks
    /\ \E t \in Tasks :
          /\ state[t] = "none"
          /\ state' = [state EXCEPT ![t] = "RUNNING"]
          /\ context' = [context EXCEPT ![t] = Function(job)]
          /\ th' = [th EXCEPT ![c].pc = "count", ![c].job = job, ![c].new = t,
                              ![c].count = id_counter]
    /\ masked' = (job = "fork" /\ MaskedFork)
    /\ raced' = raced \cup {u \in Tasks \ {c} : Counts(u)}
    /\ UNCHANGED <<ring, ids, current, freed, overlap, stale>>

\* A slip: the counter stays.
NextIdStays(n) == n

NextId(n) == n + 1

\* The store of id_counter++.
Count(c) ==
    /\ At(c, "count")
    /\ id_counter' = NextId(th[c].count)
    /\ pid' = [pid EXCEPT ![th[c].new] = th[c].count]
    /\ th' = [th EXCEPT ![c].pc = "enqueue"]
    /\ UNCHANGED <<ring, state, context, cpu, past>>

\* A slip: task->next = task, as for the first task of the queue.
EnqueueAlone(c) ==
    /\ At(c, "enqueue")
    /\ next' = [next EXCEPT ![th[c].new] = th[c].new]
    /\ prev' = [prev EXCEPT ![th[c].new] = prev[Shell]]
    /\ th' = [th EXCEPT ![c].pc = "append"]
    /\ NoteOverlap(c)
    /\ UNCHANGED <<state, ids, context, cpu, freed, stale, raced>>

\* enqueue: task->next and task->prev, then the tail's next, then the head's
\* prev, each reading the ring anew.
Enqueue(c) ==
    /\ At(c, "enqueue")
    /\ next' = [next EXCEPT ![th[c].new] = Shell]
    /\ prev' = [prev EXCEPT ![th[c].new] = prev[Shell]]
    /\ th' = [th EXCEPT ![c].pc = "append"]
    /\ NoteOverlap(c)
    /\ UNCHANGED <<state, ids, context, cpu, freed, stale, raced>>

Append(c) ==
    /\ At(c, "append")
    /\ next' = [next EXCEPT ![prev[Shell]] = th[c].new]
    /\ th' = [th EXCEPT ![c].pc = "close"]
    /\ NoteOverlap(c)
    /\ UNCHANGED <<prev, state, ids, context, cpu, freed, stale, raced>>

Close(c) ==
    /\ At(c, "close")
    /\ prev' = [prev EXCEPT ![Shell] = th[c].new]
    /\ th' = [th EXCEPT ![c].pc = th[c].job]
    /\ NoteOverlap(c)
    /\ UNCHANGED <<next, state, ids, context, cpu, freed, stale, raced>>

\* A slip: the context stays as thread_create(0) has left it.
ChildContextUnset == "zero"
ChildContext == "child"

\* The rest of syscall_fork: the child will return from the same call.
ForkReturn(c) ==
    /\ At(c, "fork")
    /\ context' = [context EXCEPT ![th[c].new] = ChildContext]
    /\ th' = [th EXCEPT ![c] = Locals]
    /\ masked' = FALSE
    /\ UNCHANGED <<ring, state, ids, current, past>>

DemoReturn(c) ==
    /\ At(c, "fork_demo") \/ At(c, "thread_demo")
    /\ th' = [th EXCEPT ![c] = InShell]
    /\ UNCHANGED <<ring, state, ids, context, cpu, past>>

\* spawn_user_program becomes the new task by the write to tpidr_el1 and saves
\* nothing of the old one: what a tick has saved of it is long overwritten on
\* the boot stack.
SpawnUserProgram(c) ==
    /\ At(c, "exec")
    /\ current' = th[c].new
    /\ context' = [context EXCEPT ![c] = IF @ = "idle" THEN @ ELSE "outdated"]
    /\ th' = [th EXCEPT ![c] = Locals, ![th[c].new].pc = "spawn"]
    /\ UNCHANGED <<ring, state, ids, masked, past>>

\* Its last instructions, up to eret.
EnterProgram(c) ==
    /\ At(c, "spawn")
    /\ th' = [th EXCEPT ![c] = Locals]
    /\ UNCHANGED <<ring, state, ids, context, cpu, past>>

-----------------------------------------------------------------------------
(* The other system calls and the end of a thread                          *)

Exec(c) ==
    /\ At(c, "user")
    /\ state' = [state EXCEPT ![c] = ExecState]
    /\ UNCHANGED <<ring, ids, context, cpu, th, past>>

\* thread_exit, from the system call or from foo.
Exit(c) ==
    /\ At(c, "user") \/ At(c, "foo")
    /\ state' = [state EXCEPT ![c] = "TERMINATED"]
    /\ th' = [th EXCEPT ![c].pc = "choose"]
    /\ UNCHANGED <<ring, ids, context, cpu, past>>

\* foo calls schedule.
Yield(c) ==
    /\ At(c, "foo")
    /\ th' = [th EXCEPT ![c].pc = "choose"]
    /\ UNCHANGED <<ring, state, ids, context, cpu, past>>

\* thread_exit from a fault, or from signal: interrupts are disabled.
Fault(c) ==
    /\ At(c, "user")
    /\ state' = [state EXCEPT ![c] = "TERMINATED"]
    /\ SwitchTo(c, NextRunning(state', c), "call", TRUE)
    /\ UNCHANGED <<ring, ids, past>>

OnRing == {Step(Shell, i) : i \in {0} \cup
             {j \in Rounds : \A i \in 1 .. j : Step(Shell, i) # Shell}}

\* thread_stop, its walk in one step.  No program kills pid 0: without a task
\* in TASK_RUNNING the loop of schedule has no end.
ThreadStop(c, p) ==
    /\ Kill
    /\ At(c, "user")
    /\ state' = [t \in Tasks |-> IF t \in OnRing /\ pid[t] = p THEN "TERMINATED"
                                 ELSE state[t]]
    /\ th' = [th EXCEPT ![c].pc = "choose"]
    /\ UNCHANGED <<ring, ids, context, cpu, past>>

-----------------------------------------------------------------------------
(* idle: kill_zombies, schedule, and again                                 *)

\* task = next, until it is run_queue again.
VisitNext(n) ==
    [th EXCEPT ![Shell] = IF n = Shell THEN [Locals EXCEPT !.pc = "choose"]
                          ELSE [Locals EXCEPT !.pc = "visit", !.at = n]]

Reap ==
    /\ At(Shell, "reap")
    /\ th' = [th EXCEPT ![Shell].at = Shell, ![Shell].pc = "visit"]
    /\ UNCHANGED <<ring, state, ids, context, cpu, past>>

Visit ==
    LET t == th[Shell].at IN
    /\ At(Shell, "visit")
    /\ th' = IF state[t] = "TERMINATED"
             THEN [th EXCEPT ![Shell].to = next[t], ![Shell].pc = "dequeue"]
             ELSE VisitNext(next[t])
    /\ UNCHANGED <<ring, state, ids, context, cpu, past>>

\* A slip: the next task keeps its old prev.
DequeueHalf ==
    /\ At(Shell, "dequeue")
    /\ th' = [th EXCEPT ![Shell].pc = "unlink"]
    /\ UNCHANGED <<ring, state, ids, context, cpu, past>>

\* dequeue: task->next->prev, then task->prev->next.
Dequeue ==
    LET t == th[Shell].at IN
    /\ At(Shell, "dequeue")
    /\ prev' = [prev EXCEPT ![next[t]] = prev[t]]
    /\ th' = [th EXCEPT ![Shell].pc = "unlink"]
    /\ NoteOverlap(Shell)
    /\ UNCHANGED <<next, state, ids, context, cpu, freed, stale, raced>>

\* A slip: the previous task keeps its old next.
UnlinkNot ==
    LET t == th[Shell].at IN
    /\ At(Shell, "unlink")
    /\ freed' = [freed EXCEPT ![t] = IF @ < 2 THEN @ + 1 ELSE @]
    /\ th' = VisitNext(th[Shell].to)
    /\ NoteOverlap(Shell)
    /\ UNCHANGED <<ring, state, ids, context, cpu, stale, raced>>

\* The second store, and the two stacks freed (counted up to twice).
Unlink ==
    LET t == th[Shell].at IN
    /\ At(Shell, "unlink")
    /\ next' = [next EXCEPT ![prev[t]] = next[t]]
    /\ freed' = [freed EXCEPT ![t] = IF @ < 2 THEN @ + 1 ELSE @]
    /\ th' = VisitNext(th[Shell].to)
    /\ NoteOverlap(Shell)
    /\ UNCHANGED <<prev, state, ids, context, cpu, stale, raced>>

-----------------------------------------------------------------------------
\* What a task does once it is inside the kernel.
Kernel(c) ==
    \/ Choose(c) \/ Switch(c)
    \/ Count(c) \/ Enqueue(c) \/ Append(c) \/ Close(c)
    \/ ForkReturn(c) \/ DemoReturn(c) \/ SpawnUserProgram(c) \/ EnterProgram(c)

Idle == Reap \/ Visit \/ Dequeue \/ Unlink

Next ==
    \/ Tick
    \/ Idle
    \/ \E c \in Tasks :
          \/ Kernel(c)
          \/ \E job \in Jobs : ThreadCreate(c, job)
          \/ Exec(c) \/ Exit(c) \/ Yield(c) \/ Fault(c)
          \/ \E p \in 1 .. id_counter - 1 : ThreadStop(c, p)

Spec == Init /\ [][Next]_vars

\* irq_handler arms the timer again each time, and a call that has the
\* processor goes on; so does foo, which waits for nothing.
FairSpec == /\ Spec /\ WF_vars(Tick)
            /\ WF_vars(Idle \/ \E c \in Tasks : Kernel(c) \/ Yield(c))
-----------------------------------------------------------------------------
(* Properties                                                              *)

Pcs == {"shell", "user", "choose", "switch", "count", "enqueue", "append", "close",
        "reap", "visit", "dequeue", "unlink", "wild", "foo", "spawn",
        "fork", "fork_demo", "thread_demo", "exec"}

\* Every task field has a value of its kind.
TypeOK ==
    /\ next \in [Tasks -> Tasks \cup {NULL}] /\ prev \in [Tasks -> Tasks \cup {NULL}]
    /\ state \in [Tasks -> States]
    /\ pid \in [Tasks -> Int] /\ id_counter \in 1 .. Cardinality(Tasks)
    /\ context \in [Tasks -> Contexts]
    /\ current \in Tasks /\ masked \in BOOLEAN
    /\ \A t \in Tasks : th[t].pc \in Pcs

\* A task that thread_create has put on the ring and that is not reaped.
Alive == {t \in Tasks : next[t] # NULL /\ freed[t] = 0}

RingSound ==
    /\ OnRing = Alive
    /\ \A t \in Alive : prev[next[t]] = t

\* Whatever the interleaving, from every task the ring's next leads back to
\* pid 0: the loops of schedule, get_thread and thread_stop end.
NextLeadsHome ==
    \A t \in Tasks : next[t] # NULL => \E i \in Rounds : Step(t, i) = Shell

\* A task is lost to the ring, its pid no more to be found nor its turn to come,
\* only where two updates of the ring cut into each other: an unmasked fork or a
\* command of the shell with another, or one of them with kill_zombies.
OnlyOverlapLosesTasks ==
    ~ overlap /\ (\A t \in Tasks : ~ InUpdate(t)) => RingSound

Running(c) == th[c].pc \notin {"choose", "switch"}

\* A terminated task runs again only after a tick came between the choice
\* of a task and the switch to it, in schedule or in the shell's exec.
OnlyStaleChoiceRevives ==
    ~ stale => (state[current] = "TERMINATED" => ~ Running(current))

\* The stacks of a task are freed once, and never under a task that runs,
\* but for those two windows.
StacksFreedOnce ==
    ~ overlap /\ ~ stale =>
        /\ freed[current] = 0
        /\ \A t \in Tasks : freed[t] <= 1

\* The processor leaves the kernel's code only into a child whose parent has
\* yet to set its context, into exec's task before exec itself enters it or
\* after a tick has cut that, and into the shell that exec dropped.
OnlyUnreadyGoesWild ==
    \A t \in Tasks : th[t].pc = "wild" =>
        \/ \E c \in Tasks : /\ th[c].new = t
                            /\ <<th[c].job, context[t]>> \in {<<"fork", "zero">>, <<"exec", "image">>}
        \/ context[t] = "cut"
        \/ t = Shell /\ context[t] = "outdated"

\* With fork masked only the shell's id_counter++ is cut into, by a fork, and
\* short of that no two tasks have one pid ...
PidsDiffer ==
    /\ raced \subseteq {Shell}
    /\ raced = {} => \A t, u \in {v \in Tasks : pid[v] # -1} : t # u => pid[t] # pid[u]

\* ... no child is resumed before its parent has set its context ...
ReadyWhenResumed == \A t \in Tasks : th[t].pc # "wild"

\* ... and no task runs after its end, but one that foo has chosen before it.
TerminatedStaysOff == OnlyStaleChoiceRevives

(* What lab 5 gains by masking fork, taken together.                       *)
SoundWhenMasked == TypeOK /\ PidsDiffer /\ ReadyWhenResumed /\ TerminatedStaysOff

\* Round robin: every task that has come to the ring and may run gets the
\* processor, unless updates of the ring overlap.
EveryTaskGetsItsTurn ==
    [] ~ overlap => \A t \in Tasks :
        (t \in OnRing /\ state[t] = "RUNNING")
            ~> (current = t \/ state[t] # "RUNNING")
=============================================================================
