----------------------------- MODULE TimerQueue -----------------------------
(***************************************************************************)
(* The software timers of lab 3: kernel/task.c, timeout.c, timer.S and the *)
(* part of irq_handler that runs deferred tasks.  setTimeout puts a task   *)
(* on the timer queue; the timer interrupt moves the first one to the task *)
(* queue; and every interrupt, once it has unmasked interrupts again, runs *)
(* what the task queue holds, on top of whatever it interrupted.           *)
(*                                                                         *)
(* Interrupts nest, so the program is a stack of frames of which the last  *)
(* runs.  An interrupt handler's masked part is one step.                  *)
(***************************************************************************)
EXTENDS Integers, Sequences, FiniteSets, FiniteSetsExt

CONSTANTS
    Ids,            \* the tasks that are set
    Delays,         \* in seconds
    Demos,          \* the tasks that set another one when they run
    TASK_MAX_SIZE,
    TvalRange,      \* delays the timer's signed 32 bits hold, in seconds
    MaxNow,         \* bounds time
    MaxDepth        \* bounds the nesting of interrupts

ASSUME TimerAssumption ==
    /\ TASK_MAX_SIZE \in Nat \ {0} /\ TvalRange \in Nat \ {0}
    /\ Delays \subseteq Nat /\ Demos \subseteq Ids /\ 0 \notin Ids
    /\ MaxNow \in Nat /\ MaxDepth \in Nat \ {0, 1}

VARIABLES
    now,            \* the seconds of get_uptime
    timer,          \* cntp_ctl_el0 and the time at which it fires
    timeout,        \* the field of each task; -1 before it is set
    timerq, taskq,  \* global_timer_queue, global_task_queue
    stack,          \* the frames
    due,            \* history: the time for which each task was set
    dropped,        \* history: tasks that found a queue full
    ran,            \* history: how often each task ran
    early,          \* history: tasks that ran before their time
    cut             \* history: which windows an interrupt hit

vars == <<now, timer, timeout, timerq, taskq, stack, due, dropped, ran, early, cut>>

Slots == 0 .. TASK_MAX_SIZE - 1
Garbage == 0        \* a slot that was never written

Shell == [pc |-> "shell"]
Loop == [pc |-> "loop"]

Init ==
    /\ now = 0
    /\ timer = [on |-> FALSE, at |-> 0]
    /\ timeout = [t \in Ids |-> -1]
    /\ timerq = [size |-> 0, tasks |-> [i \in Slots |-> Garbage]]
    /\ taskq = timerq
    /\ stack = <<Shell>>
    /\ due = [t \in Ids |-> 0]
    /\ dropped = {}
    /\ ran = [t \in Ids |-> 0]
    /\ early = {}
    /\ cut = {}

-----------------------------------------------------------------------------
(* The queues                                                              *)

Full(q) == q.size >= TASK_MAX_SIZE

\* A slip: q->size without the ++
NotGrown(size) == size
Grown(size) == size + 1

Parent(i) == (i - 1) \div 2

\* The smaller of the children of i.
Child(q, i) ==
    IF i * 2 + 2 < q.size /\ timeout[q.tasks[i * 2 + 2]] < timeout[q.tasks[i * 2 + 1]]
    THEN i * 2 + 2 ELSE i * 2 + 1

\* Whether the loops go on at i.
Rises(q, task, i) == i > 0 /\ timeout[q.tasks[Parent(i)]] > timeout[task]
Sinks(q, task, i) == i * 2 + 1 < q.size /\ timeout[task] > timeout[q.tasks[Child(q, i)]]

\* The slots the loops pass through from each slot.
Rising(q, task) ==
    LET up[i \in Slots] == IF Rises(q, task, i) THEN up[Parent(i)] \cup {i} ELSE {i} IN up
Sinking(q, task) ==
    LET down[i \in Slots] == IF Sinks(q, task, i) THEN down[Child(q, i)] \cup {i} ELSE {i} IN down

\* add_task
Add(q, task) ==
    LET path == Rising(q, task)[q.size]
    IN  IF Full(q) THEN q
        ELSE [size |-> Grown(q.size),
              tasks |-> [j \in Slots |-> CASE j = Min(path) -> task
                                           [] j \in path \ {Min(path)} -> q.tasks[Parent(j)]
                                           [] OTHER -> q.tasks[j]]]

\* pop_timer_task without the timer
Pop(q) ==
    LET r == [q EXCEPT !.size = @ - 1]
        last == q.tasks[r.size]
        path == Sinking(r, last)[0]
    IN  [r EXCEPT !.tasks = [j \in Slots |-> CASE j = Max(path) -> last
                                               [] j \in path \ {Max(path)} -> r.tasks[Child(r, j)]
                                               [] OTHER -> r.tasks[j]]]

Held(q) == {q.tasks[i] : i \in 0 .. q.size - 1}

\* set_core_timer: the low 32 bits of the product, taken as signed.
Tval(delay) == ((delay + TvalRange) % (2 * TvalRange)) - TvalRange

\* What is left until a time.  A slip: the comparison turned round.
LeftIfPast(time) == IF time < now THEN time - now ELSE 0
LeftUntil(time) == IF time > now THEN time - now ELSE 0

-----------------------------------------------------------------------------
Top == stack[Len(stack)]
Running == Top.pc # "wild"
Goto(f) == stack' = [stack EXCEPT ![Len(stack)] = f]
Push(f) == stack' = Append(stack, f)
Done == stack' = SubSeq(stack, 1, Len(stack) - 1)

Frames(pcs) == {i \in DOMAIN stack : stack[i].pc \in pcs}

Fresh == {t \in Ids : timeout[t] = -1}

Set(t, delay) ==
    /\ timeout' = [timeout EXCEPT ![t] = now + delay]
    /\ due' = [due EXCEPT ![t] = now + delay]

Advance ==
    /\ Running /\ now < MaxNow
    /\ now' = now + 1
    /\ UNCHANGED <<timer, timeout, timerq, taskq, stack, due, dropped, ran, early, cut>>

\* set_timeout, from the shell
SetTimeout(t, delay) ==
    /\ Top.pc = "shell" /\ t \in Fresh
    /\ Set(t, delay)
    /\ Push([pc |-> "add", task |-> t])
    /\ UNCHANGED <<now, timer, timerq, taskq, dropped, ran, early, cut>>

-----------------------------------------------------------------------------
(* add_timer_task, with interrupts enabled                                 *)

\* if (q->size >= TASK_MAX_SIZE) return; the task is forgotten.
AddTest ==
    /\ Top.pc = "add"
    /\ IF Full(timerq)
       THEN Goto([pc |-> "enable"]) /\ dropped' = dropped \cup {Top.task}
       ELSE Goto([pc |-> "load", task |-> Top.task]) /\ UNCHANGED dropped
    /\ UNCHANGED <<now, timer, timeout, timerq, taskq, due, ran, early, cut>>

GoWild == Goto([pc |-> "wild"])

\* q->size++ loads the size anew.  Where a task that an interrupt ran has
\* filled the queue meanwhile, what follows is stored past its slots.
AddLoad ==
    /\ Top.pc = "load"
    /\ IF Full(timerq)
       THEN GoWild /\ cut' = cut \cup {"queue"}
       ELSE Goto([pc |-> "grow", task |-> Top.task, i |-> timerq.size]) /\ UNCHANGED cut
    /\ UNCHANGED <<now, timer, timeout, timerq, taskq, due, dropped, ran, early>>

AddGrow ==
    /\ Top.pc = "grow"
    /\ timerq' = [timerq EXCEPT !.size = Grown(Top.i)]
    /\ Goto([Top EXCEPT !.pc = "sift"])
    /\ UNCHANGED <<now, timer, timeout, taskq, due, dropped, ran, early, cut>>

AddSift ==
    /\ Top.pc = "sift"
    /\ IF Top.i > 0 /\ timerq.tasks[Parent(Top.i)] = Garbage
       THEN GoWild /\ UNCHANGED timerq
       ELSE IF Rises(timerq, Top.task, Top.i)
       THEN /\ timerq' = [timerq EXCEPT !.tasks[Top.i] = timerq.tasks[Parent(Top.i)]]
            /\ Goto([Top EXCEPT !.i = Parent(@)])
       ELSE /\ timerq' = [timerq EXCEPT !.tasks[Top.i] = Top.task]
            /\ Goto([pc |-> "target"])
    /\ UNCHANGED <<now, timer, timeout, taskq, due, dropped, ran, early, cut>>

\* target_timestamp and uptime are read, then the timer is set.
AddTarget ==
    /\ Top.pc = "target"
    /\ IF timerq.tasks[0] = Garbage THEN GoWild
       ELSE Goto([pc |-> "arm", delay |-> timeout[timerq.tasks[0]] - now])
    /\ UNCHANGED <<now, timer, timeout, timerq, taskq, due, dropped, ran, early, cut>>

AddArm ==
    /\ Top.pc = "arm"
    /\ timer' = [timer EXCEPT !.at = now + Tval(Top.delay)]
    /\ Goto([pc |-> "enable"])
    /\ UNCHANGED <<now, timeout, timerq, taskq, due, dropped, ran, early, cut>>

\* core_timer_enable, the last call of set_timeout and timer_demo
Enable ==
    /\ Top.pc = "enable"
    /\ timer' = [timer EXCEPT !.on = TRUE]
    /\ Done
    /\ UNCHANGED <<now, timeout, timerq, taskq, due, dropped, ran, early, cut>>

-----------------------------------------------------------------------------
(* Interrupts                                                              *)

\* The windows that an interrupt now hits.  queue: a queue is half changed, or
\* pop_task has seen it not empty.  Where add_timer_task has read the size and
\* both queues are empty, nothing can be done to it.  test: execute_tasks has
\* seen the task queue not empty.  timer: a task is queued, and the timer not
\* yet set for it.
Hits ==
    (IF \/ Frames({"grow", "sift"}) # {} /\ timerq.size + taskq.size > 0
        \/ Frames({"top", "size", "last", "sink"}) # {}
     THEN {"queue"} ELSE {})
    \cup (IF Frames({"pop"}) # {} THEN {"test"} ELSE {})
    \cup (IF Frames({"target", "arm"}) # {} THEN {"timer"} ELSE {})

\* core_timer_disable, which runs on into core_timer_handler and sets two
\* seconds, timer_irq_handler and core_timer_enable.  The first task is taken
\* without a look at its time.
TimerIrq ==
    /\ Running /\ timer.on /\ now >= timer.at /\ Len(stack) < MaxDepth
    /\ cut' = cut \cup Hits
    /\ IF timerq.size = 0
       THEN /\ timer' = [on |-> TRUE, at |-> now + 2]
            /\ UNCHANGED <<timeout, timerq, taskq, dropped>> /\ Push(Loop)
       ELSE IF Garbage \in Held(timerq)
       THEN UNCHANGED <<timer, timeout, timerq, taskq, dropped>> /\ Push([pc |-> "wild"])
       ELSE LET task == timerq.tasks[0]
                left == Pop(timerq)
            IN  /\ timerq' = left
                /\ timer' = [on |-> TRUE,
                             at |-> IF left.size = 0 THEN now + 2
                                    ELSE now + Tval(LeftUntil(timeout[left.tasks[0]]))]
                /\ timeout' = [timeout EXCEPT ![task] = 0]
                /\ IF Full(taskq)
                   THEN dropped' = dropped \cup {task} /\ UNCHANGED taskq
                   ELSE taskq' = Add(taskq, task) /\ UNCHANGED dropped
                /\ Push(Loop)
    /\ UNCHANGED <<now, due, ran, early>>

\* An interrupt of the UART, too, goes on to run tasks.  One that finds none
\* changes nothing.
UartIrq ==
    /\ Running /\ taskq.size > 0 /\ Len(stack) < MaxDepth
    /\ cut' = cut \cup (Hits \ {"timer"})
    /\ Push(Loop)
    /\ UNCHANGED <<now, timer, timeout, timerq, taskq, due, dropped, ran, early>>

-----------------------------------------------------------------------------
(* execute_tasks and pop_task, with interrupts enabled                     *)

\* A slip: the last task is left.
FewTasks(size) == size > 1
MoreTasks(size) == size > 0

LoopTest ==
    /\ Top.pc = "loop"
    /\ IF MoreTasks(taskq.size) THEN Goto([pc |-> "pop"]) ELSE Done
    /\ UNCHANGED <<now, timer, timeout, timerq, taskq, due, dropped, ran, early, cut>>

\* pop_task returns 0 when the queue is empty by now, and execute_tasks uses
\* it without a test.
PopTest ==
    /\ Top.pc = "pop"
    /\ IF taskq.size = 0 THEN GoWild ELSE Goto([pc |-> "top"])
    /\ UNCHANGED <<now, timer, timeout, timerq, taskq, due, dropped, ran, early, cut>>

PopTop ==
    /\ Top.pc = "top"
    /\ Goto([pc |-> "size", task |-> taskq.tasks[0]])
    /\ UNCHANGED <<now, timer, timeout, timerq, taskq, due, dropped, ran, early, cut>>

\* --q->size loads the size anew.  Where an interrupt has emptied the queue
\* meanwhile it becomes -1, the task taken runs once more, and the next one
\* queued is stored over the size: nothing is known of what follows.
PopSize ==
    /\ Top.pc = "size"
    /\ IF taskq.size = 0 THEN GoWild
       ELSE Goto([pc |-> "last", task |-> Top.task, size |-> taskq.size])
    /\ UNCHANGED <<now, timer, timeout, timerq, taskq, due, dropped, ran, early, cut>>

PopLast ==
    /\ Top.pc = "last"
    /\ taskq' = [taskq EXCEPT !.size = Top.size - 1]
    /\ Goto([pc |-> "sink", task |-> Top.task, last |-> taskq.tasks[Top.size - 1], i |-> 0])
    /\ UNCHANGED <<now, timer, timeout, timerq, due, dropped, ran, early, cut>>

\* One turn of the loop, or its end and the call of the task.
PopSink ==
    /\ Top.pc = "sink"
    /\ IF Sinks(taskq, Top.last, Top.i)
       THEN /\ taskq' = [taskq EXCEPT !.tasks[Top.i] = taskq.tasks[Child(taskq, Top.i)]]
            /\ Goto([Top EXCEPT !.i = Child(taskq, @)])
       ELSE /\ taskq' = [taskq EXCEPT !.tasks[Top.i] = Top.last]
            /\ Goto([pc |-> "run", task |-> Top.task])
    /\ UNCHANGED <<now, timer, timeout, timerq, due, dropped, ran, early, cut>>

\* print_message; the demo sets its next task.
Run ==
    /\ Top.pc = "run"
    /\ ran' = [ran EXCEPT ![Top.task] = @ + 1]
    /\ early' = IF now < due[Top.task] THEN early \cup {Top.task} ELSE early
    /\ \/ /\ Top.task \in Demos /\ Fresh # {} /\ Len(stack) < MaxDepth
          /\ \E t \in Fresh, delay \in Delays :
                /\ Set(t, delay)
                /\ stack' = Append([stack EXCEPT ![Len(stack)] = Loop], [pc |-> "add", task |-> t])
       \/ /\ Top.task \notin Demos \/ Fresh = {} \/ Len(stack) = MaxDepth
          /\ Goto(Loop) /\ UNCHANGED <<timeout, due>>
    /\ UNCHANGED <<now, timer, timerq, taskq, dropped, cut>>

-----------------------------------------------------------------------------
Step ==
    \/ AddTest \/ AddLoad \/ AddGrow \/ AddSift \/ AddTarget \/ AddArm \/ Enable
    \/ LoopTest \/ PopTest \/ PopTop \/ PopSize \/ PopLast \/ PopSink \/ Run

Next ==
    \/ Advance
    \/ \E t \in Ids, delay \in Delays : SetTimeout(t, delay)
    \/ TimerIrq \/ UartIrq
    \/ Step

Spec == Init /\ [][Next]_vars

\* Time passes, the processor runs and a due timer interrupts it.
FairSpec == Spec /\ WF_vars(Advance) /\ WF_vars(TimerIrq) /\ WF_vars(Step)

-----------------------------------------------------------------------------
TypeOK ==
    /\ now \in 0 .. MaxNow /\ timer.on \in BOOLEAN
    /\ \A q \in {timerq, taskq} :
        q.size \in 0 .. TASK_MAX_SIZE /\ \A i \in Slots : q.tasks[i] \in Ids \cup {Garbage}
    /\ Garbage \notin Held(taskq)
    /\ Len(stack) \in 1 .. MaxDepth
    /\ cut \subseteq {"queue", "test", "timer"}

\* Where a task is: on its way in, in a slot, on its way out, or done.
Places(t) ==
    {<<"stack", i>> : i \in {j \in DOMAIN stack :
        stack[j].pc \in {"add", "load", "grow", "sift", "last", "sink", "run"} /\ stack[j].task = t}}
    \cup {<<"timerq", i>> : i \in {j \in 0 .. timerq.size - 1 : timerq.tasks[j] = t}}
    \cup {<<"taskq", i>> : i \in {j \in 0 .. taskq.size - 1 : taskq.tasks[j] = t}}
    \cup {<<"ran", i>> : i \in 1 .. ran[t]}
    \cup {<<"dropped", i>> : i \in {j \in {0} : t \in dropped}}

\* No frame is in the middle of a change of a queue.
Settled == Frames({"sift", "last", "sink"}) = {}

(* A task that was set is in one place until it has run, once: it is not   *)
(* lost and not run twice, unless an interrupt met a queue half changed.   *)
EachTaskOnce ==
    "queue" \notin cut /\ Settled => \A t \in Ids \ Fresh : Cardinality(Places(t)) = 1

(* No task runs before its time, although the interrupt does not look at   *)
(* it, unless its delay is more than the timer holds, or an interrupt came *)
(* between queueing a task and setting the timer for it.                   *)
NotBeforeDue ==
    cut \cap {"queue", "timer"} = {} /\ (\A d \in Delays : d < TvalRange) => early = {}

(* The first slot of the timer queue holds the task that is due first,     *)
(* which is the one the timer is set for.                                  *)
EarliestOnTop ==
    "queue" \notin cut /\ Settled =>
        \A t \in Held(timerq) : timeout[timerq.tasks[0]] <= timeout[t]

(* The kernel does not store outside the slots, nor follow a pointer that  *)
(* is none, unless an interrupt came between a test of a queue and its     *)
(* use, or met one half changed.                                           *)
OnlyCutsGoWild == cut \cap {"queue", "test"} = {} => Running

(* Both queues are sound heaps that hold what was set.                     *)
QueuesSound == TypeOK /\ EachTaskOnce /\ EarliestOnTop /\ OnlyCutsGoWild

(* In the end every task that was set has run or found a queue full, or    *)
(* the timer is on for it, at a time past the model's; unless an interrupt *)
(* cut in where it does harm.  Only such a cut makes the kernel follow a   *)
(* pointer that is none.                                                   *)
SetTasksRun ==
    \A t \in Ids : <>[](\/ t \in Fresh \/ ran[t] > 0 \/ t \in dropped
                        \/ t \in Held(timerq) /\ timer.on /\ timer.at > now
                        \/ cut # {})

=============================================================================
