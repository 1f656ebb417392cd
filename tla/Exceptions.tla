----------------------------- MODULE Exceptions -----------------------------
(***************************************************************************)
(* The way into the kernel and out of it: save_all, load_all and eret of   *)
(* kernel/interrupt.S, irq_handler and trap_handler around their bodies,   *)
(* and switch_to of kernel/sched.S, register by register.  ELR_EL1,        *)
(* SPSR_EL1 and the interrupt mask belong to the processor: no task_struct *)
(* has them.                                                               *)
(*                                                                         *)
(* A point is a place in the code together with the registers that are     *)
(* alive there.  The choice of the next task is any: Threads has the ring. *)
(***************************************************************************)
EXTENDS Integers, FiniteSets

CONSTANTS
    Tasks,
    Shell,          \* the task that runs in the kernel, pid 0
    MaxFrames       \* how many exceptions nest on one kernel stack

ASSUME ExceptionsAssumption == Shell \in Tasks /\ MaxFrames \in Nat \ {0}

VARIABLES
    pc, el, irqs,   \* point, exception level, interrupts enabled
    elr, spsr, sp, tpidr,
    stack,          \* the frames on each task's kernel stack
    context,        \* task_struct.context: lr and sp
    state,
    events          \* history: what happened of Events

core == <<pc, el, irqs>>
regs == <<elr, spsr, sp, tpidr>>
vars == <<core, regs, stack, context, state, events>>

(* return: an interrupt came between the first msr of load_all or of       *)
(* from_el1_to_el0 and its eret.  switch: one came in switch_to, after it  *)
(* had saved the context of its task and before it was the next one, and   *)
(* the task that called it was to go on.  stale: switch_to goes to a task  *)
(* that has ended since schedule chose it.  yielded: a system call called  *)
(* schedule.                                                               *)
Events == {"return", "switch", "stale", "yielded"}

Point(at) == [at |-> at]
Home(t) == [at |-> "home", of |-> t]
Wild == Point("wild")
At(at) == pc.at = at

\* Where the program of t runs: SPSR_EL1_ENABLED is EL0.
Level(t) == IF t = Shell THEN 1 ELSE 0

\* A frame that was popped, and memory that was never one.
NoFrame == [elr |-> Wild, spsr |-> [el |-> 1, irqs |-> FALSE], call |-> "none"]

Init ==
    /\ pc = Home(Shell) /\ el = 1 /\ irqs = TRUE
    /\ elr = Home(Shell) /\ spsr = [el |-> 1, irqs |-> TRUE]
    /\ sp = <<Shell, 0>> /\ tpidr = Shell
    /\ stack = [t \in Tasks |-> [i \in 1 .. MaxFrames |-> NoFrame]]
    /\ context = [t \in Tasks |-> [lr |-> "none", sp |-> <<t, 0>>]]
    /\ state = [t \in Tasks |-> IF t = Shell THEN "RUNNING" ELSE "none"]
    /\ events = {}

Goto(at) == pc' = Point(at)
Happens(es) == events' = events \cup es

-----------------------------------------------------------------------------
(* Exceptions                                                              *)

\* What the processor does, and save_all.
Enter(call) ==
    /\ sp[2] \in 0 .. MaxFrames - 1
    /\ elr' = pc /\ spsr' = [el |-> el, irqs |-> irqs] /\ el' = 1
    /\ sp' = <<sp[1], sp[2] + 1>>
    /\ stack' = [stack EXCEPT ![sp[1]][sp[2] + 1] = [elr |-> pc, spsr |-> spsr', call |-> call]]
    /\ UNCHANGED tpidr

Returning == pc.at \in {"elr", "rest", "eret", "enter_spsr"}
Switching == pc.at \in {"restore", "sp", "tpidr"} /\ state[pc.prev] = "RUNNING"

Interrupted == (IF Returning THEN {"return"} ELSE {}) \cup (IF Switching THEN {"switch"} ELSE {})

Cut == events \cap {"return", "switch", "stale"} # {}

\* irq_handler: the timer's interrupt calls schedule, the UART's does not.
\* Once one of the first three has happened no more interrupts follow.
Irq ==
    /\ irqs /\ ~ At("wild") /\ ~ Cut
    /\ Enter("irq")
    /\ irqs' = FALSE
    /\ Goto("schedule") \/ Goto("tail")
    /\ Happens(Interrupted)
    /\ UNCHANGED <<context, state>>

\* A system call of the program of t, up to enable_irq.
Svc(t) ==
    /\ pc = Home(t) /\ t # Shell
    /\ Enter("trap")
    /\ irqs' = TRUE
    /\ Goto("trap")
    /\ UNCHANGED <<context, state, events>>

\* A slip: enable_irq comes before the test of ESR_EL1.
FaultEnabled == TRUE
FaultMask == FALSE

\* Any other exception of a program ends its task.
Fault(t) ==
    /\ pc = Home(t) /\ t # Shell
    /\ Enter("trap")
    /\ irqs' = FaultMask
    /\ state' = [state EXCEPT ![tpidr] = "TERMINATED"]
    /\ Goto("schedule")
    /\ UNCHANGED <<context, events>>

-----------------------------------------------------------------------------
(* System calls                                                            *)

TrapReturn ==
    /\ At("trap") /\ Goto("load")
    /\ UNCHANGED <<el, irqs, regs, stack, context, state, events>>

\* thread_exit and thread_stop, of any task but pid 0.
Stop(t) ==
    /\ At("trap") /\ t # Shell /\ state[t] # "none"
    /\ state' = [state EXCEPT ![t] = "TERMINATED"]
    /\ Goto("schedule")
    /\ Happens({"yielded"})
    /\ UNCHANGED <<el, irqs, regs, stack, context>>

\* A slip: the child's sp is the copy of its parent's.
ParentSp(t) == sp
ChildSp(t) == <<t, 1>>

\* syscall_fork copies the stack: the child returns from its parent's call.
Fork(t) ==
    /\ At("trap") /\ state[t] = "none" /\ sp[2] = 1
    /\ state' = [state EXCEPT ![t] = "RUNNING"]
    /\ stack' = [stack EXCEPT ![t][1] = [stack[sp[1]][sp[2]] EXCEPT !.elr = Home(t)]]
    /\ context' = [context EXCEPT ![t] = [lr |-> "load", sp |-> ChildSp(t)]]
    /\ Goto("load")
    /\ UNCHANGED <<el, irqs, regs, events>>

\* The shell's fork_demo: thread_create(run_fork_test).
ForkDemo(t) ==
    /\ pc = Home(Shell) /\ state[t] = "none"
    /\ state' = [state EXCEPT ![t] = "RUNNING"]
    /\ context' = [context EXCEPT ![t] = [lr |-> "enter", sp |-> <<t, 0>>]]
    /\ UNCHANGED <<core, regs, stack, events>>

-----------------------------------------------------------------------------
(* schedule and switch_to                                                  *)

Schedule(t) ==
    /\ At("schedule") /\ state[t] = "RUNNING"
    /\ pc' = [at |-> "save", prev |-> tpidr, next |-> t]
    /\ UNCHANGED <<el, irqs, regs, stack, context, state, events>>

\* A slip: the stack pointer is that of the frame before.
SavedAbove(s) == <<s[1], s[2] - 1>>
Saved(s) == s

Save ==
    /\ At("save")
    /\ context' = [context EXCEPT ![pc.prev] = [lr |-> "schedule", sp |-> Saved(sp)]]
    /\ pc' = [pc EXCEPT !.at = "restore"]
    /\ UNCHANGED <<el, irqs, regs, stack, state, events>>

Restore ==
    /\ At("restore")
    /\ pc' = [at |-> "sp", prev |-> pc.prev, next |-> pc.next, context |-> context[pc.next]]
    /\ Happens(IF state[pc.next] = "RUNNING" THEN {} ELSE {"stale"})
    /\ UNCHANGED <<el, irqs, regs, stack, context, state>>

MovSp ==
    /\ At("sp")
    /\ sp' = pc.context.sp
    /\ pc' = [pc EXCEPT !.at = "tpidr"]
    /\ UNCHANGED <<el, irqs, elr, spsr, tpidr, stack, context, state, events>>

\* Where schedule was called from: what lies above the frame says it.
Returned(s) ==
    CASE s[2] \notin 1 .. MaxFrames       -> Wild
      [] stack[s[1]][s[2]].call = "irq"   -> Point("tail")
      [] stack[s[1]][s[2]].call = "trap"  -> Point("load")
      [] OTHER                            -> Wild

\* msr tpidr_el1, and ret to what lr says.
MsrTpidr ==
    /\ At("tpidr")
    /\ tpidr' = pc.next
    /\ pc' = IF pc.context.lr = "schedule" THEN Returned(sp) ELSE Point(pc.context.lr)
    /\ UNCHANGED <<el, irqs, elr, spsr, sp, stack, context, state, events>>

-----------------------------------------------------------------------------
(* The way out                                                             *)

\* The end of irq_handler: signal, and enable_irq.
Tail ==
    /\ At("tail")
    /\ irqs' = TRUE
    /\ Goto("load")
    /\ UNCHANGED <<el, regs, stack, context, state, events>>

Frame == IF sp[2] \in 1 .. MaxFrames THEN stack[sp[1]][sp[2]] ELSE NoFrame

\* load_all: ldp x30, x10 and ldp x11, x12
Load ==
    /\ At("load")
    /\ pc' = [at |-> "spsr", x10 |-> Frame.spsr, x11 |-> Frame.elr]
    /\ UNCHANGED <<el, irqs, regs, stack, context, state, events>>

MsrSpsr ==
    /\ At("spsr")
    /\ spsr' = pc.x10
    /\ pc' = [at |-> "elr", x11 |-> pc.x11]
    /\ UNCHANGED <<el, irqs, elr, sp, tpidr, stack, context, state, events>>

MsrElr ==
    /\ At("elr")
    /\ elr' = pc.x11
    /\ Goto("rest")
    /\ UNCHANGED <<el, irqs, spsr, sp, tpidr, stack, context, state, events>>

\* A slip: the frame is taken off in load_all and again before eret.
PoppedTwice(s) == <<s[1], s[2] - 2>>
Popped(s) == <<s[1], s[2] - 1>>

\* The other ldp, and add sp.
Rest ==
    /\ At("rest")
    /\ IF sp[2] \in 1 .. MaxFrames
       THEN /\ sp' = Popped(sp)
            /\ stack' = [stack EXCEPT ![sp[1]][sp[2]] = NoFrame]
            /\ Goto("eret")
       ELSE pc' = Wild /\ UNCHANGED <<sp, stack>>
    /\ UNCHANGED <<el, irqs, elr, spsr, tpidr, context, state, events>>

Eret ==
    /\ At("eret")
    /\ pc' = elr /\ el' = spsr.el /\ irqs' = spsr.irqs
    /\ UNCHANGED <<regs, stack, context, state, events>>

\* from_el1_to_el0, called by run_fork_test
EnterElr ==
    /\ At("enter")
    /\ elr' = Home(tpidr)
    /\ Goto("enter_spsr")
    /\ UNCHANGED <<el, irqs, spsr, sp, tpidr, stack, context, state, events>>

EnterSpsr ==
    /\ At("enter_spsr")
    /\ spsr' = [el |-> 0, irqs |-> TRUE]
    /\ Goto("eret")
    /\ UNCHANGED <<el, irqs, elr, sp, tpidr, stack, context, state, events>>

-----------------------------------------------------------------------------
SwitchTo == Save \/ Restore \/ MovSp \/ MsrTpidr
LoadAll == Load \/ MsrSpsr \/ MsrElr \/ Rest \/ Eret

Next ==
    \/ Irq
    \/ \E t \in Tasks : Svc(t) \/ Fault(t) \/ Stop(t) \/ Fork(t) \/ ForkDemo(t) \/ Schedule(t)
    \/ TrapReturn \/ SwitchTo \/ Tail \/ LoadAll \/ EnterElr \/ EnterSpsr

Spec == Init /\ [][Next]_vars

-----------------------------------------------------------------------------
Points == {"home", "schedule", "tail", "trap", "load", "save", "restore", "sp", "tpidr",
           "spsr", "elr", "rest", "eret", "enter", "enter_spsr", "wild"}

TypeOK ==
    /\ pc.at \in Points /\ elr.at \in Points
    /\ el \in {0, 1} /\ irqs \in BOOLEAN
    /\ sp \in Tasks \X (0 .. MaxFrames) /\ tpidr \in Tasks
    /\ \A t \in Tasks : /\ context[t].sp \in Tasks \X (0 .. MaxFrames)
                        /\ state[t] \in {"none", "RUNNING", "TERMINATED"}
    /\ events \subseteq Events

(* A program goes on where it was, as the task it is, at its own exception *)
(* level, with interrupts enabled and its kernel stack empty, whatever     *)
(* interrupts, switches and calls lie in between: unless an interrupt came *)
(* between msr and eret, or between the saving of a context and the end of *)
(* the switch, or switch_to was held up until its choice had ended.        *)
ComesHome ==
    ~ Cut =>
        /\ ~ At("wild")
        /\ At("home") => pc.of = tpidr /\ sp = <<tpidr, 0>> /\ el = Level(tpidr) /\ irqs

\* From the nth frame on, the frames of t lead home: the first to its program
\* or to the function that enters it, each other one into the kernel.
LeadHome(t, n) ==
    \A i \in 1 .. n : IF i = 1 THEN stack[t][i].elr \in {Home(t), Point("enter")}
                      ELSE stack[t][i].elr.at \notin {"home", "enter", "wild"}

(* Every task that waits for its turn has a context on its own stack, and  *)
(* all of its frames lead home.                                            *)
WaitingLeadHome ==
    ~ Cut => \A t \in Tasks \ {tpidr} : state[t] = "RUNNING" =>
                context[t].sp[1] = t /\ LeadHome(t, context[t].sp[2])

(* What a switch will resume is sound.                                     *)
StacksSound == TypeOK /\ WaitingLeadHome

(* irq_handler ends as it began, with interrupts disabled, as long as no   *)
(* system call has called schedule: then the switch goes from a task with  *)
(* interrupts enabled to one in the middle of irq_handler.                 *)
HandlerUndisturbed == ~ Cut /\ "yielded" \notin events => (At("tail") => ~ irqs)

(* The frames a task has on its stack when it is switched out are the ones *)
(* it finds when it goes on.                                               *)
FramesUntouched ==
    [][~ Cut' => \A t \in Tasks \ {tpidr} : state[t] # "none" =>
            \A i \in 1 .. context[t].sp[2] : stack'[t][i] = stack[t][i]]_vars
=============================================================================
