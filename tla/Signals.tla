------------------------------ MODULE Signals ------------------------------
(***************************************************************************)
(* Signals: kernel/signal.c, called at the end of irq_handler for the task *)
(* that goes on, and the system calls around it.  A task is interrupted    *)
(* between any two of its steps, in a system call too, and signal then     *)
(* saves that point in sigframe and makes the task run its handler.        *)
(* signal itself runs with interrupts disabled, in one step.               *)
(***************************************************************************)
EXTENDS Integers

CONSTANTS
    Tasks,
    First,      \* the task that is there at the start; the others are forked
    NSIG,       \* signals are 1 to NSIG
    Kills,      \* the arguments <<task, signal>> of sigkill
    Execs,      \* the tasks whose program calls exec
    Handled     \* the signals programs have handlers for

ASSUME SignalsAssumption ==
    /\ First \in Tasks
    /\ NSIG \in Nat \ {0}
    /\ Kills \subseteq Tasks \X (1 .. NSIG)
    /\ Execs \subseteq Tasks
    /\ Handled \subseteq 1 .. NSIG

VARIABLES
    state,              \* of the task: see States
    signal_handlers,    \* the signals the task has a handler for
    signal_pending,     \* the bits set, as signal numbers
    signal_handling,
    sigframe,           \* the point saved by signal
    point,              \* where the task is: what it runs and its system call
    owed,               \* history: signals sent to the task and not delivered
    shifted,            \* history: signal has left bits behind, shifted
    torn,               \* history: a sender's store undid a change
    strayed             \* history: "forked" in a handler, or lost or handling
                        \* for good since its exec "failed"

SignalVars == <<state, signal_handlers, signal_pending, signal_handling, sigframe,
                point, owed, shifted, torn, strayed>>

Signal == 1 .. NSIG

\* A task that TASK_PENDING finds on the processor goes on until it is
\* interrupted and another one runs: schedule then passes it over for good.
States == {"none", "running", "pending", "off", "terminated"}

\* A point: the program or the handler of a signal, and the call in progress.
\* A call to sigkill has loaded signal_pending of its target; one to exec has
\* stored TASK_PENDING.
NoCall == [op |-> "none", target |-> First, signo |-> 0, loaded |-> {}]
Program == [runs |-> 0, call |-> NoCall]
Handler(s) == [runs |-> s, call |-> NoCall]
\* A trap frame no one has filled.
NoFrame == [runs |-> -1, call |-> NoCall]

InHandler(t) == point[t].runs \in Signal

SignalInit ==
    /\ state = [t \in Tasks |-> IF t = First THEN "running" ELSE "none"]
    /\ signal_handlers = [t \in Tasks |-> {}]
    /\ signal_pending = [t \in Tasks |-> {}]
    /\ signal_handling = [t \in Tasks |-> FALSE]
    /\ sigframe = [t \in Tasks |-> NoFrame]
    /\ point = [t \in Tasks |-> Program]
    /\ owed = [t \in Tasks |-> {}]
    /\ shifted = [t \in Tasks |-> FALSE]
    /\ torn = [t \in Tasks |-> FALSE]
    /\ strayed = [t \in Tasks |-> "no"]

\* t is on the processor, or can be: what is pending does not come back to it.
Runs(t) == state[t] \in {"running", "pending"}

\* While t takes a step no other task is on the processor.
Others(t) == [u \in Tasks |-> IF u # t /\ state[u] = "pending" THEN "off" ELSE state[u]]

\* A step of t, that leaves it in state st.
Leaves(t, st) == state' = [Others(t) EXCEPT ![t] = st]
StepOf(t) == Runs(t) /\ Leaves(t, state[t])

\* t is in user mode; a program that lost its way makes no more calls.
InUser(t) ==
    Runs(t) /\ point[t].call.op = "none" /\ point[t] # NoFrame

-----------------------------------------------------------------------------
(* signal                                                                  *)

\* A slip: a handler is interrupted by another one.
MayHandleNested(t) == TRUE

MayHandle(t) == ~ signal_handling[t]

\* The while loop shifts the pending bits until the lowest, s, is the first
\* one, clears it and leaves the rest shifted.
Shifted(pending, s) == {b - (s - 1) : b \in pending \ {s}}

DeliverSignal(t, s) ==
    LET rest == Shifted(signal_pending[t], s) IN
    /\ Runs(t)
    /\ MayHandle(t)
    /\ s \in signal_pending[t]
    /\ \A b \in signal_pending[t] : s <= b
    /\ signal_pending' = [signal_pending EXCEPT ![t] = rest]
    /\ signal_handling' = [signal_handling EXCEPT ![t] = TRUE]
    /\ shifted' = [shifted EXCEPT ![t] = @ \/ rest # signal_pending[t] \ {s}]
    /\ owed' = [owed EXCEPT ![t] = @ \ {s}]
    /\ IF s \in signal_handlers[t]
       THEN /\ sigframe' = [sigframe EXCEPT ![t] = point[t]]
            /\ point' = [point EXCEPT ![t] = Handler(s)]
            /\ Leaves(t, state[t])
       ELSE /\ Leaves(t, "terminated")
            /\ UNCHANGED <<sigframe, point>>
    /\ UNCHANGED <<signal_handlers, torn, strayed>>

\* A slip: signal_handling stays set.
SigreturnStillHandling(t) ==
    /\ InUser(t) /\ InHandler(t) /\ StepOf(t)
    /\ point' = [point EXCEPT ![t] = sigframe[t]]
    /\ UNCHANGED <<signal_handlers, signal_pending, signal_handling,
                   sigframe, owed, shifted, torn, strayed>>

\* The handler returns into signal_return, which calls syscall_sigreturn.  A
\* child forked in the handler comes here too.
Sigreturn(t) ==
    /\ InUser(t)
    /\ InHandler(t)
    /\ StepOf(t)
    /\ point' = [point EXCEPT ![t] = sigframe[t]]
    /\ signal_handling' = [signal_handling EXCEPT ![t] = FALSE]
    /\ UNCHANGED <<signal_handlers, signal_pending, sigframe, owed,
                   shifted, torn, strayed>>

-----------------------------------------------------------------------------
(* System calls, with interrupts enabled                                   *)

SyscallSignal(t, s) ==
    /\ InUser(t)
    /\ StepOf(t)
    /\ signal_handlers' = [signal_handlers EXCEPT ![t] = @ \cup {s}]
    /\ UNCHANGED <<signal_pending, signal_handling, sigframe, point, owed,
                   shifted, torn, strayed>>

\* target->signal_pending |= 1u << (signo - 1): the load ...
SyscallSigkill(t, u, s) ==
    /\ InUser(t)
    /\ state[u] # "none"
    /\ StepOf(t)
    /\ point' = [point EXCEPT ![t].call =
                    [op |-> "sigkill", target |-> u, signo |-> s,
                     loaded |-> signal_pending[u]]]
    /\ UNCHANGED <<signal_handlers, signal_pending, signal_handling,
                   sigframe, owed, shifted, torn, strayed>>

\* ... and the store.
StorePending(t) ==
    LET call == point[t].call
        u == call.target IN
    /\ call.op = "sigkill"
    /\ StepOf(t)
    /\ signal_pending' = [signal_pending EXCEPT ![u] = call.loaded \cup {call.signo}]
    /\ owed' = [owed EXCEPT ![u] = @ \cup {call.signo}]
    /\ torn' = [torn EXCEPT ![u] = @ \/ call.loaded # signal_pending[u]]
    /\ point' = [point EXCEPT ![t].call = NoCall]
    /\ UNCHANGED <<signal_handlers, signal_handling, sigframe, shifted, strayed>>

\* exec opens the file, allocates and reads, all with interrupts enabled.
\* There may be no such file, or no memory: trap_handler goes to context.lr
\* all the same, the entry of the program if the task has never been switched
\* from, else an address in the kernel.
ExecFails(t) ==
    /\ t \in Execs
    /\ InUser(t)
    /\ StepOf(t)
    /\ \E goes \in {Program, NoFrame} :
          /\ point' = [point EXCEPT ![t] = goes]
          /\ strayed' = [strayed EXCEPT ![t] =
                IF InHandler(t) \/ goes = NoFrame THEN "failed" ELSE @]
    /\ UNCHANGED <<signal_handlers, signal_pending, signal_handling, sigframe,
                   owed, shifted, torn>>

\* exec up to the store of TASK_PENDING: it has closed the file and reads it
\* once more ...
SyscallExec(t) ==
    /\ t \in Execs
    /\ InUser(t)
    /\ Leaves(t, "pending")
    /\ point' = [point EXCEPT ![t].call = [NoCall EXCEPT !.op = "exec"]]
    /\ UNCHANGED <<signal_handlers, signal_pending, signal_handling, sigframe,
                   owed, shifted, torn, strayed>>

\* A slip: what was pending for the old program stays.
ExecKeepsPending(t) ==
    /\ point[t].call.op = "exec" /\ StepOf(t)
    /\ signal_handlers' = [signal_handlers EXCEPT ![t] = {}]
    /\ point' = [point EXCEPT ![t] = Program]
    /\ owed' = [owed EXCEPT ![t] = {}]
    /\ UNCHANGED <<signal_pending, signal_handling, sigframe, shifted, torn, strayed>>

\* ... and goes to the new program, that has no handlers and nothing pending,
\* but is still handling a signal if the old one was.
ExecDone(t) ==
    /\ point[t].call.op = "exec"
    /\ StepOf(t)
    /\ signal_pending' = [signal_pending EXCEPT ![t] = {}]
    /\ signal_handlers' = [signal_handlers EXCEPT ![t] = {}]
    /\ point' = [point EXCEPT ![t] = Program]
    /\ owed' = [owed EXCEPT ![t] = {}]
    /\ UNCHANGED <<signal_handling, sigframe, shifted, torn, strayed>>

\* fork: the child has its parent's handlers and trap frame, no signals, and
\* a sigframe thread_create has not set.
SyscallFork(t, u) ==
    /\ InUser(t)
    /\ state[u] = "none"
    /\ state' = [Others(t) EXCEPT ![u] = "running"]
    /\ signal_handlers' = [signal_handlers EXCEPT ![u] = signal_handlers[t]]
    /\ point' = [point EXCEPT ![u] = point[t]]
    /\ strayed' = [strayed EXCEPT ![u] = IF InHandler(t) THEN "forked" ELSE @]
    /\ UNCHANGED <<signal_pending, signal_handling, sigframe, owed, shifted, torn>>

SyscallExit(t) ==
    /\ InUser(t)
    /\ Leaves(t, "terminated")
    /\ UNCHANGED <<signal_handlers, signal_pending, signal_handling, sigframe,
                   point, owed, shifted, torn, strayed>>

-----------------------------------------------------------------------------
SignalNext ==
    \E t \in Tasks :
       \/ \E s \in Signal : DeliverSignal(t, s)
       \/ Sigreturn(t)
       \/ StorePending(t)
       \/ SyscallExec(t) \/ ExecFails(t) \/ ExecDone(t)
       \/ SyscallExit(t)
       \/ \E s \in Handled : SyscallSignal(t, s)
       \/ \E k \in Kills : SyscallSigkill(t, k[1], k[2])
       \/ \E u \in Tasks : SyscallFork(t, u)

SignalSpec == SignalInit /\ [][SignalNext]_SignalVars

\* Every task that schedule may choose runs and is interrupted again and
\* again, its calls return and so does a handler.
FairSignalSpec ==
    /\ SignalSpec
    /\ \A t \in Tasks :
          /\ WF_SignalVars(state[t] = "running" /\ \E s \in Signal : DeliverSignal(t, s))
          /\ WF_SignalVars(state[t] = "running" /\ StorePending(t))
          /\ SF_SignalVars(state[t] = "running" /\ Sigreturn(t))

-----------------------------------------------------------------------------
(* Properties                                                              *)

\* Signals are numbers of signals, points are points.
SignalTypeOK ==
    /\ state \in [Tasks -> States]
    /\ signal_handlers \in [Tasks -> SUBSET Signal]
    /\ signal_pending \in [Tasks -> SUBSET Signal]
    /\ signal_handling \in [Tasks -> BOOLEAN]
    /\ \A t \in Tasks : {sigframe[t].runs, point[t].runs} \subseteq -1 .. NSIG

\* A handler that returns gives the task back to its program where it was
\* interrupted: no second signal ever overwrites sigframe.  The exceptions are
\* a child forked inside a handler, which has nowhere to return to, and a task
\* that a failed exec sends to context.lr.
ReturnsToProgram ==
    \A t \in Tasks : strayed[t] = "no" =>
        /\ InHandler(t) => sigframe[t].runs = 0
        /\ point[t] # NoFrame

\* What is pending is what was sent and not delivered, no more and no less,
\* but where signal has shifted what was pending, or a sender's store met
\* another change.
OnlyShiftOrTearMixesSignals ==
    \A t \in Tasks : ~ shifted[t] /\ ~ torn[t] => signal_pending[t] = owed[t]

\* Signals keep being delivered as long as any are pending for a task that
\* schedule may choose.  exec is the exception: a task whose exec succeeds is
\* left TASK_PENDING, and one whose exec fails in a handler handles for good.
SignalsGetThrough ==
    \A t \in Tasks :
        \/ []<>(signal_pending[t] = {} \/ state[t] # "running" \/ strayed[t] # "no")
        \/ []<><<\E s \in Signal : DeliverSignal(t, s)>>_SignalVars
=============================================================================
