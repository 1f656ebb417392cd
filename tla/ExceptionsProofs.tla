-------------------------- MODULE ExceptionsProofs --------------------------
(***************************************************************************)
(* The way in and out for any number of tasks and of nested exceptions.    *)
(*                                                                         *)
(* ComesHome is not inductive: what brings a program home are the frames   *)
(* below the point where its task is, and the registers alive there.       *)
(* GoesOn says for one point what has to lie below it for the task to go   *)
(* on, FramesSound that each frame of a stack was pushed at such a point,  *)
(* and Waiting that a task that is switched out has such a stack.  A task  *)
(* that has ended may be on the stack of the next one, at the end of its   *)
(* last switch: its frames are then those above Base.                      *)
(***************************************************************************)
EXTENDS Exceptions, TLAPS

\* How many frames on the stack of s are not of u.
Base(u, s) == IF s = u THEN 0 ELSE context[s].sp[2]

Chosen(n) == n \in Tasks /\ state[n] # "none"
Resumed(n) == n \in Tasks /\ state[n] = "RUNNING"

\* With d frames on the stack of s, u goes on from p as it should.
GoesOn(p, u, s, d) ==
    \/ s = u /\ d = 0 /\ p = Home(u)
    \/ s = u /\ d = 0 /\ p = Point("enter") /\ u # Shell
    \/ /\ d > Base(u, s)
       /\ \/ p \in {Point("schedule"), Point("tail"), Point("load")}
          \/ /\ p = Point("trap") /\ s = u /\ d = 1 /\ u # Shell
             /\ stack[u][1].call = "trap" /\ stack[u][1].elr = Home(u)
          \/ p = [at |-> "spsr", x10 |-> stack[s][d].spsr, x11 |-> stack[s][d].elr]
          \/ \E n \in Tasks : Chosen(n) /\ p = [at |-> "save", prev |-> u, next |-> n]

\* The same in switch_to once the context of u is saved.
Switches(p, u, s, d) ==
    \E n \in Tasks :
        \/ d > Base(u, s) /\ Chosen(n) /\ p = [at |-> "restore", prev |-> u, next |-> n]
        \/ /\ d > Base(u, s) /\ Resumed(n)
           /\ p = [at |-> "sp", prev |-> u, next |-> n, context |-> context[n]]
        \/ /\ s = n /\ d = context[n].sp[2] /\ Resumed(n)
           /\ p = [at |-> "tpidr", prev |-> u, next |-> n, context |-> context[n]]

\* A task that is to run again is not interrupted there.
ComesBack(p, u, s, d) ==
    GoesOn(p, u, s, d) \/ (state[u] = "TERMINATED" /\ Switches(p, u, s, d))

InSchedule == {"schedule", "tail", "save", "restore", "sp", "tpidr"}
LevelAt(p, u) == IF p.at = "home" THEN Level(u) ELSE 1
SpsrAt(p, u) == [el |-> LevelAt(p, u), irqs |-> TRUE]
Undisturbed(p) == "yielded" \notin events => p.at \notin InSchedule

FrameSound(f, u, s, d) ==
    /\ ComesBack(f.elr, u, s, d) /\ Undisturbed(f.elr)
    /\ f.spsr = SpsrAt(f.elr, u)
    /\ f.call \in {"irq", "trap"}

FramesSound(u, s, d) ==
    \A i \in 1 .. d : i > Base(u, s) => FrameSound(stack[s][i], u, s, i - 1)

Waiting(t) ==
    /\ context[t].sp[1] = t
    /\ FramesSound(t, t, context[t].sp[2])
    /\ \/ context[t].lr \in {"schedule", "load"} /\ context[t].sp[2] > 0
       \/ context[t].lr = "enter" /\ context[t].sp[2] = 0 /\ t # Shell

OthersWait == \A t \in Tasks \ {tpidr} : state[t] = "RUNNING" => Waiting(t)

\* A task leaves its own stack only at the end of its last switch.
OnOwnStack ==
    sp[1] # tpidr => /\ state[sp[1]] = "RUNNING"
                     /\ state[tpidr] = "TERMINATED" \/ At("tpidr")

\* The way out, from msr spsr_el1 on.
Leaves(u, s, d) ==
    \/ /\ d > Base(u, s)
       /\ spsr = stack[s][d].spsr
       /\ \/ pc = [at |-> "elr", x11 |-> stack[s][d].elr]
          \/ pc = Point("rest") /\ elr = stack[s][d].elr
    \/ /\ pc = Point("eret")
       /\ ComesBack(elr, u, s, d) /\ Undisturbed(elr) /\ spsr = SpsrAt(elr, u)
    \/ pc = Point("enter_spsr") /\ elr = Home(u) /\ s = u /\ d = 0 /\ u # Shell

PointSound(u, s, d) ==
    /\ \/ GoesOn(pc, u, s, d)
       \/ Switches(pc, u, s, d) /\ (state[u] = "RUNNING" => Waiting(u))
       \/ Leaves(u, s, d)
    /\ el = LevelAt(pc, u) /\ (At("home") => irqs)
    /\ irqs => Undisturbed(pc)

CurrentSound ==
    /\ state[Shell] = "RUNNING" /\ state[tpidr] # "none"
    /\ FramesSound(tpidr, sp[1], sp[2])
    /\ PointSound(tpidr, sp[1], sp[2])

Sound == OthersWait /\ OnOwnStack /\ CurrentSound
LeadsHome == ~ Cut => Sound

-----------------------------------------------------------------------------
(* Types.  A point may hold another one, in x11, which a frame may hold,   *)
(* to any depth: S is a set of points that is closed under x11.            *)

Simple == {"schedule", "tail", "trap", "load", "rest", "eret", "enter", "enter_spsr", "wild"}
Spsrs == [el : {0, 1}, irqs : BOOLEAN]
Places == Tasks \X (0 .. MaxFrames)
Entries == {"schedule", "load", "enter"}

Choices(at) == [at : at, prev : Tasks, next : Tasks]
Resumptions == [at : {"sp", "tpidr"}, prev : Tasks, next : Tasks, context : [lr : Entries, sp : Places]]

PointsOver(S) ==
    [at : Simple] \cup [at : {"home"}, of : Tasks]
        \cup Choices({"save", "restore"}) \cup Resumptions
        \cup [at : {"spsr"}, x10 : Spsrs, x11 : S] \cup [at : {"elr"}, x11 : S]

\* Only the shell's context may be unset while the shell lives: it has not
\* been switched out yet.
ContextSet(S) ==
    /\ \A t \in Tasks \ {Shell} : state[t] # "none" => context[t].lr # "none"
    /\ context[Shell].lr = "none" =>
          /\ tpidr = Shell
          /\ \A p \in S : p.at \notin {"restore", "sp", "tpidr"}
          /\ \A p \in S : p.at = "save" => p.prev = Shell
    /\ \A p \in S : p.at \in {"save", "restore", "sp", "tpidr"} => state[p.next] # "none"
    /\ state[tpidr] # "none" /\ state[Shell] # "none"

Registers(S) ==
    /\ pc \in S /\ elr \in S
    /\ el \in {0, 1} /\ irqs \in BOOLEAN /\ spsr \in Spsrs
    /\ sp \in Places /\ tpidr \in Tasks

Memory(S) ==
    /\ stack \in [Tasks -> [1 .. MaxFrames -> [elr : S, spsr : Spsrs, call : {"none", "irq", "trap"}]]]
    /\ context \in [Tasks -> [lr : Entries \cup {"none"}, sp : Places]]
    /\ state \in [Tasks -> {"none", "RUNNING", "TERMINATED"}]
    /\ events \subseteq Events

Closed(S) ==
    /\ S \subseteq PointsOver(S)
    /\ [at : Simple] \subseteq S /\ [at : {"home"}, of : Tasks] \subseteq S

Typed == \E S : Closed(S) /\ Registers(S) /\ Memory(S) /\ ContextSet(S)

LEMMA Extended ==
    ASSUME NEW S, Closed(S), NEW p \in PointsOver(S)
    PROVE  Closed(S \cup {p})
BY DEF Closed, PointsOver

LEMMA SimplePoints ==
    ASSUME NEW S, Closed(S)
    PROVE  /\ \A a \in Simple : Point(a) \in S
           /\ \A t \in Tasks : Home(t) \in S
           /\ Wild \in S
BY DEF Closed, Point, Home, Wild, Simple

LEMMA PointKinds ==
    ASSUME NEW S, Closed(S), NEW p \in S
    PROVE  /\ p.at \in Points
           /\ p.at \in {"save", "restore"} => p \in Choices({"save", "restore"})
           /\ p.at \in {"sp", "tpidr"} => p \in Resumptions
           /\ p.at = "spsr" => p \in [at : {"spsr"}, x10 : Spsrs, x11 : S]
           /\ p.at = "elr" => p \in [at : {"elr"}, x11 : S]
<1>1. p \in PointsOver(S)
  BY DEF Closed
<1>2. CASE p \in [at : Simple]
  BY <1>2 DEF Simple, Points
<1>3. CASE p \in [at : {"home"}, of : Tasks]
  BY <1>3 DEF Points
<1>4. CASE p \in Choices({"save", "restore"})
  BY <1>4 DEF Choices, Points
<1>5. CASE p \in Resumptions
  BY <1>5 DEF Resumptions, Points
<1>6. CASE p \in [at : {"spsr"}, x10 : Spsrs, x11 : S]
  BY <1>6 DEF Points
<1>7. CASE p \in [at : {"elr"}, x11 : S]
  BY <1>7 DEF Points
<1>. QED
  BY <1>1, <1>2, <1>3, <1>4, <1>5, <1>6, <1>7 DEF PointsOver

LEMMA InitTyped == Init => Typed
<1>. SUFFICES ASSUME Init PROVE Typed
  OBVIOUS
<1>. DEFINE S == [at : Simple] \cup [at : {"home"}, of : Tasks]
<1>1. Closed(S)
  BY DEF Closed, PointsOver
<1>. HIDE DEF S
<1>2. Home(Shell) \in S /\ Wild \in S
  BY <1>1, SimplePoints, ExceptionsAssumption
<1>3. Registers(S)
  BY <1>2, ExceptionsAssumption DEF Init, Registers, Spsrs, Places
<1>4. Memory(S)
  BY <1>2, ExceptionsAssumption DEF Init, Memory, Spsrs, Places, Entries, NoFrame
<1>5. ContextSet(S)
  BY ExceptionsAssumption DEF Init, ContextSet, S, Simple
<1>. QED
  BY <1>1, <1>3, <1>4, <1>5 DEF Typed

-----------------------------------------------------------------------------
LEMMA EnterTyped ==
    ASSUME NEW S, Closed(S), Registers(S), Memory(S),
           NEW call \in {"irq", "trap"}, Enter(call)
    PROVE  /\ elr' \in S /\ spsr' \in Spsrs /\ el' \in {0, 1}
           /\ sp' \in Places /\ tpidr' \in Tasks
           /\ stack' \in [Tasks -> [1 .. MaxFrames -> [elr : S, spsr : Spsrs, call : {"none", "irq", "trap"}]]]
<1>1. sp[1] \in Tasks /\ sp[2] \in Nat /\ sp[2] + 1 \in 1 .. MaxFrames
  BY ExceptionsAssumption DEF Enter, Registers, Places
<1>2. [elr |-> pc, spsr |-> spsr', call |-> call] \in [elr : S, spsr : Spsrs, call : {"none", "irq", "trap"}]
  BY DEF Enter, Registers, Spsrs
<1>. QED
  BY <1>1, <1>2 DEF Enter, Registers, Memory, Spsrs, Places

\* A step that makes no point of its own.
LEMMA SamePoints ==
    ASSUME NEW S, Closed(S), ContextSet(S), Registers(S)', Memory(S)',
           UNCHANGED <<tpidr, context>>,
           \A t \in Tasks : state[t] = "none" <=> state'[t] = "none",
           Memory(S)
    PROVE  Typed'
<1>1. ContextSet(S)'
  <2>1. ASSUME NEW p \in S, p.at \in {"save", "restore", "sp", "tpidr"}
        PROVE  state'[p.next] # "none"
    <3>1. p.next \in Tasks
      BY <2>1, PointKinds DEF Choices, Resumptions
    <3>. QED
      BY <2>1, <3>1 DEF ContextSet
  <2>. QED
    BY <2>1, ExceptionsAssumption DEF ContextSet, Registers
<1>. QED
  BY <1>1 DEF Typed

LEMMA IrqTyped == ASSUME Typed, Irq PROVE Typed'
<1>1. PICK S : Closed(S) /\ Registers(S) /\ Memory(S) /\ ContextSet(S)
  BY DEF Typed
<1>2. Registers(S)' /\ Memory(S)'
  BY <1>1, EnterTyped, SimplePoints DEF Irq, Goto, Happens, Registers, Memory, Simple, Interrupted, Events
<1>. QED
  BY <1>1, <1>2, SamePoints DEF Irq, Enter

LEMMA SvcTyped == ASSUME Typed, NEW t \in Tasks, Svc(t) PROVE Typed'
<1>1. PICK S : Closed(S) /\ Registers(S) /\ Memory(S) /\ ContextSet(S)
  BY DEF Typed
<1>2. Registers(S)' /\ Memory(S)'
  BY <1>1, EnterTyped, SimplePoints DEF Svc, Goto, Registers, Memory, Simple
<1>. QED
  BY <1>1, <1>2, SamePoints DEF Svc, Enter

LEMMA CallsTyped ==
    ASSUME Typed, NEW t \in Tasks, Fault(t) \/ Stop(t) \/ Fork(t) \/ ForkDemo(t)
    PROVE  Typed'
<1>1. PICK S : Closed(S) /\ Registers(S) /\ Memory(S) /\ ContextSet(S)
  BY DEF Typed
<1>. USE DEF Goto, Happens, Registers, Memory
<1>2. CASE Fault(t)
  <2>1. Registers(S)' /\ Memory(S)'
    BY <1>1, <1>2, EnterTyped, SimplePoints DEF Fault, FaultMask, Simple
  <2>. QED
    BY <1>1, <1>2, <2>1, SamePoints DEF Fault, Enter, ContextSet
<1>3. CASE Stop(t)
  <2>1. Registers(S)' /\ Memory(S)'
    BY <1>1, <1>3, SimplePoints DEF Stop, Simple, regs, Events
  <2>. QED
    BY <1>1, <1>3, <2>1, SamePoints DEF Stop, regs, ContextSet
<1>4. CASE Fork(t)
  <2>1. /\ sp[1] \in Tasks /\ sp[2] \in 1 .. MaxFrames
        /\ ChildSp(t) \in Places
    BY <1>1, <1>4, ExceptionsAssumption DEF Fork, ChildSp, Places
  <2>2. [stack[sp[1]][sp[2]] EXCEPT !.elr = Home(t)] \in [elr : S, spsr : Spsrs, call : {"none", "irq", "trap"}]
    <3>1. stack[sp[1]][sp[2]] \in [elr : S, spsr : Spsrs, call : {"none", "irq", "trap"}]
      BY ZenonT(30), <1>1, <2>1
    <3>2. Home(t) \in S
      BY <1>1, SimplePoints
    <3>. QED
      BY <3>1, <3>2
  <2>3. Registers(S)' /\ Memory(S)'
    BY <1>1, <1>4, <2>1, <2>2, SimplePoints DEF Fork, Simple, regs, Entries
  <2>4. ContextSet(S)'
    <3>1. t # Shell /\ t # tpidr
      BY <1>1, <1>4 DEF Fork, ContextSet
    <3>. QED
      BY <1>1, <1>4, <3>1 DEF Fork, ContextSet, regs
  <2>. QED
    BY <1>1, <2>3, <2>4 DEF Typed
<1>5. CASE ForkDemo(t)
  <2>1. <<t, 0>> \in Places
    BY ExceptionsAssumption DEF Places
  <2>2. Registers(S)' /\ Memory(S)'
    BY <1>1, <1>5, <2>1 DEF ForkDemo, core, regs, Entries
  <2>3. ContextSet(S)'
    <3>1. t # Shell /\ t # tpidr
      BY <1>1, <1>5 DEF ForkDemo, ContextSet
    <3>. QED
      BY <1>1, <1>5, <3>1 DEF ForkDemo, ContextSet, core, regs
  <2>. QED
    BY <1>1, <2>2, <2>3 DEF Typed
<1>. QED
  BY <1>2, <1>3, <1>4, <1>5

LEMMA NewPoint ==
    ASSUME NEW S, Closed(S), NEW q \in PointsOver(S),
           Registers(S \cup {q})', Memory(S)', ContextSet(S \cup {q})'
    PROVE  Typed'
<1>. DEFINE T == S \cup {q}
<1>1. Closed(T)
  BY Extended
<1>2. Memory(T)'
  BY DEF Memory
<1>. QED
  BY <1>1, <1>2 DEF Typed

LEMMA SwitchTyped ==
    ASSUME Typed, SwitchTo \/ \E t \in Tasks : Schedule(t)
    PROVE  Typed'
<1>1. PICK S : Closed(S) /\ Registers(S) /\ Memory(S) /\ ContextSet(S)
  BY DEF Typed
<1>2. PICK q : q = pc'
  OBVIOUS
<1>. DEFINE T == S \cup {q}
<1>. USE DEF Registers, Memory, regs
<1>3. ASSUME NEW t \in Tasks, Schedule(t) PROVE Typed'
  <2>1. q \in PointsOver(S)
    BY <1>1, <1>2, <1>3 DEF Schedule, PointsOver, Choices
  <2>2. Registers(T)' /\ Memory(S)'
    BY <1>1, <1>2, <1>3 DEF Schedule
  <2>3. ContextSet(T)'
    BY <1>1, <1>2, <1>3 DEF Schedule, ContextSet
  <2>. QED
    BY <1>1, NewPoint, <2>1, <2>2, <2>3
<1>4. ASSUME Save PROVE Typed'
  <2>1. pc \in Choices({"save"})
    BY <1>1, <1>2, <1>4, PointKinds DEF Save, At, Choices
  <2>2. /\ q \in PointsOver(S) /\ q.at = "restore"
        /\ q.prev = pc.prev /\ q.next = pc.next
    BY <1>2, <1>4, <2>1 DEF Save, PointsOver, Choices
  <2>3. Registers(T)' /\ Memory(S)'
    BY <1>1, <1>2, <1>4 DEF Save, Saved, Entries
  <2>4. context'[Shell].lr # "none"
    BY <1>1, <1>2, <1>4, <2>1, ExceptionsAssumption DEF Save, ContextSet, Choices, At
  <2>5. state[q.next] # "none" /\ q.next = pc.next
    BY <1>1, <1>4, <2>2 DEF Save, ContextSet, At
  <2>6. \A t \in Tasks \ {Shell} : state'[t] # "none" => context'[t].lr # "none"
    BY <1>1, <1>4 DEF Save, ContextSet
  <2>7. ContextSet(T)'
    BY <1>1, <1>4, <2>4, <2>5, <2>6 DEF Save, ContextSet
  <2>. QED
    BY <1>1, NewPoint, <2>2, <2>3, <2>7
<1>5. ASSUME Restore PROVE Typed'
  <2>1. pc \in Choices({"restore"})
    BY <1>1, <1>2, <1>5, PointKinds DEF Restore, At, Choices
  <2>2. context[Shell].lr # "none" /\ state[pc.next] # "none"
    BY <1>1, <1>2, <1>5 DEF Restore, At, ContextSet
  <2>3. context[pc.next] \in [lr : Entries, sp : Places]
    BY <1>1, <2>1, <2>2 DEF Choices, ContextSet
  <2>4. q \in PointsOver(S)
    BY <1>2, <1>5, <2>1, <2>3 DEF Restore, PointsOver, Resumptions, Choices
  <2>5. Registers(T)' /\ Memory(S)'
    BY <1>1, <1>2, <1>5 DEF Restore, Happens, Events
  <2>6. ContextSet(T)'
    BY <1>1, <1>2, <1>5, <2>1, <2>2 DEF Restore, ContextSet
  <2>. QED
    BY <1>1, NewPoint, <2>4, <2>5, <2>6
<1>6. ASSUME MovSp PROVE Typed'
  <2>1. pc \in Resumptions
    BY <1>1, <1>2, <1>6, PointKinds DEF MovSp, At
  <2>2. q \in PointsOver(S) /\ q.next = pc.next /\ q.at = "tpidr"
    BY <1>2, <1>6, <2>1 DEF MovSp, PointsOver, Resumptions
  <2>3. Registers(T)' /\ Memory(S)'
    BY <1>1, <1>2, <1>6, <2>1 DEF MovSp, Resumptions
  <2>4. context[Shell].lr # "none" /\ state[q.next] # "none"
    BY <1>1, <1>6, <2>2 DEF MovSp, ContextSet, At
  <2>5. ContextSet(T)'
    BY <1>1, <1>6, <2>4 DEF MovSp, ContextSet
  <2>. QED
    BY <1>1, NewPoint, <2>2, <2>3, <2>5
<1>7. ASSUME MsrTpidr PROVE Typed'
  <2>1. pc \in Resumptions
    BY <1>1, <1>7, PointKinds DEF MsrTpidr, At
  <2>2. pc.next \in Tasks /\ pc.context.lr \in Entries
    BY <2>1 DEF Resumptions
  <2>3. pc' \in S
    <3>1. Returned(sp) \in S
      BY <1>1, SimplePoints DEF Returned, Simple
    <3>. QED
      BY <1>1, <1>7, <2>2, <3>1, SimplePoints DEF MsrTpidr, Simple, Entries
  <2>4. Registers(S)' /\ Memory(S)'
    BY <1>1, <1>7, <2>2, <2>3 DEF MsrTpidr
  <2>5. ContextSet(S)'
    BY <1>1, <1>7 DEF MsrTpidr, ContextSet, At
  <2>. QED
    BY <1>1, <2>4, <2>5 DEF Typed
<1>. QED
  BY <1>3, <1>4, <1>5, <1>6, <1>7 DEF SwitchTo

LEMMA LeaveTyped ==
    ASSUME Typed, TrapReturn \/ Tail \/ LoadAll \/ EnterElr \/ EnterSpsr
    PROVE  Typed'
<1>1. PICK S : Closed(S) /\ Registers(S) /\ Memory(S) /\ ContextSet(S)
  BY DEF Typed
<1>2. PICK q : q = pc'
  OBVIOUS
<1>. DEFINE T == S \cup {q}
<1>. USE DEF Registers, Memory, regs, Goto
<1>3. CASE TrapReturn \/ Tail
  <2>1. Registers(S)' /\ Memory(S)'
    BY <1>1, <1>3, SimplePoints DEF TrapReturn, Tail, Simple
  <2>. QED
    BY <1>1, <1>3, <2>1, SamePoints DEF TrapReturn, Tail
<1>4. CASE Load
  <2>1. Frame.spsr \in Spsrs /\ Frame.elr \in S
    <3>1. NoFrame.spsr \in Spsrs /\ NoFrame.elr \in S
      BY <1>1, SimplePoints DEF NoFrame, Spsrs
    <3>2. sp[1] \in Tasks
      BY <1>1 DEF Places
    <3>. QED
      BY <1>1, <3>1, <3>2, ExceptionsAssumption DEF Frame, Places
  <2>2. q \in PointsOver(S) /\ q.at = "spsr"
    BY <1>2, <1>4, <2>1 DEF Load, PointsOver
  <2>3. Registers(T)' /\ Memory(S)'
    BY <1>1, <1>2, <1>4 DEF Load
  <2>4. ContextSet(T)'
    BY <1>1, <1>4, <2>2 DEF Load, ContextSet
  <2>. QED
    BY <1>1, NewPoint, <2>2, <2>3, <2>4
<1>5. CASE MsrSpsr
  <2>1. pc.x10 \in Spsrs /\ pc.x11 \in S
    BY <1>1, <1>5, PointKinds DEF MsrSpsr, At
  <2>2. q \in PointsOver(S) /\ q.at = "elr"
    BY <1>2, <1>5, <2>1 DEF MsrSpsr, PointsOver
  <2>3. Registers(T)' /\ Memory(S)'
    BY <1>1, <1>2, <1>5, <2>1 DEF MsrSpsr
  <2>4. ContextSet(T)'
    BY <1>1, <1>5, <2>2 DEF MsrSpsr, ContextSet
  <2>. QED
    BY <1>1, NewPoint, <2>2, <2>3, <2>4
<1>6. CASE MsrElr
  <2>1. pc.x11 \in S
    BY <1>1, <1>6, PointKinds DEF MsrElr, At
  <2>2. Registers(S)' /\ Memory(S)'
    BY <1>1, <1>6, <2>1, SimplePoints DEF MsrElr, Simple
  <2>. QED
    BY <1>1, <1>6, <2>2, SamePoints DEF MsrElr
<1>7. CASE Rest
  <2>1. NoFrame \in [elr : S, spsr : Spsrs, call : {"none", "irq", "trap"}]
    BY <1>1, SimplePoints DEF NoFrame, Spsrs
  <2>2. sp[1] \in Tasks /\ sp[2] \in Nat
    BY <1>1, ExceptionsAssumption DEF Places
  <2>3. sp' \in Places /\ pc' \in S
    <3>1. CASE sp[2] \in 1 .. MaxFrames
      <4>1. sp[2] - 1 \in 0 .. MaxFrames
        BY <2>2, <3>1, ExceptionsAssumption
      <4>2. sp' = <<sp[1], sp[2] - 1>> /\ pc' = Point("eret")
        BY <1>7, <3>1 DEF Rest, Popped
      <4>. QED
        BY <1>1, <2>2, <4>1, <4>2, SimplePoints DEF Places, Simple
    <3>2. CASE sp[2] \notin 1 .. MaxFrames
      BY <1>1, <1>7, <3>2, SimplePoints DEF Rest
    <3>. QED
      BY <3>1, <3>2
  <2>4. Registers(S)'
    BY <1>1, <1>7, <2>3 DEF Rest
  <2>5. Memory(S)'
    <3>1. CASE sp[2] \in 1 .. MaxFrames
      <4>1. /\ stack' = [stack EXCEPT ![sp[1]][sp[2]] = NoFrame]
            /\ UNCHANGED <<context, state, events>>
        BY <1>7, <3>1 DEF Rest
      <4>. QED
        BY <1>1, <2>1, <2>2, <3>1, <4>1
    <3>2. CASE sp[2] \notin 1 .. MaxFrames
      BY <1>1, <1>7, <3>2 DEF Rest
    <3>. QED
      BY <3>1, <3>2
  <2>. QED
    BY <1>1, <1>7, <2>4, <2>5, SamePoints DEF Rest
<1>8. CASE Eret
  <2>1. Registers(S)' /\ Memory(S)'
    BY <1>1, <1>8 DEF Eret, Spsrs
  <2>. QED
    BY <1>1, <1>8, <2>1, SamePoints DEF Eret
<1>9. CASE EnterElr
  <2>1. Registers(S)' /\ Memory(S)'
    BY <1>1, <1>9, SimplePoints DEF EnterElr, Simple
  <2>. QED
    BY <1>1, <1>9, <2>1, SamePoints DEF EnterElr
<1>10. CASE EnterSpsr
  <2>1. Registers(S)' /\ Memory(S)'
    BY <1>1, <1>10, SimplePoints DEF EnterSpsr, Simple, Spsrs
  <2>. QED
    BY <1>1, <1>10, <2>1, SamePoints DEF EnterSpsr
<1>. QED
  BY <1>3, <1>4, <1>5, <1>6, <1>7, <1>8, <1>9, <1>10 DEF LoadAll

LEMMA NextTyped == ASSUME Typed, Next PROVE Typed'
<1>1. ASSUME NEW t \in Tasks, Svc(t) \/ Fault(t) \/ Stop(t) \/ Fork(t) \/ ForkDemo(t) \/ Schedule(t)
      PROVE  Typed'
  BY <1>1, SvcTyped, CallsTyped, SwitchTyped
<1>2. CASE Irq
  BY <1>2, IrqTyped
<1>3. CASE SwitchTo
  BY <1>3, SwitchTyped
<1>4. CASE TrapReturn \/ Tail \/ LoadAll \/ EnterElr \/ EnterSpsr
  BY <1>4, LeaveTyped
<1>. QED
  BY <1>1, <1>2, <1>3, <1>4 DEF Next

LEMMA Stutters == ASSUME Typed, UNCHANGED vars PROVE Typed'
BY DEF vars, core, regs, Typed, Registers, Memory, ContextSet

-----------------------------------------------------------------------------
(* What GoesOn and FramesSound depend on.                                  *)

Keeps(u, s, d) ==
    /\ \A i \in 1 .. d : stack'[s][i] = stack[s][i]
    /\ s # u => context'[s] = context[s]
    /\ \A n \in Tasks : state[n] # "none" => state'[n] # "none"
    /\ state[u] = "TERMINATED" =>
          /\ state'[u] = "TERMINATED"
          /\ \A n \in Tasks : state[n] = "RUNNING" =>
                state'[n] = "RUNNING" /\ context'[n] = context[n]
    /\ events \subseteq events'

Sizes ==
    /\ sp \in Places /\ tpidr \in Tasks
    /\ sp[1] \in Tasks /\ sp[2] \in Nat /\ sp[2] <= MaxFrames
    /\ \A t \in Tasks : /\ context[t].sp[1] \in Tasks
                        /\ context[t].sp[2] \in Nat /\ context[t].sp[2] <= MaxFrames
    /\ \A u \in Tasks, s \in Tasks : Base(u, s) \in Nat
    /\ state \in [Tasks -> {"none", "RUNNING", "TERMINATED"}]
    /\ context \in [Tasks -> [lr : Entries \cup {"none"}, sp : Places]]

LEMMA TypedSizes == ASSUME Typed PROVE Sizes
<1>1. PICK S : Registers(S) /\ Memory(S)
  BY DEF Typed
<1>2. \A x \in Places : x[1] \in Tasks /\ x[2] \in Nat /\ x[2] <= MaxFrames
  BY ExceptionsAssumption DEF Places
<1>3. \A t \in Tasks : context[t].sp \in Places
  BY <1>1 DEF Memory
<1>. QED
  BY <1>1, <1>2, <1>3 DEF Sizes, Registers, Memory, Base

LEMMA GoesOnKept ==
    ASSUME NEW u \in Tasks, NEW s \in Tasks, NEW d \in Nat, NEW p, Sizes,
           GoesOn(p, u, s, d), Keeps(u, s, d)
    PROVE  GoesOn(p, u, s, d)'
<1>1. Base(u, s)' = Base(u, s) /\ Base(u, s) \in Nat
  BY DEF Keeps, Base, Sizes
<1>2. d > 0 => stack'[s][d] = stack[s][d]
  BY DEF Keeps
<1>3. d = 1 /\ s = u => stack'[u][1] = stack[u][1]
  BY DEF Keeps
<1>4. \A n \in Tasks : Chosen(n) => Chosen(n)'
  BY DEF Keeps, Chosen
<1>. QED
  BY <1>1, <1>2, <1>3, <1>4 DEF GoesOn

LEMMA SwitchesKept ==
    ASSUME NEW u \in Tasks, NEW s \in Tasks, NEW d \in Nat, NEW p,
           Switches(p, u, s, d), Base(u, s)' = Base(u, s),
           \A n \in Tasks : state[n] # "none" => state'[n] # "none",
           \A n \in Tasks : state[n] = "RUNNING" =>
                state'[n] = "RUNNING" /\ context'[n] = context[n]
    PROVE  Switches(p, u, s, d)'
BY DEF Switches, Chosen, Resumed

LEMMA ComesBackKept ==
    ASSUME NEW u \in Tasks, NEW s \in Tasks, NEW d \in Nat, NEW p, Sizes,
           ComesBack(p, u, s, d), Keeps(u, s, d)
    PROVE  ComesBack(p, u, s, d)'
<1>1. CASE GoesOn(p, u, s, d)
  BY <1>1, GoesOnKept DEF ComesBack
<1>2. CASE state[u] = "TERMINATED" /\ Switches(p, u, s, d)
  <2>1. Base(u, s)' = Base(u, s)
    BY DEF Keeps, Base
  <2>. QED
    BY <1>2, <2>1, SwitchesKept DEF ComesBack, Keeps
<1>. QED
  BY <1>1, <1>2 DEF ComesBack

LEMMA FramesKept ==
    ASSUME NEW u \in Tasks, NEW s \in Tasks, NEW d \in Nat, NEW e \in Nat, Sizes,
           FramesSound(u, s, d), e <= d, Keeps(u, s, e)
    PROVE  FramesSound(u, s, e)'
<1>1. Base(u, s)' = Base(u, s)
  BY DEF Keeps, Base
<1>. SUFFICES ASSUME NEW i \in 1 .. e, i > Base(u, s)
              PROVE  FrameSound(stack[s][i], u, s, i - 1)'
  BY <1>1 DEF FramesSound
<1>2. FrameSound(stack[s][i], u, s, i - 1)
  BY DEF FramesSound
<1>3. i - 1 \in Nat /\ stack'[s][i] = stack[s][i] /\ Keeps(u, s, i - 1)
  BY DEF Keeps
<1>4. PICK p : p = stack[s][i].elr
  OBVIOUS
<1>5. ComesBack(p, u, s, i - 1)'
  BY <1>2, <1>3, <1>4, ComesBackKept DEF FrameSound
<1>. QED
  BY <1>2, <1>3, <1>4, <1>5 DEF FrameSound, Undisturbed, Keeps

LEMMA WaitingKept ==
    ASSUME NEW t \in Tasks, Sizes, Waiting(t),
           Keeps(t, t, context[t].sp[2]), context'[t] = context[t]
    PROVE  Waiting(t)'
<1>1. PICK d \in Nat : d = context[t].sp[2]
  BY DEF Sizes
<1>2. FramesSound(t, t, d)'
  BY <1>1, FramesKept DEF Waiting
<1>. QED
  BY <1>1, <1>2 DEF Waiting

-----------------------------------------------------------------------------
(* What PointSound says of each point.                                     *)

Chooses(u) == \E n \in Tasks : Chosen(n) /\ pc = [at |-> pc.at, prev |-> u, next |-> n]
Resumes(u) ==
    \E n \in Tasks : /\ Resumed(n)
                     /\ pc = [at |-> pc.at, prev |-> u, next |-> n, context |-> context[n]]

LEMMA PointsOfCode ==
    ASSUME NEW u \in Tasks, NEW s \in Tasks, NEW d \in Nat, PointSound(u, s, d), Sizes
    PROVE  /\ pc.at \in Points \ {"wild"}
           /\ At("home") => pc = Home(u) /\ s = u /\ d = 0 /\ el = Level(u) /\ irqs
           /\ ~ At("home") => el = 1
           /\ d >= Base(u, s)
           /\ pc.at \in {"schedule", "tail", "load", "trap", "spsr", "elr", "rest", "save", "restore", "sp"}
                 => d > Base(u, s)
           /\ At("trap") => /\ s = u /\ u # Shell /\ d = 1
                           /\ stack[u][1].call = "trap" /\ stack[u][1].elr = Home(u)
           /\ At("spsr") => pc.x10 = stack[s][d].spsr /\ pc.x11 = stack[s][d].elr
           /\ At("elr") => pc.x11 = stack[s][d].elr /\ spsr = stack[s][d].spsr
           /\ At("rest") => elr = stack[s][d].elr /\ spsr = stack[s][d].spsr
           /\ At("eret") => ComesBack(elr, u, s, d) /\ Undisturbed(elr) /\ spsr = SpsrAt(elr, u)
           /\ pc.at \in {"enter", "enter_spsr"} => s = u /\ u # Shell /\ d = 0
           /\ At("enter_spsr") => elr = Home(u)
           /\ pc.at \in {"save", "restore"} => Chooses(u)
           /\ pc.at \in {"sp", "tpidr"} => Resumes(u)
           /\ At("tpidr") => pc.next = s /\ d = context[s].sp[2]
           /\ pc.at \in {"restore", "sp", "tpidr"} =>
                 Switches(pc, u, s, d) /\ (state[u] = "RUNNING" => Waiting(u))
           /\ ~ Returning => GoesOn(pc, u, s, d) \/ Switches(pc, u, s, d)
<1>. USE DEF At, Points
<1>1. Base(u, s) \in Nat
  BY DEF Sizes
<1>2. CASE GoesOn(pc, u, s, d)
  <2>1. CASE s = u /\ d = 0 /\ pc = Home(u)
    BY <1>1, <1>2, <2>1 DEF PointSound, Home, LevelAt, Base
  <2>2. CASE s = u /\ d = 0 /\ pc = Point("enter") /\ u # Shell
    BY <1>1, <1>2, <2>2 DEF PointSound, Point, LevelAt, Base
  <2>3. CASE d > Base(u, s) /\ pc \in {Point("schedule"), Point("tail"), Point("load")}
    <3>1. pc.at \in {"schedule", "tail", "load"}
      BY <2>3 DEF Point
    <3>. QED
      BY <1>1, <1>2, <2>3, <3>1 DEF PointSound, LevelAt
  <2>4. CASE /\ d > Base(u, s) /\ pc = Point("trap") /\ s = u /\ d = 1 /\ u # Shell
             /\ stack[u][1].call = "trap" /\ stack[u][1].elr = Home(u)
    BY <1>1, <1>2, <2>4 DEF PointSound, Point, LevelAt
  <2>5. CASE d > Base(u, s) /\ pc = [at |-> "spsr", x10 |-> stack[s][d].spsr, x11 |-> stack[s][d].elr]
    BY <1>1, <1>2, <2>5 DEF PointSound, LevelAt
  <2>6. CASE d > Base(u, s) /\ \E n \in Tasks : Chosen(n) /\ pc = [at |-> "save", prev |-> u, next |-> n]
    BY <1>1, <1>2, <2>6 DEF PointSound, LevelAt, Chooses
  <2>. QED
    BY <1>2, <2>1, <2>2, <2>3, <2>4, <2>5, <2>6 DEF GoesOn
<1>3. CASE Switches(pc, u, s, d) /\ (state[u] = "RUNNING" => Waiting(u))
  <2>1. PICK n \in Tasks :
        \/ d > Base(u, s) /\ Chosen(n) /\ pc = [at |-> "restore", prev |-> u, next |-> n]
        \/ /\ d > Base(u, s) /\ Resumed(n)
           /\ pc = [at |-> "sp", prev |-> u, next |-> n, context |-> context[n]]
        \/ /\ s = n /\ d = context[n].sp[2] /\ Resumed(n)
           /\ pc = [at |-> "tpidr", prev |-> u, next |-> n, context |-> context[n]]
    BY <1>3 DEF Switches
  <2>2. CASE d > Base(u, s) /\ Chosen(n) /\ pc = [at |-> "restore", prev |-> u, next |-> n]
    BY <1>1, <1>3, <2>2 DEF PointSound, LevelAt, Chooses
  <2>3. CASE /\ d > Base(u, s) /\ Resumed(n)
             /\ pc = [at |-> "sp", prev |-> u, next |-> n, context |-> context[n]]
    BY <1>1, <1>3, <2>3 DEF PointSound, LevelAt, Resumes
  <2>4. CASE /\ s = n /\ d = context[n].sp[2] /\ Resumed(n)
             /\ pc = [at |-> "tpidr", prev |-> u, next |-> n, context |-> context[n]]
    BY <1>1, <1>3, <2>4 DEF PointSound, LevelAt, Resumes, Base
  <2>. QED
    BY <2>1, <2>2, <2>3, <2>4
<1>4. CASE Leaves(u, s, d)
  <2>1. CASE /\ d > Base(u, s) /\ spsr = stack[s][d].spsr
             /\ pc = [at |-> "elr", x11 |-> stack[s][d].elr]
    BY <1>1, <2>1 DEF PointSound, LevelAt, Returning
  <2>2. CASE /\ d > Base(u, s) /\ spsr = stack[s][d].spsr
             /\ pc = Point("rest") /\ elr = stack[s][d].elr
    BY <1>1, <2>2 DEF PointSound, LevelAt, Returning, Point
  <2>3. CASE pc = Point("eret") /\ ComesBack(elr, u, s, d) /\ Undisturbed(elr) /\ spsr = SpsrAt(elr, u)
    <3>1. d >= Base(u, s)
      BY <1>1, <2>3 DEF ComesBack, GoesOn, Switches, Base
    <3>. QED
      BY <1>1, <2>3, <3>1 DEF PointSound, LevelAt, Returning, Point
  <2>4. CASE pc = Point("enter_spsr") /\ elr = Home(u) /\ s = u /\ d = 0 /\ u # Shell
    BY <1>1, <2>4 DEF PointSound, LevelAt, Returning, Point, Base
  <2>. QED
    BY <1>4, <2>1, <2>2, <2>3, <2>4 DEF Leaves
<1>. QED
  BY <1>2, <1>3, <1>4 DEF PointSound

-----------------------------------------------------------------------------
(* The steps, as long as nothing of Cut happens.                           *)

\* Where the processor is: task, stack and depth.
Here(u, s, d) == tpidr = u /\ sp[1] = s /\ sp[2] = d

LEMMA HereIs ==
    ASSUME Sizes, Sound
    PROVE  \E u \in Tasks, s \in Tasks, d \in Nat :
              /\ Here(u, s, d) /\ FramesSound(u, s, d) /\ PointSound(u, s, d)
              /\ d <= MaxFrames
              /\ s # u => /\ state[s] = "RUNNING" /\ Waiting(s)
                          /\ state[u] = "TERMINATED" \/ At("tpidr")
BY DEF Sizes, Sound, Here, CurrentSound, OnOwnStack, OthersWait

LEMMA SoundAgain ==
    ASSUME NEW u \in Tasks, NEW s \in Tasks, NEW d \in Nat, Here(u, s, d)',
           OthersWait', FramesSound(u, s, d)', PointSound(u, s, d)',
           state'[Shell] = "RUNNING", state'[u] # "none",
           s # u => state'[s] = "RUNNING" /\ (state'[u] = "TERMINATED" \/ At("tpidr")')
    PROVE  Sound'
BY DEF Here, Sound, CurrentSound, OnOwnStack

\* A step of the registers and the point alone.
LEMMA QuietStep ==
    ASSUME Sizes, Sound, UNCHANGED <<stack, context, state, sp, tpidr>>, events \subseteq events',
           NEW u \in Tasks, NEW s \in Tasks, NEW d \in Nat, Here(u, s, d),
           ~ At("tpidr"), PointSound(u, s, d)'
    PROVE  Sound'
<1>1. ASSUME NEW v \in Tasks, NEW r \in Tasks, NEW e \in Nat PROVE Keeps(v, r, e)
  BY DEF Keeps
<1>2. OthersWait'
  <2>. SUFFICES ASSUME NEW t \in Tasks \ {tpidr}, state[t] = "RUNNING" PROVE Waiting(t)'
    BY DEF OthersWait
  <2>1. Waiting(t) /\ context[t].sp[2] \in Nat
    BY DEF Sound, OthersWait, Sizes
  <2>. QED
    BY <1>1, <2>1, WaitingKept
<1>3. FramesSound(u, s, d)'
  BY <1>1, FramesKept DEF Sound, CurrentSound, Here
<1>. QED
  BY <1>2, <1>3, SoundAgain DEF Here, Sound, CurrentSound, OnOwnStack

LEMMA ScheduleSound ==
    ASSUME Sizes, Sound, NEW t \in Tasks, Schedule(t)
    PROVE  Sound'
<1>1. PICK u \in Tasks, s \in Tasks, d \in Nat : Here(u, s, d) /\ PointSound(u, s, d)
  BY HereIs
<1>2. d > Base(u, s) /\ el = 1
  BY <1>1, PointsOfCode DEF Schedule, At
<1>3. PointSound(u, s, d)'
  <2>1. pc' = [at |-> "save", prev |-> u, next |-> t]
    BY <1>1 DEF Schedule, Here
  <2>2. Chosen(t)'
    BY DEF Schedule, Chosen
  <2>3. Base(u, s)' = Base(u, s)
    BY DEF Schedule, Base
  <2>4. GoesOn(pc, u, s, d)'
    BY <1>2, <2>1, <2>2, <2>3 DEF GoesOn
  <2>. QED
    BY <1>1, <1>2, <2>1, <2>4 DEF Schedule, PointSound, LevelAt, At, Undisturbed, InSchedule
<1>. QED
  BY <1>1, <1>3, QuietStep DEF Schedule, At, regs

LEMMA RestoreSound ==
    ASSUME Sizes, Sound, Restore, ~ Cut'
    PROVE  Sound'
<1>1. PICK u \in Tasks, s \in Tasks, d \in Nat : Here(u, s, d) /\ PointSound(u, s, d)
  BY HereIs
<1>2. d > Base(u, s) /\ el = 1 /\ (state[u] = "RUNNING" => Waiting(u))
  BY <1>1, PointsOfCode DEF Restore, At
<1>3. PICK n \in Tasks : pc = [at |-> "restore", prev |-> u, next |-> n]
  BY <1>1, PointsOfCode DEF Restore, At, Chooses
<1>4. state[n] = "RUNNING" /\ UNCHANGED events
  BY <1>3 DEF Restore, Happens, Cut
<1>5. pc' = [at |-> "sp", prev |-> u, next |-> n, context |-> context[n]]
  BY <1>3 DEF Restore
<1>6. PointSound(u, s, d)'
  <2>1. Switches(pc, u, s, d)'
    BY <1>2, <1>4, <1>5 DEF Restore, Switches, Resumed, Base
  <2>2. state'[u] = "RUNNING" => Waiting(u)'
    BY <1>2, <1>4 DEF Restore, regs, Waiting, FramesSound, FrameSound, ComesBack, GoesOn,
                      Switches, Base, Undisturbed, Chosen, Resumed
  <2>. QED
    BY <1>1, <1>2, <1>3, <1>4, <1>5, <2>1, <2>2 DEF Restore, PointSound, LevelAt, At, Undisturbed, InSchedule
<1>. QED
  BY <1>1, <1>4, <1>6, QuietStep DEF Restore, At, regs

LEMMA TailSound ==
    ASSUME Sizes, Sound, Tail \/ TrapReturn
    PROVE  Sound'
<1>1. PICK u \in Tasks, s \in Tasks, d \in Nat : Here(u, s, d) /\ PointSound(u, s, d)
  BY HereIs
<1>2. d > Base(u, s) /\ el = 1
  BY <1>1, PointsOfCode DEF Tail, TrapReturn, At
<1>3. pc' = Point("load")
  BY DEF Tail, TrapReturn, Goto
<1>4. PointSound(u, s, d)'
  <2>1. GoesOn(pc, u, s, d)'
    BY <1>2, <1>3 DEF Tail, TrapReturn, GoesOn, Base
  <2>. QED
    BY <1>2, <1>3, <2>1 DEF Tail, TrapReturn, PointSound, LevelAt, At, Undisturbed, InSchedule, Point
<1>. QED
  BY <1>1, <1>4, QuietStep DEF Tail, TrapReturn, At, regs

LEMMA LoadSound ==
    ASSUME Sizes, Sound, Load \/ MsrSpsr \/ MsrElr
    PROVE  Sound'
<1>1. PICK u \in Tasks, s \in Tasks, d \in Nat : Here(u, s, d) /\ PointSound(u, s, d) /\ d <= MaxFrames
  BY HereIs
<1>. DEFINE F == stack[s][d]
<1>2. d > Base(u, s) /\ el = 1 /\ Base(u, s) \in Nat
  BY <1>1, PointsOfCode DEF Load, MsrSpsr, MsrElr, At, Sizes
<1>3. Base(u, s)' = Base(u, s) /\ F' = F
  BY DEF Load, MsrSpsr, MsrElr, Base
<1>4. PointSound(u, s, d)'
  <2>1. CASE Load
    <3>1. Frame = F
      BY <1>1, <1>2, ExceptionsAssumption DEF Frame, Here
    <3>2. pc' = [at |-> "spsr", x10 |-> F.spsr, x11 |-> F.elr]
      BY <2>1, <3>1 DEF Load
    <3>3. GoesOn(pc, u, s, d)'
      BY <1>2, <1>3, <3>2 DEF GoesOn
    <3>. QED
      BY <1>2, <2>1, <3>2, <3>3 DEF Load, PointSound, LevelAt, At, Undisturbed, InSchedule
  <2>2. CASE MsrSpsr
    <3>1. pc' = [at |-> "elr", x11 |-> F.elr] /\ spsr' = F.spsr
      BY <1>1, <2>2, PointsOfCode DEF MsrSpsr, At
    <3>2. Leaves(u, s, d)'
      BY <1>2, <1>3, <3>1 DEF Leaves
    <3>. QED
      BY <1>2, <2>2, <3>1, <3>2 DEF MsrSpsr, PointSound, LevelAt, At, Undisturbed, InSchedule
  <2>3. CASE MsrElr
    <3>1. pc' = Point("rest") /\ elr' = F.elr /\ spsr' = F.spsr
      BY <1>1, <2>3, PointsOfCode DEF MsrElr, At, Goto
    <3>2. Leaves(u, s, d)'
      BY <1>2, <1>3, <3>1 DEF Leaves
    <3>. QED
      BY <1>2, <2>3, <3>1, <3>2 DEF MsrElr, PointSound, LevelAt, At, Undisturbed, InSchedule, Point
  <2>. QED
    BY <2>1, <2>2, <2>3
<1>. QED
  BY <1>1, <1>4, QuietStep DEF Load, MsrSpsr, MsrElr, At, regs

LEMMA EnterProgramSound ==
    ASSUME Sizes, Sound, EnterElr \/ EnterSpsr
    PROVE  Sound'
<1>1. PICK u \in Tasks, s \in Tasks, d \in Nat : Here(u, s, d) /\ PointSound(u, s, d)
  BY HereIs
<1>2. s = u /\ u # Shell /\ d = 0 /\ el = 1
  BY <1>1, PointsOfCode DEF EnterElr, EnterSpsr, At
<1>3. PointSound(u, s, d)'
  <2>1. CASE EnterElr
    <3>1. pc' = Point("enter_spsr") /\ elr' = Home(u)
      BY <1>1, <2>1 DEF EnterElr, Goto, Here
    <3>2. Leaves(u, s, d)'
      BY <1>2, <3>1 DEF Leaves
    <3>. QED
      BY <1>2, <2>1, <3>1, <3>2 DEF EnterElr, PointSound, LevelAt, At, Undisturbed, InSchedule, Point
  <2>2. CASE EnterSpsr
    <3>1. pc' = Point("eret") /\ elr' = Home(u)
      BY <1>1, <2>2, PointsOfCode DEF EnterSpsr, At, Goto
    <3>2. ComesBack(elr, u, s, d)' /\ Undisturbed(elr)'
      BY <1>2, <3>1 DEF ComesBack, GoesOn, Undisturbed, InSchedule, Home
    <3>3. spsr' = SpsrAt(elr, u)'
      BY <1>2, <2>2, <3>1 DEF EnterSpsr, SpsrAt, LevelAt, Level, Home
    <3>4. Leaves(u, s, d)'
      BY <3>1, <3>2, <3>3 DEF Leaves
    <3>. QED
      BY <1>2, <2>2, <3>1, <3>4 DEF EnterSpsr, PointSound, LevelAt, At, Undisturbed, InSchedule, Point
  <2>. QED
    BY <2>1, <2>2
<1>. QED
  BY <1>1, <1>3, QuietStep DEF EnterElr, EnterSpsr, At, regs

LEMMA EretSound ==
    ASSUME Sizes, Sound, Eret
    PROVE  Sound'
<1>1. PICK u \in Tasks, s \in Tasks, d \in Nat : Here(u, s, d) /\ PointSound(u, s, d)
  BY HereIs
<1>2. ComesBack(elr, u, s, d) /\ Undisturbed(elr) /\ spsr = SpsrAt(elr, u)
  BY <1>1, PointsOfCode DEF Eret, At
<1>3. PICK p : p = elr
  OBVIOUS
<1>4. pc' = p /\ el' = LevelAt(p, u) /\ irqs' = TRUE
  BY <1>2, <1>3 DEF Eret, SpsrAt
<1>5. PointSound(u, s, d)'
  <2>1. Keeps(u, s, d)
    BY DEF Eret, Keeps, regs
  <2>2. ComesBack(p, u, s, d)'
    BY <1>2, <1>3, <2>1, ComesBackKept
  <2>3. Undisturbed(p)'
    BY <1>2, <1>3 DEF Eret, Undisturbed
  <2>. QED
    BY <1>4, <2>2, <2>3 DEF PointSound, ComesBack, LevelAt
<1>. QED
  BY <1>1, <1>5, QuietStep DEF Eret, At, regs

\* What lies below the frame that is taken off stays as it is.
LEMMA RestSound ==
    ASSUME Typed, Sizes, Sound, Rest
    PROVE  Sound'
<1>1. PICK u \in Tasks, s \in Tasks, d \in Nat :
          /\ Here(u, s, d) /\ FramesSound(u, s, d) /\ PointSound(u, s, d) /\ d <= MaxFrames
          /\ s # u => /\ state[s] = "RUNNING" /\ Waiting(s)
                      /\ state[u] = "TERMINATED" \/ At("tpidr")
  BY HereIs
<1>2. /\ d > Base(u, s) /\ Base(u, s) \in Nat /\ el = 1
      /\ elr = stack[s][d].elr /\ spsr = stack[s][d].spsr
  <2>1. pc.at = "rest"
    BY DEF Rest, At
  <2>2. Base(u, s) \in Nat
    BY DEF Sizes
  <2>. QED
    BY <1>1, <2>1, <2>2, PointsOfCode DEF At
<1>3. sp[2] \in 1 .. MaxFrames
  BY <1>1, <1>2, ExceptionsAssumption DEF Here
<1>4. /\ pc' = Point("eret") /\ Here(u, s, d - 1)'
      /\ UNCHANGED <<el, irqs, elr, spsr, tpidr, context, state, events>>
  BY <1>1, <1>3 DEF Rest, Goto, Popped, Here
<1>5. /\ \A t \in Tasks \ {s} : stack'[t] = stack[t]
      /\ \A i \in 1 .. d - 1 : stack'[s][i] = stack[s][i]
  <2>1. PICK S : Memory(S)
    BY DEF Typed
  <2>2. stack' = [stack EXCEPT ![s][d] = NoFrame]
    BY <1>1, <1>3 DEF Rest, Here
  <2>. QED
    BY <1>1, <2>1, <2>2 DEF Memory
<1>6. ASSUME NEW t \in Tasks, NEW e \in Nat, t = s => e < d
      PROVE  \A v \in Tasks : Keeps(v, t, e)
  BY <1>4, <1>5, <1>6 DEF Keeps
<1>7. d - 1 \in Nat /\ d - 1 < d /\ d - 1 <= d
  BY <1>2
<1>8. OthersWait'
  <2>. SUFFICES ASSUME NEW t \in Tasks \ {tpidr}, state[t] = "RUNNING" PROVE Waiting(t)'
    BY <1>4 DEF OthersWait
  <2>1. Waiting(t) /\ context[t].sp[2] \in Nat
    BY DEF Sound, OthersWait, Sizes
  <2>2. t = s => context[t].sp[2] < d
    BY <1>1, <1>2 DEF Base, Here
  <2>. QED
    BY <1>4, <1>6, <2>1, <2>2, WaitingKept
<1>9. FramesSound(u, s, d - 1)'
  BY <1>1, <1>6, <1>7, FramesKept
<1>10. PointSound(u, s, d - 1)'
  <2>1. FrameSound(stack[s][d], u, s, d - 1)
    BY <1>1, <1>2 DEF FramesSound
  <2>2. PICK p : p = elr
    OBVIOUS
  <2>3. ComesBack(p, u, s, d - 1)'
    BY <1>2, <1>6, <1>7, <2>1, <2>2, ComesBackKept DEF FrameSound
  <2>4. Undisturbed(p)' /\ spsr' = SpsrAt(p, u)
    BY <1>2, <1>4, <2>1, <2>2 DEF FrameSound, Undisturbed
  <2>5. Leaves(u, s, d - 1)'
    BY <1>4, <2>2, <2>3, <2>4 DEF Leaves
  <2>. QED
    BY <1>2, <1>4, <2>5 DEF PointSound, LevelAt, At, Undisturbed, InSchedule, Point
<1>11. s # u => state[s] = "RUNNING" /\ state[u] = "TERMINATED"
  BY <1>1 DEF Rest, At
<1>. QED
  BY <1>1, <1>4, <1>7, <1>8, <1>9, <1>10, <1>11, SoundAgain DEF Sound, CurrentSound, Here

LEMMA SaveSound ==
    ASSUME Sizes, Sound, Save
    PROVE  Sound'
<1>1. PICK u \in Tasks, s \in Tasks, d \in Nat :
          /\ Here(u, s, d) /\ FramesSound(u, s, d) /\ PointSound(u, s, d) /\ d <= MaxFrames
          /\ s # u => /\ state[s] = "RUNNING" /\ Waiting(s)
                      /\ state[u] = "TERMINATED" \/ At("tpidr")
  BY HereIs
<1>2. d > Base(u, s) /\ Base(u, s) \in Nat /\ el = 1
  BY <1>1, PointsOfCode DEF Save, At, Sizes
<1>3. PICK n \in Tasks : Chosen(n) /\ pc = [at |-> "save", prev |-> u, next |-> n]
  BY <1>1, PointsOfCode DEF Save, At, Chooses
<1>4. /\ pc' = [at |-> "restore", prev |-> u, next |-> n]
      /\ context' = [context EXCEPT ![u] = [lr |-> "schedule", sp |-> sp]]
      /\ UNCHANGED <<el, irqs, elr, spsr, sp, tpidr, stack, state, events>>
  BY <1>3 DEF Save, Saved, regs
<1>5. /\ \A t \in Tasks \ {u} : context'[t] = context[t]
      /\ context'[u].lr = "schedule" /\ context'[u].sp = sp
  BY <1>4 DEF Sizes
<1>6. \A t \in Tasks, e \in Nat : state[t] = "RUNNING" => Keeps(t, t, e)
  BY <1>4, <1>5 DEF Keeps
<1>7. Keeps(u, s, d)
  <2>1. state[u] = "TERMINATED" => \A t \in Tasks : state[t] = "RUNNING" => t # u
    OBVIOUS
  <2>. QED
    BY <1>4, <1>5, <2>1 DEF Keeps
<1>8. FramesSound(u, s, d)'
  BY <1>1, <1>7, FramesKept
<1>9. OthersWait'
  <2>. SUFFICES ASSUME NEW t \in Tasks \ {tpidr}, state[t] = "RUNNING" PROVE Waiting(t)'
    BY <1>4 DEF OthersWait
  <2>1. Waiting(t) /\ context[t].sp[2] \in Nat
    BY DEF Sound, OthersWait, Sizes
  <2>2. context'[t] = context[t]
    BY <1>1, <1>5 DEF Here
  <2>. QED
    BY <1>6, <2>1, <2>2, WaitingKept
<1>10. state'[u] = "RUNNING" => Waiting(u)'
  <2>. SUFFICES ASSUME state[u] = "RUNNING" PROVE Waiting(u)'
    BY <1>4
  <2>1. s = u /\ d > 0
    BY <1>1, <1>2 DEF Save, At
  <2>2. context'[u].sp[1] = u /\ context'[u].sp[2] = d
    BY <1>1, <1>5, <2>1 DEF Here
  <2>. QED
    BY <1>5, <1>8, <2>1, <2>2 DEF Waiting
<1>11. PointSound(u, s, d)'
  <2>1. Chosen(n)' /\ Base(u, s)' = Base(u, s)
    BY <1>3, <1>4, <1>5 DEF Chosen, Base
  <2>2. Switches(pc, u, s, d)'
    BY <1>2, <1>4, <2>1 DEF Switches
  <2>. QED
    BY <1>1, <1>2, <1>3, <1>4, <1>10, <2>2 DEF PointSound, LevelAt, At, Undisturbed, InSchedule
<1>12. s # u => state[s] = "RUNNING" /\ state[u] = "TERMINATED"
  BY <1>1 DEF Save, At
<1>. QED
  BY <1>1, <1>4, <1>8, <1>9, <1>11, <1>12, SoundAgain DEF Sound, CurrentSound, Here

\* The task to come waits for its turn, or is the one that leaves.
LEMMA NextWaits ==
    ASSUME Sizes, Sound, pc.at \in {"sp", "tpidr"}
    PROVE  \E n \in Tasks :
              /\ state[n] = "RUNNING" /\ Waiting(n)
              /\ pc = [at |-> pc.at, prev |-> tpidr, next |-> n, context |-> context[n]]
<1>1. PICK u \in Tasks, s \in Tasks, d \in Nat : Here(u, s, d) /\ PointSound(u, s, d)
  BY HereIs
<1>2. Resumes(u) /\ (state[u] = "RUNNING" => Waiting(u))
  BY <1>1, PointsOfCode DEF At
<1>. QED
  BY <1>1, <1>2 DEF Resumes, Resumed, Here, Sound, OthersWait

LEMMA MovSpSound ==
    ASSUME Sizes, Sound, MovSp
    PROVE  Sound'
<1>1. PICK u \in Tasks, s \in Tasks, d \in Nat :
          /\ Here(u, s, d) /\ FramesSound(u, s, d) /\ PointSound(u, s, d) /\ d <= MaxFrames
          /\ s # u => /\ state[s] = "RUNNING" /\ Waiting(s)
                      /\ state[u] = "TERMINATED" \/ At("tpidr")
  BY HereIs
<1>2. PICK n \in Tasks :
          /\ state[n] = "RUNNING" /\ Waiting(n)
          /\ pc = [at |-> "sp", prev |-> u, next |-> n, context |-> context[n]]
  BY <1>1, NextWaits DEF MovSp, At, Here
<1>3. PICK e \in Nat : e = context[n].sp[2]
  BY DEF Sizes
<1>4. /\ pc' = [at |-> "tpidr", prev |-> u, next |-> n, context |-> context[n]]
      /\ Here(u, n, e)'
      /\ UNCHANGED <<el, irqs, elr, spsr, tpidr, stack, context, state, events>>
  BY <1>1, <1>2, <1>3 DEF MovSp, Waiting, Here
<1>5. ASSUME NEW v \in Tasks, NEW r \in Tasks, NEW f \in Nat PROVE Keeps(v, r, f)
  BY <1>4 DEF Keeps
<1>6. OthersWait'
  <2>. SUFFICES ASSUME NEW t \in Tasks \ {tpidr}, state[t] = "RUNNING" PROVE Waiting(t)'
    BY <1>4 DEF OthersWait
  <2>1. Waiting(t) /\ context[t].sp[2] \in Nat
    BY DEF Sound, OthersWait, Sizes
  <2>. QED
    BY <1>4, <1>5, <2>1, WaitingKept
<1>7. FramesSound(u, n, e)'
  <2>1. FramesSound(u, n, e)
    <3>1. CASE n = u
      BY <1>2, <1>3, <3>1 DEF Waiting
    <3>2. CASE n # u
      BY <1>3, <3>2 DEF FramesSound, Base
    <3>. QED
      BY <3>1, <3>2
  <2>. QED
    BY <1>5, <2>1, FramesKept
<1>8. PointSound(u, n, e)'
  <2>1. Switches(pc, u, n, e)'
    BY <1>2, <1>3, <1>4 DEF Switches, Resumed
  <2>2. state'[u] = "RUNNING" => Waiting(u)'
    <3>1. state[u] = "RUNNING" => Waiting(u)
      BY <1>1, <1>2, PointsOfCode DEF At
    <3>. QED
      BY <1>4, <1>5, <3>1, WaitingKept DEF Sizes
  <2>3. el = 1 /\ Undisturbed(pc)' = Undisturbed(pc)
    BY <1>1, <1>2, <1>4, PointsOfCode DEF At, Undisturbed, InSchedule
  <2>. QED
    BY <1>1, <1>4, <2>1, <2>2, <2>3 DEF PointSound, LevelAt, At
<1>. QED
  BY <1>1, <1>2, <1>4, <1>6, <1>7, <1>8, SoundAgain DEF Sound, CurrentSound, Here, At

LEMMA MsrTpidrSound ==
    ASSUME Sizes, Sound, MsrTpidr
    PROVE  Sound'
<1>1. PICK u \in Tasks, s \in Tasks, d \in Nat :
          /\ Here(u, s, d) /\ FramesSound(u, s, d) /\ PointSound(u, s, d) /\ d <= MaxFrames
          /\ s # u => /\ state[s] = "RUNNING" /\ Waiting(s)
                      /\ state[u] = "TERMINATED" \/ At("tpidr")
  BY HereIs
<1>2. PICK n \in Tasks :
          /\ state[n] = "RUNNING" /\ Waiting(n)
          /\ pc = [at |-> "tpidr", prev |-> u, next |-> n, context |-> context[n]]
  BY <1>1, NextWaits DEF MsrTpidr, At, Here
<1>3. s = n /\ d = context[n].sp[2] /\ el = 1 /\ (state[u] = "RUNNING" => Waiting(u))
  BY <1>1, <1>2, PointsOfCode DEF At
<1>4. /\ pc' = IF context[n].lr = "schedule" THEN Returned(sp) ELSE Point(context[n].lr)
      /\ Here(n, n, d)'
      /\ UNCHANGED <<el, irqs, elr, spsr, sp, stack, context, state, events>>
  BY <1>1, <1>2, <1>3 DEF MsrTpidr, Here
<1>5. ASSUME NEW v \in Tasks, NEW r \in Tasks, NEW f \in Nat PROVE Keeps(v, r, f)
  BY <1>4 DEF Keeps
<1>6. OthersWait'
  <2>. SUFFICES ASSUME NEW t \in Tasks, state[t] = "RUNNING" PROVE Waiting(t)'
    BY <1>4 DEF OthersWait
  <2>1. Waiting(t) /\ context[t].sp[2] \in Nat
    BY <1>1, <1>3 DEF Sound, OthersWait, Sizes, Here
  <2>. QED
    BY <1>4, <1>5, <2>1, WaitingKept
<1>7. FramesSound(n, n, d)'
  BY <1>2, <1>3, <1>5, FramesKept DEF Waiting
<1>8. PointSound(n, n, d)'
  <2>1. Base(n, n)' = 0
    BY DEF Base
  <2>2. CASE context[n].lr = "schedule"
    <3>1. d > 0 /\ d \in 1 .. d /\ d \in 1 .. MaxFrames
      BY <1>1, <1>2, <1>3, <2>2, ExceptionsAssumption DEF Waiting
    <3>2. FrameSound(stack[n][d], n, n, d - 1)
      BY <1>2, <1>3, <3>1 DEF Waiting, FramesSound, Base
    <3>3. pc' \in {Point("tail"), Point("load")}
      BY <1>1, <1>3, <1>4, <2>2, <3>1, <3>2 DEF FrameSound, Returned, Here
    <3>4. pc'.at \in {"tail", "load"}
      BY <3>3 DEF Point
    <3>5. GoesOn(pc, n, n, d)'
      BY <2>1, <3>1, <3>3 DEF GoesOn
    <3>6. irqs' => Undisturbed(pc)'
      BY <1>1, <1>2, <1>4 DEF PointSound, Undisturbed, InSchedule
    <3>. QED
      BY <1>3, <1>4, <3>4, <3>5, <3>6 DEF PointSound, LevelAt, At
  <2>3. CASE context[n].lr = "load"
    <3>1. pc' = Point("load") /\ d > 0
      BY <1>2, <1>3, <1>4, <2>3 DEF Waiting
    <3>2. GoesOn(pc, n, n, d)'
      BY <2>1, <3>1 DEF GoesOn
    <3>. QED
      BY <1>3, <1>4, <3>1, <3>2 DEF PointSound, LevelAt, At, Undisturbed, InSchedule, Point
  <2>4. CASE context[n].lr = "enter"
    <3>1. pc' = Point("enter") /\ d = 0 /\ n # Shell
      BY <1>2, <1>3, <1>4, <2>4 DEF Waiting
    <3>2. GoesOn(pc, n, n, d)'
      BY <3>1 DEF GoesOn
    <3>. QED
      BY <1>3, <1>4, <3>1, <3>2 DEF PointSound, LevelAt, At, Undisturbed, InSchedule, Point
  <2>. QED
    BY <1>2, <2>2, <2>3, <2>4 DEF Waiting
<1>. QED
  BY <1>2, <1>4, <1>6, <1>7, <1>8, SoundAgain DEF Sound, CurrentSound

\* An exception: the frame it pushes leads back to the point it came at.
LEMMA EnterSound ==
    ASSUME Typed, Sizes, Sound, NEW call \in {"irq", "trap"}, Enter(call), irqs = TRUE,
           NEW u \in Tasks, NEW s \in Tasks, NEW d \in Nat, Here(u, s, d),
           ComesBack(pc, u, s, d), Undisturbed(pc),
           UNCHANGED context, \A t \in Tasks \ {u} : state'[t] = state[t],
           state'[u] \in {state[u], "TERMINATED"}, events \subseteq events'
    PROVE  /\ OthersWait' /\ FramesSound(u, s, d + 1)' /\ Here(u, s, d + 1)'
           /\ d + 1 \in Nat /\ (d + 1 > Base(u, s))' /\ el' = 1
           /\ stack'[s][d + 1].call = call /\ stack'[s][d + 1].elr = pc
<1>1. FramesSound(u, s, d) /\ PointSound(u, s, d) /\ state[u] # "none"
  BY DEF Here, Sound, CurrentSound
<1>2. Base(u, s) \in Nat /\ d >= Base(u, s) /\ d + 1 \in 1 .. MaxFrames
  BY <1>1, PointsOfCode, ExceptionsAssumption DEF Sizes, Enter, Here
<1>3. PICK p : p = pc
  OBVIOUS
<1>4. PICK f : f = [elr |-> p, spsr |-> SpsrAt(p, u), call |-> call]
  OBVIOUS
<1>5. spsr' = SpsrAt(p, u)
  BY <1>1, <1>3 DEF Enter, PointSound, SpsrAt
<1>6. /\ stack'[s][d + 1] = f
      /\ \A t \in Tasks \ {s} : stack'[t] = stack[t]
      /\ \A i \in 1 .. d : stack'[s][i] = stack[s][i]
  <2>1. PICK S : Memory(S)
    BY DEF Typed
  <2>2. stack' = [stack EXCEPT ![s][d + 1] = f]
    BY <1>3, <1>4, <1>5 DEF Enter, Here
  <2>3. /\ stack'[s] = [stack[s] EXCEPT ![d + 1] = f]
        /\ \A t \in Tasks \ {s} : stack'[t] = stack[t]
        /\ stack[s] \in [1 .. MaxFrames -> [elr : S, spsr : Spsrs, call : {"none", "irq", "trap"}]]
    BY <2>1, <2>2 DEF Memory
  <2>4. d + 1 \in 1 .. MaxFrames /\ MaxFrames \in Nat
    BY <1>2, ExceptionsAssumption
  <2>5. \A i \in 1 .. d : i \in 1 .. MaxFrames /\ i # d + 1
    BY <2>4
  <2>. QED
    BY <2>3, <2>4, <2>5
<1>7. ASSUME NEW t \in Tasks, NEW e \in Nat, t = s => e <= d
      PROVE  \A v \in Tasks : state[v] = "RUNNING" \/ v = u => Keeps(v, t, e)
  <2>1. \A i \in 1 .. e : stack'[t][i] = stack[t][i]
    BY <1>6, <1>7
  <2>. QED
    BY <2>1 DEF Keeps
<1>8. OthersWait'
  <2>. SUFFICES ASSUME NEW t \in Tasks \ {u}, state[t] = "RUNNING" PROVE Waiting(t)'
    BY DEF OthersWait, Enter, Here
  <2>1. Waiting(t) /\ context[t].sp[2] \in Nat
    BY DEF Sound, OthersWait, Sizes, Here
  <2>2. t = s => context[t].sp[2] <= d
    BY <1>2 DEF Base
  <2>. QED
    BY <1>7, <2>1, <2>2, WaitingKept
<1>9. Keeps(u, s, d)
  BY <1>7
<1>10. FramesSound(u, s, d)'
  BY <1>1, <1>9, FramesKept
<1>11. FrameSound(f, u, s, d)'
  <2>1. ComesBack(p, u, s, d)'
    BY <1>3, <1>9, ComesBackKept
  <2>2. Undisturbed(p)'
    BY <1>3 DEF Undisturbed
  <2>. QED
    BY <1>4, <2>1, <2>2 DEF FrameSound
<1>12. FramesSound(u, s, d + 1)'
  <2>. SUFFICES ASSUME NEW i \in 1 .. d + 1, (i > Base(u, s))'
                PROVE  FrameSound(stack[s][i], u, s, i - 1)'
    BY DEF FramesSound
  <2>1. CASE i = d + 1
    BY <1>6, <1>11, <2>1
  <2>2. CASE i # d + 1
    BY <1>10, <2>2 DEF FramesSound
  <2>. QED
    BY <2>1, <2>2
<1>13. Here(u, s, d + 1)' /\ el' = 1
  BY DEF Enter, Here
<1>14. (d + 1 > Base(u, s))'
  BY <1>2 DEF Base
<1>. QED
  BY <1>2, <1>3, <1>4, <1>6, <1>8, <1>12, <1>13, <1>14

LEMMA IrqSound ==
    ASSUME Typed, Sizes, Sound, Irq, ~ Cut'
    PROVE  Sound'
<1>1. PICK u \in Tasks, s \in Tasks, d \in Nat :
          /\ Here(u, s, d) /\ PointSound(u, s, d)
          /\ s # u => /\ state[s] = "RUNNING" /\ Waiting(s)
                      /\ state[u] = "TERMINATED" \/ At("tpidr")
  BY HereIs
<1>2. irqs = TRUE /\ state[u] \in {"RUNNING", "TERMINATED"} /\ state[Shell] = "RUNNING"
  <2>1. PICK S : Registers(S) /\ Memory(S)
    BY DEF Typed
  <2>. QED
    BY <1>1, <2>1 DEF Irq, Registers, Memory, Sound, CurrentSound, Here
<1>3. ~ Returning /\ ~ Switching /\ events \subseteq events'
  BY DEF Irq, Happens, Interrupted, Cut
<1>4. At("tpidr") => state[u] = "TERMINATED"
  BY <1>1, <1>2, <1>3, PointsOfCode DEF Resumes, Switching, At
<1>5. ComesBack(pc, u, s, d)
  <2>1. CASE GoesOn(pc, u, s, d)
    BY <2>1 DEF ComesBack
  <2>2. CASE Switches(pc, u, s, d)
    <3>1. pc.at \in {"restore", "sp", "tpidr"} /\ pc.prev = u
      BY <2>2 DEF Switches
    <3>2. state[u] = "TERMINATED"
      BY <1>2, <1>3, <3>1 DEF Switching
    <3>. QED
      BY <2>2, <3>2 DEF ComesBack
  <2>. QED
    BY <1>1, <1>3, <2>1, <2>2, PointsOfCode
<1>6. Undisturbed(pc)
  BY <1>1, <1>2 DEF PointSound
<1>7. Enter("irq") /\ UNCHANGED <<context, state>>
  BY DEF Irq
<1>8. /\ OthersWait' /\ FramesSound(u, s, d + 1)' /\ Here(u, s, d + 1)'
      /\ d + 1 \in Nat /\ (d + 1 > Base(u, s))' /\ el' = 1
  BY <1>1, <1>2, <1>3, <1>5, <1>6, <1>7, EnterSound
<1>9. PointSound(u, s, d + 1)'
  <2>1. pc' \in {Point("schedule"), Point("tail")} /\ irqs' = FALSE
    BY DEF Irq, Goto
  <2>2. pc'.at \in {"schedule", "tail"}
    BY <2>1 DEF Point
  <2>3. GoesOn(pc, u, s, d + 1)'
    BY <1>8, <2>1 DEF GoesOn
  <2>. QED
    BY <1>8, <2>1, <2>2, <2>3 DEF PointSound, LevelAt, At
<1>. QED
  BY <1>1, <1>2, <1>4, <1>7, <1>8, <1>9, SoundAgain

LEMMA SvcSound ==
    ASSUME Typed, Sizes, Sound, NEW t \in Tasks, Svc(t)
    PROVE  Sound'
<1>1. PICK u \in Tasks, s \in Tasks, d \in Nat :
          Here(u, s, d) /\ PointSound(u, s, d) /\ state[u] # "none" /\ state[Shell] = "RUNNING"
  BY HereIs DEF Sound, CurrentSound, Here
<1>2. pc = Home(u) /\ s = u /\ d = 0 /\ irqs /\ u # Shell
  BY <1>1, PointsOfCode DEF Svc, At, Home
<1>3. irqs = TRUE
  BY <1>2 DEF Typed, Registers
<1>4. ComesBack(pc, u, s, d) /\ Undisturbed(pc)
  BY <1>2 DEF ComesBack, GoesOn, Undisturbed, InSchedule, Home
<1>5. Enter("trap") /\ UNCHANGED <<context, state, events>>
  BY DEF Svc
<1>6. /\ OthersWait' /\ FramesSound(u, s, d + 1)' /\ Here(u, s, d + 1)'
      /\ d + 1 \in Nat /\ (d + 1 > Base(u, s))' /\ el' = 1
      /\ stack'[s][d + 1].call = "trap" /\ stack'[s][d + 1].elr = pc
  BY <1>1, <1>3, <1>4, <1>5, EnterSound
<1>7. PointSound(u, s, d + 1)'
  <2>1. pc' = Point("trap")
    BY DEF Svc, Goto
  <2>2. GoesOn(pc, u, s, d + 1)'
    BY <1>2, <1>6, <2>1 DEF GoesOn
  <2>. QED
    BY <1>6, <2>1, <2>2 DEF PointSound, LevelAt, At, Undisturbed, InSchedule, Point
<1>. QED
  BY <1>1, <1>2, <1>5, <1>6, <1>7, SoundAgain

LEMMA FaultSound ==
    ASSUME Typed, Sizes, Sound, NEW t \in Tasks, Fault(t)
    PROVE  Sound'
<1>1. PICK u \in Tasks, s \in Tasks, d \in Nat :
          Here(u, s, d) /\ PointSound(u, s, d) /\ state[u] # "none" /\ state[Shell] = "RUNNING"
  BY HereIs DEF Sound, CurrentSound, Here
<1>2. pc = Home(u) /\ s = u /\ d = 0 /\ irqs /\ u # Shell
  BY <1>1, PointsOfCode DEF Fault, At, Home
<1>3. irqs = TRUE
  BY <1>2 DEF Typed, Registers
<1>4. ComesBack(pc, u, s, d) /\ Undisturbed(pc)
  BY <1>2 DEF ComesBack, GoesOn, Undisturbed, InSchedule, Home
<1>5. /\ Enter("trap") /\ UNCHANGED <<context, events>>
      /\ \A v \in Tasks \ {u} : state'[v] = state[v]
      /\ state'[u] = "TERMINATED"
  BY <1>1 DEF Fault, Sizes, Here
<1>6. /\ OthersWait' /\ FramesSound(u, s, d + 1)' /\ Here(u, s, d + 1)'
      /\ d + 1 \in Nat /\ (d + 1 > Base(u, s))' /\ el' = 1
  BY <1>1, <1>3, <1>4, <1>5, EnterSound
<1>7. PointSound(u, s, d + 1)'
  <2>1. pc' = Point("schedule") /\ irqs' = FALSE
    BY DEF Fault, FaultMask, Goto
  <2>2. GoesOn(pc, u, s, d + 1)'
    BY <1>6, <2>1 DEF GoesOn
  <2>. QED
    BY <1>6, <2>1, <2>2 DEF PointSound, LevelAt, At, Point
<1>. QED
  BY <1>1, <1>2, <1>5, <1>6, <1>7, SoundAgain, ExceptionsAssumption

\* At a call a task has one frame, the call's, and it is on its own stack.
LEMMA InCall ==
    ASSUME Sizes, Sound, At("trap")
    PROVE  \E u \in Tasks :
              /\ Here(u, u, 1) /\ FramesSound(u, u, 1) /\ el = 1
              /\ u # Shell /\ state[u] # "none" /\ state[Shell] = "RUNNING"
              /\ stack[u][1].elr = Home(u) /\ stack[u][1].call = "trap"
              /\ stack[u][1].spsr = SpsrAt(Home(u), u)
<1>1. PICK u \in Tasks, s \in Tasks, d \in Nat :
          Here(u, s, d) /\ FramesSound(u, s, d) /\ PointSound(u, s, d)
  BY HereIs
<1>2. /\ s = u /\ d = 1 /\ u # Shell /\ el = 1
      /\ stack[u][1].elr = Home(u) /\ stack[u][1].call = "trap"
  BY <1>1, PointsOfCode DEF At
<1>3. FrameSound(stack[u][1], u, u, 0)
  BY <1>1, <1>2 DEF FramesSound, Base
<1>. QED
  BY <1>1, <1>2, <1>3 DEF FrameSound, Sound, CurrentSound, Here

LEMMA StopSound ==
    ASSUME Sizes, Sound, NEW t \in Tasks, Stop(t)
    PROVE  Sound'
<1>1. PICK u \in Tasks :
          /\ Here(u, u, 1) /\ FramesSound(u, u, 1) /\ el = 1
          /\ u # Shell /\ state[u] # "none" /\ state[Shell] = "RUNNING"
          /\ stack[u][1].elr = Home(u) /\ stack[u][1].call = "trap"
          /\ stack[u][1].spsr = SpsrAt(Home(u), u)
  BY InCall DEF Stop
<1>2. /\ pc' = Point("schedule") /\ events' = events \cup {"yielded"}
      /\ state' = [state EXCEPT ![t] = "TERMINATED"] /\ t # Shell /\ state[t] # "none"
      /\ UNCHANGED <<el, irqs, elr, spsr, sp, tpidr, stack, context>>
  BY DEF Stop, Goto, Happens, regs
<1>3. OthersWait'
  <2>. SUFFICES ASSUME NEW v \in Tasks \ {tpidr}, state'[v] = "RUNNING" PROVE Waiting(v)'
    BY <1>2 DEF OthersWait
  <2>1. state[v] = "RUNNING"
    BY <1>2 DEF Sizes
  <2>2. Waiting(v) /\ context[v].sp[2] \in Nat
    BY <2>1 DEF Sound, OthersWait, Sizes
  <2>3. Keeps(v, v, context[v].sp[2])
    BY <1>2, <2>1 DEF Keeps, Sizes
  <2>. QED
    BY <1>2, <2>2, <2>3, WaitingKept
<1>4. FramesSound(u, u, 1)'
  <2>1. FrameSound(stack[u][1], u, u, 0)'
    BY <1>1, <1>2 DEF FrameSound, ComesBack, GoesOn, Undisturbed, InSchedule, SpsrAt, LevelAt, Home
  <2>. QED
    BY <2>1 DEF FramesSound
<1>5. PointSound(u, u, 1)'
  <2>1. GoesOn(pc, u, u, 1)'
    BY <1>2 DEF GoesOn, Base
  <2>. QED
    BY <1>1, <1>2, <2>1 DEF PointSound, LevelAt, At, Undisturbed, Point
<1>6. Here(u, u, 1)' /\ state'[Shell] = "RUNNING" /\ state'[u] # "none"
  BY <1>1, <1>2, ExceptionsAssumption DEF Here, Sizes
<1>. QED
  BY <1>3, <1>4, <1>5, <1>6, SoundAgain

\* A new task t waits; nothing of the other tasks changes.
LEMMA NewTaskSound ==
    ASSUME Sizes, Sound, NEW t \in Tasks, state[t] = "none",
           UNCHANGED <<sp, tpidr, events, el, irqs>>,
           state' = [state EXCEPT ![t] = "RUNNING"],
           \A v \in Tasks \ {t} : context'[v] = context[v] /\ stack'[v] = stack[v],
           NEW u \in Tasks, NEW d \in Nat, Here(u, u, d),
           PointSound(u, u, d)', Waiting(t)'
    PROVE  Sound'
<1>1. u # t /\ state[u] # "none" /\ state[Shell] = "RUNNING" /\ FramesSound(u, u, d)
  BY DEF Sound, CurrentSound, Here
<1>2. \A v \in Tasks \ {t} : state'[v] = state[v]
  BY DEF Sizes
<1>3. ASSUME NEW v \in Tasks \ {t}, NEW e \in Nat PROVE Keeps(v, v, e)
  BY <1>2 DEF Keeps, Sizes
<1>4. OthersWait'
  <2>. SUFFICES ASSUME NEW v \in Tasks \ {tpidr, t}, state'[v] = "RUNNING" PROVE Waiting(v)'
    BY DEF OthersWait
  <2>1. Waiting(v) /\ context[v].sp[2] \in Nat
    BY <1>2 DEF Sound, OthersWait, Sizes
  <2>. QED
    BY <1>3, <2>1, WaitingKept
<1>5. FramesSound(u, u, d)'
  BY <1>1, <1>3, FramesKept
<1>6. Here(u, u, d)'
  BY DEF Here
<1>. QED
  BY <1>1, <1>2, <1>4, <1>5, <1>6, SoundAgain, ExceptionsAssumption

LEMMA ForkSound ==
    ASSUME Typed, Sizes, Sound, NEW t \in Tasks, Fork(t)
    PROVE  Sound'
<1>1. PICK u \in Tasks :
          /\ Here(u, u, 1) /\ FramesSound(u, u, 1) /\ el = 1
          /\ u # Shell /\ state[u] # "none" /\ state[Shell] = "RUNNING"
          /\ stack[u][1].elr = Home(u) /\ stack[u][1].call = "trap"
          /\ stack[u][1].spsr = SpsrAt(Home(u), u)
  BY InCall DEF Fork
<1>2. /\ state[t] = "none" /\ t # u /\ t # Shell
      /\ UNCHANGED <<sp, tpidr, events, el, irqs>>
      /\ state' = [state EXCEPT ![t] = "RUNNING"] /\ pc' = Point("load")
  BY <1>1 DEF Fork, Goto, regs
<1>3. /\ \A v \in Tasks \ {t} : context'[v] = context[v]
      /\ context'[t].lr = "load" /\ context'[t].sp[1] = t /\ context'[t].sp[2] = 1
  BY DEF Fork, Sizes, ChildSp
<1>4. /\ \A v \in Tasks \ {t} : stack'[v] = stack[v]
      /\ stack'[t][1].elr = Home(t) /\ stack'[t][1].call = "trap"
      /\ stack'[t][1].spsr = SpsrAt(Home(u), u)
  <2>1. PICK S : Memory(S)
    BY DEF Typed
  <2>2. stack' = [stack EXCEPT ![t][1] = [stack[u][1] EXCEPT !.elr = Home(t)]]
    BY <1>1 DEF Fork, Here
  <2>3. PICK f : f = [stack[u][1] EXCEPT !.elr = Home(t)]
    OBVIOUS
  <2>4. stack[u][1] \in [elr : S, spsr : Spsrs, call : {"none", "irq", "trap"}] /\ 1 \in 1 .. MaxFrames
    BY <2>1, ExceptionsAssumption DEF Memory
  <2>5. f.elr = Home(t) /\ f.call = "trap" /\ f.spsr = SpsrAt(Home(u), u)
    BY <1>1, <2>3, <2>4
  <2>6. stack'[t][1] = f /\ \A v \in Tasks \ {t} : stack'[v] = stack[v]
    BY <2>1, <2>2, <2>3, <2>4 DEF Memory
  <2>. QED
    BY <2>5, <2>6
<1>5. Waiting(t)'
  <2>1. SpsrAt(Home(u), u) = SpsrAt(Home(t), t)
    BY <1>1, <1>2 DEF SpsrAt, LevelAt, Level, Home
  <2>2. FrameSound(stack[t][1], t, t, 0)'
    BY <1>4, <2>1 DEF FrameSound, ComesBack, GoesOn, Undisturbed, InSchedule, Home
  <2>3. FramesSound(t, t, 1)'
    BY <2>2 DEF FramesSound
  <2>. QED
    BY <1>3, <2>3 DEF Waiting
<1>6. PointSound(u, u, 1)'
  <2>1. GoesOn(pc, u, u, 1)'
    BY <1>2 DEF GoesOn, Base
  <2>. QED
    BY <1>1, <1>2, <2>1 DEF PointSound, LevelAt, At, Undisturbed, InSchedule, Point
<1>. QED
  BY <1>1, <1>2, <1>3, <1>4, <1>5, <1>6, NewTaskSound

LEMMA ForkDemoSound ==
    ASSUME Typed, Sizes, Sound, NEW t \in Tasks, ForkDemo(t)
    PROVE  Sound'
<1>1. PICK u \in Tasks, s \in Tasks, d \in Nat :
          /\ Here(u, s, d) /\ PointSound(u, s, d) /\ FramesSound(u, s, d)
          /\ state[u] # "none" /\ state[Shell] = "RUNNING"
  BY HereIs DEF Sound, CurrentSound, Here
<1>2. pc = Home(u) /\ s = u /\ d = 0 /\ u = Shell
  BY <1>1, PointsOfCode DEF ForkDemo, At, Home
<1>3. /\ state[t] = "none" /\ t # Shell /\ t # u
      /\ state' = [state EXCEPT ![t] = "RUNNING"]
      /\ UNCHANGED <<pc, el, irqs, elr, spsr, sp, tpidr, stack, events>>
  BY <1>1 DEF ForkDemo, core, regs
<1>4. /\ \A v \in Tasks \ {t} : context'[v] = context[v]
      /\ context'[t].lr = "enter" /\ context'[t].sp[1] = t /\ context'[t].sp[2] = 0
  BY DEF ForkDemo, Sizes
<1>5. Waiting(t)'
  BY <1>3, <1>4 DEF Waiting, FramesSound
<1>6. PointSound(u, u, 0)'
  <2>1. GoesOn(pc, u, u, 0)'
    BY <1>2, <1>3 DEF GoesOn
  <2>. QED
    BY <1>1, <1>2, <1>3, <2>1 DEF PointSound, LevelAt, At, Undisturbed, InSchedule, Home
<1>. QED
  BY <1>1, <1>2, <1>3, <1>4, <1>5, <1>6, NewTaskSound

-----------------------------------------------------------------------------
IInv == Typed /\ LeadsHome

LEMMA InitHolds == Init => IInv
<1>. SUFFICES ASSUME Init PROVE LeadsHome
  BY InitTyped DEF IInv
<1>1. OthersWait /\ OnOwnStack
  BY DEF Init, OthersWait, OnOwnStack
<1>2. FramesSound(tpidr, sp[1], sp[2])
  BY DEF Init, FramesSound
<1>3. PointSound(Shell, Shell, 0)
  BY DEF Init, PointSound, GoesOn, LevelAt, Level, At, Undisturbed, InSchedule, Home
<1>4. tpidr = Shell /\ sp[1] = Shell /\ sp[2] = 0 /\ state[Shell] = "RUNNING"
  BY ExceptionsAssumption DEF Init
<1>. QED
  BY <1>1, <1>2, <1>3, <1>4 DEF LeadsHome, Sound, CurrentSound

LEMMA EventsStay == ASSUME Next, ~ Cut' PROVE ~ Cut /\ events \subseteq events'
<1>1. events \subseteq events'
  BY DEF Next, Irq, Svc, Fault, Stop, Fork, ForkDemo, Schedule, TrapReturn, SwitchTo, Save, Restore,
         MovSp, MsrTpidr, Tail, LoadAll, Load, MsrSpsr, MsrElr, Rest, Eret, EnterElr, EnterSpsr, Happens
<1>. QED
  BY <1>1 DEF Cut

LEMMA NextHolds == ASSUME IInv, Next PROVE IInv'
<1>1. Typed'
  BY NextTyped DEF IInv
<1>2. ASSUME ~ Cut' PROVE Sound'
  <2>1. Typed /\ Sizes /\ Sound
    BY <1>2, EventsStay, TypedSizes DEF IInv, LeadsHome
  <2>2. ASSUME NEW t \in Tasks,
               Svc(t) \/ Fault(t) \/ Stop(t) \/ Fork(t) \/ ForkDemo(t) \/ Schedule(t)
        PROVE  Sound'
    BY <2>1, <2>2, SvcSound, FaultSound, StopSound, ForkSound, ForkDemoSound, ScheduleSound
  <2>3. CASE Irq
    BY <1>2, <2>1, <2>3, IrqSound
  <2>4. CASE SwitchTo
    BY <1>2, <2>1, <2>4, SaveSound, RestoreSound, MovSpSound, MsrTpidrSound DEF SwitchTo
  <2>5. CASE LoadAll
    BY <2>1, <2>5, LoadSound, RestSound, EretSound DEF LoadAll
  <2>6. CASE TrapReturn \/ Tail \/ EnterElr \/ EnterSpsr
    BY <2>1, <2>6, TailSound, EnterProgramSound
  <2>. QED
    BY <2>2, <2>3, <2>4, <2>5, <2>6 DEF Next
<1>. QED
  BY <1>1, <1>2 DEF IInv, LeadsHome

LEMMA StutterHolds == ASSUME IInv, UNCHANGED vars PROVE IInv'
<1>1. Typed'
  BY Stutters DEF IInv
<1>. USE DEF vars, core, regs
<1>2. \A u, s : Base(u, s)' = Base(u, s)
  BY DEF Base
<1>3. \A p, u, s, d : ComesBack(p, u, s, d)' <=> ComesBack(p, u, s, d)
  BY <1>2 DEF ComesBack, GoesOn, Switches, Chosen, Resumed
<1>4. \A u, s, d : FramesSound(u, s, d)' <=> FramesSound(u, s, d)
  BY <1>2, <1>3 DEF FramesSound, FrameSound, Undisturbed
<1>5. \A t : Waiting(t)' <=> Waiting(t)
  BY <1>4 DEF Waiting
<1>6. \A u, s, d : PointSound(u, s, d)' <=> PointSound(u, s, d)
  <2>1. \A u, s, d : (GoesOn(pc, u, s, d)' <=> GoesOn(pc, u, s, d))
                 /\ (Switches(pc, u, s, d)' <=> Switches(pc, u, s, d))
    BY <1>2 DEF GoesOn, Switches, Chosen, Resumed
  <2>2. \A u, s, d : Leaves(u, s, d)' <=> Leaves(u, s, d)
    BY <1>2, <1>3 DEF Leaves, Undisturbed
  <2>. QED
    BY <1>5, <2>1, <2>2 DEF PointSound, Undisturbed, At
<1>7. LeadsHome'
  BY <1>4, <1>5, <1>6 DEF IInv, LeadsHome, Cut, Sound, OthersWait, OnOwnStack, CurrentSound, At
<1>. QED
  BY <1>1, <1>7 DEF IInv

(* The invariant: as long as nothing of Cut has happened every task is at  *)
(* a point from which the frames below bring it home.                      *)
THEOREM Inductive == Spec => []IInv
<1>1. Init => IInv
  BY InitHolds
<1>2. IInv /\ [Next]_vars => IInv'
  BY NextHolds, StutterHolds
<1>. QED
  BY <1>1, <1>2, PTL DEF Spec

-----------------------------------------------------------------------------
LEMMA HomeIsHome == ASSUME IInv PROVE ComesHome
<1>. SUFFICES ASSUME ~ Cut
              PROVE  /\ ~ At("wild")
                     /\ At("home") => pc.of = tpidr /\ sp = <<tpidr, 0>> /\ el = Level(tpidr) /\ irqs
  BY DEF ComesHome
<1>1. Sizes /\ Sound
  BY TypedSizes DEF IInv, LeadsHome
<1>2. PICK u \in Tasks, s \in Tasks, d \in Nat : Here(u, s, d) /\ PointSound(u, s, d)
  BY <1>1, HereIs
<1>3. pc.at # "wild"
  BY <1>1, <1>2, PointsOfCode DEF Points
<1>4. At("home") => pc = Home(u) /\ s = u /\ d = 0 /\ el = Level(u) /\ irqs
  BY <1>1, <1>2, PointsOfCode
<1>5. sp = <<s, d>>
  BY <1>1, <1>2 DEF Sizes, Places, Here
<1>. QED
  BY <1>2, <1>3, <1>4, <1>5 DEF At, Home, Here

(* A program goes on where it was, as the task it is, whatever lies in     *)
(* between, for any number of tasks.                                       *)
THEOREM AlwaysComesHome == Spec => []ComesHome
<1>1. IInv => ComesHome
  BY HomeIsHome
<1>. QED
  BY <1>1, Inductive, PTL

LEMMA TypesAreOK == ASSUME Typed PROVE TypeOK
<1>1. PICK S : Closed(S) /\ Registers(S) /\ Memory(S)
  BY DEF Typed
<1>2. pc.at \in Points /\ elr.at \in Points
  BY <1>1, PointKinds DEF Registers
<1>. QED
  BY <1>1, <1>2 DEF TypeOK, Registers, Memory, Places

LEMMA WaitingIsSound == ASSUME IInv PROVE WaitingLeadHome
<1>. SUFFICES ASSUME ~ Cut, NEW t \in Tasks \ {tpidr}, state[t] = "RUNNING"
              PROVE  context[t].sp[1] = t /\ LeadHome(t, context[t].sp[2])
  BY DEF WaitingLeadHome
<1>1. Sizes /\ Waiting(t)
  BY TypedSizes DEF IInv, LeadsHome, Sound, OthersWait
<1>2. ASSUME NEW i \in 1 .. context[t].sp[2]
      PROVE  IF i = 1 THEN stack[t][i].elr \in {Home(t), Point("enter")}
             ELSE stack[t][i].elr.at \notin {"home", "enter", "wild"}
  <2>1. i \in Nat \ {0}
    BY <1>1 DEF Sizes
  <2>2. PICK p : p = stack[t][i].elr
    OBVIOUS
  <2>3. GoesOn(p, t, t, i - 1)
    BY <1>1, <2>1, <2>2 DEF Waiting, FramesSound, FrameSound, ComesBack, Base
  <2>4. CASE i = 1
    BY <2>2, <2>3, <2>4 DEF GoesOn, Base
  <2>5. CASE i # 1
    <3>1. i - 1 # 0
      BY <2>1, <2>5
    <3>2. p.at \in {"schedule", "tail", "load", "trap", "spsr", "save"}
      BY <2>3, <3>1 DEF GoesOn, Point
    <3>. QED
      BY <2>2, <2>5, <3>2
  <2>. QED
    BY <2>4, <2>5
<1>. QED
  BY <1>1, <1>2 DEF Waiting, LeadHome

(* Every task that waits for its turn has a context on its own stack, and  *)
(* all of its frames lead home, for any number of tasks and frames.        *)
THEOREM StacksAlwaysSound == Spec => []StacksSound
<1>1. IInv => StacksSound
  BY TypesAreOK, WaitingIsSound DEF IInv, StacksSound
<1>. QED
  BY <1>1, Inductive, PTL

(* irq_handler ends with interrupts disabled until a system call has       *)
(* called schedule.                                                        *)
THEOREM HandlerNeverDisturbed == Spec => []HandlerUndisturbed
<1>1. IInv => HandlerUndisturbed
  BY DEF IInv, LeadsHome, HandlerUndisturbed, Sound, CurrentSound, PointSound, Undisturbed,
         InSchedule, At, Typed, Registers
<1>. QED
  BY <1>1, Inductive, PTL

-----------------------------------------------------------------------------
FramesStay ==
    ~ Cut' => \A t \in Tasks \ {tpidr} : state[t] # "none" =>
        \A i \in 1 .. context[t].sp[2] : stack'[t][i] = stack[t][i]

\* A processor that is on the stack of another task is above its frames.
LEMMA AboveTheFrames ==
    ASSUME Sizes, Sound
    PROVE  \E s \in Tasks, d \in Nat :
              /\ sp[1] = s /\ sp[2] = d /\ d <= MaxFrames
              /\ s # tpidr => /\ context[s].sp[2] <= d
                              /\ At("rest") => context[s].sp[2] < d
<1>1. PICK u \in Tasks, s \in Tasks, d \in Nat : Here(u, s, d) /\ PointSound(u, s, d) /\ d <= MaxFrames
  BY HereIs
<1>2. d >= Base(u, s) /\ (At("rest") => d > Base(u, s))
  BY <1>1, PointsOfCode DEF At
<1>. QED
  BY <1>1, <1>2 DEF Base, Here, Sizes

LEMMA StepKeepsFrames == ASSUME IInv, Next PROVE FramesStay
<1>. SUFFICES ASSUME ~ Cut', NEW t \in Tasks \ {tpidr}, state[t] # "none",
                     NEW i \in 1 .. context[t].sp[2]
              PROVE  stack'[t][i] = stack[t][i]
  BY DEF FramesStay
<1>1. Sizes /\ Sound
  BY EventsStay, TypedSizes DEF IInv, LeadsHome
<1>2. PICK S : Memory(S)
  BY DEF IInv, Typed
<1>3. PICK s \in Tasks, d \in Nat :
          /\ sp[1] = s /\ sp[2] = d /\ d <= MaxFrames
          /\ s # tpidr => /\ context[s].sp[2] <= d
                          /\ At("rest") => context[s].sp[2] < d
  BY <1>1, AboveTheFrames
<1>4. i \in 1 .. MaxFrames /\ (t = s => i <= d)
  <2>1. PICK c \in Nat : c = context[t].sp[2] /\ c <= MaxFrames
    BY <1>1 DEF Sizes
  <2>2. t = s => c <= d
    BY <1>3, <2>1
  <2>. QED
    BY <1>3, <2>1, <2>2, ExceptionsAssumption
<1>5. ASSUME NEW call, Enter(call) PROVE stack'[t][i] = stack[t][i]
  <2>1. PICK f : stack' = [stack EXCEPT ![s][d + 1] = f]
    BY <1>3, <1>5 DEF Enter
  <2>2. t = s => i # d + 1
    BY <1>3, <1>4
  <2>. QED
    BY <1>2, <1>4, <2>1, <2>2 DEF Memory
<1>6. CASE Rest
  <2>1. At("rest")
    BY <1>6 DEF Rest
  <2>2. t = s => i # d
    BY <1>1, <1>3, <2>1 DEF Sizes
  <2>3. CASE stack' = [stack EXCEPT ![s][d] = NoFrame]
    BY <1>2, <1>4, <2>2, <2>3 DEF Memory
  <2>. QED
    BY <1>3, <1>6, <2>3 DEF Rest
<1>7. ASSUME NEW v \in Tasks, Fork(v) PROVE stack'[t][i] = stack[t][i]
  BY <1>2, <1>7 DEF Fork, Memory
<1>8. CASE UNCHANGED stack
  BY <1>8
<1>9. ASSUME NEW v \in Tasks, Svc(v) \/ Fault(v) \/ Stop(v) \/ ForkDemo(v) \/ Schedule(v)
      PROVE  stack'[t][i] = stack[t][i]
  BY <1>5, <1>8, <1>9 DEF Svc, Fault, Stop, ForkDemo, Schedule
<1>10. CASE Irq
  BY <1>5, <1>10 DEF Irq
<1>11. CASE TrapReturn \/ SwitchTo \/ Tail \/ Load \/ MsrSpsr \/ MsrElr \/ Eret \/ EnterElr \/ EnterSpsr
  BY <1>8, <1>11 DEF TrapReturn, SwitchTo, Save, Restore, MovSp, MsrTpidr, Tail, Load, MsrSpsr, MsrElr,
                     Eret, EnterElr, EnterSpsr
<1>. QED
  BY <1>6, <1>7, <1>9, <1>10, <1>11 DEF Next, LoadAll

(* The frames a task has when it is switched out are the ones it finds     *)
(* when it goes on, whoever runs in between.                               *)
THEOREM FramesAlwaysUntouched == Spec => FramesUntouched
<1>1. IInv /\ [Next]_vars => [FramesStay]_vars
  BY StepKeepsFrames
<1>. QED
  BY <1>1, Inductive, PTL DEF Spec, FramesUntouched, FramesStay
=============================================================================
