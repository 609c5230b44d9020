-------------------------------- MODULE Boot --------------------------------
(***************************************************************************)
(* From kernel_boot to the main loop (kernel.c), with the services that    *)
(* are registered and started on the way (service.c), the interrupts that  *)
(* are let in while it is still going on (interrupts.c), the keyboard's    *)
(* and the clock's handlers (keyboard_ps2.c, rtc.c), and the terminal that *)
(* all of them write to.                                                   *)
(*                                                                         *)
(* What is done before the services is over in the initial state:          *)
(* interrupts are off, so nothing can come between.  A handler runs to its *)
(* end, except the clock's: rtc_get_reg turns interrupts on in it.  Other  *)
(* threads run once the task manager has been started, and may then take   *)
(* the processor at any step, also from a thread in the clock's handler.   *)
(* Their scheduling is Scheduler.tla's subject.                            *)
(***************************************************************************)
EXTENDS Terminal, Sequences

CONSTANTS
  KERNEL,     \* the thread the boot runs on
  NONE,
  RTC_INIT,   \* the caller of rtc_read that is not the clock's handler
  Slots,      \* services_list has the slots 1 .. Slots: 512
  Registers,  \* the clock's registers in the order rtc_read reads them
  STATUS_C,   \* the one its handler reads last
  HALF,       \* rtc_freq / 2
  QUEUE       \* bound: scancodes waiting in the keyboard's controller

Service == {"VESA", "Terminal", "ATA", "PS2Keyboard", "CommandLine"}

ASSUME BootAssumption ==
  /\ KERNEL \in Thread /\ RTC_INIT \notin Thread
  /\ NONE \notin Service
  /\ Slots \in Nat /\ HALF \in Nat \ {0} /\ QUEUE \in Nat
  /\ Registers \in Seq(STRING) \ {<<>>}
  /\ \A i \in DOMAIN Registers : Registers[i] \notin {STATUS_C, NONE}

VARIABLES
  stage,        \* what the boot does next
  interrupts,   \* the processor's interrupt flag
  panicked,
  services,     \* services_list
  initialized, started,  \* the services with these flags
  handlers,     \* the interrupts with an entry in isr_handlers
  stream,       \* kbps2_stream.data is not NULL
  ready,        \* taskmgr_ready
  waiting,      \* scancodes in the keyboard's controller
  irq1,         \* the interrupt controller has a keyboard interrupt to deliver
  periodic,     \* the clock sends interrupts
  inService,    \* the clock's interrupt has not been ended yet
  selected,     \* the register the clock's index port designates
  reading,      \* by caller of rtc_read, the number of the register it is at (0: none)
  chosen,       \* the callers that have selected that register and not read it yet
  rtcTime,      \* rtc_time: for each field, the register its value came from
  rtcTick,      \* rtc_tick
  early,        \* ghost: a key was pressed before the command line was there
  cut,          \* ghost: the clock's interrupt came after rtc_init's last selection
  spoilt        \* ghost: the fields read across such an interrupt

serviceVars == <<services, initialized, started>>
kbVars == <<waiting, irq1, early>>
rtcVars == <<periodic, inService, selected, reading, chosen, rtcTime, rtcTick, cut, spoilt>>
bootVars == <<stage, interrupts, panicked, serviceVars, handlers, stream, ready>>
vars == <<bootVars, kbVars, rtcVars, termVars>>

Reader == Thread \cup {RTC_INIT}
Field == {Registers[i] : i \in DOMAIN Registers}

Init ==
  /\ stage = "vesa" /\ interrupts = FALSE /\ panicked = FALSE
  /\ services = [i \in 1 .. Slots |-> NONE]         \* service_initmgr
  /\ initialized = {} /\ started = {}
  /\ handlers = {}                                  \* isr_init
  /\ stream = FALSE /\ ready = FALSE
  /\ waiting = 0 /\ irq1 = FALSE
  /\ periodic = FALSE /\ inService = FALSE /\ selected = NONE
  /\ reading = [r \in Reader |-> 0] /\ chosen = {}
  /\ rtcTime = [f \in Field |-> NONE] /\ rtcTick = 0
  /\ early = FALSE /\ cut = FALSE /\ spoilt = {}
  /\ TermInit

-----------------------------------------------------------------------------
(* The clock's registers.                                                  *)

\* rtc_get_reg selects with interrupts off, and turns them on again before it reads.
Select(r) ==
  /\ reading[r] \in DOMAIN Registers /\ r \notin chosen
  /\ selected' = Registers[reading[r]]
  /\ chosen' = chosen \cup {r}
  /\ cut' = IF r = RTC_INIT THEN FALSE ELSE cut
  /\ UNCHANGED <<periodic, inService, reading, rtcTime, rtcTick, spoilt>>

Read(r) ==
  LET field == Registers[reading[r]]
  IN  /\ r \in chosen
      /\ rtcTime' = [rtcTime EXCEPT ![field] = selected]
      /\ reading' = [reading EXCEPT ![r] = @ + 1]
      /\ chosen' = chosen \ {r}
      /\ spoilt' = IF r = RTC_INIT /\ cut THEN spoilt \cup {field} ELSE spoilt \ {field}
      /\ UNCHANGED <<periodic, inService, selected, rtcTick, cut>>

AllRead(r) == reading[r] = Len(Registers) + 1

\* rtc_callback; every HALF-th time rtc_update reads the clock, and the first register is
\* selected before interrupts are on.  irq_handler ends the interrupt after the handler has
\* returned, and it does not come again before.
Tick(t) ==
  /\ rtcTick' = rtcTick + 1
  /\ cut' = TRUE
  /\ IF rtcTick + 1 >= HALF
       THEN /\ reading' = [reading EXCEPT ![t] = 1]
            /\ chosen' = chosen \cup {t} /\ selected' = Registers[1]
            /\ inService' = TRUE
       ELSE /\ selected' = STATUS_C
            /\ UNCHANGED <<reading, chosen, inService>>
  /\ UNCHANGED <<periodic, rtcTime, spoilt>>

TickEnds(t) ==
  /\ AllRead(t)
  /\ reading' = [reading EXCEPT ![t] = 0]
  /\ rtcTick' = 0
  /\ selected' = STATUS_C
  /\ inService' = FALSE
  /\ UNCHANGED <<periodic, chosen, rtcTime, cut, spoilt>>

-----------------------------------------------------------------------------
(* The boot, on the kernel thread.                                         *)

\* A thread that is not in the clock's handler.
Proceeds(t) == ~panicked /\ reading[t] = 0

Stage(from, to) ==
  /\ Proceeds(KERNEL) /\ call[KERNEL] = "none"
  /\ stage = from /\ stage' = to

RegisteredBelow(s) == \E i \in DOMAIN services : i < Slots /\ services[i] = s

Registered(s) == \E i \in DOMAIN services : services[i] = s

Free == {i \in DOMAIN services : services[i] = NONE}

\* service_create, service_register, and the flag its caller sets.
Attach(s, from, to) ==
  /\ Stage(from, to)
  /\ IF Free = {}
       THEN panicked' = TRUE /\ UNCHANGED <<services, initialized>>
       ELSE /\ \E i \in Free : /\ \A j \in Free : i <= j
                               /\ services' = [services EXCEPT ![i] = s]
            /\ initialized' = initialized \cup {s}
            /\ UNCHANGED panicked
  /\ UNCHANGED <<interrupts, started, handlers, stream, ready, kbVars, rtcVars, termVars>>

\* service_start, with what the service's m_start adds to isr_handlers.  A service that is
\* started already is left alone.
Launch(s, from, to, irqs) ==
  /\ Stage(from, to)
  /\ IF Registered(s) /\ s \in initialized
       THEN /\ started' = started \cup {s}
            /\ handlers' = IF s \in started THEN handlers ELSE handlers \cup irqs
            /\ UNCHANGED panicked
       ELSE panicked' = TRUE /\ UNCHANGED <<started, handlers>>
  /\ UNCHANGED <<services, initialized, ready, kbVars, rtcVars, termVars>>

VesaIdentify ==
  \/ Attach("VESA", "vesa", "vesaStart")
  \/ Launch("VESA", "vesaStart", "terminal", {}) /\ UNCHANGED <<interrupts, stream>>

TermService ==
  \/ Attach("Terminal", "terminal", "terminalStart")
  \/ Launch("Terminal", "terminalStart", "ata", {}) /\ UNCHANGED <<interrupts, stream>>

\* atapio_identify turns interrupts on when it finds no hard disk.
AtaInit ==
  \/ Attach("ATA", "ata", "ataStart")
  \/ /\ Launch("ATA", "ataStart", "rtc", {"IRQ14"})
     /\ interrupts' \in {interrupts, TRUE} /\ UNCHANGED stream

RtcInit ==
  /\ Stage("rtc", "read")
  /\ interrupts' = TRUE
  /\ handlers' = handlers \cup {"IRQ8"}
  /\ periodic' = TRUE /\ selected' = STATUS_C /\ rtcTick' = 0
  /\ reading' = [reading EXCEPT ![RTC_INIT] = 1]
  /\ rtcTime' = [f \in Field |-> NONE]
  /\ UNCHANGED <<panicked, serviceVars, stream, ready, inService, chosen, cut, spoilt>>
  /\ UNCHANGED <<kbVars, termVars>>

RtcRead ==
  /\ stage = "read" /\ Proceeds(KERNEL)
  /\ Select(RTC_INIT) \/ Read(RTC_INIT)
  /\ UNCHANGED <<bootVars, kbVars, termVars>>

\* pit_init, then kernel_before_run up to the idle thread, from its cli() on.
BeforeRun ==
  /\ Stage("read", "idle")
  /\ AllRead(RTC_INIT) /\ reading' = [reading EXCEPT ![RTC_INIT] = 0]
  /\ interrupts' = FALSE
  /\ UNCHANGED <<panicked, serviceVars, handlers, stream, ready, kbVars, termVars>>
  /\ UNCHANGED <<periodic, inService, selected, chosen, rtcTime, rtcTick, cut, spoilt>>

\* taskmgr_ready_thread of the idle thread ends with sti().
IdleReady ==
  /\ Stage("idle", "keyboard")
  /\ interrupts' = TRUE
  /\ UNCHANGED <<panicked, serviceVars, handlers, stream, ready, kbVars, rtcVars, termVars>>

KeyboardInit ==
  \/ Attach("PS2Keyboard", "keyboard", "keyboardStart")
  \/ /\ Launch("PS2Keyboard", "keyboardStart", "cli", {"IRQ1"})
     /\ stream' = FALSE /\ UNCHANGED interrupts

CliInit ==
  \/ Attach("CommandLine", "cli", "cliStart")
  \/ /\ Launch("CommandLine", "cliStart", "caret", {})
     /\ stream' = TRUE /\ UNCHANGED interrupts

\* procmgr_init, taskmgr_start and sti, after cli_print_caret.
TasksStart ==
  /\ Stage("caret", "run")
  /\ ready' = TRUE /\ interrupts' = TRUE
  /\ UNCHANGED <<panicked, serviceVars, handlers, stream, kbVars, rtcVars, termVars>>

BootStep ==
  \/ VesaIdentify \/ TermService \/ AtaInit \/ RtcInit \/ RtcRead \/ BeforeRun \/ IdleReady
  \/ KeyboardInit \/ CliInit \/ TasksStart

-----------------------------------------------------------------------------
(* The threads.                                                            *)

Runs(t) == ~panicked /\ (t = KERNEL \/ ready)

\* atapio_identify's messages, cli_print_caret, and what commands and programs print.
Writes(t) ==
  /\ Runs(t) /\ Proceeds(t)
  /\ "Terminal" \in started
  /\ \/ Calls(t) /\ (t = KERNEL => stage \in {"ataStart", "caret", "run"})
     \/ Continues(t)
  /\ UNCHANGED <<bootVars, kbVars, rtcVars>>

\* A thread in the clock's handler goes on with it.
Clock(t) ==
  /\ Runs(t) /\ reading[t] > 0
  /\ Select(t) \/ Read(t) \/ TickEnds(t)
  /\ UNCHANGED <<bootVars, kbVars, termVars>>

-----------------------------------------------------------------------------
(* The interrupts.                                                         *)

KeyPressed ==
  /\ waiting < QUEUE /\ ~panicked
  /\ waiting' = waiting + 1
  /\ irq1' = (irq1 \/ waiting = 0)
  /\ early' = (early \/ stage \notin {"caret", "run"})
  /\ UNCHANGED <<bootVars, rtcVars, termVars>>

\* irq_handler and kbps2_callback.  A scancode that is not read stays in the controller, which
\* asks for no further interrupt until it is.
KeyInterrupt ==
  /\ irq1 /\ interrupts /\ ~panicked
  /\ IF "IRQ1" \in handlers
       THEN waiting' = waiting - 1 /\ irq1' = (waiting > 1)
       ELSE irq1' = FALSE /\ UNCHANGED waiting
  /\ panicked' = ("IRQ1" \in handlers /\ ~stream)        \* kbps2_handle_char
  /\ \/ UNCHANGED termVars
     \/ stream /\ (Echo \/ Erase)
  /\ UNCHANGED <<stage, interrupts, serviceVars, handlers, stream, ready, early, rtcVars>>

\* An interrupt is withheld until its predecessor has been ended.
EndedAtOnce == TRUE
Ended == ~inService

ClockInterrupt(t) ==
  /\ periodic /\ Ended /\ interrupts /\ Runs(t) /\ reading[t] = 0
  /\ Tick(t)
  /\ UNCHANGED <<bootVars, kbVars, termVars>>

\* pit_handler once the task manager has been started: taskmgr_schedule reports an ended
\* thread.  (That it goes on with another thread is the interleaving of the threads.)
TimerInterrupt ==
  /\ ready /\ interrupts /\ ~panicked
  /\ Echo \/ LineFeed
  /\ UNCHANGED <<bootVars, kbVars, rtcVars>>

Next ==
  \/ BootStep
  \/ \E t \in Thread : Writes(t) \/ Clock(t) \/ ClockInterrupt(t)
  \/ KeyPressed \/ KeyInterrupt \/ TimerInterrupt

Spec == Init /\ [][Next]_vars

-----------------------------------------------------------------------------
(* Properties.                                                             *)

\* The keyboard has a scancode to hand over and will never say so again.
Deaf == waiting > 0 /\ ~irq1

\* Whoever leaves the keyboard alone until the command line is there boots without a panic and
\* has a keyboard that answers from then on: the services start in an order in which each is
\* registered and initialized first, and no interrupt finds one half started.  (A key pressed
\* earlier may do both: kernel.c:87 turns interrupts on before kbps2_init and cli_init.)
KeyboardAnswers == panicked \/ Deaf => early

\* The clock's handler always stores in a field of rtc_time the value of that field's register,
\* although rtc_get_reg lets interrupts in between its selection and its reading and the thread
\* may even lose the processor there; only rtc_init's own first reading can be cut into by the
\* clock's interrupt, and what that spoils the handler puts right.
ReadsOwnRegister ==
  \A f \in Field : rtcTime[f] \in {NONE, f} \/ f \in spoilt
=============================================================================
