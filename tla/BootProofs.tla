----------------------------- MODULE BootProofs -----------------------------
(***************************************************************************)
(* Theorems about the terminal (Terminal.tla) and the boot (Boot.tla).     *)
(***************************************************************************)
EXTENDS Boot, TLAPS

-----------------------------------------------------------------------------
(* The cursor.                                                             *)

CallState ==
  {"none", "advance", "wrap", "newline", "home", "down", "bottom", "scroll", "last", "place"}

TermTypeOK ==
  /\ cx \in Nat /\ cy \in Nat
  /\ call \in [Thread -> CallState]
  /\ reg \in [Thread -> Nat]

\* What a thread that has called term_set_cursor is about to store is a row of the screen.
PlacesOnScreen == \A t \in Thread : call[t] = "place" => reg[t] \in Row

\* A cursor off the screen has a thread that has yet to look at it, or is about to replace it.
OffRightSeen ==
  cx \in Column \/ \E t \in Thread : call[t] \in {"wrap", "newline", "home"}

OffBottomSeen ==
  cy \in Row \/ \E t \in Thread : call[t] \in {"bottom", "scroll", "last"}

TermInv == TermTypeOK /\ PlacesOnScreen /\ OffRightSeen /\ OffBottomSeen

LEMMA ScreenFacts == WIDTH \in Nat \ {0} /\ HEIGHT \in Nat \ {0}
  BY TerminalAssumption

LEMMA TermInitInv == TermInit => TermInv
  BY ScreenFacts DEF TermInit, TermInv, TermTypeOK, PlacesOnScreen, OffRightSeen, OffBottomSeen, CallState,
         Column, Row

\* A step of a thread keeps the invariant.
LEMMA ThreadKeeps ==
  ASSUME TermInv, NEW t \in Thread, Calls(t) \/ Continues(t)
  PROVE  TermInv'
<1> USE ScreenFacts DEF TermInv, TermTypeOK, PlacesOnScreen, OffRightSeen, OffBottomSeen, CallState, Column,
            Row, Goes, Keeps
<1>1. CASE WriteChar(t)  BY <1>1 DEF WriteChar
<1>2. CASE Advance(t)    BY <1>2 DEF Advance
<1>3. CASE Wrap(t)       BY <1>3 DEF Wrap
<1>4. CASE NewLine(t)    BY <1>4 DEF NewLine
<1>5. CASE Home(t)       BY <1>5 DEF Home
<1>6. CASE Down(t)       BY <1>6 DEF Down
<1>7. CASE Bottom(t)     BY <1>7 DEF Bottom, BelowScreen
<1>8. CASE Scroll(t)     BY <1>8 DEF Scroll
<1>9. CASE LastRow(t)    BY <1>9 DEF LastRow
<1>10. CASE SetCursor(t) BY <1>10 DEF SetCursor
<1>11. CASE Place(t)     BY <1>11 DEF Place
<1>12. CASE SetColumn(t) BY <1>12 DEF SetColumn
<1> QED BY <1>1, <1>2, <1>3, <1>4, <1>5, <1>6, <1>7, <1>8, <1>9, <1>10, <1>11, <1>12
        DEF Calls, Continues

\* So does what an interrupt handler writes or erases.
LEMMA HandlerKeeps ==
  ASSUME TermInv, Echo \/ LineFeed \/ Erase
  PROVE  TermInv'
  BY ScreenFacts DEF TermInv, TermTypeOK, PlacesOnScreen, OffRightSeen, OffBottomSeen, CallState, Column, Row,
         Echo, LineFeed, Erase, Below

LEMMA TermStutter == TermInv /\ UNCHANGED termVars => TermInv'
  BY DEF TermInv, TermTypeOK, PlacesOnScreen, OffRightSeen, OffBottomSeen, termVars, Column, Row

LEMMA TermInvOnScreen == TermInv => CursorOnScreen
  BY DEF TermInv, TermTypeOK, OffRightSeen, OffBottomSeen, CursorOnScreen, Column, Row

\* The terminal alone, with any number of threads and with handlers that write whenever they
\* like: when nobody is inside terminal.c the cursor is on the screen.
THEOREM TerminalCursorOnScreen == TermSpec => []CursorOnScreen
<1>1. TermInv /\ [TermNext]_termVars => TermInv'
  BY ThreadKeeps, HandlerKeeps, TermStutter DEF TermNext
<1> QED BY <1>1, TermInitInv, TermInvOnScreen, PTL DEF TermSpec

-----------------------------------------------------------------------------
(* The boot writes through the same functions.                             *)

\* Every step of the system is a step of the terminal or leaves it alone.
LEMMA BootUsesTerminal ==
  ASSUME [Next]_vars
  PROVE  [TermNext]_termVars
<1>1. CASE BootStep
  BY <1>1 DEF BootStep, VesaIdentify, TermService, AtaInit, RtcInit, RtcRead, BeforeRun, IdleReady,
     KeyboardInit, CliInit, TasksStart, Attach, Launch
<1>2. ASSUME NEW t \in Thread, Writes(t)
      PROVE  TermNext
  BY <1>2 DEF Writes, TermNext
<1>3. ASSUME NEW t \in Thread, Clock(t) \/ ClockInterrupt(t)
      PROVE  UNCHANGED termVars
  BY <1>3 DEF Clock, ClockInterrupt
<1>4. CASE KeyPressed
  BY <1>4 DEF KeyPressed
<1>5. CASE KeyInterrupt
  BY <1>5 DEF KeyInterrupt, TermNext
<1>6. CASE TimerInterrupt
  BY <1>6 DEF TimerInterrupt, TermNext
<1>7. CASE UNCHANGED vars
  BY <1>7 DEF vars
<1> QED BY <1>1, <1>2, <1>3, <1>4, <1>5, <1>6, <1>7 DEF Next

\* The boot implements the terminal: the handlers and threads of the system, from the first
\* message on, do with the cursor only what the terminal's specification lets them do.
THEOREM BootImplementsTerminal == Spec => TermSpec
<1>1. Init => TermInit
  BY DEF Init
<1> QED BY <1>1, BootUsesTerminal, PTL DEF Spec, TermSpec

\* Hence the cursor is on the screen whenever no thread is inside terminal.c, for every size of
\* the screen and every set of threads.
THEOREM BootCursorOnScreen == Spec => []CursorOnScreen
  BY BootImplementsTerminal, TerminalCursorOnScreen
-----------------------------------------------------------------------------
(* The clock.                                                              *)

RtcTypeOK ==
  /\ reading \in [Reader -> 0 .. Len(Registers) + 1]
  /\ chosen \subseteq Reader
  /\ rtcTime \in [Field -> Field \cup {NONE, STATUS_C}]
  /\ selected \in Field \cup {NONE, STATUS_C}
  /\ spoilt \subseteq Field

\* The clock's interrupt is in service while a thread is in its handler, and only one is.
OneHandler ==
  \A t \in Thread : reading[t] > 0 => inService /\ \A u \in Thread : reading[u] > 0 => u = t

\* Before the task manager has been started that can only be the kernel thread.
KernelAlone ==
  /\ ready => stage = "run"
  /\ ~ready => \A t \in Thread \ {KERNEL} : reading[t] = 0

\* In the handler the selection stands until it is used.
Selection ==
  \A t \in Thread \cap chosen :
    reading[t] \in DOMAIN Registers /\ selected = Registers[reading[t]]

\* The selection of rtc_init stands unless the interrupt has come.
InitSelection ==
  RTC_INIT \in chosen =>
    /\ stage = "read" /\ reading[RTC_INIT] \in DOMAIN Registers
    /\ cut \/ (selected = Registers[reading[RTC_INIT]] /\ \A t \in Thread : reading[t] = 0)

RtcInv ==
  RtcTypeOK /\ OneHandler /\ KernelAlone /\ Selection /\ InitSelection /\ ReadsOwnRegister

LEMMA RegisterFacts ==
  /\ Len(Registers) \in Nat \ {0}
  /\ DOMAIN Registers = 1 .. Len(Registers) /\ 0 \notin DOMAIN Registers
  /\ \A i \in DOMAIN Registers : Registers[i] \in Field
  BY BootAssumption DEF Field

LEMMA ThreadFacts == KERNEL \in Thread /\ RTC_INIT \notin Thread
  BY BootAssumption

LEMMA RtcInitInv == Init => RtcInv
<1> SUFFICES ASSUME Init PROVE RtcInv
  OBVIOUS
<1> USE DEF Init
<1>1. RtcTypeOK
  BY RegisterFacts DEF RtcTypeOK
<1>2. OneHandler /\ KernelAlone
  BY DEF OneHandler, KernelAlone, Reader
<1>3. Selection /\ InitSelection
  BY DEF Selection, InitSelection
<1>4. ReadsOwnRegister
  BY DEF ReadsOwnRegister
<1> QED BY <1>1, <1>2, <1>3, <1>4 DEF RtcInv

\* What the invariant speaks of besides the clock's own variables.
LEMMA RtcStutter ==
  ASSUME RtcInv, UNCHANGED rtcVars, ready' = ready, ready => stage' = "run",
         stage = "read" => stage' = "read"
  PROVE  RtcInv'
  BY DEF RtcInv, RtcTypeOK, OneHandler, KernelAlone, Selection, InitSelection, ReadsOwnRegister,
         rtcVars, Reader

\* A thread in the handler goes on with it.
LEMMA HandlerReads ==
  ASSUME RtcInv, NEW t \in Thread, Clock(t)
  PROVE  RtcInv'
<1> USE RegisterFacts, ThreadFacts DEF RtcInv, Clock, bootVars
<1>1. reading[t] > 0 /\ inService /\ \A u \in Thread : reading[u] > 0 => u = t
  BY DEF OneHandler
<1>2. reading \in [Reader -> 0 .. Len(Registers) + 1] /\ t \in Reader /\ t # RTC_INIT
  BY DEF RtcTypeOK, Reader
<1>3. \A u \in Thread : u \in chosen => u = t
  BY <1>1, <1>2 DEF Selection, RtcTypeOK, Reader
<1>4. RTC_INIT \in chosen => cut
  BY <1>1, <1>2 DEF InitSelection
<1>5. CASE Select(t)
  <2>1. reading[t] \in DOMAIN Registers /\ selected' = Registers[reading[t]]
    BY <1>5 DEF Select
  <2>2. cut' = cut /\ chosen' = chosen \cup {t}
    BY <1>2, <1>5 DEF Select
  <2>3. RtcTypeOK'
    BY <1>2, <1>5, <2>1, <2>2 DEF Select, RtcTypeOK
  <2>4. OneHandler' /\ KernelAlone' /\ ReadsOwnRegister'
    BY <1>5 DEF Select, OneHandler, KernelAlone, ReadsOwnRegister
  <2>5. Selection'
    BY <1>3, <1>5, <2>1, <2>2 DEF Select, Selection
  <2>6. InitSelection'
    BY <1>2, <1>4, <1>5, <2>2 DEF Select, InitSelection
  <2> QED BY <2>3, <2>4, <2>5, <2>6
<1>6. CASE Read(t)
  <2>1. reading[t] \in DOMAIN Registers /\ selected = Registers[reading[t]]
    BY <1>6 DEF Read, Selection
  <2>2. reading' = [reading EXCEPT ![t] = reading[t] + 1] /\ chosen' = chosen \ {t}
    BY <1>6 DEF Read
  <2>3. /\ rtcTime' = [rtcTime EXCEPT ![selected] = selected]
        /\ spoilt' = spoilt \ {selected}
        /\ UNCHANGED <<selected, cut, inService, stage, ready>>
    BY <1>2, <1>6, <2>1 DEF Read
  <2>4. RtcTypeOK'
    BY <1>2, <2>1, <2>2, <2>3 DEF RtcTypeOK
  <2>5. OneHandler'
    BY <1>1, <1>2, <2>2, <2>3 DEF OneHandler, Reader
  <2>6. KernelAlone'
    BY <1>1, <1>2, <2>2, <2>3 DEF KernelAlone, Reader
  <2>7. Selection'
    BY <1>3, <2>2 DEF Selection
  <2>8. InitSelection'
    BY <1>2, <1>4, <2>2, <2>3 DEF InitSelection, Reader
  <2>9. ReadsOwnRegister'
    BY <2>3 DEF ReadsOwnRegister, RtcTypeOK
  <2> QED BY <2>4, <2>5, <2>6, <2>7, <2>8, <2>9
<1>7. CASE TickEnds(t)
  <2>1. t \notin chosen
    BY <1>7 DEF TickEnds, AllRead, Selection
  <2>2. /\ reading' = [reading EXCEPT ![t] = 0]
        /\ selected' = STATUS_C /\ inService' = FALSE
        /\ UNCHANGED <<chosen, rtcTime, cut, spoilt, stage, ready>>
    BY <1>7 DEF TickEnds
  <2>3. RtcTypeOK'
    BY <1>2, <2>2 DEF RtcTypeOK
  <2>4. OneHandler' /\ KernelAlone'
    BY <1>1, <1>2, <2>2 DEF OneHandler, KernelAlone, Reader
  <2>5. Selection' /\ InitSelection'
    BY <1>2, <1>3, <1>4, <2>1, <2>2 DEF Selection, InitSelection, Reader
  <2>6. ReadsOwnRegister'
    BY <2>2 DEF ReadsOwnRegister
  <2> QED BY <2>3, <2>4, <2>5, <2>6
<1> QED BY <1>5, <1>6, <1>7

\* The interrupt comes, and starts a reading only when none is under way in the handler.
LEMMA InterruptKeeps ==
  ASSUME RtcInv, NEW t \in Thread, ClockInterrupt(t)
  PROVE  RtcInv'
<1> USE RegisterFacts, ThreadFacts DEF RtcInv, ClockInterrupt, Ended, bootVars
<1>1. \A u \in Thread : reading[u] = 0
  BY DEF OneHandler, RtcTypeOK, Reader
<1>2. \A u \in Thread : u \notin chosen
  BY <1>1 DEF Selection
<1>3. reading \in [Reader -> 0 .. Len(Registers) + 1] /\ t \in Reader /\ t # RTC_INIT
  BY DEF RtcTypeOK, Reader
<1>4. cut' = TRUE /\ UNCHANGED <<rtcTime, spoilt, stage, ready>>
  BY DEF Tick
<1>5. t = KERNEL \/ ready
  BY DEF Runs
<1>6. ReadsOwnRegister'
  BY <1>4 DEF ReadsOwnRegister
<1>7. CASE rtcTick + 1 >= HALF
  <2>1. /\ reading' = [reading EXCEPT ![t] = 1] /\ chosen' = chosen \cup {t}
        /\ selected' = Registers[1] /\ inService' = TRUE
    BY <1>7 DEF Tick
  <2>2. RtcTypeOK'
    BY <1>3, <1>4, <2>1 DEF RtcTypeOK
  <2>3. OneHandler' /\ KernelAlone'
    BY <1>1, <1>3, <1>4, <1>5, <2>1 DEF OneHandler, KernelAlone, Reader
  <2>4. Selection' /\ InitSelection'
    BY <1>2, <1>3, <1>4, <2>1 DEF Selection, InitSelection, Reader
  <2> QED BY <1>6, <2>2, <2>3, <2>4
<1>8. CASE ~(rtcTick + 1 >= HALF)
  <2>1. selected' = STATUS_C /\ UNCHANGED <<reading, chosen, inService>>
    BY <1>8 DEF Tick
  <2>2. RtcTypeOK'
    BY <1>4, <2>1 DEF RtcTypeOK
  <2>3. OneHandler' /\ KernelAlone'
    BY <1>4, <2>1 DEF OneHandler, KernelAlone
  <2>4. Selection' /\ InitSelection'
    BY <1>2, <1>4, <2>1 DEF Selection, InitSelection
  <2> QED BY <1>6, <2>2, <2>3, <2>4
<1> QED BY <1>7, <1>8

\* rtc_init reads the clock, with nobody in the handler.
LEMMA InitReads ==
  ASSUME RtcInv, RtcInit \/ RtcRead \/ BeforeRun
  PROVE  RtcInv'
<1> USE RegisterFacts, ThreadFacts DEF RtcInv, Proceeds, Stage
<1>1. stage \in {"rtc", "read"} /\ reading[KERNEL] = 0
  BY DEF RtcInit, RtcRead, BeforeRun
<1>2. ~ready /\ \A t \in Thread : reading[t] = 0
  BY <1>1 DEF KernelAlone
<1>3. \A t \in Thread : t \notin chosen
  BY <1>2 DEF Selection
<1>4. reading \in [Reader -> 0 .. Len(Registers) + 1] /\ RTC_INIT \in Reader
  BY DEF RtcTypeOK, Reader
<1>5. ready' = ready /\ inService' = inService
  BY DEF RtcInit, RtcRead, Select, Read, BeforeRun, bootVars
<1>6. \A t \in Thread : reading'[t] = 0 /\ t \notin chosen'
  BY <1>2, <1>3, <1>4 DEF RtcInit, RtcRead, Select, Read, BeforeRun, Reader
<1>7. OneHandler' /\ KernelAlone' /\ Selection'
  BY <1>2, <1>5, <1>6 DEF OneHandler, KernelAlone, Selection
<1>8. CASE RtcInit
  <2>1. RtcTypeOK' /\ ReadsOwnRegister'
    BY <1>4, <1>8 DEF RtcInit, RtcTypeOK, ReadsOwnRegister
  <2>2. reading'[RTC_INIT] = 1 /\ chosen' = chosen /\ cut' = cut
    BY <1>4, <1>8 DEF RtcInit
  <2>3. RTC_INIT \notin chosen
    BY <1>8 DEF RtcInit, InitSelection
  <2>4. InitSelection'
    BY <2>2, <2>3 DEF InitSelection
  <2> QED BY <1>7, <2>1, <2>4
<1>9. CASE RtcRead /\ Select(RTC_INIT)
  <2>1. /\ reading[RTC_INIT] \in DOMAIN Registers
        /\ selected' = Registers[reading[RTC_INIT]] /\ cut' = FALSE
        /\ chosen' = chosen \cup {RTC_INIT}
        /\ UNCHANGED <<reading, rtcTime, spoilt>>
    BY <1>9 DEF Select
  <2>2. RtcTypeOK'
    BY <1>4, <1>5, <2>1 DEF RtcTypeOK
  <2>3. stage' = "read"
    BY <1>9 DEF RtcRead, bootVars
  <2>4. InitSelection'
    BY <1>6, <2>1, <2>3 DEF InitSelection
  <2>5. ReadsOwnRegister'
    BY <2>1 DEF ReadsOwnRegister
  <2> QED BY <1>7, <2>2, <2>4, <2>5
<1>10. CASE RtcRead /\ Read(RTC_INIT)
  <2> DEFINE field == Registers[reading[RTC_INIT]]
  <2>1. RTC_INIT \in chosen /\ reading[RTC_INIT] \in DOMAIN Registers
    BY <1>10 DEF Read, InitSelection
  <2>2. cut \/ selected = field
    BY <2>1 DEF InitSelection
  <2>3. /\ rtcTime' = [rtcTime EXCEPT ![field] = selected]
        /\ spoilt' = IF cut THEN spoilt \cup {field} ELSE spoilt \ {field}
        /\ reading' = [reading EXCEPT ![RTC_INIT] = reading[RTC_INIT] + 1]
        /\ chosen' = chosen \ {RTC_INIT} /\ UNCHANGED <<selected, cut>>
    BY <1>10 DEF Read
  <2>4. RtcTypeOK'
    BY <1>4, <1>5, <2>1, <2>3 DEF RtcTypeOK
  <2>5. InitSelection'
    BY <2>3 DEF InitSelection
  <2>6. ReadsOwnRegister'
    BY <2>2, <2>3 DEF ReadsOwnRegister, RtcTypeOK
  <2> QED BY <1>7, <2>4, <2>5, <2>6
<1>11. CASE BeforeRun
  <2>1. RTC_INIT \notin chosen
    BY <1>4, <1>11 DEF BeforeRun, AllRead, InitSelection
  <2>2. /\ reading' = [reading EXCEPT ![RTC_INIT] = 0]
        /\ UNCHANGED <<selected, chosen, rtcTime, cut, spoilt>>
    BY <1>11 DEF BeforeRun
  <2>3. RtcTypeOK' /\ ReadsOwnRegister'
    BY <1>4, <1>5, <2>2 DEF RtcTypeOK, ReadsOwnRegister
  <2>4. InitSelection'
    BY <2>1, <2>2 DEF InitSelection
  <2> QED BY <1>7, <2>3, <2>4
<1> QED BY <1>8, <1>9, <1>10, <1>11 DEF RtcRead

\* For every number of threads, registers and ticks: a field of rtc_time holds the value of its
\* own register, unless rtc_init's reading of it was cut into.
THEOREM BootReadsOwnRegister == Spec => []ReadsOwnRegister
<1>1. ASSUME RtcInv, [Next]_vars
      PROVE  RtcInv'
  <2> USE <1>1
  <2>1. CASE RtcInit \/ RtcRead \/ BeforeRun
    BY <2>1, InitReads
  <2>2. CASE VesaIdentify \/ TermService \/ AtaInit \/ IdleReady \/ KeyboardInit \/ CliInit
    BY <2>2, RtcStutter DEF VesaIdentify, TermService, AtaInit, IdleReady, KeyboardInit, CliInit,
       Attach, Launch, Stage, RtcInv, KernelAlone
  <2>3. CASE TasksStart
    BY <2>3 DEF TasksStart, Stage, Proceeds, RtcInv, RtcTypeOK, OneHandler, KernelAlone, Selection,
       InitSelection, ReadsOwnRegister, rtcVars, Reader
  <2>4. ASSUME NEW t \in Thread, Clock(t)
        PROVE  RtcInv'
    BY <2>4, HandlerReads
  <2>5. ASSUME NEW t \in Thread, ClockInterrupt(t)
        PROVE  RtcInv'
    BY <2>5, InterruptKeeps
  <2>6. ASSUME NEW t \in Thread, Writes(t)
        PROVE  RtcInv'
    BY <2>6, RtcStutter DEF Writes, bootVars, RtcInv, KernelAlone
  <2>7. CASE KeyPressed \/ KeyInterrupt \/ TimerInterrupt
    BY <2>7, RtcStutter DEF KeyPressed, KeyInterrupt, TimerInterrupt, bootVars, RtcInv, KernelAlone
  <2>8. CASE UNCHANGED vars
    BY <2>8, RtcStutter DEF vars, bootVars, RtcInv, KernelAlone
  <2> QED BY <2>1, <2>2, <2>3, <2>4, <2>5, <2>6, <2>7, <2>8 DEF Next, BootStep
<1>2. RtcInv => ReadsOwnRegister
  BY DEF RtcInv
<1> QED BY <1>1, <1>2, RtcInitInv, PTL DEF Spec
-----------------------------------------------------------------------------
(* The services and the keyboard.                                          *)

BeforeVesa == {"vesa"}
BeforeTerminal == BeforeVesa \cup {"vesaStart", "terminal"}
BeforeAta == BeforeTerminal \cup {"terminalStart", "ata"}
BeforeKeyboard == BeforeAta \cup {"ataStart", "rtc", "read", "idle", "keyboard"}
BeforeCli == BeforeKeyboard \cup {"keyboardStart", "cli"}
Prompt == {"caret", "run"}
StageSet == BeforeCli \cup {"cliStart"} \cup Prompt

\* The n-th service is in the n-th slot from the stage on at which it is attached.
Filled(n, s, before) ==
  IF stage \in before THEN services[n] = NONE ELSE services[n] = s /\ s \in initialized

InOrder ==
  /\ DOMAIN services = 1 .. Slots
  /\ Filled(1, "VESA", BeforeVesa) /\ Filled(2, "Terminal", BeforeTerminal)
  /\ Filled(3, "ATA", BeforeAta) /\ Filled(4, "PS2Keyboard", BeforeKeyboard)
  /\ Filled(5, "CommandLine", BeforeCli)

\* Without an early key nothing waits until the keyboard is served, and from then on each
\* scancode that waits has an interrupt to come.
Served ==
  /\ waiting \in Nat
  /\ stage \in BeforeKeyboard \cup {"keyboardStart"} => "PS2Keyboard" \notin started
  /\ stage \in {"cli", "cliStart"} \cup Prompt => "IRQ1" \in handlers
  /\ stage \in Prompt => stream
  /\ irq1 => waiting > 0
  /\ ~early => ~panicked /\ (irq1 <=> waiting > 0) /\ (stage \notin Prompt => waiting = 0)

KbInv == stage \in StageSet /\ InOrder /\ Served

LEMMA ServiceFacts ==
  /\ Slots \in Nat
  /\ \A s \in {"VESA", "Terminal", "ATA", "PS2Keyboard", "CommandLine"} : s # NONE
  BY BootAssumption DEF Service

LEMMA KbInitInv ==
  ASSUME Slots >= 5, Init
  PROVE  KbInv
<1>1. stage \in StageSet /\ Served
  BY DEF Init, StageSet, BeforeCli, BeforeKeyboard, BeforeAta, BeforeTerminal, BeforeVesa, Served,
     Prompt
<1>2. InOrder
  BY ServiceFacts DEF Init, InOrder, Filled, BeforeVesa, BeforeTerminal, BeforeAta, BeforeKeyboard,
     BeforeCli
<1> QED BY <1>1, <1>2 DEF KbInv

\* What the stages are for: at each, the slots before its service's are taken.
LEMMA Next5 ==
  ASSUME KbInv
  PROVE  /\ stage = "vesa" => services[1] = NONE
         /\ stage = "terminal" => services[1] # NONE /\ services[2] = NONE
         /\ stage = "ata" => services[1] # NONE /\ services[2] # NONE /\ services[3] = NONE
         /\ stage = "keyboard" =>
              /\ services[1] # NONE /\ services[2] # NONE /\ services[3] # NONE
              /\ services[4] = NONE
         /\ stage = "cli" =>
              /\ services[1] # NONE /\ services[2] # NONE /\ services[3] # NONE
              /\ services[4] # NONE /\ services[5] = NONE
  BY ServiceFacts DEF KbInv, InOrder, Filled, BeforeVesa, BeforeTerminal, BeforeAta,
     BeforeKeyboard, BeforeCli

\* service_freeindex finds the first free slot, n.
LEMMA AttachTakes ==
  ASSUME Slots >= 5, KbInv, NEW s, NEW from, NEW to, Attach(s, from, to),
         NEW n \in 1 .. 5, services[n] = NONE,
         \A i \in 1 .. 5 : i < n => services[i] # NONE
  PROVE  /\ services' = [services EXCEPT ![n] = s] /\ initialized' = initialized \cup {s}
         /\ stage = from /\ stage' = to /\ started' = started
         /\ UNCHANGED <<panicked, handlers, stream, kbVars>>
<1>1. DOMAIN services = 1 .. Slots /\ n \in Free
  BY ServiceFacts DEF KbInv, InOrder, Free
<1>2. \A i \in Free : i \in 1 .. Slots /\ ((\A j \in Free : i <= j) => i = n)
  BY <1>1, ServiceFacts DEF Free
<1>3. PICK i \in Free : (\A j \in Free : i <= j) /\ services' = [services EXCEPT ![i] = s]
  BY <1>1 DEF Attach
<1>4. i = n
  BY <1>2, <1>3
<1> QED BY <1>1, <1>3, <1>4 DEF Attach, Stage

\* A service that is in the list and initialized starts.
LEMMA LaunchStarts ==
  ASSUME KbInv, NEW s, NEW from, NEW to, NEW irqs, Launch(s, from, to, irqs),
         NEW n \in DOMAIN services, services[n] = s, s \in initialized
  PROVE  /\ stage = from /\ stage' = to
         /\ handlers \subseteq handlers'
         /\ s \notin started => irqs \subseteq handlers'
         /\ started' = started \cup {s}
         /\ UNCHANGED <<panicked, services, initialized, kbVars>>
  BY DEF Launch, Stage, Registered

LEMMA AttachKeeps ==
  ASSUME Slots >= 5, KbInv,
         \/ Attach("VESA", "vesa", "vesaStart")
         \/ Attach("Terminal", "terminal", "terminalStart")
         \/ Attach("ATA", "ata", "ataStart")
         \/ Attach("PS2Keyboard", "keyboard", "keyboardStart")
         \/ Attach("CommandLine", "cli", "cliStart")
  PROVE  KbInv'
<1>1. CASE Attach("VESA", "vesa", "vesaStart")
  <2>1. stage = "vesa"
    BY <1>1 DEF Attach, Stage
  <2>2. services[1] = NONE /\ \A i \in 1 .. 5 : i < 1 => services[i] # NONE
    BY <2>1, Next5
  <2>3. /\ services' = [services EXCEPT ![1] = "VESA"]
        /\ initialized' = initialized \cup {"VESA"}
        /\ stage' = "vesaStart" /\ started' = started
        /\ UNCHANGED <<panicked, handlers, stream, kbVars>>
    BY <1>1, <2>2, AttachTakes
  <2>4. stage' \in StageSet /\ InOrder'
    BY <2>1, <2>3, ServiceFacts DEF KbInv, InOrder, Filled, BeforeVesa, BeforeTerminal, BeforeAta,
       BeforeKeyboard, BeforeCli, StageSet
  <2>5. Served'
    BY <2>1, <2>3 DEF KbInv, Served, kbVars, BeforeVesa, BeforeTerminal, BeforeAta,
       BeforeKeyboard, Prompt
  <2> QED BY <2>4, <2>5 DEF KbInv
<1>2. CASE Attach("Terminal", "terminal", "terminalStart")
  <2>1. stage = "terminal"
    BY <1>2 DEF Attach, Stage
  <2>2. services[2] = NONE /\ \A i \in 1 .. 5 : i < 2 => services[i] # NONE
    BY <2>1, Next5
  <2>3. /\ services' = [services EXCEPT ![2] = "Terminal"]
        /\ initialized' = initialized \cup {"Terminal"}
        /\ stage' = "terminalStart" /\ started' = started
        /\ UNCHANGED <<panicked, handlers, stream, kbVars>>
    BY <1>2, <2>2, AttachTakes
  <2>4. stage' \in StageSet /\ InOrder'
    BY <2>1, <2>3, ServiceFacts DEF KbInv, InOrder, Filled, BeforeVesa, BeforeTerminal, BeforeAta,
       BeforeKeyboard, BeforeCli, StageSet
  <2>5. Served'
    BY <2>1, <2>3 DEF KbInv, Served, kbVars, BeforeVesa, BeforeTerminal, BeforeAta,
       BeforeKeyboard, Prompt
  <2> QED BY <2>4, <2>5 DEF KbInv
<1>3. CASE Attach("ATA", "ata", "ataStart")
  <2>1. stage = "ata"
    BY <1>3 DEF Attach, Stage
  <2>2. services[3] = NONE /\ \A i \in 1 .. 5 : i < 3 => services[i] # NONE
    BY <2>1, Next5
  <2>3. /\ services' = [services EXCEPT ![3] = "ATA"]
        /\ initialized' = initialized \cup {"ATA"}
        /\ stage' = "ataStart" /\ started' = started
        /\ UNCHANGED <<panicked, handlers, stream, kbVars>>
    BY <1>3, <2>2, AttachTakes
  <2>4. stage' \in StageSet /\ InOrder'
    BY <2>1, <2>3, ServiceFacts DEF KbInv, InOrder, Filled, BeforeVesa, BeforeTerminal, BeforeAta,
       BeforeKeyboard, BeforeCli, StageSet
  <2>5. Served'
    BY <2>1, <2>3 DEF KbInv, Served, kbVars, BeforeVesa, BeforeTerminal, BeforeAta,
       BeforeKeyboard, Prompt
  <2> QED BY <2>4, <2>5 DEF KbInv
<1>4. CASE Attach("PS2Keyboard", "keyboard", "keyboardStart")
  <2>1. stage = "keyboard"
    BY <1>4 DEF Attach, Stage
  <2>2. services[4] = NONE /\ \A i \in 1 .. 5 : i < 4 => services[i] # NONE
    BY <2>1, Next5
  <2>3. /\ services' = [services EXCEPT ![4] = "PS2Keyboard"]
        /\ initialized' = initialized \cup {"PS2Keyboard"}
        /\ stage' = "keyboardStart" /\ started' = started
        /\ UNCHANGED <<panicked, handlers, stream, kbVars>>
    BY <1>4, <2>2, AttachTakes
  <2>4. stage' \in StageSet /\ InOrder'
    BY <2>1, <2>3, ServiceFacts DEF KbInv, InOrder, Filled, BeforeVesa, BeforeTerminal, BeforeAta,
       BeforeKeyboard, BeforeCli, StageSet
  <2>5. Served'
    BY <2>1, <2>3 DEF KbInv, Served, kbVars, BeforeVesa, BeforeTerminal, BeforeAta,
       BeforeKeyboard, Prompt
  <2> QED BY <2>4, <2>5 DEF KbInv
<1>5. CASE Attach("CommandLine", "cli", "cliStart")
  <2>1. stage = "cli"
    BY <1>5 DEF Attach, Stage
  <2>2. services[5] = NONE /\ \A i \in 1 .. 5 : i < 5 => services[i] # NONE
    BY <2>1, Next5
  <2>3. /\ services' = [services EXCEPT ![5] = "CommandLine"]
        /\ initialized' = initialized \cup {"CommandLine"}
        /\ stage' = "cliStart" /\ started' = started
        /\ UNCHANGED <<panicked, handlers, stream, kbVars>>
    BY <1>5, <2>2, AttachTakes
  <2>4. stage' \in StageSet /\ InOrder'
    BY <2>1, <2>3, ServiceFacts DEF KbInv, InOrder, Filled, BeforeVesa, BeforeTerminal, BeforeAta,
       BeforeKeyboard, BeforeCli, StageSet
  <2>5. Served'
    BY <2>1, <2>3 DEF KbInv, Served, kbVars, BeforeVesa, BeforeTerminal, BeforeAta,
       BeforeKeyboard, Prompt
  <2> QED BY <2>4, <2>5 DEF KbInv
<1> QED BY <1>1, <1>2, <1>3, <1>4, <1>5

LEMMA LaunchKeeps ==
  ASSUME Slots >= 5, KbInv,
         \/ Launch("VESA", "vesaStart", "terminal", {}) /\ UNCHANGED stream
         \/ Launch("Terminal", "terminalStart", "ata", {}) /\ UNCHANGED stream
         \/ Launch("ATA", "ataStart", "rtc", {"IRQ14"}) /\ UNCHANGED stream
         \/ Launch("PS2Keyboard", "keyboardStart", "cli", {"IRQ1"})
         \/ Launch("CommandLine", "cliStart", "caret", {}) /\ stream' = TRUE
  PROVE  KbInv'
<1>1. CASE Launch("VESA", "vesaStart", "terminal", {}) /\ UNCHANGED stream
  <2>1. stage = "vesaStart"
    BY <1>1 DEF Launch, Stage
  <2>2. services[1] = "VESA" /\ "VESA" \in initialized /\ 1 \in DOMAIN services
    BY <2>1, ServiceFacts DEF KbInv, InOrder, Filled, BeforeVesa, BeforeTerminal, BeforeAta,
       BeforeKeyboard, BeforeCli
  <2>3. /\ stage' = "terminal" /\ handlers \subseteq handlers'
        /\ "VESA" \notin started => {} \subseteq handlers'
        /\ started' = started \cup {"VESA"}
        /\ UNCHANGED <<panicked, services, initialized, kbVars>>
    BY <1>1, <2>2, LaunchStarts
  <2>4. stage' \in StageSet /\ InOrder'
    BY <2>1, <2>3 DEF KbInv, InOrder, Filled, BeforeVesa, BeforeTerminal, BeforeAta,
       BeforeKeyboard, BeforeCli, StageSet, Prompt
  <2>5. Served'
    BY <1>1, <2>1, <2>3 DEF KbInv, Served, kbVars, BeforeVesa, BeforeTerminal, BeforeAta,
       BeforeKeyboard, Prompt
  <2> QED BY <2>4, <2>5 DEF KbInv
<1>2. CASE Launch("Terminal", "terminalStart", "ata", {}) /\ UNCHANGED stream
  <2>1. stage = "terminalStart"
    BY <1>2 DEF Launch, Stage
  <2>2. services[2] = "Terminal" /\ "Terminal" \in initialized /\ 2 \in DOMAIN services
    BY <2>1, ServiceFacts DEF KbInv, InOrder, Filled, BeforeVesa, BeforeTerminal, BeforeAta,
       BeforeKeyboard, BeforeCli
  <2>3. /\ stage' = "ata" /\ handlers \subseteq handlers'
        /\ "Terminal" \notin started => {} \subseteq handlers'
        /\ started' = started \cup {"Terminal"}
        /\ UNCHANGED <<panicked, services, initialized, kbVars>>
    BY <1>2, <2>2, LaunchStarts
  <2>4. stage' \in StageSet /\ InOrder'
    BY <2>1, <2>3 DEF KbInv, InOrder, Filled, BeforeVesa, BeforeTerminal, BeforeAta,
       BeforeKeyboard, BeforeCli, StageSet, Prompt
  <2>5. Served'
    BY <1>2, <2>1, <2>3 DEF KbInv, Served, kbVars, BeforeVesa, BeforeTerminal, BeforeAta,
       BeforeKeyboard, Prompt
  <2> QED BY <2>4, <2>5 DEF KbInv
<1>3. CASE Launch("ATA", "ataStart", "rtc", {"IRQ14"}) /\ UNCHANGED stream
  <2>1. stage = "ataStart"
    BY <1>3 DEF Launch, Stage
  <2>2. services[3] = "ATA" /\ "ATA" \in initialized /\ 3 \in DOMAIN services
    BY <2>1, ServiceFacts DEF KbInv, InOrder, Filled, BeforeVesa, BeforeTerminal, BeforeAta,
       BeforeKeyboard, BeforeCli
  <2>3. /\ stage' = "rtc" /\ handlers \subseteq handlers'
        /\ "ATA" \notin started => {"IRQ14"} \subseteq handlers'
        /\ started' = started \cup {"ATA"}
        /\ UNCHANGED <<panicked, services, initialized, kbVars>>
    BY <1>3, <2>2, LaunchStarts
  <2>4. stage' \in StageSet /\ InOrder'
    BY <2>1, <2>3 DEF KbInv, InOrder, Filled, BeforeVesa, BeforeTerminal, BeforeAta,
       BeforeKeyboard, BeforeCli, StageSet, Prompt
  <2>5. Served'
    BY <1>3, <2>1, <2>3 DEF KbInv, Served, kbVars, BeforeVesa, BeforeTerminal, BeforeAta,
       BeforeKeyboard, Prompt
  <2> QED BY <2>4, <2>5 DEF KbInv
<1>4. CASE Launch("PS2Keyboard", "keyboardStart", "cli", {"IRQ1"})
  <2>1. stage = "keyboardStart"
    BY <1>4 DEF Launch, Stage
  <2>2. services[4] = "PS2Keyboard" /\ "PS2Keyboard" \in initialized /\ 4 \in DOMAIN services
    BY <2>1, ServiceFacts DEF KbInv, InOrder, Filled, BeforeVesa, BeforeTerminal, BeforeAta,
       BeforeKeyboard, BeforeCli
  <2>3. /\ stage' = "cli" /\ handlers \subseteq handlers'
        /\ "PS2Keyboard" \notin started => {"IRQ1"} \subseteq handlers'
        /\ started' = started \cup {"PS2Keyboard"}
        /\ UNCHANGED <<panicked, services, initialized, kbVars>>
    BY <1>4, <2>2, LaunchStarts
  <2>4. stage' \in StageSet /\ InOrder'
    BY <2>1, <2>3 DEF KbInv, InOrder, Filled, BeforeVesa, BeforeTerminal, BeforeAta,
       BeforeKeyboard, BeforeCli, StageSet, Prompt
  <2>5. Served'
    BY <1>4, <2>1, <2>3 DEF KbInv, Served, kbVars, BeforeVesa, BeforeTerminal, BeforeAta,
       BeforeKeyboard, Prompt
  <2> QED BY <2>4, <2>5 DEF KbInv
<1>5. CASE Launch("CommandLine", "cliStart", "caret", {}) /\ stream' = TRUE
  <2>1. stage = "cliStart"
    BY <1>5 DEF Launch, Stage
  <2>2. services[5] = "CommandLine" /\ "CommandLine" \in initialized /\ 5 \in DOMAIN services
    BY <2>1, ServiceFacts DEF KbInv, InOrder, Filled, BeforeVesa, BeforeTerminal, BeforeAta,
       BeforeKeyboard, BeforeCli
  <2>3. /\ stage' = "caret" /\ handlers \subseteq handlers'
        /\ "CommandLine" \notin started => {} \subseteq handlers'
        /\ started' = started \cup {"CommandLine"}
        /\ UNCHANGED <<panicked, services, initialized, kbVars>>
    BY <1>5, <2>2, LaunchStarts
  <2>4. stage' \in StageSet /\ InOrder'
    BY <2>1, <2>3 DEF KbInv, InOrder, Filled, BeforeVesa, BeforeTerminal, BeforeAta,
       BeforeKeyboard, BeforeCli, StageSet, Prompt
  <2>5. Served'
    BY <1>5, <2>1, <2>3 DEF KbInv, Served, kbVars, BeforeVesa, BeforeTerminal, BeforeAta,
       BeforeKeyboard, Prompt
  <2> QED BY <2>4, <2>5 DEF KbInv
<1> QED BY <1>1, <1>2, <1>3, <1>4, <1>5

\* A key, and its interrupt.
LEMMA KeyKeeps ==
  ASSUME KbInv, KeyPressed \/ KeyInterrupt
  PROVE  KbInv'
<1>1. UNCHANGED <<stage, serviceVars, handlers, stream>>
  BY DEF KeyPressed, KeyInterrupt, bootVars
<1>2. stage' \in StageSet /\ InOrder'
  BY <1>1 DEF KbInv, InOrder, Filled, serviceVars
<1>3. ASSUME KeyPressed, ~early'
      PROVE  ~panicked' /\ (irq1' <=> waiting' > 0) /\ (stage' \notin Prompt => waiting' = 0)
  <2>1. ~early /\ stage \in Prompt
    BY <1>3 DEF KeyPressed, Prompt
  <2>2. waiting \in Nat /\ ~panicked /\ (irq1 <=> waiting > 0)
    BY <2>1 DEF KbInv, Served
  <2>3. waiting' = waiting + 1 /\ panicked' = panicked
    BY <1>3 DEF KeyPressed, bootVars
  <2>4. irq1'
    <3>1. irq1 \/ waiting = 0 => irq1'
      BY <1>3, Zenon DEF KeyPressed
    <3>2. irq1 \/ waiting = 0
      BY <2>2
    <3> QED BY <3>1, <3>2
  <2> QED BY <1>1, <2>1, <2>2, <2>3, <2>4
<1>4. ASSUME KeyInterrupt, ~early'
      PROVE  ~panicked' /\ (irq1' <=> waiting' > 0) /\ (stage' \notin Prompt => waiting' = 0)
  <2>1. ~early /\ irq1
    BY <1>4 DEF KeyInterrupt
  <2>2. /\ waiting \in Nat /\ waiting > 0
        /\ stage \in Prompt /\ stream /\ "IRQ1" \in handlers
    BY <2>1 DEF KbInv, Served
  <2>3. waiting' = waiting - 1 /\ (irq1' <=> waiting > 1)
    BY <1>4, <2>2 DEF KeyInterrupt
  <2>4. ~panicked'
    BY <1>4, <2>2 DEF KeyInterrupt
  <2> QED BY <1>1, <2>2, <2>3, <2>4
<1>5. waiting' \in Nat /\ (irq1' => waiting' > 0)
  <2>1. CASE KeyPressed
    BY <2>1 DEF KbInv, Served, KeyPressed
  <2>2. CASE KeyInterrupt
    <3>1. irq1
      BY <2>2, Zenon DEF KeyInterrupt
    <3>2. waiting > 0 /\ waiting \in Nat
      BY <3>1 DEF KbInv, Served
    <3>3. \/ waiting' = waiting - 1 /\ (irq1' => waiting > 1)
          \/ waiting' = waiting /\ ~irq1'
      BY <2>2, Zenon DEF KeyInterrupt
    <3> QED BY <3>2, <3>3
  <2> QED BY <2>1, <2>2
<1>6. Served'
  BY <1>1, <1>3, <1>4, <1>5 DEF KbInv, Served, serviceVars
<1> QED BY <1>2, <1>6 DEF KbInv

\* With room for the five services: whoever leaves the keyboard alone until the prompt gets no
\* panic and a keyboard that answers, whatever interrupts the boot.
THEOREM BootKeyboardAnswers ==
  ASSUME Slots >= 5
  PROVE  Spec => []KeyboardAnswers
<1>1. ASSUME KbInv, [Next]_vars
      PROVE  KbInv'
  <2> USE <1>1
  <2>1. CASE VesaIdentify \/ TermService
    BY <2>1, AttachKeeps, LaunchKeeps DEF VesaIdentify, TermService
  <2>2. CASE AtaInit
    BY <2>2, AttachKeeps, LaunchKeeps DEF AtaInit
  <2>3. CASE KeyboardInit \/ CliInit
    BY <2>3, AttachKeeps, LaunchKeeps DEF KeyboardInit, CliInit
  <2>4. CASE RtcInit \/ BeforeRun \/ IdleReady \/ TasksStart
    <3>1. /\ UNCHANGED <<panicked, serviceVars, stream, kbVars>> /\ handlers \subseteq handlers'
          /\ \/ stage = "rtc" /\ stage' = "read"
             \/ stage = "read" /\ stage' = "idle"
             \/ stage = "idle" /\ stage' = "keyboard"
             \/ stage = "caret" /\ stage' = "run"
      BY <2>4 DEF RtcInit, BeforeRun, IdleReady, TasksStart, Stage
    <3>2. stage' \in StageSet /\ InOrder'
      BY <3>1 DEF KbInv, InOrder, Filled, serviceVars, StageSet, BeforeCli, BeforeKeyboard,
         BeforeAta, BeforeTerminal, BeforeVesa, Prompt
    <3>3. Served'
      BY <3>1 DEF KbInv, Served, serviceVars, kbVars, BeforeKeyboard,
         BeforeAta, BeforeTerminal, BeforeVesa, Prompt
    <3> QED BY <3>2, <3>3 DEF KbInv
  <2>5. CASE KeyPressed \/ KeyInterrupt
    BY <2>5, KeyKeeps
  <2>6. CASE \/ RtcRead \/ TimerInterrupt \/ UNCHANGED vars
             \/ \E t \in Thread : Writes(t) \/ Clock(t) \/ ClockInterrupt(t)
    <3>1. UNCHANGED <<bootVars, kbVars>>
      BY <2>6 DEF RtcRead, TimerInterrupt, vars, Writes, Clock, ClockInterrupt
    <3> QED BY <3>1 DEF KbInv, InOrder, Filled, Served, bootVars, kbVars, serviceVars
  <2> QED BY <2>1, <2>2, <2>3, <2>4, <2>5, <2>6 DEF Next, BootStep
<1>2. KbInv => KeyboardAnswers
  BY DEF KbInv, Served, KeyboardAnswers, Deaf
<1>3. Init => KbInv
  BY KbInitInv
<1> QED BY <1>1, <1>2, <1>3, PTL DEF Spec
=============================================================================
