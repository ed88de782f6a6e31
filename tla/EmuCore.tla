------------------------------ MODULE EmuCore ------------------------------
(***************************************************************************)
(* Exceptions, SysTick and interrupts of the emulated processor            *)
(* (src/host/emulator/bin_emu.c) under any firmware whose handlers return  *)
(* as often as they are entered.                                           *)
(*                                                                         *)
(* One pass of the loop of run_bin is one action: an instruction, then     *)
(* peripherals_tick, then service_interrupts, each a function from state   *)
(* to state.  Of the code at the program counter only `running' is kept:   *)
(* the exception whose handler it belongs to, or Thread; of the memory,    *)
(* the frames pushed by exception_enter and not yet popped.                *)
(***************************************************************************)
EXTENDS Integers, Sequences

CONSTANTS
  Irqs,         \* interrupt lines in use, a set of numbers
  Valid,        \* exceptions whose vector has a handler
  MaxReload,    \* bound: largest SYST_RVR the firmware writes
  Depth         \* bound: SVC and BKPT only while fewer frames are stacked

Thread == 0
EXC_HARDFAULT == 3
EXC_SVC == 11
EXC_SYSTICK == 15
EXC_IRQ0 == 16

ASSUME CoreAssumption ==
  /\ Irqs \subseteq Nat /\ MaxReload \in Nat /\ Depth \in Nat \ {0}
  /\ Valid \subseteq {EXC_HARDFAULT, EXC_SVC, EXC_SYSTICK}
                       \cup {EXC_IRQ0 + i : i \in Irqs}

VARIABLES
  core,         \* Cpu and Core, as far as exceptions depend on them:
                \*   running, frames (the codes interrupted), ipsr, primask,
                \*   icsr (bit 26, SysTick pending), nvic_pending, nvic_enable,
                \*   enable and tickint (of syst_csr), syst_rvr, syst_cvr,
                \*   skip (g_skip_tick_after_exception_return)
  stopped,      \* run_bin has left its loop
  nested,       \* a handler has executed SVC or BKPT
  pended,       \* firmware has set the SysTick pending bit itself
  progressed,   \* an instruction in Thread since SysTick was last returned from
  owed          \* interrupts the firmware has set pending, and neither cleared
                \* nor seen the handler of entered

history == <<nested, pended, progressed, owed>>
vars == <<core, stopped, history>>

Init ==
  /\ core = [running |-> Thread, frames |-> <<>>, ipsr |-> 0, primask |-> FALSE,
             icsr |-> FALSE, nvic_pending |-> {}, nvic_enable |-> {},
             enable |-> FALSE, tickint |-> FALSE, syst_rvr |-> 0, syst_cvr |-> 0,
             skip |-> FALSE]
  /\ stopped = FALSE /\ nested = FALSE /\ pended = FALSE /\ progressed = TRUE
  /\ owed = {}

-----------------------------------------------------------------------------
(* Entry, return, tick and service                                          *)

\* Without a handler nothing changes: the callers differ in what that means.
exception_enter(c, exc) ==
  IF exc \notin Valid THEN c
  ELSE [c EXCEPT !.frames = Append(@, c.running), !.running = exc,
                 !.ipsr = exc, !.icsr = @ /\ exc # EXC_SYSTICK]

\* The stacked xPSR is restored, but then IPSR is 0 in any case.
exception_return(c) ==
  [c EXCEPT !.running = c.frames[Len(c.frames)],
            !.frames = SubSeq(@, 1, Len(@) - 1), !.ipsr = 0, !.skip = TRUE]

Counted(c) == IF c.syst_cvr = 0 THEN c.syst_rvr ELSE c.syst_cvr - 1
Tick(c) ==
  IF ~c.enable THEN c
  ELSE [c EXCEPT !.syst_cvr = Counted(c),
                 !.icsr = @ \/ (c.tickint /\ Counted(c) = 0)]
peripherals_tick_NoSkip(c) ==
  IF c.ipsr # 0 THEN [c EXCEPT !.skip = FALSE] ELSE Tick([c EXCEPT !.skip = FALSE])
peripherals_tick_InHandlers(c) ==
  IF c.skip THEN [c EXCEPT !.skip = FALSE] ELSE Tick(c)
peripherals_tick(c) ==
  IF c.skip THEN [c EXCEPT !.skip = FALSE]
  ELSE IF c.ipsr # 0 THEN c ELSE Tick(c)

\* SysTick comes first, then the lowest interrupt, whose pending bit is gone
\* even if it has no handler.
Lowest(S) == CHOOSE i \in S : \A j \in S : i <= j
Served(c) == c.nvic_pending \cap c.nvic_enable
service_interrupts_ClearedFirst(c) ==
  IF c.ipsr # 0 \/ c.icsr \/ Served(c) = {} THEN c
  ELSE LET d == [c EXCEPT !.nvic_pending = @ \ {Lowest(Served(c))}]
       IN  IF c.primask THEN d ELSE exception_enter(d, EXC_IRQ0 + Lowest(Served(c)))
service_interrupts(c) ==
  IF c.ipsr # 0 \/ c.primask THEN c
  ELSE IF c.icsr THEN exception_enter(c, EXC_SYSTICK)
  ELSE IF Served(c) = {} THEN c
  ELSE exception_enter([c EXCEPT !.nvic_pending = @ \ {Lowest(Served(c))}],
                       EXC_IRQ0 + Lowest(Served(c)))

-----------------------------------------------------------------------------
(* The loop of run_bin                                                      *)

\* The rest of the pass after an instruction that has left c.  cleared is what
\* the firmware has cleared of the pending interrupts, set what it has set.
Pass(c, set, cleared) ==
  LET after == service_interrupts(peripherals_tick(c))
  IN  /\ core' = after
      /\ owed' = ((owed \cup set) \ cleared) \ {i \in Irqs :
                   /\ after.running = EXC_IRQ0 + i
                   /\ Len(after.frames) > Len(c.frames)}
      /\ UNCHANGED stopped

Progress == progressed' = (progressed \/ core.running = Thread)
Running == ~stopped

\* An instruction of no account here, or that moves to and from PRIMASK.
Plain == /\ Running /\ Pass(core, {}, {})
         /\ Progress /\ UNCHANGED <<nested, pended>>
SetPrimask(mask) ==
  /\ Running /\ Pass([core EXCEPT !.primask = mask], {}, {})
  /\ Progress /\ UNCHANGED <<nested, pended>>

\* SVC and BKPT are taken whatever IPSR and PRIMASK say; without a handler the
\* emulation ends.
Call(exc) ==
  /\ Running /\ Len(core.frames) < Depth
  /\ IF exc \in Valid
     THEN /\ Pass(exception_enter(core, exc), {}, {})
          /\ nested' = (nested \/ core.running # Thread)
          /\ Progress
     ELSE stopped' = TRUE /\ UNCHANGED <<core, nested, progressed, owed>>
  /\ UNCHANGED pended

\* BX or POP with an EXC_RETURN value.
Return ==
  /\ Running /\ core.running # Thread
  /\ Pass(exception_return(core), {}, {})
  /\ progressed' = (progressed /\ core.running # EXC_SYSTICK)
  /\ UNCHANGED <<nested, pended>>

\* Stores to the registers of the private peripheral bus.
WriteCsr(enable, tickint) ==
  /\ Running
  /\ Pass([core EXCEPT !.enable = enable, !.tickint = tickint], {}, {})
  /\ Progress /\ UNCHANGED <<nested, pended>>
WriteRvr(reload) ==
  /\ Running /\ Pass([core EXCEPT !.syst_rvr = reload], {}, {})
  /\ Progress /\ UNCHANGED <<nested, pended>>
WriteCvr ==
  /\ Running /\ Pass([core EXCEPT !.syst_cvr = 0], {}, {})
  /\ Progress /\ UNCHANGED <<nested, pended>>
\* The register takes the value written: a 0 clears the pending bit.
WriteIcsr(pend) ==
  /\ Running /\ Pass([core EXCEPT !.icsr = pend], {}, {})
  /\ pended' = (pended \/ pend)
  /\ Progress /\ UNCHANGED nested
WriteIser(mask) ==
  /\ Running /\ Pass([core EXCEPT !.nvic_enable = @ \cup mask], {}, {})
  /\ Progress /\ UNCHANGED <<nested, pended>>
WriteIcer(mask) ==
  /\ Running /\ Pass([core EXCEPT !.nvic_enable = @ \ mask], {}, {})
  /\ Progress /\ UNCHANGED <<nested, pended>>
WriteIspr(mask) ==
  /\ Running /\ Pass([core EXCEPT !.nvic_pending = @ \cup mask], mask, {})
  /\ Progress /\ UNCHANGED <<nested, pended>>
WriteIcpr(mask) ==
  /\ Running /\ Pass([core EXCEPT !.nvic_pending = @ \ mask], {}, mask)
  /\ Progress /\ UNCHANGED <<nested, pended>>

\* A delay loop is skipped: no tick, and no interrupt is looked for.
Accelerate == /\ Running /\ Progress
              /\ UNCHANGED <<core, stopped, nested, pended, owed>>

\* A branch to itself, the budget of steps, an instruction not known.
Stop == /\ Running /\ stopped' = TRUE /\ UNCHANGED <<core, history>>

Store ==
  \/ \E enable, tickint \in BOOLEAN : WriteCsr(enable, tickint)
  \/ \E reload \in 0 .. MaxReload : WriteRvr(reload)
  \/ WriteCvr
  \/ \E pend \in BOOLEAN : WriteIcsr(pend)
  \/ \E mask \in SUBSET Irqs : \/ WriteIser(mask) \/ WriteIcer(mask)
                               \/ WriteIspr(mask) \/ WriteIcpr(mask)
Next ==
  \/ Plain \/ Return \/ Accelerate \/ Stop \/ Store
  \/ \E mask \in BOOLEAN : SetPrimask(mask)
  \/ \E exc \in {EXC_HARDFAULT, EXC_SVC} : Call(exc)

Spec == Init /\ [][Next]_vars
\* The loop goes round, and every handler returns sooner or later.
FairSpec == Spec /\ WF_vars(Next) /\ WF_vars(Return)

-----------------------------------------------------------------------------
(* Properties                                                               *)

\* In particular the frames stacked are those of the handlers entered.
Codes == {Thread, EXC_HARDFAULT, EXC_SVC, EXC_SYSTICK} \cup {EXC_IRQ0 + i : i \in Irqs}
CoreTypeOK ==
  /\ core \in [running : Codes, frames : Seq(Codes), ipsr : Codes,
               primask : BOOLEAN, icsr : BOOLEAN, nvic_pending : SUBSET Irqs,
               nvic_enable : SUBSET Irqs, enable : BOOLEAN, tickint : BOOLEAN,
               syst_rvr : 0 .. MaxReload, syst_cvr : 0 .. MaxReload,
               skip : BOOLEAN]
  /\ Len(core.frames) <= Depth /\ (core.running # Thread => core.frames # <<>>)
  /\ stopped \in BOOLEAN /\ nested \in BOOLEAN /\ pended \in BOOLEAN
  /\ progressed \in BOOLEAN /\ owed \subseteq Irqs

\* As long as no handler calls SVC or BKPT, at most one exception is active and
\* IPSR names it.  (After such a call the return of the inner handler leaves
\* IPSR 0 in the outer one, which may then be interrupted, even by itself.)
OneActive ==
  ~nested => /\ Len(core.frames) <= 1 /\ core.ipsr = core.running
             /\ \A i \in DOMAIN core.frames : core.frames[i] = Thread

\* An interrupt that the firmware has set pending stays pending until its
\* handler is entered or the firmware clears it; only one without a handler is
\* dropped.
NoInterruptLost == \A i \in owed : i \in core.nvic_pending \/ EXC_IRQ0 + i \notin Valid

\* Between two entries of SysTick the interrupted code gets on, however short
\* the reload value: this is what g_skip_tick_after_exception_return and the
\* counter standing still in handlers are for.  (A handler that sets the pending
\* bit itself, or that is interrupted, may be entered again at once.)
ThreadProgress ==
  core.running = EXC_SYSTICK /\ ~nested /\ ~pended => progressed

\* An enabled interrupt does not wait for ever while interrupts are unmasked,
\* unless a more urgent one is pending again and again.  (SysTick and all
\* interrupts but the least urgent must have handlers: SysTick without one stays
\* pending and shuts the others out.)
Waiting(i) == /\ i \in Served(core) /\ ~core.primask /\ ~core.icsr
              /\ \A j \in Served(core) : i <= j
InterruptServed ==
  \A i \in Irqs : Waiting(i) /\ ~stopped ~> ~Waiting(i) \/ stopped
=============================================================================
