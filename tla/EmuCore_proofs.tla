--------------------------- MODULE EmuCore_proofs ---------------------------
(***************************************************************************)
(* Proofs about EmuCore.  The lemmas say what entry, return, tick and      *)
(* service make of any state; PassEffect sums them up for one pass of the  *)
(* loop, and the theorems go through the instructions.                     *)
(*                                                                         *)
(* The last part is about EmuThumb: sums, differences, comparisons and     *)
(* shifts are those of numbers, for bytes of any width.                    *)
(***************************************************************************)
EXTENDS EmuCore, EmuThumb, TLAPS, WellFoundedInduction, NaturalsInduction

Cores == [running : Codes, frames : Seq(Codes), ipsr : Codes, primask : BOOLEAN,
          icsr : BOOLEAN, nvic_pending : SUBSET Irqs, nvic_enable : SUBSET Irqs,
          enable : BOOLEAN, tickint : BOOLEAN, syst_rvr : 0 .. MaxReload,
          syst_cvr : 0 .. MaxReload, skip : BOOLEAN]

\* The frames are those of the handlers entered, Thread being the first one
\* interrupted, and nothing is entered beyond the bound.
FramesOK(c) ==
  /\ c.running = Thread <=> c.frames = <<>>
  /\ \A i \in DOMAIN c.frames : c.frames[i] = Thread <=> i = 1
  /\ Len(c.frames) <= Depth
  /\ Len(c.frames) = Depth => c.ipsr # 0
CoreOK(c) == c \in Cores /\ FramesOK(c)

Entered(c, s, exc) ==
  /\ exc \in Valid
  /\ s.running = exc /\ s.ipsr = exc /\ s.frames = Append(c.frames, c.running)
  /\ s.icsr = (c.icsr /\ exc # EXC_SYSTICK)

LEMMA CodeFacts ==
  /\ Valid \subseteq Codes \ {Thread} /\ Thread \in Codes
  /\ \A i \in Irqs : /\ EXC_IRQ0 + i \in Codes \ {Thread}
                     /\ EXC_IRQ0 + i \notin {EXC_HARDFAULT, EXC_SVC, EXC_SYSTICK}
  /\ \A i, j \in Irqs : EXC_IRQ0 + i = EXC_IRQ0 + j => i = j
  /\ \A e \in Codes : e \in Int
  BY CoreAssumption DEF Codes, Thread, EXC_IRQ0, EXC_HARDFAULT, EXC_SVC, EXC_SYSTICK

\* The loop over the 32 bits finds one if there is one.
LEMMA LowestIn ==
  ASSUME NEW S \in SUBSET Irqs, S # {}
  PROVE  Lowest(S) \in S
<1>1. S \subseteq Nat
  BY CoreAssumption
<1> DEFINE Below == {p \in Nat \X Nat : p[1] < p[2]}
<1>2. IsWellFoundedOn(Below, Nat)
  BY NatLessThanWellFounded DEF OpToRel
<1>3. \E i \in S : \A j \in S : <<j, i>> \notin Below
  <2> HIDE DEF Below
  <2> QED
    BY <1>1, <1>2, WFMin
<1>4. ASSUME NEW i \in S, NEW j \in S, <<j, i>> \notin Below PROVE i <= j
  <2>1. <<j, i>> \in Nat \X Nat /\ i \in Nat /\ j \in Nat
    BY <1>1
  <2>2. ~(j < i)
    BY <1>4, <2>1
  <2> QED
    BY <2>1, <2>2
<1> QED
  BY <1>3, <1>4 DEF Lowest

LEMMA EmptyFrames ==
  ASSUME NEW q \in Seq(Codes)
  PROVE  q = <<>> <=> Len(q) = 0
  OBVIOUS

LEMMA OneFrame ==
  ASSUME NEW q \in Seq(Codes), q # <<>>, Len(q) <= 1
  PROVE  Len(q) = 1 /\ 1 \in DOMAIN q
<1>1. Len(q) \in Nat /\ Len(q) # 0 /\ DOMAIN q = 1 .. Len(q)
  BY EmptyFrames
<1>2. Len(q) = 1
  BY <1>1
<1> QED
  BY <1>1, <1>2

\* The first frame pushed.
LEMMA PushFrame ==
  ASSUME NEW q \in Seq(Codes), NEW e \in Codes
  PROVE  /\ Len(Append(q, e)) = Len(q) + 1 /\ Len(q) \in Nat
         /\ q = <<>> => /\ Len(Append(q, e)) <= 1
                        /\ \A i \in DOMAIN Append(q, e) : Append(q, e)[i] = e
<1>1. /\ Len(Append(q, e)) = Len(q) + 1 /\ Len(q) \in Nat
      /\ DOMAIN Append(q, e) = 1 .. Len(q) + 1
      /\ Append(q, e)[Len(q) + 1] = e
  OBVIOUS
<1>2. q = <<>> => Len(q) = 0
  BY EmptyFrames
<1> QED
  BY <1>1, <1>2

LEMMA EnterEffect ==
  ASSUME NEW c, CoreOK(c), NEW exc \in Valid, Len(c.frames) < Depth
  PROVE  /\ CoreOK(exception_enter(c, exc))
         /\ Entered(c, exception_enter(c, exc), exc)
         /\ exception_enter(c, exc).nvic_pending = c.nvic_pending
         /\ exception_enter(c, exc).skip = c.skip
<1> DEFINE s == exception_enter(c, exc)
<1>1. exc \in Codes \ {Thread} /\ exc # 0
  BY CodeFacts DEF Thread
<1>2. s \in Cores
  <2>1. c \in Cores /\ c.frames \in Seq(Codes) /\ c.running \in Codes
    BY DEF CoreOK, Cores
  <2>2. Append(c.frames, c.running) \in Seq(Codes)
    BY <2>1
  <2>3. (c.icsr /\ exc # EXC_SYSTICK) \in BOOLEAN
    OBVIOUS
  <2>4. s = [c EXCEPT !.frames = Append(c.frames, c.running), !.running = exc,
                      !.ipsr = exc, !.icsr = c.icsr /\ exc # EXC_SYSTICK]
    BY DEF exception_enter
  <2> QED
    BY <1>1, <2>1, <2>2, <2>3, <2>4 DEF Cores
<1>3. /\ s.running = exc /\ s.ipsr = exc /\ s.frames = Append(c.frames, c.running)
      /\ s.icsr = (c.icsr /\ exc # EXC_SYSTICK)
      /\ s.nvic_pending = c.nvic_pending /\ s.skip = c.skip
  BY DEF CoreOK, Cores, exception_enter
<1>4. c.frames \in Seq(Codes) /\ c.running \in Codes
  BY DEF CoreOK, Cores
<1>5. FramesOK(s)
  <2> HIDE DEF s
  <2>1. /\ s.frames # <<>> /\ Len(s.frames) = Len(c.frames) + 1
        /\ DOMAIN s.frames = 1 .. Len(c.frames) + 1
        /\ \A i \in 1 .. Len(c.frames) : s.frames[i] = c.frames[i]
        /\ s.frames[Len(c.frames) + 1] = c.running
    BY <1>3, <1>4
  <2>2. ASSUME NEW i \in DOMAIN s.frames PROVE s.frames[i] = Thread <=> i = 1
    <3>1. CASE i = Len(c.frames) + 1
      <4>1. c.frames = <<>> <=> Len(c.frames) = 0
        BY <1>4, EmptyFrames
      <4>2. s.frames[i] = c.running
        BY <2>1, <3>1
      <4>3. i = 1 <=> Len(c.frames) = 0
        BY <1>4, <3>1
      <4> QED
        BY <4>1, <4>2, <4>3 DEF CoreOK, FramesOK
    <3>2. CASE i \in 1 .. Len(c.frames)
      BY <1>4, <2>1, <3>2 DEF CoreOK, FramesOK
    <3> QED
      BY <1>4, <2>1, <3>1, <3>2
  <2>3. Len(s.frames) <= Depth
    BY <2>1, <1>4, CoreAssumption
  <2> QED
    BY <1>1, <1>3, <2>1, <2>2, <2>3 DEF FramesOK
<1> QED
  BY <1>2, <1>3, <1>5 DEF CoreOK, Entered

LEMMA ReturnEffect ==
  ASSUME NEW c, CoreOK(c), c.running # Thread
  PROVE  /\ CoreOK(exception_return(c))
         /\ exception_return(c).ipsr = 0
         /\ exception_return(c).skip
         /\ exception_return(c).running = c.frames[Len(c.frames)]
         /\ exception_return(c).frames = SubSeq(c.frames, 1, Len(c.frames) - 1)
         /\ exception_return(c).icsr = c.icsr
         /\ exception_return(c).nvic_pending = c.nvic_pending
<1> DEFINE s == exception_return(c)
           n == Len(c.frames)
<1>1. c.frames \in Seq(Codes) /\ c.frames # <<>> /\ n \in Nat \ {0}
  BY DEF CoreOK, Cores, FramesOK
<1>2. c.frames[n] \in Codes /\ SubSeq(c.frames, 1, n - 1) \in Seq(Codes)
  BY <1>1
<1>3. s \in Cores
  BY <1>2 DEF CoreOK, Cores, exception_return, Codes, Thread
<1>4. /\ s.ipsr = 0 /\ s.skip /\ s.running = c.frames[n]
      /\ s.frames = SubSeq(c.frames, 1, n - 1)
      /\ s.icsr = c.icsr /\ s.nvic_pending = c.nvic_pending
  BY DEF CoreOK, Cores, exception_return
<1>5. FramesOK(s)
  <2> HIDE DEF s
  <2>1. /\ Len(s.frames) = n - 1 /\ DOMAIN s.frames = 1 .. n - 1
        /\ \A i \in 1 .. n - 1 : s.frames[i] = c.frames[i]
    BY <1>1, <1>4
  <2>2. s.frames = <<>> <=> n = 1
    <3>1. s.frames = <<>> <=> Len(s.frames) = 0
      BY <1>2, <1>4, EmptyFrames
    <3> HIDE DEF n
    <3> QED
      BY <1>1, <2>1, <3>1
  <2>3. n <= Depth /\ n - 1 < Depth
    BY <1>1, CoreAssumption DEF CoreOK, FramesOK
  <2>4. s.running = Thread <=> n = 1
    <3>1. n \in DOMAIN c.frames
      BY <1>1
    <3> QED
      BY <1>4, <3>1 DEF CoreOK, FramesOK
  <2>5. ASSUME NEW i \in DOMAIN s.frames PROVE s.frames[i] = Thread <=> i = 1
    BY <1>1, <2>1 DEF CoreOK, FramesOK
  <2>6. Len(s.frames) <= Depth /\ Len(s.frames) # Depth
    <3> HIDE DEF n
    <3> QED
      BY <1>1, <2>1, <2>3, CoreAssumption
  <2> QED
    BY <2>2, <2>4, <2>5, <2>6 DEF FramesOK
<1> QED
  BY <1>3, <1>4, <1>5 DEF CoreOK

\* The counter leaves everything but itself and the pending bit alone, and that
\* too after a return and in handlers.
LEMMA TickEffect ==
  ASSUME NEW c, CoreOK(c)
  PROVE  LET t == peripherals_tick(c)
         IN  /\ CoreOK(t)
             /\ t.running = c.running /\ t.frames = c.frames /\ t.ipsr = c.ipsr
             /\ t.nvic_pending = c.nvic_pending
             /\ c.skip \/ c.ipsr # 0 => t.icsr = c.icsr
<1> DEFINE t == peripherals_tick(c)
<1>1. Counted(c) \in 0 .. MaxReload
  BY CoreAssumption DEF CoreOK, Cores, Counted
<1>2. CASE c.skip \/ c.ipsr # 0
  <2>1. t \in {c, [c EXCEPT !.skip = FALSE]}
    BY <1>2 DEF peripherals_tick
  <2>2. /\ t \in Cores /\ t.running = c.running /\ t.frames = c.frames
        /\ t.ipsr = c.ipsr /\ t.nvic_pending = c.nvic_pending /\ t.icsr = c.icsr
    BY <2>1 DEF CoreOK, Cores
  <2> QED
    BY <2>2 DEF CoreOK, FramesOK
<1>3. CASE ~(c.skip \/ c.ipsr # 0)
  <2>1. t = Tick(c)
    BY <1>3 DEF peripherals_tick
  <2>2. /\ t \in Cores /\ t.running = c.running /\ t.frames = c.frames
        /\ t.ipsr = c.ipsr /\ t.nvic_pending = c.nvic_pending
    BY <1>1, <2>1 DEF CoreOK, Cores, Tick
  <2> QED
    BY <1>3, <2>2 DEF CoreOK, FramesOK
<1> QED
  BY <1>2, <1>3

\* Either nothing is entered, and at most an interrupt without a handler is
\* dropped, or one exception is, in a state that allows it.
NotEntered(c, s) ==
  /\ s.running = c.running /\ s.frames = c.frames /\ s.ipsr = c.ipsr
  /\ s.icsr = c.icsr
  /\ \A i \in Irqs : i \in c.nvic_pending /\ EXC_IRQ0 + i \in Valid
                       => i \in s.nvic_pending
EntersOne(c, s) ==
  /\ c.ipsr = 0
  /\ \/ Entered(c, s, EXC_SYSTICK) /\ c.icsr /\ s.nvic_pending = c.nvic_pending
     \/ \E i \in Irqs : /\ Entered(c, s, EXC_IRQ0 + i) /\ ~c.icsr
                        /\ s.nvic_pending = c.nvic_pending \ {i}

LEMMA ServiceEffect ==
  ASSUME NEW c, CoreOK(c)
  PROVE  LET s == service_interrupts(c)
         IN  CoreOK(s) /\ (NotEntered(c, s) \/ EntersOne(c, s))
<1> DEFINE s == service_interrupts(c)
<1>0. c \in Cores /\ c.icsr \in BOOLEAN /\ c.primask \in BOOLEAN
  BY DEF CoreOK, Cores
<1>1. CASE c.ipsr # 0 \/ c.primask
  <2>1. s = c
    BY <1>1 DEF service_interrupts
  <2> QED
    BY <2>1 DEF NotEntered
<1>2. CASE ~(c.ipsr # 0 \/ c.primask) /\ c.icsr
  <2>1. s = exception_enter(c, EXC_SYSTICK)
    BY <1>2 DEF service_interrupts
  <2>2. CASE EXC_SYSTICK \notin Valid
    BY <2>1, <2>2 DEF exception_enter, NotEntered
  <2>3. CASE EXC_SYSTICK \in Valid
    <3>1. Len(c.frames) < Depth
      BY <1>2, CoreAssumption DEF CoreOK, Cores, FramesOK
    <3> QED
      BY <1>2, <2>1, <2>3, <3>1, EnterEffect DEF EntersOne
  <2> QED
    BY <2>2, <2>3
<1>3. CASE ~(c.ipsr # 0 \/ c.primask) /\ ~c.icsr /\ Served(c) = {}
  <2>1. s = c
    BY <1>3 DEF service_interrupts
  <2> QED
    BY <2>1 DEF NotEntered
<1>4. CASE ~(c.ipsr # 0 \/ c.primask) /\ ~c.icsr /\ Served(c) # {}
  <2> DEFINE i == Lowest(Served(c))
             d == [c EXCEPT !.nvic_pending = @ \ {i}]
  <2>1. i \in Irqs
    <3>1. Served(c) \in SUBSET Irqs
      BY <1>0 DEF Cores, Served
    <3> QED
      BY <3>1, <1>4, LowestIn
  <2>2. s = exception_enter(d, EXC_IRQ0 + i)
    BY <1>4 DEF service_interrupts
  <2> HIDE DEF i
  <2>3. d \in Cores
    BY <1>0 DEF Cores
  <2>4. /\ d.running = c.running /\ d.frames = c.frames /\ d.ipsr = c.ipsr
        /\ d.icsr = c.icsr /\ d.nvic_pending = c.nvic_pending \ {i}
    BY <1>0 DEF Cores
  <2> HIDE DEF d
  <2>5. CoreOK(d)
    BY <2>3, <2>4 DEF CoreOK, FramesOK
  <2>6. CASE EXC_IRQ0 + i \notin Valid
    <3>1. s = d
      BY <2>2, <2>6 DEF exception_enter
    <3> QED
      BY <3>1, <2>4, <2>5, <2>6 DEF NotEntered
  <2>7. CASE EXC_IRQ0 + i \in Valid
    <3>1. Len(d.frames) < Depth
      BY <1>4, <2>4, CoreAssumption DEF CoreOK, Cores, FramesOK
    <3>2. /\ CoreOK(s) /\ Entered(d, s, EXC_IRQ0 + i)
          /\ s.nvic_pending = d.nvic_pending
      BY <2>2, <2>5, <2>7, <3>1, EnterEffect
    <3>3. Entered(c, s, EXC_IRQ0 + i)
      BY <3>2, <2>4 DEF Entered
    <3> QED
      BY <1>4, <2>1, <2>4, <3>2, <3>3 DEF EntersOne
  <2> QED
    BY <2>6, <2>7
<1> QED
  BY <1>1, <1>2, <1>3, <1>4

-----------------------------------------------------------------------------
(* One pass of the loop, after an instruction that has left c.              *)

PassQuiet(c, s) ==
  /\ s.running = c.running /\ s.frames = c.frames /\ s.ipsr = c.ipsr
  /\ c.skip \/ c.ipsr # 0 => s.icsr = c.icsr
  /\ \A i \in Irqs : i \in c.nvic_pending /\ EXC_IRQ0 + i \in Valid
                       => i \in s.nvic_pending
PassEnters(c, s) ==
  /\ c.ipsr = 0
  /\ s.ipsr = s.running /\ s.frames = Append(c.frames, c.running) /\ ~s.icsr
  /\ \/ /\ s.running = EXC_SYSTICK /\ s.nvic_pending = c.nvic_pending
        /\ c.skip => c.icsr
     \/ \E i \in Irqs : /\ s.running = EXC_IRQ0 + i
                        /\ s.nvic_pending = c.nvic_pending \ {i}

LEMMA PassEffect ==
  ASSUME NEW c, CoreOK(c)
  PROVE  LET s == service_interrupts(peripherals_tick(c))
         IN  CoreOK(s) /\ (PassQuiet(c, s) \/ PassEnters(c, s))
<1> DEFINE t == peripherals_tick(c)
           s == service_interrupts(t)
<1>1. /\ CoreOK(t)
      /\ t.running = c.running /\ t.frames = c.frames /\ t.ipsr = c.ipsr
      /\ t.nvic_pending = c.nvic_pending
      /\ c.skip \/ c.ipsr # 0 => t.icsr = c.icsr
  BY TickEffect
<1> HIDE DEF t
<1>2. CoreOK(s) /\ (NotEntered(t, s) \/ EntersOne(t, s))
  BY <1>1, ServiceEffect
<1> HIDE DEF s
<1>3. ASSUME NotEntered(t, s) PROVE PassQuiet(c, s)
  BY <1>1, <1>3 DEF NotEntered, PassQuiet
<1>4. ASSUME EntersOne(t, s) PROVE PassEnters(c, s)
  <2>1. CASE Entered(t, s, EXC_SYSTICK) /\ t.icsr /\ s.nvic_pending = t.nvic_pending
    BY <1>1, <1>4, <2>1 DEF EntersOne, Entered, PassEnters
  <2>2. ASSUME NEW i \in Irqs, Entered(t, s, EXC_IRQ0 + i), ~t.icsr,
               s.nvic_pending = t.nvic_pending \ {i}
        PROVE  PassEnters(c, s)
    BY <1>1, <1>4, <2>2 DEF EntersOne, Entered, PassEnters
  <2> QED
    BY <1>4, <2>1, <2>2 DEF EntersOne
<1> QED
  BY <1>2, <1>3, <1>4 DEF s, t

-----------------------------------------------------------------------------
(* The inductive invariant                                                  *)

HistoryOK == /\ stopped \in BOOLEAN /\ nested \in BOOLEAN /\ pended \in BOOLEAN
             /\ progressed \in BOOLEAN /\ owed \subseteq Irqs
ActiveOne(c) == /\ Len(c.frames) <= 1 /\ c.ipsr = c.running
                /\ \A i \in DOMAIN c.frames : c.frames[i] = Thread
\* Nothing sets SysTick pending between its entry and the next instruction of
\* the code it interrupted.
Quiescent ==
  ~nested /\ ~pended =>
    /\ core.running = EXC_SYSTICK => progressed /\ ~core.icsr
    /\ ~progressed => ~core.icsr
CoreInv == HistoryOK /\ CoreOK(core) /\ OneActive /\ NoInterruptLost /\ Quiescent

LEMMA InitInv == Init => CoreInv
<1> SUFFICES ASSUME Init PROVE CoreInv
  OBVIOUS
<1>1. CoreOK(core)
  BY CoreAssumption DEF Init, CoreOK, Cores, FramesOK, Codes, Thread
<1>2. OneActive /\ HistoryOK /\ NoInterruptLost
  <2>1. core.frames = <<>> /\ core.ipsr = core.running
    BY DEF Init, Thread
  <2>2. Len(core.frames) <= 1 /\ DOMAIN core.frames = {}
    BY <2>1
  <2>3. HistoryOK /\ NoInterruptLost
    BY DEF Init, HistoryOK, NoInterruptLost
  <2> QED
    BY <2>1, <2>2, <2>3 DEF OneActive
<1>3. Quiescent
  BY DEF Init, Quiescent, Thread, EXC_SYSTICK
<1> QED
  BY <1>1, <1>2, <1>3 DEF CoreInv

\* What an instruction must leave for the invariant to hold after its pass.
Ready(c, set, cleared) ==
  /\ CoreOK(c)
  /\ set \subseteq Irqs /\ cleared \subseteq Irqs
  /\ nested' \in BOOLEAN /\ pended' \in BOOLEAN /\ progressed' \in BOOLEAN
  /\ ~nested' => ActiveOne(c)
  /\ \A i \in (owed \cup set) \ cleared :
       i \in c.nvic_pending \/ EXC_IRQ0 + i \notin Valid
  /\ ~nested' /\ ~pended' =>
       /\ c.running = EXC_SYSTICK => progressed' /\ ~c.icsr
       /\ ~progressed' => ~c.icsr /\ (c.skip \/ c.ipsr # 0)

LEMMA PassInv ==
  ASSUME CoreInv, NEW c, NEW set, NEW cleared, Ready(c, set, cleared),
         Pass(c, set, cleared)
  PROVE  CoreInv'
<1>1. CoreOK(core') /\ (PassQuiet(c, core') \/ PassEnters(c, core'))
  BY PassEffect DEF Ready, Pass
<1>2. owed' = ((owed \cup set) \ cleared) \ {i \in Irqs :
                /\ core'.running = EXC_IRQ0 + i
                /\ Len(core'.frames) > Len(c.frames)}
  BY DEF Pass
<1>3. HistoryOK'
  BY <1>2 DEF CoreInv, HistoryOK, Ready, Pass
<1>4. c.frames \in Seq(Codes) /\ c.running \in Codes
      /\ (c.running = Thread <=> c.frames = <<>>)
  BY DEF Ready, CoreOK, Cores, FramesOK
<1>5. CASE PassQuiet(c, core')
  <2>1. OneActive'
    BY <1>5 DEF PassQuiet, OneActive, Ready, ActiveOne
  <2>2. NoInterruptLost'
    BY <1>2, <1>3, <1>5 DEF PassQuiet, NoInterruptLost, Ready, HistoryOK
  <2>3. ~nested' => c.ipsr = c.running
    BY DEF Ready, ActiveOne
  <2>4. EXC_SYSTICK # 0
    BY DEF EXC_SYSTICK
  <2>5. Quiescent'
    BY <1>5, <2>3, <2>4 DEF PassQuiet, Quiescent, Ready
  <2> QED
    BY <1>1, <1>3, <2>1, <2>2, <2>5 DEF CoreInv
<1>6. CASE PassEnters(c, core')
  <2>1. /\ Len(core'.frames) = Len(c.frames) + 1 /\ Len(c.frames) \in Nat
        /\ c.frames = <<>> => /\ Len(core'.frames) <= 1
                              /\ \A i \in DOMAIN core'.frames :
                                   core'.frames[i] = c.running
    <3>1. core'.frames = Append(c.frames, c.running)
      BY <1>6 DEF PassEnters
    <3> QED
      BY <1>4, <3>1, PushFrame
  <2>2. OneActive'
    <3>1. SUFFICES ASSUME ~nested' PROVE ActiveOne(core')
      BY DEF OneActive, ActiveOne
    <3>2. c.running = Thread
      BY <1>6, <3>1 DEF PassEnters, Ready, ActiveOne, Thread
    <3> QED
      BY <1>4, <1>6, <2>1, <3>2 DEF PassEnters, ActiveOne
  <2>3. ASSUME NEW i \in owed'
        PROVE  i \in core'.nvic_pending \/ EXC_IRQ0 + i \notin Valid
    <3>1. /\ i \in (owed \cup set) \ cleared /\ i \in Irqs
          /\ core'.running # EXC_IRQ0 + i
      BY <1>2, <1>3, <2>1, <2>3 DEF HistoryOK
    <3>2. i \in c.nvic_pending \/ EXC_IRQ0 + i \notin Valid
      BY <3>1 DEF Ready
    <3> QED
      BY <1>6, <3>1, <3>2 DEF PassEnters
  <2>4. Quiescent'
    <3>1. ASSUME NEW i \in Irqs PROVE EXC_IRQ0 + i # EXC_SYSTICK
      BY CodeFacts
    <3> QED
      BY <1>6, <3>1 DEF PassEnters, Quiescent, Ready
  <2> QED
    BY <1>1, <1>3, <2>2, <2>3, <2>4 DEF CoreInv, NoInterruptLost
<1> QED
  BY <1>1, <1>5, <1>6

-----------------------------------------------------------------------------
(* The instructions                                                         *)

\* Instructions that touch neither the code running nor its frames.
Local(c) == /\ CoreOK(c) /\ c.running = core.running /\ c.frames = core.frames
            /\ c.ipsr = core.ipsr

LEMMA LocalInv ==
  ASSUME CoreInv, NEW c, Local(c), NEW set \in SUBSET Irqs,
         NEW cleared \in SUBSET Irqs, Pass(c, set, cleared),
         c.nvic_pending = (core.nvic_pending \cup set) \ cleared,
         Progress, nested' = nested, pended' \in BOOLEAN,
         ~pended' => ~pended /\ (c.icsr => core.icsr)
  PROVE  CoreInv'
<1>1. /\ c.running = core.running /\ c.frames = core.frames /\ c.ipsr = core.ipsr
      /\ CoreOK(c)
  BY DEF Local
<1>2. /\ nested' \in BOOLEAN /\ progressed' \in BOOLEAN
      /\ ~nested' => ActiveOne(c)
  BY <1>1 DEF CoreInv, HistoryOK, Progress, OneActive, ActiveOne
<1>3. \A i \in (owed \cup set) \ cleared :
        i \in c.nvic_pending \/ EXC_IRQ0 + i \notin Valid
  BY DEF CoreInv, NoInterruptLost
<1>4. ASSUME ~nested', ~pended'
      PROVE  /\ c.running = EXC_SYSTICK => progressed' /\ ~c.icsr
             /\ ~progressed' => ~c.icsr /\ (c.skip \/ c.ipsr # 0)
  <2>1. c.running = EXC_SYSTICK => progressed' /\ ~c.icsr
    BY <1>1, <1>4 DEF CoreInv, Quiescent, Progress
  <2>2. ASSUME ~progressed' PROVE ~c.icsr /\ c.ipsr # 0
    BY <1>1, <1>2, <1>4, <2>2 DEF CoreInv, Quiescent, Progress, ActiveOne, Thread
  <2> QED
    BY <2>1, <2>2
<1> QED
  BY <1>1, <1>2, <1>3, <1>4, PassInv DEF Ready

LEMMA CallInv ==
  ASSUME CoreInv, NEW exc \in {EXC_HARDFAULT, EXC_SVC}, Call(exc)
  PROVE  CoreInv'
<1>1. CASE exc \in Valid
  <2> DEFINE c == exception_enter(core, exc)
  <2>1. /\ Pass(c, {}, {}) /\ nested' = (nested \/ core.running # Thread)
        /\ Progress /\ pended' = pended /\ Len(core.frames) < Depth
    BY <1>1 DEF Call
  <2>2. CoreOK(core)
    BY DEF CoreInv
  <2>3. CoreOK(c) /\ Entered(core, c, exc) /\ c.nvic_pending = core.nvic_pending
    BY <1>1, <2>1, <2>2, EnterEffect
  <2> HIDE DEF c
  <2>4. /\ c.running = exc /\ c.ipsr = exc /\ exc # 0 /\ exc # EXC_SYSTICK
        /\ c.icsr => core.icsr
    <3>1. exc # 0 /\ exc # EXC_SYSTICK
      BY DEF EXC_HARDFAULT, EXC_SVC, EXC_SYSTICK
    <3> QED
      BY <2>3, <3>1, Zenon DEF Entered
  <2>5. ~nested' => ActiveOne(c)
    <3>1. SUFFICES ASSUME ~nested' PROVE ActiveOne(c)
      OBVIOUS
    <3>2. core.frames = <<>>
      BY <2>1, <2>2, <3>1 DEF CoreOK, FramesOK
    <3>3. /\ c.frames = Append(core.frames, core.running) /\ core.running = Thread
          /\ core.frames \in Seq(Codes) /\ core.running \in Codes
      BY <2>1, <2>2, <2>3, <3>1 DEF Entered, CoreOK, Cores
    <3> QED
      BY <2>4, <3>2, <3>3, PushFrame DEF ActiveOne
  <2>6. /\ nested' \in BOOLEAN /\ pended' \in BOOLEAN /\ progressed' \in BOOLEAN
    BY <2>1 DEF CoreInv, HistoryOK, Progress
  <2>7. \A i \in owed : i \in c.nvic_pending \/ EXC_IRQ0 + i \notin Valid
    BY <2>3 DEF CoreInv, NoInterruptLost
  <2>8. ASSUME ~nested', ~pended', ~progressed' PROVE ~c.icsr
    BY <2>1, <2>4, <2>8 DEF CoreInv, Quiescent, Progress
  <2>9. Ready(c, {}, {})
    BY <2>3, <2>4, <2>5, <2>6, <2>7, <2>8 DEF Ready
  <2> QED
    BY <2>1, <2>9, PassInv
<1>2. CASE exc \notin Valid
  BY <1>2 DEF Call, CoreInv, HistoryOK, OneActive, NoInterruptLost, Quiescent
<1> QED
  BY <1>1, <1>2

LEMMA ReturnInv ==
  ASSUME CoreInv, Return
  PROVE  CoreInv'
<1> DEFINE c == exception_return(core)
<1>1. /\ Pass(c, {}, {}) /\ core.running # Thread
      /\ nested' = nested /\ pended' = pended
      /\ progressed' = (progressed /\ core.running # EXC_SYSTICK)
  BY DEF Return
<1>2. CoreOK(core)
  BY DEF CoreInv
<1>3. /\ CoreOK(c) /\ c.ipsr = 0 /\ c.skip
      /\ c.running = core.frames[Len(core.frames)]
      /\ c.frames = SubSeq(core.frames, 1, Len(core.frames) - 1)
      /\ c.icsr = core.icsr /\ c.nvic_pending = core.nvic_pending
  BY <1>1, <1>2, ReturnEffect
<1> HIDE DEF c
<1>4. ~nested' => ActiveOne(c) /\ c.running = Thread
  <2>1. SUFFICES ASSUME ~nested' PROVE ActiveOne(c) /\ c.running = Thread
    OBVIOUS
  <2>2. core.frames \in Seq(Codes) /\ core.frames # <<>> /\ Len(core.frames) <= 1
    BY <1>1, <1>2, <2>1 DEF CoreInv, OneActive, CoreOK, Cores, FramesOK
  <2>3. Len(core.frames) = 1 /\ 1 \in DOMAIN core.frames
    BY <2>2, OneFrame
  <2>4. c.running = Thread
    BY <1>1, <1>3, <2>1, <2>3 DEF CoreInv, OneActive
  <2>5. Len(c.frames) <= 1 /\ DOMAIN c.frames = {}
    BY <1>3, <2>2, <2>3
  <2> QED
    BY <1>3, <2>4, <2>5 DEF ActiveOne, Thread
<1>5. nested' \in BOOLEAN /\ pended' \in BOOLEAN /\ progressed' \in BOOLEAN
  BY <1>1 DEF CoreInv, HistoryOK
<1>6. \A i \in owed : i \in c.nvic_pending \/ EXC_IRQ0 + i \notin Valid
  BY <1>3 DEF CoreInv, NoInterruptLost
<1>7. ASSUME ~nested', ~pended'
      PROVE  c.running # EXC_SYSTICK /\ (~progressed' => ~c.icsr)
  <2>1. c.running # EXC_SYSTICK
    BY <1>4, <1>7 DEF Thread, EXC_SYSTICK
  <2>2. ~progressed' => ~core.icsr
    BY <1>1, <1>7 DEF CoreInv, Quiescent
  <2> QED
    BY <1>3, <2>1, <2>2
<1>8. Ready(c, {}, {})
  BY <1>3, <1>4, <1>5, <1>6, <1>7 DEF Ready
<1> QED
  BY <1>1, <1>8, PassInv

LEMMA LocalOK ==
  ASSUME CoreOK(core), NEW c \in Cores, c.running = core.running,
         c.frames = core.frames, c.ipsr = core.ipsr
  PROVE  Local(c)
  BY DEF Local, CoreOK, FramesOK

LEMMA StoreInv ==
  ASSUME CoreInv, Store
  PROVE  CoreInv'
<1>0. /\ core \in Cores /\ CoreOK(core) /\ pended \in BOOLEAN
      /\ core.nvic_pending \in SUBSET Irqs /\ core.nvic_enable \in SUBSET Irqs
      /\ core.icsr \in BOOLEAN
  BY DEF CoreInv, CoreOK, Cores, HistoryOK
<1>1. ASSUME NEW enable \in BOOLEAN, NEW tickint \in BOOLEAN,
             WriteCsr(enable, tickint)
      PROVE  CoreInv'
  <2> DEFINE c == [core EXCEPT !.enable = enable, !.tickint = tickint]
  <2>1. /\ c \in Cores /\ c.running = core.running /\ c.frames = core.frames
        /\ c.ipsr = core.ipsr /\ c.icsr = core.icsr
        /\ c.nvic_pending = (core.nvic_pending \cup {}) \ {}
    BY <1>0 DEF Cores
  <2>2. Pass(c, {}, {}) /\ Progress /\ nested' = nested /\ pended' = pended
    BY <1>1 DEF WriteCsr
  <2> HIDE DEF c
  <2> QED
    BY <1>0, <2>1, <2>2, LocalOK, LocalInv
<1>2. ASSUME NEW reload \in 0 .. MaxReload, WriteRvr(reload) PROVE CoreInv'
  <2> DEFINE c == [core EXCEPT !.syst_rvr = reload]
  <2>1. /\ c \in Cores /\ c.running = core.running /\ c.frames = core.frames
        /\ c.ipsr = core.ipsr /\ c.icsr = core.icsr
        /\ c.nvic_pending = (core.nvic_pending \cup {}) \ {}
    BY <1>0 DEF Cores
  <2>2. Pass(c, {}, {}) /\ Progress /\ nested' = nested /\ pended' = pended
    BY <1>2 DEF WriteRvr
  <2> HIDE DEF c
  <2> QED
    BY <1>0, <2>1, <2>2, LocalOK, LocalInv
<1>3. ASSUME WriteCvr PROVE CoreInv'
  <2> DEFINE c == [core EXCEPT !.syst_cvr = 0]
  <2>1. /\ c \in Cores /\ c.running = core.running /\ c.frames = core.frames
        /\ c.ipsr = core.ipsr /\ c.icsr = core.icsr
        /\ c.nvic_pending = (core.nvic_pending \cup {}) \ {}
    BY <1>0, CoreAssumption DEF Cores
  <2>2. Pass(c, {}, {}) /\ Progress /\ nested' = nested /\ pended' = pended
    BY <1>3 DEF WriteCvr
  <2> HIDE DEF c
  <2> QED
    BY <1>0, <2>1, <2>2, LocalOK, LocalInv
<1>4. ASSUME NEW pend \in BOOLEAN, WriteIcsr(pend) PROVE CoreInv'
  <2> DEFINE c == [core EXCEPT !.icsr = pend]
  <2>1. /\ c \in Cores /\ c.running = core.running /\ c.frames = core.frames
        /\ c.ipsr = core.ipsr /\ c.icsr = pend
        /\ c.nvic_pending = (core.nvic_pending \cup {}) \ {}
    BY <1>0 DEF Cores
  <2>2. /\ Pass(c, {}, {}) /\ Progress /\ nested' = nested
        /\ pended' = (pended \/ pend)
    BY <1>4 DEF WriteIcsr
  <2> HIDE DEF c
  <2> QED
    BY <1>0, <2>1, <2>2, LocalOK, LocalInv
<1>5. ASSUME NEW mask \in SUBSET Irqs,
             WriteIser(mask) \/ WriteIcer(mask)
      PROVE  CoreInv'
  <2>1. PICK enabled \in SUBSET Irqs :
          /\ Pass([core EXCEPT !.nvic_enable = enabled], {}, {})
          /\ Progress /\ nested' = nested /\ pended' = pended
    <3>1. CASE WriteIser(mask)
      <4>1. core.nvic_enable \cup mask \in SUBSET Irqs
        BY <1>0
      <4> QED
        BY <3>1, <4>1 DEF WriteIser
    <3>2. CASE WriteIcer(mask)
      <4>1. core.nvic_enable \ mask \in SUBSET Irqs
        BY <1>0
      <4> QED
        BY <3>2, <4>1 DEF WriteIcer
    <3> QED
      BY <1>5, <3>1, <3>2
  <2> DEFINE c == [core EXCEPT !.nvic_enable = enabled]
  <2>2. /\ c \in Cores /\ c.running = core.running /\ c.frames = core.frames
        /\ c.ipsr = core.ipsr /\ c.icsr = core.icsr
        /\ c.nvic_pending = (core.nvic_pending \cup {}) \ {}
    BY <1>0 DEF Cores
  <2>3. Pass(c, {}, {})
    BY <2>1
  <2> HIDE DEF c
  <2> QED
    BY <1>0, <2>1, <2>2, <2>3, LocalOK, LocalInv
<1>6. ASSUME NEW mask \in SUBSET Irqs, WriteIspr(mask) PROVE CoreInv'
  <2> DEFINE c == [core EXCEPT !.nvic_pending = @ \cup mask]
  <2>1. /\ c \in Cores /\ c.running = core.running /\ c.frames = core.frames
        /\ c.ipsr = core.ipsr /\ c.icsr = core.icsr
        /\ c.nvic_pending = (core.nvic_pending \cup mask) \ {}
    BY <1>0 DEF Cores
  <2>2. Pass(c, mask, {}) /\ Progress /\ nested' = nested /\ pended' = pended
    BY <1>6 DEF WriteIspr
  <2> HIDE DEF c
  <2> QED
    BY <1>0, <2>1, <2>2, LocalOK, LocalInv
<1>7. ASSUME NEW mask \in SUBSET Irqs, WriteIcpr(mask) PROVE CoreInv'
  <2> DEFINE c == [core EXCEPT !.nvic_pending = @ \ mask]
  <2>1. /\ c \in Cores /\ c.running = core.running /\ c.frames = core.frames
        /\ c.ipsr = core.ipsr /\ c.icsr = core.icsr
        /\ c.nvic_pending = (core.nvic_pending \cup {}) \ mask
    BY <1>0 DEF Cores
  <2>2. Pass(c, {}, mask) /\ Progress /\ nested' = nested /\ pended' = pended
    BY <1>7 DEF WriteIcpr
  <2> HIDE DEF c
  <2> QED
    BY <1>0, <2>1, <2>2, LocalOK, LocalInv
<1> QED
  BY <1>1, <1>2, <1>3, <1>4, <1>5, <1>6, <1>7 DEF Store

\* Every pass of the loop keeps the invariant.
LEMMA NextInv == CoreInv /\ [Next]_vars => CoreInv'
<1> SUFFICES ASSUME CoreInv, [Next]_vars PROVE CoreInv'
  OBVIOUS
<1>0. core \in Cores /\ CoreOK(core) /\ pended \in BOOLEAN /\ core.icsr \in BOOLEAN
  BY DEF CoreInv, CoreOK, Cores, HistoryOK
<1>1. ASSUME Plain PROVE CoreInv'
  <2>1. Pass(core, {}, {}) /\ Progress /\ nested' = nested /\ pended' = pended
    BY <1>1 DEF Plain
  <2>2. core.nvic_pending = (core.nvic_pending \cup {}) \ {}
    OBVIOUS
  <2> QED
    BY <1>0, <2>1, <2>2, LocalOK, LocalInv
<1>2. ASSUME NEW mask \in BOOLEAN, SetPrimask(mask) PROVE CoreInv'
  <2> DEFINE c == [core EXCEPT !.primask = mask]
  <2>1. /\ c \in Cores /\ c.running = core.running /\ c.frames = core.frames
        /\ c.ipsr = core.ipsr /\ c.icsr = core.icsr
        /\ c.nvic_pending = (core.nvic_pending \cup {}) \ {}
    BY <1>0 DEF Cores
  <2>2. Pass(c, {}, {}) /\ Progress /\ nested' = nested /\ pended' = pended
    BY <1>2 DEF SetPrimask
  <2> HIDE DEF c
  <2> QED
    BY <1>0, <2>1, <2>2, LocalOK, LocalInv
<1>3. ASSUME Accelerate PROVE CoreInv'
  BY <1>3 DEF Accelerate, Progress, CoreInv, HistoryOK, OneActive, NoInterruptLost,
     Quiescent
<1>4. ASSUME Stop PROVE CoreInv'
  BY <1>4 DEF Stop, history, CoreInv, HistoryOK, OneActive, NoInterruptLost, Quiescent
<1>5. ASSUME UNCHANGED vars PROVE CoreInv'
  BY <1>5 DEF vars, history, CoreInv, HistoryOK, OneActive, NoInterruptLost, Quiescent
<1> QED
  BY <1>1, <1>2, <1>3, <1>4, <1>5, StoreInv, CallInv, ReturnInv DEF Next

-----------------------------------------------------------------------------
(* Theorems                                                                 *)

\* The inductive invariant holds in every reachable state.
THEOREM CoreInvariance == Spec => []CoreInv
<1> QED
  BY InitInv, NextInv, PTL DEF Spec

\* The registers keep to their ranges and the stack holds one frame for each
\* handler entered, whatever the firmware does.
THEOREM CoreTypeCorrect == Spec => []CoreTypeOK
<1>1. CoreInv => CoreTypeOK
  BY DEF CoreInv, CoreOK, Cores, FramesOK, HistoryOK, CoreTypeOK
<1> QED
  BY CoreInvariance, <1>1, PTL

\* Without SVC or BKPT in handlers exceptions do not overlap: service_interrupts
\* only enters one while IPSR is 0, and IPSR is 0 only in Thread code.
THEOREM NoOverlap == Spec => []OneActive
<1>1. CoreInv => OneActive
  BY DEF CoreInv
<1> QED
  BY CoreInvariance, <1>1, PTL

\* No interrupt with a handler is lost between the store that sets it pending
\* and the entry of its handler.
THEOREM InterruptsKept == Spec => []NoInterruptLost
<1>1. CoreInv => NoInterruptLost
  BY DEF CoreInv
<1> QED
  BY CoreInvariance, <1>1, PTL

\* SysTick is not entered twice without an instruction of the interrupted code
\* in between, for any reload value.
THEOREM ThreadGetsOn == Spec => []ThreadProgress
<1>1. CoreInv => ThreadProgress
  BY DEF CoreInv, Quiescent, ThreadProgress
<1> QED
  BY CoreInvariance, <1>1, PTL

-----------------------------------------------------------------------------
(* Powers of two: Pow2 is defined by recursion, so that a function with its *)
(* equations is shown to exist first.                                       *)

Steps(S, n) == \A k \in 0 .. n - 1 : k \in S => k + 1 \in S

\* What holds of 0 and goes from one number to the next holds up to the bound.
LEMMA UpTo ==
  ASSUME NEW n \in Nat, NEW S, 0 \in S, Steps(S, n)
  PROVE  \A k \in 0 .. n : k \in S
<1> DEFINE Bad == (0 .. n) \ S
           Below == {p \in Nat \X Nat : p[1] < p[2]}
<1> SUFFICES ASSUME Bad # {} PROVE FALSE
  OBVIOUS
<1>1. IsWellFoundedOn(Below, Nat)
  BY NatLessThanWellFounded DEF OpToRel
<1>2. PICK k \in Bad : \A j \in Bad : <<j, k>> \notin Below
  <2>1. Bad \subseteq Nat
    OBVIOUS
  <2> HIDE DEF Bad, Below
  <2> QED
    BY <1>1, <2>1, WFMin
<1>3. k \in 1 .. n /\ k - 1 \in 0 .. n - 1 /\ <<k - 1, k>> \in Below
  OBVIOUS
<1>4. k - 1 \in S /\ (k - 1) + 1 = k
  BY <1>2, <1>3
<1> QED
  BY <1>2, <1>3, <1>4 DEF Steps

Doubles(Y, n) == /\ Y \in [0 .. n -> Nat \ {0}] /\ Y[0] = 1
                 /\ \A k \in 1 .. n : Y[k] = 2 * Y[k - 1]

LEMMA DoublesExist ==
  ASSUME NEW n \in Nat
  PROVE  \E Y : Doubles(Y, n)
<1> DEFINE T == {k \in 0 .. n : \E Y : Doubles(Y, k)}
<1>1. 0 \in T
  <2> DEFINE Y == [k \in 0 .. 0 |-> 1]
  <2>1. Doubles(Y, 0)
    BY DEF Doubles
  <2> HIDE DEF Y
  <2> QED
    BY <2>1
<1>2. ASSUME NEW k \in 0 .. n - 1, k \in T PROVE k + 1 \in T
  <2>1. PICK Y : Doubles(Y, k)
    BY <1>2
  <2> DEFINE X == [i \in 0 .. k + 1 |-> IF i = k + 1 THEN 2 * Y[k] ELSE Y[i]]
  <2>2. Y[k] \in Nat \ {0} /\ 2 * Y[k] \in Nat \ {0}
    BY <2>1 DEF Doubles
  <2>3. X \in [0 .. k + 1 -> Nat \ {0}] /\ X[0] = 1
    BY <2>1, <2>2 DEF Doubles
  <2>4. ASSUME NEW i \in 1 .. k + 1 PROVE X[i] = 2 * X[i - 1]
    <3>1. CASE i = k + 1
      BY <2>1, <3>1 DEF Doubles
    <3>2. CASE i # k + 1
      BY <2>1, <3>2 DEF Doubles
    <3> QED
      BY <3>1, <3>2
  <2> HIDE DEF X
  <2>5. Doubles(X, k + 1) /\ k + 1 \in 0 .. n
    BY <2>3, <2>4 DEF Doubles
  <2> QED
    BY <2>5
<1>3. n \in T
  <2> HIDE DEF T
  <2>1. Steps(T, n)
    BY <1>2 DEF Steps
  <2> QED
    BY <1>1, <2>1, UpTo
<1> QED
  BY <1>3

LEMMA WidthIs == W \in Nat /\ W >= 4
  BY ByteAssumption DEF W

LEMMA Pow2Is == Doubles(Pow2, W + 16)
<1> DEFINE Eq(Y) == Y = [k \in 0 .. W + 16 |-> IF k = 0 THEN 1 ELSE 2 * Y[k - 1]]
<1>1. PICK Y : Doubles(Y, W + 16)
  BY WidthIs, DoublesExist
<1>2. Eq(Y)
  <2>1. Y = [k \in 0 .. W + 16 |-> Y[k]]
    BY <1>1 DEF Doubles
  <2>2. ASSUME NEW k \in 0 .. W + 16 PROVE Y[k] = IF k = 0 THEN 1 ELSE 2 * Y[k - 1]
    <3>1. k = 0 \/ k \in 1 .. W + 16
      BY WidthIs
    <3> QED
      BY <1>1, <3>1 DEF Doubles
  <2> QED
    BY <2>1, <2>2
<1>3. Eq(Pow2)
  <2>1. Pow2 = CHOOSE Z : Eq(Z)
    BY DEF Pow2
  <2> HIDE DEF Eq
  <2> QED
    BY <1>2, <2>1
<1>4. Pow2[0] = 1 /\ \A k \in 1 .. W + 16 : Pow2[k] = 2 * Pow2[k - 1]
  BY <1>3, WidthIs
<1> DEFINE T == {k \in 0 .. W + 16 : Pow2[k] \in Nat \ {0}}
<1>5. 0 \in T
  BY <1>4, WidthIs
<1>6. ASSUME NEW k \in 0 .. W + 15, k \in T PROVE k + 1 \in T
  <2>1. k + 1 \in 1 .. W + 16 /\ (k + 1) - 1 = k /\ Pow2[k] \in Nat \ {0}
    BY <1>6, WidthIs
  <2>2. Pow2[k + 1] = 2 * Pow2[k]
    BY <1>4, <2>1
  <2> QED
    BY <2>1, <2>2
<1>7. \A k \in 0 .. W + 16 : k \in T
  <2> HIDE DEF T
  <2>1. W + 16 \in Nat /\ (W + 16) - 1 = W + 15
    BY WidthIs
  <2>2. Steps(T, W + 16)
    BY <1>6, <2>1 DEF Steps
  <2> QED
    BY <1>5, <2>1, <2>2, UpTo
<1> QED
  BY <1>3, <1>4, <1>7 DEF Doubles

LEMMA PowerIs ==
  /\ \A k \in 0 .. W + 16 : Pow2[k] \in Nat \ {0}
  /\ \A k \in 1 .. W + 16 : Pow2[k] = 2 * Pow2[k - 1]
  /\ Pow2[0] = 1 /\ Pow2[1] = 2 /\ Pow2[2] = 4 /\ Pow2[3] = 8 /\ Pow2[4] = 16
<1>1. /\ \A k \in 0 .. W + 16 : Pow2[k] \in Nat \ {0}
      /\ \A k \in 1 .. W + 16 : Pow2[k] = 2 * Pow2[k - 1]
      /\ Pow2[0] = 1
  BY Pow2Is DEF Doubles
<1>2. Pow2[1] = 2
  BY <1>1, WidthIs
<1>3. Pow2[2] = 4
  BY <1>1, <1>2, WidthIs
<1>4. Pow2[3] = 8
  BY <1>1, <1>3, WidthIs
<1>5. Pow2[4] = 16
  BY <1>1, <1>4, WidthIs
<1> QED
  BY <1>1, <1>2, <1>3, <1>4, <1>5

LEMMA Pow2Sum ==
  ASSUME NEW a \in Nat, NEW b \in Nat, a + b <= W + 16
  PROVE  Pow2[a + b] = Pow2[a] * Pow2[b]
<1> DEFINE T == {k \in 0 .. b : Pow2[a + k] = Pow2[a] * Pow2[k]}
<1>1. a \in 0 .. W + 16 /\ Pow2[a] \in Nat
  BY WidthIs, PowerIs
<1>2. 0 \in T
  BY <1>1, PowerIs
<1>3. ASSUME NEW k \in 0 .. b - 1, k \in T PROVE k + 1 \in T
  <2>1. /\ a + (k + 1) \in 1 .. W + 16 /\ (a + (k + 1)) - 1 = a + k
        /\ k + 1 \in 1 .. W + 16 /\ (k + 1) - 1 = k /\ k \in 0 .. W + 16 /\ k + 1 \in 0 .. b
    BY WidthIs
  <2>2. Pow2[a + (k + 1)] = 2 * Pow2[a + k] /\ Pow2[k + 1] = 2 * Pow2[k]
    BY <2>1, PowerIs
  <2>3. Pow2[k] \in Nat /\ Pow2[a + k] = Pow2[a] * Pow2[k]
    BY <1>3, <2>1, PowerIs
  <2>4. 2 * (Pow2[a] * Pow2[k]) = Pow2[a] * (2 * Pow2[k])
    BY <1>1, <2>3
  <2> QED
    BY <2>1, <2>2, <2>3, <2>4
<1> HIDE DEF T
<1>4. Steps(T, b)
  BY <1>3 DEF Steps
<1>5. b \in T
  BY <1>2, <1>4, UpTo
<1> QED
  BY <1>5 DEF T

-----------------------------------------------------------------------------
(* Words: half of them have the sign bit.                                   *)

HalfRange == Pow2[W - 1]

LEMMA RangeIs ==
  /\ HalfRange \in Nat /\ HalfRange >= 8 /\ Pow2[W] = 2 * HalfRange
  /\ Word = 0 .. 2 * HalfRange - 1
<1>1. W \in 1 .. W + 16 /\ W - 1 \in 0 .. W + 16 /\ W - 4 \in 0 .. W + 16 /\ 3 + (W - 4) = W - 1
      /\ 3 \in Nat /\ W - 4 \in Nat /\ W - 1 <= W + 16
  BY WidthIs
<1>2. HalfRange \in Nat /\ Pow2[W] = 2 * HalfRange
  BY <1>1, PowerIs DEF HalfRange
<1>3. HalfRange = 8 * Pow2[W - 4]
  BY <1>1, PowerIs, Pow2Sum DEF HalfRange
<1>4. Pow2[W - 4] \in Nat \ {0}
  BY <1>1, PowerIs
<1>5. HalfRange >= 8
  BY <1>3, <1>4
<1> QED
  BY <1>2, <1>5 DEF Word

\* A number is its quotient and its remainder, in one way only.
LEMMA QuotientIs ==
  ASSUME NEW w \in Nat \ {0}, NEW x \in Int, NEW k \in Int, NEW r \in 0 .. w - 1, x = w * k + r
  PROVE  x \div w = k /\ x % w = r
<1> DEFINE c == x % w
           e == x \div w
           p == e - k
<1>1. c \in 0 .. w - 1 /\ e \in Int /\ x = w * e + c
  OBVIOUS
<1> HIDE DEF c, e
<1>2. p \in Int /\ w * p = r - c
  <2>1. w * p = w * e - w * k /\ w * e \in Int /\ w * k \in Int
    BY <1>1
  <2> QED
    BY <1>1, <2>1
<1> HIDE DEF p
<1>3. p >= 1 => w * p >= w
  <2> SUFFICES ASSUME p >= 1 PROVE w * p >= w
    OBVIOUS
  <2>1. p - 1 \in Nat /\ w * (p - 1) = w * p - w /\ w * p \in Int
    BY <1>2
  <2>2. w * (p - 1) >= 0
    BY <2>1
  <2> QED
    BY <2>1, <2>2
<1>4. p <= -1 => w * p <= -w
  <2> SUFFICES ASSUME p <= -1 PROVE w * p <= -w
    OBVIOUS
  <2>1. -1 - p \in Nat /\ w * (-1 - p) = -w - w * p /\ w * p \in Int
    BY <1>2
  <2>2. w * (-1 - p) >= 0
    BY <2>1
  <2> QED
    BY <2>1, <2>2
<1>5. p = 0
  BY <1>1, <1>2, <1>3, <1>4
<1>6. e = k /\ c = r
  BY <1>1, <1>2, <1>5 DEF p
<1> QED
  BY <1>6 DEF c, e

\* What is kept of a number that is at most one word too large or too small.
LEMMA LowIs ==
  ASSUME NEW n \in Int
  PROVE  /\ n \in 0 .. 2 * HalfRange - 1 => Low(n) = n
         /\ n \in 2 * HalfRange .. 4 * HalfRange - 1 => Low(n) = n - 2 * HalfRange
         /\ n \in -2 * HalfRange .. -1 => Low(n) = n + 2 * HalfRange
<1> DEFINE w == 2 * HalfRange
<1>1. w \in Nat \ {0} /\ Low(n) = n % w
  BY RangeIs DEF Low
<1>2. ASSUME n \in 0 .. 2 * HalfRange - 1 PROVE Low(n) = n
  <2>1. n \in 0 .. w - 1 /\ n = w * 0 + n
    BY <1>2, <1>1
  <2> HIDE DEF w
  <2> QED
    BY <1>1, <2>1, QuotientIs
<1>3. ASSUME n \in 2 * HalfRange .. 4 * HalfRange - 1 PROVE Low(n) = n - 2 * HalfRange
  <2>1. n - w \in 0 .. w - 1 /\ n = w * 1 + (n - w)
    BY <1>3, RangeIs
  <2>2. n % w = n - w
    <3> HIDE DEF w
    <3> QED
      BY <1>1, <2>1, QuotientIs
  <2> QED
    BY <1>1, <2>2
<1>4. ASSUME n \in -2 * HalfRange .. -1 PROVE Low(n) = n + 2 * HalfRange
  <2>1. n + w \in 0 .. w - 1 /\ n = w * (-1) + (n + w)
    BY <1>4, RangeIs
  <2>2. n % w = n + w
    <3> HIDE DEF w
    <3> QED
      BY <1>1, <2>1, QuotientIs
  <2> QED
    BY <1>1, <2>2
<1> QED
  BY <1>2, <1>3, <1>4

LEMMA LowIsWord ==
  ASSUME NEW n \in Int
  PROVE  Low(n) \in Word
<1> DEFINE w == 2 * HalfRange
<1>1. w \in Nat \ {0} /\ Low(n) = n % w /\ Word = 0 .. w - 1
  BY RangeIs DEF Low
<1> HIDE DEF w
<1> QED
  BY <1>1

LEMMA SignIs ==
  ASSUME NEW a \in Word
  PROVE  /\ Negative(a) <=> a >= HalfRange
         /\ Negative(a) => Signed(a) = a - 2 * HalfRange
         /\ ~Negative(a) => Signed(a) = a
         /\ Not(a) = 2 * HalfRange - 1 - a
  BY RangeIs DEF Negative, Signed, sx, Not, HalfRange

-----------------------------------------------------------------------------
(* Sums and differences.                                                    *)

Cpus == [r : [0 .. 15 -> Word], mem : [0 .. RamSize - 1 -> 0 .. Pow2[B] - 1],
         n : BOOLEAN, z : BOOLEAN, c : BOOLEAN, v : BOOLEAN, primask : BOOLEAN,
         cycles : Word, steps : Nat, state : {"running", "stopped", "failed", "budget"}]

\* The flags are those of the sum.
FlagsOf(cpu, sum) ==
  /\ cpu.n <=> Negative(sum.value)
  /\ cpu.z <=> sum.value = 0
  /\ cpu.c <=> sum.c
  /\ cpu.v <=> sum.v

WithFlags(cpu, n, z, c, v) == [[cpu EXCEPT !.n = n, !.z = z] EXCEPT !.c = c, !.v = v]
\* Besides the flags nothing changes.
Flagged(cpu, before) == cpu = WithFlags(before, cpu.n, cpu.z, cpu.c, cpu.v)

\* The sum of two words and a carry, as a number: it goes beyond the words when
\* there is a carry, and beyond the numbers with a sign when both operands have
\* the sign that the result has not.
LEMMA SumIs ==
  ASSUME NEW a \in Word, NEW b \in Word, NEW k \in {0, 1}
  PROVE  LET s == Sum(a, b, k)
         IN  /\ s.value \in Word /\ s.value = Low(a + b + k)
             /\ s.c <=> a + b + k >= 2 * HalfRange
             /\ s.c => s.value = (a + b + k) - 2 * HalfRange
             /\ ~s.c => s.value = a + b + k
             /\ s.v <=> SumOverflows(a, b, s.value)
<1> DEFINE t == a + b + k
<1>1. t \in Int /\ a \in Nat /\ b \in Nat /\ HalfRange \in Nat /\ HalfRange >= 8
      /\ a < 2 * HalfRange /\ b < 2 * HalfRange
  BY RangeIs
<1>2. Low(t) \in Word
  BY <1>1, LowIsWord
<1>3. t >= 2 * HalfRange => Low(t) = t - 2 * HalfRange
  <2>1. t >= 2 * HalfRange => t \in 2 * HalfRange .. 4 * HalfRange - 1
    BY <1>1
  <2> HIDE DEF t
  <2> QED
    BY <1>1, <2>1, LowIs
<1>4. ~(t >= 2 * HalfRange) => Low(t) = t
  <2>1. ~(t >= 2 * HalfRange) => t \in 0 .. 2 * HalfRange - 1
    BY <1>1
  <2> HIDE DEF t
  <2> QED
    BY <1>1, <2>1, LowIs
<1>5. Signed(a) + Signed(b) + k # Signed(Low(t)) <=> SumOverflows(a, b, Low(t))
  <2> DEFINE l == Low(t)
  <2>1. /\ Negative(a) <=> a >= HalfRange
        /\ Negative(a) => Signed(a) = a - 2 * HalfRange
        /\ ~Negative(a) => Signed(a) = a
    BY SignIs
  <2>2. /\ Negative(b) <=> b >= HalfRange
        /\ Negative(b) => Signed(b) = b - 2 * HalfRange
        /\ ~Negative(b) => Signed(b) = b
    BY SignIs
  <2>3. /\ Negative(l) <=> l >= HalfRange
        /\ Negative(l) => Signed(l) = l - 2 * HalfRange
        /\ ~Negative(l) => Signed(l) = l
    BY <1>2, SignIs
  <2>4. l \in Nat /\ l < 2 * HalfRange
    BY <1>2, RangeIs
  <2>5. SumOverflows(a, b, l) <=> \/ Negative(a) /\ Negative(b) /\ ~Negative(l)
                                  \/ ~Negative(a) /\ ~Negative(b) /\ Negative(l)
    <3>1. Negative(a) \in BOOLEAN /\ Negative(b) \in BOOLEAN /\ Negative(l) \in BOOLEAN
      BY DEF Negative
    <3> HIDE DEF l
    <3> QED
      BY <3>1 DEF SumOverflows
  <2>6. t = l + 2 * HalfRange \/ t = l
    BY <1>1, <1>3, <1>4
  <2> HIDE DEF l
  <2> QED
    BY <1>1, <2>1, <2>2, <2>3, <2>4, <2>5, <2>6 DEF l
<1>6. /\ Sum(a, b, k).value = Low(t)
      /\ Sum(a, b, k).c <=> t >= Pow2[W]
      /\ Sum(a, b, k).v <=> Signed(a) + Signed(b) + k # Signed(Low(t))
  BY DEF Sum
<1>7. Pow2[W] = 2 * HalfRange
  BY RangeIs
<1> HIDE DEF t
<1>8. /\ Sum(a, b, k).c <=> t >= 2 * HalfRange
      /\ Sum(a, b, k).v <=> SumOverflows(a, b, Low(t))
  BY <1>5, <1>6, <1>7
<1>9. /\ Sum(a, b, k).c => Sum(a, b, k).value = t - 2 * HalfRange
      /\ ~Sum(a, b, k).c => Sum(a, b, k).value = t
  BY <1>3, <1>4, <1>6, <1>8
<1>10. /\ Sum(a, b, k).value \in Word
       /\ Sum(a, b, k).v <=> SumOverflows(a, b, Sum(a, b, k).value)
  BY <1>2, <1>6, <1>8
<1> QED
  BY <1>6, <1>8, <1>9, <1>10 DEF t

LEMMA CpuKept ==
  ASSUME NEW cpu \in Cpus, NEW n \in BOOLEAN, NEW z \in BOOLEAN, NEW c \in BOOLEAN, NEW v \in BOOLEAN
  PROVE  /\ WithFlags(cpu, n, z, c, v) \in Cpus /\ WithFlags(cpu, n, z, c, v).r = cpu.r
         /\ WithFlags(cpu, n, z, c, v).n = n /\ WithFlags(cpu, n, z, c, v).z = z
         /\ WithFlags(cpu, n, z, c, v).c = c /\ WithFlags(cpu, n, z, c, v).v = v
  BY DEF Cpus, WithFlags

\* Carry and overflow as the sum says, and the other two from its value.
LEMMA FlagsSet ==
  ASSUME NEW cpu \in Cpus, NEW a \in Word, NEW b \in Word, NEW k \in {0, 1},
         NEW c \in BOOLEAN, NEW v \in BOOLEAN, c <=> Sum(a, b, k).c, v <=> Sum(a, b, k).v,
         NEW value, value = Sum(a, b, k).value,
         NEW after, after = WithFlags(cpu, Negative(value), value = 0, c, v)
  PROVE  FlagsOf(after, Sum(a, b, k)) /\ Flagged(after, cpu)
<1> DEFINE n == Negative(value)
           z == value = 0
<1>1. n \in BOOLEAN /\ z \in BOOLEAN
  BY DEF Negative
<1>2. after = WithFlags(cpu, n, z, c, v)
  OBVIOUS
<1> HIDE DEF n, z
<1>3. after.n = n /\ after.z = z /\ after.c = c /\ after.v = v
  <2>1. /\ WithFlags(cpu, n, z, c, v).n = n /\ WithFlags(cpu, n, z, c, v).z = z
        /\ WithFlags(cpu, n, z, c, v).c = c /\ WithFlags(cpu, n, z, c, v).v = v
    BY <1>1, CpuKept
  <2> QED
    BY <1>2, <2>1
<1>4. Flagged(after, cpu)
  BY <1>2, <1>3 DEF Flagged
<1>5. (after.n <=> Negative(value)) /\ (after.z <=> value = 0)
  BY <1>3 DEF n, z
<1>6. (after.c <=> Sum(a, b, k).c) /\ (after.v <=> Sum(a, b, k).v)
  BY <1>3
<1> QED
  BY <1>4, <1>5, <1>6 DEF FlagsOf

\* A word is subtracted by adding its complement and 1, or not 1 after a borrow.
LEMMA DifferenceIs ==
  ASSUME NEW a \in Word, NEW b \in Word, NEW k \in {0, 1}
  PROVE  LET s == Sum(a, Not(b), k)
         IN  /\ Not(b) \in Word /\ s.value = Low(a - b - 1 + k)
             /\ s.c <=> a >= b + 1 - k
             /\ s.v <=> DifferenceOverflows(a, b, s.value)
<1> DEFINE s == Sum(a, Not(b), k)
           t == a - b - 1 + k
<1>1. /\ a \in Nat /\ b \in Nat /\ HalfRange \in Nat /\ HalfRange >= 8
      /\ a < 2 * HalfRange /\ b < 2 * HalfRange /\ t \in Int
  BY RangeIs
<1>2. Not(b) = 2 * HalfRange - 1 - b /\ Not(b) \in Word
  BY <1>1, RangeIs, SignIs
<1>3. /\ s.value \in Word
      /\ s.c <=> a + Not(b) + k >= 2 * HalfRange
      /\ s.c => s.value = (a + Not(b) + k) - 2 * HalfRange
      /\ ~s.c => s.value = a + Not(b) + k
      /\ s.v <=> SumOverflows(a, Not(b), s.value)
  BY <1>2, SumIs
<1>4. a + Not(b) + k = t + 2 * HalfRange
  BY <1>1, <1>2
<1>5. s.c <=> t >= 0
  BY <1>1, <1>3, <1>4
<1>6. s.value = Low(t)
  <2>1. t >= 0 => t \in 0 .. 2 * HalfRange - 1
    BY <1>1
  <2>2. ~(t >= 0) => t \in -2 * HalfRange .. -1
    BY <1>1
  <2> HIDE DEF t, s
  <2>3. CASE t >= 0
    <3>1. Low(t) = t
      BY <1>1, <2>1, <2>3, LowIs
    <3> QED
      BY <1>1, <1>3, <1>4, <1>5, <2>3, <3>1
  <2>4. CASE ~(t >= 0)
    <3>1. Low(t) = t + 2 * HalfRange
      BY <1>1, <2>2, <2>4, LowIs
    <3> QED
      BY <1>3, <1>4, <1>5, <2>4, <3>1
  <2> QED
    BY <2>3, <2>4
<1>7. t >= 0 <=> a >= b + 1 - k
  BY <1>1
<1>8. SumOverflows(a, Not(b), s.value) <=> DifferenceOverflows(a, b, s.value)
  <2>1. Negative(Not(b)) <=> ~Negative(b)
    BY <1>1, <1>2, SignIs
  <2>2. /\ Negative(a) \in BOOLEAN /\ Negative(b) \in BOOLEAN /\ Negative(Not(b)) \in BOOLEAN
        /\ Negative(s.value) \in BOOLEAN
    BY DEF Negative
  <2> HIDE DEF s
  <2> QED
    BY <2>1, <2>2 DEF SumOverflows, DifferenceOverflows
<1> HIDE DEF t, s
<1>9. s.c <=> a >= b + 1 - k
  BY <1>5, <1>7
<1>10. s.v <=> DifferenceOverflows(a, b, s.value)
  BY <1>3, <1>8
<1> QED
  BY <1>2, <1>6, <1>9, <1>10 DEF t, s

\* What an operator makes of the flags of cpu, and of nothing else of it.
Sums(after, cpu, sum) == FlagsOf(after, sum) /\ Flagged(after, cpu)

LEMMA SumFlags ==
  ASSUME NEW cpu \in Cpus, NEW a \in Word, NEW b \in Word
  PROVE  /\ Sum(a, b, 0).value = Low(a + b)
         /\ Sums(set_add_flags(cpu, a, b, Low(a + b)), cpu, Sum(a, b, 0))
<1> DEFINE s == Sum(a, b, 0)
           value == Low(a + b)
           c == value < a
           v == SumOverflows(a, b, value)
           after == set_add_flags(cpu, a, b, value)
<1>1. /\ a \in Nat /\ b \in Nat /\ HalfRange \in Nat /\ a < 2 * HalfRange /\ b < 2 * HalfRange
      /\ a + b + 0 = a + b
  BY RangeIs
<1>2. /\ s.value = value
      /\ s.c <=> a + b >= 2 * HalfRange
      /\ s.c => s.value = (a + b) - 2 * HalfRange
      /\ ~s.c => s.value = a + b
      /\ s.v <=> SumOverflows(a, b, s.value)
  BY <1>1, SumIs
<1>3. after = WithFlags(cpu, Negative(value), value = 0, c, v)
  BY DEF set_add_flags, set_nz, WithFlags
<1>4. c \in BOOLEAN /\ v \in BOOLEAN
  BY DEF SumOverflows
<1> HIDE DEF s, after
<1>5. c <=> s.c
  <2> HIDE DEF value
  <2> QED
    BY <1>1, <1>2
<1>6. v <=> s.v
  BY <1>2
<1> HIDE DEF value, c, v
<1> QED
  BY <1>2, <1>3, <1>4, <1>5, <1>6, FlagsSet DEF Sums, s, after, value

LEMMA CarriedSumFlags ==
  ASSUME NEW cpu \in Cpus, NEW a \in Word, NEW b \in Word, NEW k \in BOOLEAN
  PROVE  /\ Sum(a, b, One(k)).value = Low(a + b + One(k))
         /\ Sums(set_adc_flags(cpu, a, b, k, Low(a + b + One(k))), cpu, Sum(a, b, One(k)))
<1> DEFINE s == Sum(a, b, One(k))
           value == Low(a + b + One(k))
           c == a + b + One(k) >= Pow2[W]
           v == SumOverflows(a, b, value)
           after == set_adc_flags(cpu, a, b, k, value)
<1>1. One(k) \in {0, 1} /\ Pow2[W] = 2 * HalfRange
  BY RangeIs DEF One
<1>2. /\ s.value = value
      /\ s.c <=> a + b + One(k) >= 2 * HalfRange
      /\ s.v <=> SumOverflows(a, b, s.value)
  BY <1>1, SumIs
<1>3. after = WithFlags(cpu, Negative(value), value = 0, c, v)
  BY DEF set_adc_flags, set_nz, WithFlags
<1>4. c \in BOOLEAN /\ v \in BOOLEAN
  BY DEF SumOverflows
<1> HIDE DEF s, after
<1>5. (c <=> s.c) /\ (v <=> s.v)
  BY <1>1, <1>2
<1> HIDE DEF value, c, v
<1> QED
  BY <1>1, <1>2, <1>3, <1>4, <1>5, FlagsSet DEF Sums, s, after, value

LEMMA DifferenceFlags ==
  ASSUME NEW cpu \in Cpus, NEW a \in Word, NEW b \in Word
  PROVE  /\ Sum(a, Not(b), 1).value = Low(a - b)
         /\ Sums(set_sub_flags(cpu, a, b, Low(a - b)), cpu, Sum(a, Not(b), 1))
<1> DEFINE s == Sum(a, Not(b), 1)
           value == Low(a - b)
           c == a >= b
           v == DifferenceOverflows(a, b, value)
           after == set_sub_flags(cpu, a, b, value)
<1>1. a - b - 1 + 1 = a - b /\ b + 1 - 1 = b
  BY RangeIs
<1>2. /\ Not(b) \in Word /\ s.value = value
      /\ s.c <=> a >= b
      /\ s.v <=> DifferenceOverflows(a, b, s.value)
  BY <1>1, DifferenceIs
<1>3. after = WithFlags(cpu, Negative(value), value = 0, c, v)
  BY DEF set_sub_flags, set_nz, WithFlags
<1>4. c \in BOOLEAN /\ v \in BOOLEAN
  BY DEF DifferenceOverflows
<1> HIDE DEF s, after
<1>5. (c <=> s.c) /\ (v <=> s.v)
  BY <1>2
<1> HIDE DEF value, c, v
<1> QED
  BY <1>2, <1>3, <1>4, <1>5, FlagsSet DEF Sums, s, after, value

LEMMA BorrowedDifferenceFlags ==
  ASSUME NEW cpu \in Cpus, NEW a \in Word, NEW b \in Word, NEW k \in BOOLEAN
  PROVE  /\ Sum(a, Not(b), One(k)).value = Low(a - b - 1 + One(k))
         /\ Sums(set_sbc_flags(cpu, a, b, k, Low(a - b - 1 + One(k))), cpu,
                 Sum(a, Not(b), One(k)))
<1> DEFINE s == Sum(a, Not(b), One(k))
           value == Low(a - b - 1 + One(k))
           c == a >= b + 1 - One(k)
           v == DifferenceOverflows(a, b, value)
           after == set_sbc_flags(cpu, a, b, k, value)
<1>1. One(k) \in {0, 1}
  BY DEF One
<1>2. /\ Not(b) \in Word /\ s.value = value
      /\ s.c <=> a >= b + 1 - One(k)
      /\ s.v <=> DifferenceOverflows(a, b, s.value)
  BY <1>1, DifferenceIs
<1>3. after = WithFlags(cpu, Negative(value), value = 0, c, v)
  BY DEF set_sbc_flags, set_nz, WithFlags
<1>4. c \in BOOLEAN /\ v \in BOOLEAN
  BY DEF DifferenceOverflows
<1> HIDE DEF s, after
<1>5. (c <=> s.c) /\ (v <=> s.v)
  BY <1>2
<1> HIDE DEF value, c, v
<1> QED
  BY <1>1, <1>2, <1>3, <1>4, <1>5, FlagsSet DEF Sums, s, after, value

LEMMA FieldIs ==
  ASSUME NEW op \in Nat, NEW low \in 0 .. 16
  PROVE  Field(op, low, 3) \in 0 .. 7
<1> DEFINE q == op \div Pow2[low]
<1>1. Pow2[low] \in Nat \ {0} /\ Pow2[3] = 8
  BY WidthIs, PowerIs
<1>2. q \in Int
  BY <1>1
<1> HIDE DEF q
<1>3. q % 8 \in 0 .. 7
  BY <1>2
<1> QED
  BY <1>1, <1>3 DEF Field, q

\* cpu with another value in a register.
Put(cpu, reg, value) == [cpu EXCEPT !.r[reg] = value]

LEMMA RegisterIs ==
  ASSUME NEW cpu \in Cpus, NEW reg \in 0 .. 15
  PROVE  /\ R(cpu, reg) \in Word /\ cpu.c \in BOOLEAN
         /\ \A value \in Int : Set(cpu, reg, value) = Put(cpu, reg, Low(value))
         /\ \A value \in Word : /\ Set(cpu, reg, value) = Put(cpu, reg, value)
                                /\ Put(cpu, reg, value) \in Cpus
<1>1. R(cpu, reg) \in Word /\ cpu.c \in BOOLEAN
  BY DEF R, Cpus
<1>2. \A value : Set(cpu, reg, value) = Put(cpu, reg, Low(value))
  BY DEF Set, Put
<1>3. ASSUME NEW value \in Word PROVE Low(value) = value
  BY RangeIs, LowIs
<1>4. ASSUME NEW value \in Word PROVE Put(cpu, reg, value) \in Cpus
  <2> DEFINE r == [cpu.r EXCEPT ![reg] = value]
  <2>1. r \in [0 .. 15 -> Word]
    BY DEF Cpus
  <2>2. Put(cpu, reg, value) = [cpu EXCEPT !.r = r]
    BY DEF Put, Cpus
  <2> HIDE DEF r
  <2> QED
    BY <2>1, <2>2 DEF Cpus
<1> QED
  BY <1>1, <1>2, <1>3, <1>4

(***************************************************************************)
(* Adding, subtracting and comparing two words, whatever the operands: the *)
(* register written has the sum that the manual defines, the flags are     *)
(* those of that sum as a number with and without a sign, and nothing else *)
(* changes.  A subtraction adds the complement and a carry.                *)
(***************************************************************************)
THEOREM AddsAsManual ==
  ASSUME NEW cpu \in Cpus, NEW rd \in 0 .. 15, NEW a \in Word, NEW b \in Word
  PROVE  /\ Sums(Added(cpu, rd, a, b), Put(cpu, rd, Sum(a, b, 0).value), Sum(a, b, 0))
         /\ Sums(Subtracted(cpu, rd, a, b), Put(cpu, rd, Sum(a, Not(b), 1).value),
                 Sum(a, Not(b), 1))
         /\ Sums(Compared(cpu, a, b), cpu, Sum(a, Not(b), 1))
<1>1. a + b \in Int /\ a - b \in Int
  BY RangeIs
<1>2. Low(a + b) \in Word /\ Low(a - b) \in Word
  BY <1>1, LowIsWord
<1>3. /\ Set(cpu, rd, a + b) = Put(cpu, rd, Low(a + b)) /\ Put(cpu, rd, Low(a + b)) \in Cpus
      /\ Set(cpu, rd, a - b) = Put(cpu, rd, Low(a - b)) /\ Put(cpu, rd, Low(a - b)) \in Cpus
  BY <1>1, <1>2, RegisterIs
<1>4. Sums(Added(cpu, rd, a, b), Put(cpu, rd, Sum(a, b, 0).value), Sum(a, b, 0))
  BY <1>3, SumFlags DEF Added
<1>5. Sums(Subtracted(cpu, rd, a, b), Put(cpu, rd, Sum(a, Not(b), 1).value), Sum(a, Not(b), 1))
  BY <1>3, DifferenceFlags DEF Subtracted
<1>6. Sums(Compared(cpu, a, b), cpu, Sum(a, Not(b), 1))
  BY DifferenceFlags DEF Compared
<1> QED
  BY <1>4, <1>5, <1>6

\* The second operand of an addition or subtraction is a register or a number.
Operand(cpu, op) ==
  IF Field(op, 10, 1) = 1 THEN Field(op, 6, 3) ELSE R(cpu, Field(op, 6, 3))

\* The opcodes that do so with three registers, or two and a small number, and
\* the sums of the data processing group, also with the carry of one before:
\* step for these opcodes is as the manual says.
THEOREM SumsAsManual ==
  ASSUME NEW cpu \in Cpus, NEW op \in Nat
  PROVE  LET rd == Field(op, 0, 3)
             x == R(cpu, Field(op, 3, 3))
             y == Operand(cpu, op)
             sum == IF Field(op, 9, 1) = 1 THEN Sum(x, Not(y), 1) ELSE Sum(x, y, 0)
             a == R(cpu, rd)
             alu == Field(op, 6, 4)
             Gives(s) == Sums(Alu(cpu, op), Put(cpu, rd, s.value), s)
         IN  /\ Sums(AddSub(cpu, op), Put(cpu, rd, sum.value), sum)
             /\ alu = 5 => Gives(Sum(a, x, One(cpu.c)))
             /\ alu = 6 => Gives(Sum(a, Not(x), One(cpu.c)))
             /\ alu = 9 => Gives(Sum(0, Not(x), 1))
             /\ alu = 10 => Sums(Alu(cpu, op), cpu, Sum(a, Not(x), 1))
             /\ alu = 11 => Sums(Alu(cpu, op), cpu, Sum(a, x, 0))
<1> DEFINE rd == Field(op, 0, 3)
           x == R(cpu, Field(op, 3, 3))
           y == Operand(cpu, op)
           a == R(cpu, rd)
           alu == Field(op, 6, 4)
           k == cpu.c
           Gives(s) == Sums(Alu(cpu, op), Put(cpu, rd, s.value), s)
<1>1. rd \in 0 .. 15 /\ Field(op, 3, 3) \in 0 .. 15 /\ Field(op, 6, 3) \in 0 .. 7
  BY FieldIs
<1>2. x \in Word /\ a \in Word /\ k \in BOOLEAN
  BY <1>1, RegisterIs
<1>3. y \in Word
  <2>1. Field(op, 6, 3) \in Word
    BY <1>1, RangeIs
  <2>2. R(cpu, Field(op, 6, 3)) \in Word
    <3>1. Field(op, 6, 3) \in 0 .. 15
      BY <1>1
    <3> QED
      BY <3>1, RegisterIs
  <2> QED
    BY <2>1, <2>2 DEF Operand
<1>4. One(k) \in {0, 1} /\ 0 \in Word
  BY RangeIs DEF One
<1> HIDE DEF x, a, k, rd
<1>5. AddSub(cpu, op) = IF Field(op, 9, 1) = 1 THEN Subtracted(cpu, rd, x, y) ELSE Added(cpu, rd, x, y)
  BY DEF AddSub, Operand, rd, x
<1> HIDE DEF y
<1>6. /\ Field(op, 9, 1) = 1 =>
           Sums(AddSub(cpu, op), Put(cpu, rd, Sum(x, Not(y), 1).value), Sum(x, Not(y), 1))
      /\ Field(op, 9, 1) # 1 => Sums(AddSub(cpu, op), Put(cpu, rd, Sum(x, y, 0).value), Sum(x, y, 0))
  BY <1>1, <1>2, <1>3, <1>5, AddsAsManual
<1>7. ASSUME alu = 5 PROVE Gives(Sum(a, x, One(k)))
  <2> DEFINE v == Low(a + x + One(k))
  <2>1. a + x + One(k) \in Int
    BY <1>2, <1>4, RangeIs
  <2>2. v \in Word
    BY <2>1, LowIsWord
  <2>3. Set(cpu, rd, v) = Put(cpu, rd, v) /\ Put(cpu, rd, v) \in Cpus
    BY <1>1, <2>2, RegisterIs
  <2>4. AluResult(cpu, 5, a, x) = v
    BY DEF AluResult, k
  <2>5. Alu(cpu, op) = set_adc_flags(Set(cpu, rd, v), a, x, k, v)
    BY <1>7, <2>4 DEF Alu, a, x, k, rd
  <2> HIDE DEF v
  <2> QED
    BY <1>2, <2>3, <2>5, CarriedSumFlags DEF v
<1>8. ASSUME alu = 6 PROVE Gives(Sum(a, Not(x), One(k)))
  <2> DEFINE v == Low(a - x - 1 + One(k))
  <2>1. a - x - 1 + One(k) \in Int
    BY <1>2, <1>4, RangeIs
  <2>2. v \in Word
    BY <2>1, LowIsWord
  <2>3. Set(cpu, rd, v) = Put(cpu, rd, v) /\ Put(cpu, rd, v) \in Cpus
    BY <1>1, <2>2, RegisterIs
  <2>4. AluResult(cpu, 6, a, x) = v
    BY DEF AluResult, k
  <2>5. Alu(cpu, op) = set_sbc_flags(Set(cpu, rd, v), a, x, k, v)
    BY <1>8, <2>4 DEF Alu, a, x, k, rd
  <2> HIDE DEF v
  <2> QED
    BY <1>2, <2>3, <2>5, BorrowedDifferenceFlags DEF v
<1>9. ASSUME alu = 9 PROVE Gives(Sum(0, Not(x), 1))
  <2> DEFINE v == Low(0 - x)
  <2>1. 0 - x \in Int
    BY <1>2, RangeIs
  <2>2. v \in Word
    BY <2>1, LowIsWord
  <2>3. Set(cpu, rd, v) = Put(cpu, rd, v) /\ Put(cpu, rd, v) \in Cpus
    BY <1>1, <2>2, RegisterIs
  <2>4. AluResult(cpu, 9, a, x) = v
    BY DEF AluResult
  <2>5. Alu(cpu, op) = set_sub_flags(Set(cpu, rd, v), 0, x, v)
    BY <1>9, <2>4 DEF Alu, a, x, rd
  <2> HIDE DEF v
  <2> QED
    BY <1>2, <1>4, <2>3, <2>5, DifferenceFlags DEF v
<1>10. ASSUME alu = 10 PROVE Sums(Alu(cpu, op), cpu, Sum(a, Not(x), 1))
  <2>1. AluResult(cpu, 10, a, x) = Low(a - x)
    BY DEF AluResult
  <2>2. Alu(cpu, op) = set_sub_flags(cpu, a, x, Low(a - x))
    BY <1>10, <2>1 DEF Alu, a, x, rd
  <2> QED
    BY <1>2, <2>2, DifferenceFlags
<1>11. ASSUME alu = 11 PROVE Sums(Alu(cpu, op), cpu, Sum(a, x, 0))
  <2>1. AluResult(cpu, 11, a, x) = Low(a + x)
    BY DEF AluResult
  <2>2. Alu(cpu, op) = set_add_flags(cpu, a, x, Low(a + x))
    BY <1>11, <2>1 DEF Alu, a, x, rd
  <2> QED
    BY <1>2, <2>2, SumFlags
<1> QED
  BY <1>6, <1>7, <1>8, <1>9, <1>10, <1>11 DEF x, a, k, rd, y

\* A comparison followed by a branch takes it exactly if the words compare as
\* the condition's name says, as numbers without a sign (CS, CC, HI, LS) or
\* with one (GE, LT, GT, LE), whatever the difference overflows into.
THEOREM BranchesAsCompared ==
  ASSUME NEW cpu \in Cpus, NEW a \in Word, NEW b \in Word, NEW cond \in (0 .. 3) \cup (8 .. 13)
  PROVE  cond_true(Compared(cpu, a, b), cond) <=> Compares(cond, a, b)
<1> DEFINE s == Sum(a, Not(b), 1)
           after == Compared(cpu, a, b)
           v == s.value
<1>1. FlagsOf(after, s)
  BY AddsAsManual DEF Sums
<1>2. /\ Not(b) \in Word /\ v = Low(a - b)
      /\ s.c <=> a >= b
      /\ s.v <=> DifferenceOverflows(a, b, v)
  <2>1. a - b - 1 + 1 = a - b /\ b + 1 - 1 = b
    BY RangeIs
  <2> QED
    BY <2>1, DifferenceIs
<1>3. /\ a \in Nat /\ b \in Nat /\ HalfRange \in Nat /\ HalfRange >= 8
      /\ a < 2 * HalfRange /\ b < 2 * HalfRange
  BY RangeIs
<1>4. a >= b => v = a - b
  <2>1. a >= b => a - b \in 0 .. 2 * HalfRange - 1
    BY <1>3
  <2> QED
    BY <1>2, <1>3, <2>1, LowIs
<1>5. a < b => v = a - b + 2 * HalfRange
  <2>1. a < b => a - b \in -2 * HalfRange .. -1
    BY <1>3
  <2> QED
    BY <1>2, <1>3, <2>1, LowIs
<1> HIDE DEF v
<1>6. v \in Word
  <2>1. v \in 0 .. 2 * HalfRange - 1
    BY <1>3, <1>4, <1>5
  <2> QED
    BY <2>1, RangeIs
<1>7. /\ Negative(a) <=> a >= HalfRange
      /\ Negative(b) <=> b >= HalfRange
      /\ Negative(v) <=> v >= HalfRange
      /\ Signed(a) = IF a >= HalfRange THEN a - 2 * HalfRange ELSE a
      /\ Signed(b) = IF b >= HalfRange THEN b - 2 * HalfRange ELSE b
  BY <1>6, SignIs
<1>8. /\ after.n <=> Negative(v)
      /\ after.z <=> v = 0
      /\ after.c <=> a >= b
      /\ after.v <=> DifferenceOverflows(a, b, v)
  BY <1>1, <1>2 DEF FlagsOf, v
<1>9. DifferenceOverflows(a, b, v) <=>
        \/ Negative(a) /\ ~Negative(b) /\ ~Negative(v)
        \/ ~Negative(a) /\ Negative(b) /\ Negative(v)
  <2>1. Negative(a) \in BOOLEAN /\ Negative(b) \in BOOLEAN /\ Negative(v) \in BOOLEAN
    BY DEF Negative
  <2> QED
    BY <2>1 DEF DifferenceOverflows
<1>10. after.z <=> a = b
  BY <1>3, <1>4, <1>5, <1>8
<1>11. (after.n <=> after.v) <=> Signed(a) >= Signed(b)
  <2>1. (v >= HalfRange <=> DifferenceOverflows(a, b, v)) <=> Signed(a) >= Signed(b)
    BY <1>3, <1>4, <1>5, <1>7, <1>9
  <2> QED
    BY <1>7, <1>8, <2>1
<1>12. Signed(a) = Signed(b) <=> a = b
  BY <1>3, <1>7
<1>13. Signed(a) \in Int /\ Signed(b) \in Int
  BY <1>3, <1>7
<1>14. after.n \in BOOLEAN /\ after.v \in BOOLEAN
  <2>1. after \in Cpus
    <3> DEFINE n == Negative(Low(a - b))
               z == Low(a - b) = 0
               c == a >= b
               o == DifferenceOverflows(a, b, Low(a - b))
    <3>1. n \in BOOLEAN /\ z \in BOOLEAN /\ c \in BOOLEAN /\ o \in BOOLEAN
      BY DEF Negative, DifferenceOverflows
    <3>2. after = WithFlags(cpu, n, z, c, o)
      BY DEF Compared, set_sub_flags, set_nz, WithFlags
    <3> HIDE DEF n, z, c, o, after
    <3> QED
      BY <3>1, <3>2, CpuKept
  <2> QED
    BY <2>1 DEF Cpus
<1> HIDE DEF after, s
<1>15. CASE cond = 0
  <2>1. cond_true(after, 0) <=> after.z
    BY DEF cond_true
  <2>2. Compares(0, a, b) <=> a = b
    BY DEF Compares
  <2>3. (after.z) <=> a = b
    BY <1>10
  <2> QED
    BY <1>15, <2>1, <2>2, <2>3 DEF after
<1>16. CASE cond = 1
  <2>1. cond_true(after, 1) <=> ~after.z
    BY DEF cond_true
  <2>2. Compares(1, a, b) <=> a # b
    BY DEF Compares
  <2>3. (~after.z) <=> a # b
    BY <1>10
  <2> QED
    BY <1>16, <2>1, <2>2, <2>3 DEF after
<1>17. CASE cond = 2
  <2>1. cond_true(after, 2) <=> after.c
    BY DEF cond_true
  <2>2. Compares(2, a, b) <=> a >= b
    BY DEF Compares
  <2>3. (after.c) <=> a >= b
    BY <1>8
  <2> QED
    BY <1>17, <2>1, <2>2, <2>3 DEF after
<1>18. CASE cond = 3
  <2>1. cond_true(after, 3) <=> ~after.c
    BY DEF cond_true
  <2>2. Compares(3, a, b) <=> a < b
    BY DEF Compares
  <2>3. (~after.c) <=> a < b
    BY <1>3, <1>8
  <2> QED
    BY <1>18, <2>1, <2>2, <2>3 DEF after
<1>19. CASE cond = 8
  <2>1. cond_true(after, 8) <=> after.c /\ ~after.z
    BY DEF cond_true
  <2>2. Compares(8, a, b) <=> a > b
    BY DEF Compares
  <2>3. (after.c /\ ~after.z) <=> a > b
    BY <1>3, <1>8, <1>10
  <2> QED
    BY <1>19, <2>1, <2>2, <2>3 DEF after
<1>20. CASE cond = 9
  <2>1. cond_true(after, 9) <=> ~after.c \/ after.z
    BY DEF cond_true
  <2>2. Compares(9, a, b) <=> a <= b
    BY DEF Compares
  <2>3. (~after.c \/ after.z) <=> a <= b
    BY <1>3, <1>8, <1>10
  <2> QED
    BY <1>20, <2>1, <2>2, <2>3 DEF after
<1>21. CASE cond = 10
  <2>1. cond_true(after, 10) <=> after.n = after.v
    BY DEF cond_true
  <2>2. Compares(10, a, b) <=> Signed(a) >= Signed(b)
    BY DEF Compares
  <2>3. (after.n = after.v) <=> Signed(a) >= Signed(b)
    BY <1>11, <1>14
  <2> QED
    BY <1>21, <2>1, <2>2, <2>3 DEF after
<1>22. CASE cond = 11
  <2>1. cond_true(after, 11) <=> after.n # after.v
    BY DEF cond_true
  <2>2. Compares(11, a, b) <=> Signed(a) < Signed(b)
    BY DEF Compares
  <2>3. (after.n # after.v) <=> Signed(a) < Signed(b)
    BY <1>11, <1>13, <1>14
  <2> QED
    BY <1>22, <2>1, <2>2, <2>3 DEF after
<1>23. CASE cond = 12
  <2>1. cond_true(after, 12) <=> ~after.z /\ after.n = after.v
    BY DEF cond_true
  <2>2. Compares(12, a, b) <=> Signed(a) > Signed(b)
    BY DEF Compares
  <2>3. (~after.z /\ after.n = after.v) <=> Signed(a) > Signed(b)
    BY <1>10, <1>11, <1>12, <1>13, <1>14
  <2> QED
    BY <1>23, <2>1, <2>2, <2>3 DEF after
<1>24. CASE cond = 13
  <2>1. cond_true(after, 13) <=> after.z \/ after.n # after.v
    BY DEF cond_true
  <2>2. Compares(13, a, b) <=> Signed(a) <= Signed(b)
    BY DEF Compares
  <2>3. (after.z \/ after.n # after.v) <=> Signed(a) <= Signed(b)
    BY <1>10, <1>11, <1>12, <1>13, <1>14
  <2> QED
    BY <1>24, <2>1, <2>2, <2>3 DEF after
<1> QED
  BY <1>15, <1>16, <1>17, <1>18, <1>19, <1>20, <1>21, <1>22, <1>23, <1>24

-----------------------------------------------------------------------------
(* Shifts.                                                                  *)

LEMMA RemainderOf ==
  ASSUME NEW w \in Nat \ {0}, NEW x \in Int
  PROVE  /\ x % w \in 0 .. w - 1 /\ x \div w \in Int /\ x = w * (x \div w) + (x % w)
         /\ x >= 0 => x \div w \in Nat
  OBVIOUS

LEMMA Scaled ==
  ASSUME NEW a \in Int, NEW d \in Nat \ {0}, NEW m \in Nat \ {0}
  PROVE  (a * m) \div (d * m) = a \div d /\ (a * m) % (d * m) = (a % d) * m
<1> DEFINE q == a \div d
           r == a % d
<1>1. q \in Int /\ r \in 0 .. d - 1 /\ a = d * q + r
  BY RemainderOf
<1> HIDE DEF q, r
<1>2. a * m = (d * m) * q + r * m
  <2>1. (d * q + r) * m = (d * m) * q + r * m
    BY <1>1
  <2> QED
    BY <1>1, <2>1
<1>3. d * m \in Nat \ {0} /\ r * m \in 0 .. d * m - 1 /\ a * m \in Int
  <2>1. r * m \in Nat /\ d * m \in Nat /\ d - 1 - r \in Nat
    BY <1>1
  <2>2. (d - 1 - r) * m \in Nat /\ d * m = r * m + m + (d - 1 - r) * m
    BY <1>1, <2>1
  <2> QED
    BY <2>1, <2>2
<1>4. (a * m) \div (d * m) = q /\ (a * m) % (d * m) = r * m
  <2> DEFINE x == a * m
             w == d * m
             s == r * m
  <2>1. x \in Int /\ w \in Nat \ {0} /\ s \in 0 .. w - 1 /\ x = w * q + s
    BY <1>2, <1>3
  <2> HIDE DEF x, w, s
  <2>2. x \div w = q /\ x % w = s
    BY <1>1, <2>1, QuotientIs
  <2> QED
    BY <2>2 DEF x, w, s
<1> QED
  BY <1>4 DEF q, r

\* Adding whole divisors adds to the quotient only.
LEMMA WholeAdded ==
  ASSUME NEW w \in Nat \ {0}, NEW x \in Int, NEW y \in Int
  PROVE  (x + w * y) \div w = x \div w + y /\ (x + w * y) % w = x % w
<1> DEFINE q == x \div w
           r == x % w
           z == x + w * y
<1>1. q \in Int /\ r \in 0 .. w - 1 /\ x = w * q + r
  BY RemainderOf
<1> HIDE DEF q, r
<1>2. z \in Int /\ z = w * (q + y) + r /\ q + y \in Int
  <2>1. w * (q + y) = w * q + w * y
    BY <1>1
  <2> QED
    BY <1>1, <2>1
<1> HIDE DEF z
<1>3. z \div w = q + y /\ z % w = r
  BY <1>1, <1>2, QuotientIs
<1> QED
  BY <1>3 DEF q, r, z

\* A number below a divisor, and one below zero by no more than the divisor.
LEMMA SmallQuotient ==
  ASSUME NEW w \in Nat \ {0}, NEW x \in Int
  PROVE  /\ x \in 0 .. w - 1 => x \div w = 0 /\ x % w = x
         /\ x \in -w .. -1 => x \div w = -1 /\ x % w = x + w
<1>1. ASSUME x \in 0 .. w - 1 PROVE x \div w = 0 /\ x % w = x
  <2>1. x = w * 0 + x
    OBVIOUS
  <2> QED
    BY <1>1, <2>1, QuotientIs
<1>2. ASSUME x \in -w .. -1 PROVE x \div w = -1 /\ x % w = x + w
  <2>1. x = w * (-1) + (x + w) /\ x + w \in 0 .. w - 1
    BY <1>2
  <2> QED
    BY <2>1, QuotientIs
<1> QED
  BY <1>1, <1>2

\* Two shifts with the same result.
Agrees(shift, manual) == shift.value = manual.value /\ (shift.c <=> manual.c)
\* The manual leaves value and carry alone if the amount is 0.
ManualShift(cpu, how, a, n) == IF n = 0 THEN Shifted(a, cpu.c) ELSE ShiftOf(how, a, n)

LEMMA AgreesIs ==
  ASSUME NEW x, NEW y, NEW c, NEW d, x = y, c <=> d, c \in BOOLEAN, d \in BOOLEAN
  PROVE  Agrees(Shifted(x, c), Shifted(y, d))
  BY DEF Agrees, Shifted

LEMMA LeftShift ==
  ASSUME NEW cpu \in Cpus, NEW a \in Word, NEW n \in Nat
  PROVE  Agrees(lsl_with_carry(cpu, a, n), ManualShift(cpu, "lsl", a, n))
<1> DEFINE k == IF n > W + 1 THEN W + 1 ELSE n
           c == ((a * Pow2[k]) \div Pow2[W]) % 2 = 1
<1>1. W \in Nat /\ W >= 4 /\ a \in Nat /\ Pow2[W] \in Nat \ {0}
  BY WidthIs, RangeIs
<1>2. n # 0 => ManualShift(cpu, "lsl", a, n) = Shifted(Low(a * Pow2[k]), c)
  BY DEF ManualShift, ShiftOf
<1>3. CASE n = 0
  BY <1>3 DEF lsl_with_carry, ManualShift, Agrees
<1>4. CASE n # 0 /\ n < W
  <2> DEFINE p == Pow2[n]
             d == Pow2[W - n]
  <2>1. k = n /\ n \in 0 .. W + 16 /\ W - n \in 0 .. W + 16 /\ n + (W - n) = W /\ W - n \in Nat
    BY <1>1, <1>4
  <2>2. p \in Nat \ {0} /\ d \in Nat \ {0} /\ Pow2[W] = p * d
    <3>1. n + (W - n) <= W + 16
      BY <1>1, <2>1
    <3> QED
      BY <2>1, <3>1, PowerIs, Pow2Sum
  <2>3. (a * p) \div (d * p) = a \div d
    <3> HIDE DEF p, d
    <3> QED
      BY <1>1, <2>2, Scaled
  <2>4. d * p = Pow2[W]
    <3> HIDE DEF p, d
    <3> QED
      BY <2>2
  <2>5. c <=> Bit(a, W - n) = 1
    BY <2>1, <2>3, <2>4 DEF Bit
  <2>6. lsl_with_carry(cpu, a, n) = Shifted(Low(a * Pow2[n]), Bit(a, W - n) = 1)
    BY <1>4 DEF lsl_with_carry
  <2>7. Low(a * Pow2[n]) = Low(a * Pow2[k])
    BY <2>1
  <2> HIDE DEF k, c
  <2>8. c \in BOOLEAN /\ (Bit(a, W - n) = 1) \in BOOLEAN
    BY DEF c
  <2> QED
    BY <1>2, <1>4, <2>5, <2>6, <2>7, <2>8, AgreesIs
<1>5. CASE n >= W
  <2> DEFINE m == IF n = W THEN 1 ELSE 2
             w == Pow2[W]
  <2>1. Pow2[k] = m * w /\ m \in Nat \ {0}
    <3>1. W + 1 \in 1 .. W + 16 /\ (W + 1) - 1 = W
      BY <1>1
    <3>2. Pow2[W + 1] = 2 * Pow2[W]
      BY <3>1, PowerIs
    <3>3. n # W => k = W + 1
      BY <1>1, <1>5
    <3>4. n = W => k = W
      BY <1>1
    <3> HIDE DEF k
    <3> QED
      BY <1>1, <3>2, <3>3, <3>4
  <2>2. a * Pow2[k] = 0 + w * (a * m) /\ a * m \in Int
    <3> HIDE DEF k, w, m
    <3>1. w \in Nat
      BY <1>1 DEF w
    <3>2. a * (m * w) = 0 + w * (a * m)
      BY <1>1, <2>1, <3>1
    <3> QED
      BY <1>1, <2>1, <3>2
  <2>3. (a * Pow2[k]) \div w = a * m /\ (a * Pow2[k]) % w = 0
    <3> DEFINE y == a * m
    <3>1. w \in Nat \ {0} /\ y \in Int /\ 0 \in 0 .. w - 1
      BY <1>1, <2>2
    <3> HIDE DEF k, w, m, y
    <3>2. (0 + w * y) \div w = (0 \div w) + y /\ (0 + w * y) % w = 0 % w /\ 0 \div w = 0 /\ 0 % w = 0
      BY <3>1, WholeAdded, SmallQuotient
    <3>3. a * Pow2[k] = 0 + w * y
      BY <2>2 DEF y
    <3> QED
      BY <3>1, <3>2, <3>3 DEF y
  <2>4. Low(a * Pow2[k]) = 0
    BY <2>3 DEF Low
  <2>5. c <=> n = W /\ Bit(a, 0) = 1
    <3>1. c <=> (a * m) % 2 = 1
      BY <2>3
    <3>2. Bit(a, 0) = a % 2
      <4>1. a \div 1 = a
        BY <1>1
      <4> QED
        BY <4>1, PowerIs DEF Bit
    <3>3. (a * 1) % 2 = a % 2 /\ (a * 2) % 2 = 0
      BY <1>1
    <3> HIDE DEF c
    <3>4. CASE n = W
      BY <3>1, <3>2, <3>3, <3>4
    <3>5. CASE n # W
      BY <3>1, <3>3, <3>5
    <3> QED
      BY <3>4, <3>5
  <2>6. lsl_with_carry(cpu, a, n) = Shifted(0, n = W /\ Bit(a, 0) = 1)
    BY <1>1, <1>5 DEF lsl_with_carry
  <2>7. n # 0
    BY <1>1, <1>5
  <2>8. c \in BOOLEAN /\ (n = W /\ Bit(a, 0) = 1) \in BOOLEAN
    OBVIOUS
  <2> HIDE DEF k, c
  <2> QED
    BY <1>2, <2>4, <2>5, <2>6, <2>7, <2>8, AgreesIs
<1> QED
  BY <1>1, <1>3, <1>4, <1>5

LEMMA WordPowers ==
  ASSUME NEW n \in Nat, n >= 1
  PROVE  LET k == IF n > W + 1 THEN W + 1 ELSE n
         IN  /\ k \in Nat /\ k - 1 \in Nat /\ Pow2[k] \in Nat \ {0} /\ Pow2[k - 1] \in Nat \ {0}
             /\ n >= W => Pow2[k] >= 2 * HalfRange /\ Pow2[k - 1] >= HalfRange
             /\ n = W => k = W /\ Pow2[k - 1] = HalfRange
             /\ n > W => Pow2[k - 1] = 2 * HalfRange
<1> DEFINE k == IF n > W + 1 THEN W + 1 ELSE n
<1>1. W \in Nat /\ W >= 4 /\ HalfRange \in Nat /\ HalfRange >= 8 /\ Pow2[W] = 2 * HalfRange
      /\ W + 1 \in 1 .. W + 16 /\ (W + 1) - 1 = W
  BY WidthIs, RangeIs
<1>2. k \in 1 .. W + 1 /\ k \in 0 .. W + 16 /\ k - 1 \in 0 .. W + 16 /\ k \in Nat /\ k - 1 \in Nat
  BY <1>1
<1>3. (n >= W => k \in {W, W + 1}) /\ (n = W => k = W) /\ (n > W => k = W + 1)
  BY <1>1
<1> HIDE DEF k
<1>4. Pow2[k] \in Nat \ {0} /\ Pow2[k - 1] \in Nat \ {0}
  BY <1>2, PowerIs
<1>5. Pow2[W + 1] = 2 * Pow2[W] /\ Pow2[W - 1] = HalfRange
  BY <1>1, PowerIs DEF HalfRange
<1>6. k = W => Pow2[k] = 2 * HalfRange /\ Pow2[k - 1] = HalfRange
  BY <1>1, <1>5
<1>7. k = W + 1 => Pow2[k] = 4 * HalfRange /\ Pow2[k - 1] = 2 * HalfRange
  BY <1>1, <1>5
<1>8. n >= W => Pow2[k] >= 2 * HalfRange /\ Pow2[k - 1] >= HalfRange
  BY <1>1, <1>3, <1>6, <1>7
<1> QED
  BY <1>2, <1>3, <1>4, <1>6, <1>7, <1>8 DEF k

LEMMA RightShift ==
  ASSUME NEW cpu \in Cpus, NEW a \in Word, NEW n \in Nat
  PROVE  Agrees(lsr_with_carry(cpu, a, n), ManualShift(cpu, "lsr", a, n))
<1> DEFINE k == IF n > W + 1 THEN W + 1 ELSE n
           c == (a \div Pow2[k - 1]) % 2 = 1
<1>1. /\ W \in Nat /\ W >= 4 /\ a \in Nat /\ HalfRange \in Nat /\ HalfRange >= 8
      /\ a < 2 * HalfRange
  BY WidthIs, RangeIs
<1>2. n # 0 => ManualShift(cpu, "lsr", a, n) = Shifted(Low(a \div Pow2[k]), c)
  BY DEF ManualShift, ShiftOf
<1>3. CASE n = 0
  BY <1>3 DEF lsr_with_carry, ManualShift, Agrees
<1>4. CASE n # 0 /\ n < W
  <2>1. k = n /\ n \in 0 .. W + 16
    BY <1>1, <1>4
  <2>2. Pow2[n] \in Nat \ {0}
    BY <2>1, PowerIs
  <2>3. a \div Pow2[n] \in 0 .. 2 * HalfRange - 1
    <3> DEFINE p == Pow2[n]
               q == a \div p
    <3>1. p \in Nat \ {0}
      BY <2>2
    <3> HIDE DEF p
    <3>2. q \in Nat /\ a % p \in 0 .. p - 1 /\ a = p * q + (a % p)
      <4>1. a \in Int /\ a >= 0
        BY <1>1
      <4> QED
        BY <3>1, <4>1, RemainderOf
    <3> HIDE DEF q
    <3>3. p * q = q + (p - 1) * q /\ (p - 1) * q \in Nat
      BY <3>1, <3>2
    <3>4. q <= a
      BY <1>1, <3>1, <3>2, <3>3
    <3> QED
      BY <1>1, <3>2, <3>4 DEF p, q
  <2>4. Low(a \div Pow2[k]) = a \div Pow2[n]
    BY <2>1, <2>3, LowIs
  <2>5. c <=> Bit(a, n - 1) = 1
    BY <2>1 DEF Bit
  <2>6. lsr_with_carry(cpu, a, n) = Shifted(a \div Pow2[n], Bit(a, n - 1) = 1)
    BY <1>4 DEF lsr_with_carry
  <2>7. c \in BOOLEAN /\ (Bit(a, n - 1) = 1) \in BOOLEAN
    OBVIOUS
  <2> HIDE DEF k, c
  <2> QED
    BY <1>2, <1>4, <2>4, <2>5, <2>6, <2>7, AgreesIs
<1>5. CASE n >= W
  <2>1. /\ Pow2[k] \in Nat \ {0} /\ Pow2[k - 1] \in Nat \ {0} /\ Pow2[k] >= 2 * HalfRange
        /\ n = W => Pow2[k - 1] = HalfRange
        /\ n > W => Pow2[k - 1] = 2 * HalfRange
    BY <1>1, <1>5, WordPowers
  <2>2. a \div Pow2[k] = 0
    <3> DEFINE p == Pow2[k]
    <3>1. a \in 0 .. p - 1
      BY <1>1, <2>1
    <3> HIDE DEF p
    <3> QED
      BY <1>1, <2>1, <3>1, SmallQuotient DEF p
  <2>3. Low(a \div Pow2[k]) = 0
    BY <1>1, <2>2, LowIs
  <2>4. c <=> n = W /\ Negative(a)
    <3> DEFINE p == Pow2[k - 1]
               q == a \div p
    <3>1. CASE n = W /\ a >= HalfRange
      <4>1. p = HalfRange /\ a = p * 1 + (a - p) /\ a - p \in 0 .. p - 1 /\ p \in Nat \ {0}
        BY <1>1, <2>1, <3>1
      <4> HIDE DEF p
      <4>2. a \div p = 1
        BY <1>1, <4>1, QuotientIs
      <4> QED
        BY <3>1, <4>2, SignIs DEF p
    <3>2. CASE ~(n = W /\ a >= HalfRange)
      <4>1. a \in 0 .. p - 1 /\ p \in Nat \ {0}
        BY <1>1, <1>5, <2>1, <3>2
      <4> HIDE DEF p
      <4>2. a \div p = 0
        BY <1>1, <4>1, SmallQuotient
      <4> QED
        BY <3>2, <4>2, SignIs DEF p
    <3> QED
      BY <3>1, <3>2
  <2>5. lsr_with_carry(cpu, a, n) = Shifted(0, n = W /\ Negative(a))
    BY <1>1, <1>5 DEF lsr_with_carry
  <2>6. n # 0
    BY <1>1, <1>5
  <2>7. c \in BOOLEAN /\ (n = W /\ Negative(a)) \in BOOLEAN
    OBVIOUS
  <2> HIDE DEF k, c
  <2> QED
    BY <1>2, <2>3, <2>4, <2>5, <2>6, <2>7, AgreesIs
<1> QED
  BY <1>1, <1>3, <1>4, <1>5

LEMMA SignedShift ==
  ASSUME NEW cpu \in Cpus, NEW a \in Word, NEW n \in Nat
  PROVE  Agrees(asr_with_carry(cpu, a, n), ManualShift(cpu, "asr", a, n))
<1> DEFINE k == IF n > W + 1 THEN W + 1 ELSE n
           number == Signed(a)
           c == (number \div Pow2[k - 1]) % 2 = 1
<1>1. /\ W \in Nat /\ W >= 4 /\ a \in Nat /\ HalfRange \in Nat /\ HalfRange >= 8
      /\ a < 2 * HalfRange /\ Pow2[W] = 2 * HalfRange
  BY WidthIs, RangeIs
<1>2. n # 0 => ManualShift(cpu, "asr", a, n) = Shifted(Low(number \div Pow2[k]), c)
  BY DEF ManualShift, ShiftOf
<1>3. CASE n = 0
  BY <1>3 DEF asr_with_carry, ManualShift, Agrees
<1>4. /\ Negative(a) <=> a >= HalfRange
      /\ Negative(a) => number = a - 2 * HalfRange
      /\ ~Negative(a) => number = a
  BY SignIs
<1>5. CASE n # 0 /\ n < W
  <2> DEFINE p == Pow2[n - 1]
             m == Pow2[W - n]
  <2>1. k = n /\ n - 1 \in 0 .. W + 16 /\ W - n \in 0 .. W + 16 /\ W - n + 1 \in 1 .. W + 16
        /\ (W - n + 1) - 1 = W - n /\ (n - 1) + (W - n + 1) = W /\ n - 1 \in Nat /\ W - n + 1 \in Nat
        /\ W <= W + 16
    BY <1>1, <1>5
  <2>2. p \in Nat \ {0} /\ m \in Nat \ {0} /\ 2 * HalfRange = p * (2 * m)
    <3>1. Pow2[W - n + 1] = 2 * m
      BY <2>1, PowerIs
    <3>2. Pow2[W] = p * Pow2[W - n + 1]
      BY <2>1, Pow2Sum
    <3> QED
      BY <1>1, <2>1, <3>1, <3>2, PowerIs
  <2> HIDE DEF p, m, number
  <2>3. (number \div p) % 2 = (a \div p) % 2
    <3>1. CASE number = a
      BY <3>1
    <3>2. CASE number = a - 2 * HalfRange
      <4> DEFINE y == -(2 * m)
                 q == a \div p
      <4>1. y \in Int /\ number = a + p * y
        <5>1. p * y = -(p * (2 * m))
          BY <2>2
        <5> QED
          BY <1>1, <2>2, <3>2, <5>1
      <4> HIDE DEF y
      <4>2. number \div p = q + y
        BY <1>1, <2>2, <4>1, WholeAdded
      <4>3. q \in Int
        BY <1>1, <2>2
      <4> HIDE DEF q
      <4>4. (q + 2 * (-m)) % 2 = q % 2
        BY <2>2, <4>3
      <4>5. q + y = q + 2 * (-m)
        BY <2>2, <4>3 DEF y
      <4> QED
        BY <4>2, <4>4, <4>5 DEF q
    <3> QED
      BY <1>4, <3>1, <3>2
  <2>4. c <=> Bit(a, n - 1) = 1
    BY <2>1, <2>3 DEF Bit, p
  <2>5. asr_with_carry(cpu, a, n) = Shifted(Low(number \div Pow2[n]), Bit(a, n - 1) = 1)
    BY <1>5 DEF asr_with_carry, number, Signed
  <2>6. c \in BOOLEAN /\ (Bit(a, n - 1) = 1) \in BOOLEAN
    OBVIOUS
  <2>7. Low(number \div Pow2[n]) = Low(number \div Pow2[k])
    BY <2>1
  <2> HIDE DEF k, c
  <2> QED
    BY <1>2, <1>5, <2>4, <2>5, <2>6, <2>7, AgreesIs
<1>6. CASE n >= W
  <2>1. /\ Pow2[k] \in Nat \ {0} /\ Pow2[k - 1] \in Nat \ {0} /\ Pow2[k] >= 2 * HalfRange
        /\ Pow2[k - 1] >= HalfRange
    BY <1>1, <1>6, WordPowers
  <2> HIDE DEF number
  <2>2. ASSUME NEW d \in Nat \ {0}, d >= HalfRange
        PROVE  number \div d = IF Negative(a) THEN -1 ELSE 0
    <3>1. number \in Int /\ (Negative(a) => number \in -d .. -1) /\ (~Negative(a) => number \in 0 .. d - 1)
      BY <1>1, <1>4, <2>2
    <3> QED
      BY <3>1, SmallQuotient
  <2>3. Pow2[k] >= HalfRange
    BY <1>1, <2>1
  <2>4. number \div Pow2[k] = (IF Negative(a) THEN -1 ELSE 0)
        /\ number \div Pow2[k - 1] = (IF Negative(a) THEN -1 ELSE 0)
    <3> HIDE DEF k
    <3> QED
      BY <2>1, <2>2, <2>3
  <2>5. Low(-1) = Pow2[W] - 1 /\ Low(0) = 0
    BY <1>1, LowIs
  <2>6. Low(number \div Pow2[k]) = IF Negative(a) THEN Pow2[W] - 1 ELSE 0
    BY <2>4, <2>5
  <2>7. c <=> Negative(a)
    <3>1. (-1) % 2 = 1 /\ 0 % 2 = 0
      <4>1. 2 \in Nat \ {0} /\ -1 \in -2 .. -1 /\ 0 \in 0 .. 2 - 1 /\ -1 \in Int /\ 0 \in Int /\ -1 + 2 = 1
        OBVIOUS
      <4> QED
        BY <4>1, SmallQuotient
    <3> HIDE DEF k
    <3> QED
      BY <2>4, <3>1
  <2>8. asr_with_carry(cpu, a, n)
          = Shifted(IF Negative(a) THEN Pow2[W] - 1 ELSE 0, Negative(a))
    BY <1>1, <1>6 DEF asr_with_carry
  <2>9. n # 0
    BY <1>1, <1>6
  <2>10. c \in BOOLEAN /\ Negative(a) \in BOOLEAN
    BY DEF Negative
  <2> HIDE DEF k, c
  <2> QED
    BY <1>2, <2>6, <2>7, <2>8, <2>9, <2>10, AgreesIs
<1> QED
  BY <1>1, <1>3, <1>5, <1>6

LEMMA QuotientTwice ==
  ASSUME NEW x \in Int, NEW d \in Nat \ {0}, NEW e \in Nat \ {0}
  PROVE  (x \div d) \div e = x \div (d * e)
<1> DEFINE q == x \div d
           r == x % d
           p == q \div e
           s == q % e
           w == d * e
           t == d * s + r
<1>1. q \in Int /\ r \in 0 .. d - 1 /\ x = d * q + r
  BY RemainderOf
<1> HIDE DEF q, r
<1>2. p \in Int /\ s \in 0 .. e - 1 /\ q = e * p + s
  BY <1>1, RemainderOf
<1> HIDE DEF p, s
<1>3. w \in Nat \ {0} /\ t \in 0 .. w - 1
  <2>1. d * s \in Nat /\ d * e \in Nat /\ e - 1 - s \in Nat
    BY <1>2
  <2>2. d * (e - 1 - s) \in Nat /\ d * e = d * s + d + d * (e - 1 - s)
    BY <1>2, <2>1
  <2> QED
    BY <1>1, <2>1, <2>2
<1>4. x = w * p + t
  <2>1. d * (e * p + s) = (d * e) * p + d * s
    BY <1>2
  <2> QED
    BY <1>1, <1>2, <2>1
<1> HIDE DEF w, t
<1>5. x \div w = p
  BY <1>2, <1>3, <1>4, QuotientIs
<1> QED
  BY <1>5 DEF w, p, q

\* Bits of what is above a power of two, and of what is below it.
LEMMA BitAbove ==
  ASSUME NEW x \in Int, NEW i \in Nat, NEW j \in Nat, i + j <= W + 16
  PROVE  Bit(x \div Pow2[j], i) = Bit(x, i + j)
<1>1. Pow2[j] \in Nat \ {0} /\ Pow2[i] \in Nat \ {0}
  BY WidthIs, PowerIs
<1>2. Pow2[i + j] = Pow2[j] * Pow2[i]
  <2>1. Pow2[i + j] = Pow2[i] * Pow2[j]
    BY Pow2Sum
  <2> QED
    BY <1>1, <2>1
<1>3. (x \div Pow2[j]) \div Pow2[i] = x \div (Pow2[j] * Pow2[i])
  BY <1>1, QuotientTwice
<1> QED
  BY <1>2, <1>3 DEF Bit

LEMMA BitBelow ==
  ASSUME NEW x \in Int, NEW y \in Int, NEW i \in Nat, NEW j \in Nat, i < j, j <= W + 16
  PROVE  Bit(x + Pow2[j] * y, i) = Bit(x, i)
<1> DEFINE p == Pow2[i]
           m == Pow2[j - i - 1]
           q == x \div p
<1>1. /\ i \in 0 .. W + 16 /\ j - i - 1 \in 0 .. W + 16 /\ j - i \in 1 .. W + 16 /\ j - i \in Nat
      /\ (j - i) - 1 = j - i - 1 /\ i + (j - i) = j
  BY WidthIs
<1>2. p \in Nat \ {0} /\ m \in Nat \ {0} /\ Pow2[j - i] = 2 * m /\ Pow2[j] = p * Pow2[j - i]
  BY <1>1, PowerIs, Pow2Sum
<1> HIDE DEF p, m
<1>3. Pow2[j] * y = p * ((2 * m) * y) /\ (2 * m) * y \in Int
  BY <1>2
<1>4. (x + Pow2[j] * y) \div p = q + (2 * m) * y
  BY <1>2, <1>3, WholeAdded
<1>5. q \in Int
  BY <1>2, RemainderOf
<1> HIDE DEF q
<1>6. (2 * m) * y = 2 * (m * y) /\ m * y \in Int
  BY <1>2
<1>7. (q + 2 * (m * y)) % 2 = q % 2
  <2> DEFINE z == m * y
  <2>1. z \in Int /\ 2 \in Nat \ {0}
    BY <1>6
  <2> HIDE DEF z
  <2>2. (q + 2 * z) % 2 = q % 2
    BY <1>5, <2>1, WholeAdded
  <2> QED
    BY <2>2 DEF z
<1> QED
  BY <1>4, <1>6, <1>7 DEF Bit, p, q

\* A word is made of its bits.
LEMMA BitsMakeWord ==
  ASSUME NEW x \in Word
  PROVE  FromBits(ToBits(x)) = x
<1> DEFINE S == ToBits(x)
           Eq(Y) == Y = [i \in 0 .. W |-> IF i = 0 THEN 0
                           ELSE Y[i - 1] + (IF i - 1 \in S THEN Pow2[i - 1] ELSE 0)]
           X == [i \in 0 .. W |-> x % Pow2[i]]
           V == CHOOSE Y : Eq(Y)
<1>1. x \in Nat /\ W \in Nat /\ W >= 4
  BY RangeIs, WidthIs
<1>2. X[0] = 0
  <2>1. x % 1 = 0
    BY <1>1
  <2> QED
    BY <1>1, <2>1, PowerIs
<1>3. ASSUME NEW i \in 1 .. W
      PROVE  x % Pow2[i] = (x % Pow2[i - 1]) + (IF i - 1 \in S THEN Pow2[i - 1] ELSE 0)
  <2> DEFINE p == Pow2[i - 1]
             q == x \div p
             r == x % p
             h == q \div 2
             b == q % 2
             w == 2 * p
             t == r + b * p
  <2>1. i - 1 \in 0 .. W + 16 /\ i \in 1 .. W + 16 /\ i - 1 \in Bits
    BY <1>1 DEF Bits
  <2>2. p \in Nat \ {0} /\ Pow2[i] = 2 * p
    BY <2>1, PowerIs
  <2> HIDE DEF p
  <2>3. q \in Int /\ r \in 0 .. p - 1 /\ x = p * q + r
    BY <1>1, <2>2, RemainderOf
  <2>4. b = 1 <=> i - 1 \in S
    BY <2>1 DEF ToBits, Bit, p
  <2> HIDE DEF q, r, S
  <2>5. h \in Int /\ b \in 0 .. 1 /\ q = 2 * h + b
    BY <2>3
  <2> HIDE DEF h, b
  <2>6. p * q = w * h + b * p
    <3>1. p * (2 * h + b) = (2 * p) * h + b * p
      BY <2>2, <2>5
    <3> QED
      BY <2>5, <3>1
  <2>7. b * p = IF b = 1 THEN p ELSE 0
    BY <2>2, <2>5
  <2>8. w \in Nat \ {0} /\ t \in 0 .. w - 1
    BY <2>2, <2>3, <2>5, <2>7
  <2>9. w * h \in Int /\ b * p \in Int /\ x = w * h + t
    BY <2>2, <2>3, <2>5, <2>6, <2>7
  <2> HIDE DEF w, t
  <2>10. x % w = t
    <3>1. x \in Int
      BY <1>1
    <3> QED
      BY <2>5, <2>8, <2>9, <3>1, QuotientIs
  <2>11. t = r + (IF i - 1 \in S THEN p ELSE 0)
    BY <2>4, <2>7 DEF t
  <2> QED
    BY <2>2, <2>10, <2>11 DEF w, r, p
<1>4. Eq(X)
  <2> HIDE DEF S
  <2>1. ASSUME NEW i \in 0 .. W
        PROVE  X[i] = IF i = 0 THEN 0 ELSE X[i - 1] + (IF i - 1 \in S THEN Pow2[i - 1] ELSE 0)
    <3>1. CASE i = 0
      BY <1>2, <3>1
    <3>2. CASE i # 0
      <4>1. i \in 1 .. W /\ i - 1 \in 0 .. W
        BY <1>1, <3>2
      <4> QED
        BY <1>3, <3>2, <4>1
    <3> QED
      BY <3>1, <3>2
  <2>2. X = [i \in 0 .. W |-> X[i]]
    OBVIOUS
  <2> HIDE DEF X
  <2> QED
    BY <2>1, <2>2
<1>5. Eq(V)
  <2> HIDE DEF X, Eq
  <2> QED
    BY <1>4
<1> HIDE DEF V
<1> DEFINE T == {i \in 0 .. W : V[i] = x % Pow2[i]}
<1>6. 0 \in T
  BY <1>1, <1>2, <1>5
<1>7. ASSUME NEW i \in 0 .. W - 1, i \in T PROVE i + 1 \in T
  <2>1. i + 1 \in 1 .. W /\ (i + 1) - 1 = i /\ i + 1 \in 0 .. W /\ i + 1 # 0
    BY <1>1
  <2>2. V[i + 1] = V[i] + (IF i \in S THEN Pow2[i] ELSE 0)
    <3> HIDE DEF S
    <3> QED
      BY <1>5, <2>1
  <2>3. x % Pow2[i + 1] = (x % Pow2[i]) + (IF i \in S THEN Pow2[i] ELSE 0)
    <3> HIDE DEF S
    <3> QED
      BY <1>3, <2>1
  <2> QED
    BY <1>7, <2>1, <2>2, <2>3
<1>8. V[W] = x % Pow2[W]
  <2> HIDE DEF T
  <2>1. Steps(T, W)
    BY <1>7 DEF Steps
  <2>2. W \in T
    BY <1>1, <1>6, <2>1, UpTo
  <2> QED
    BY <2>2 DEF T
<1>9. x % Pow2[W] = x
  BY RangeIs, SmallQuotient
<1>10. FromBits(S) = V[W]
  BY DEF FromBits, V
<1> QED
  BY <1>8, <1>9, <1>10

\* Taken round: below, what was above bit r; above it, the bits below.
LEMMA RotatedBits ==
  ASSUME NEW a \in Word, NEW r \in 1 .. W - 1
  PROVE  LET res == a \div Pow2[r] + Low(a * Pow2[W - r])
         IN  /\ res \in Word
             /\ \A i \in Bits : Bit(res, i) = Bit(a, IF i + r < W THEN i + r ELSE (i + r) - W)
<1> DEFINE d == Pow2[r]
           m == Pow2[W - r]
           hi == a \div d
           lo == a % d
           res == hi + m * lo
<1>1. /\ W \in Nat /\ W >= 4 /\ a \in Nat /\ a \in Int /\ a >= 0
      /\ r \in Nat /\ W - r \in Nat /\ r + (W - r) = W /\ (W - r) + r = W /\ W <= W + 16
      /\ r \in 0 .. W + 16 /\ W - r \in 0 .. W + 16
  BY WidthIs, RangeIs
<1>2. d \in Nat \ {0} /\ m \in Nat \ {0} /\ Pow2[W] = d * m /\ a < d * m
  <2>1. Pow2[W] = d * m
    BY <1>1, Pow2Sum
  <2>2. a < Pow2[W]
    BY RangeIs
  <2> QED
    BY <1>1, <2>1, <2>2, PowerIs
<1> HIDE DEF d, m
<1>3. hi \in Nat /\ lo \in 0 .. d - 1 /\ a = d * hi + lo
  BY <1>1, <1>2, RemainderOf
<1>4. Low(a * m) = m * lo
  <2>1. (a * m) % (d * m) = lo * m
    BY <1>1, <1>2, Scaled
  <2> QED
    BY <1>2, <1>3, <2>1 DEF Low
<1> HIDE DEF hi, lo
<1>5. hi \in 0 .. m - 1
  <2> SUFFICES ASSUME hi >= m PROVE FALSE
    BY <1>2, <1>3
  <2>1. d * hi = d * m + d * (hi - m) /\ d * (hi - m) \in Nat /\ d * m \in Nat
    BY <1>2, <1>3
  <2> QED
    BY <1>2, <1>3, <2>1
<1>6. res \in Word
  <2>1. m * (d - 1 - lo) \in Nat /\ m * lo \in Nat /\ d * m = m * lo + m + m * (d - 1 - lo)
    <3>1. d - 1 - lo \in Nat /\ d = lo + 1 + (d - 1 - lo)
      BY <1>2, <1>3
    <3> DEFINE g == d - 1 - lo
    <3>2. g \in Nat /\ d = lo + 1 + g
      BY <3>1
    <3> HIDE DEF g
    <3>3. (lo + 1 + g) * m = m * lo + m + m * g /\ m * g \in Nat /\ m * lo \in Nat
      BY <1>2, <1>3, <3>2
    <3> QED
      BY <3>2, <3>3 DEF g
  <2> QED
    BY <1>2, <1>3, <1>5, <2>1 DEF Word
<1>7. ASSUME NEW i \in Bits PROVE Bit(res, i) = Bit(a, IF i + r < W THEN i + r ELSE (i + r) - W)
  <2>1. i \in Nat /\ i < W
    BY <1>1 DEF Bits
  <2>2. CASE i + r < W
    <3>1. i < W - r /\ i + r <= W + 16 /\ W - r <= W + 16
      BY <1>1, <2>1, <2>2
    <3>2. Bit(hi + m * lo, i) = Bit(hi, i)
      <4>1. hi \in Int /\ lo \in Int
        BY <1>2, <1>3
      <4> QED
        BY <1>1, <2>1, <3>1, <4>1, BitBelow DEF m
    <3>3. Bit(hi, i) = Bit(a, i + r)
      BY <1>1, <2>1, <3>1, BitAbove DEF hi, d
    <3> QED
      BY <2>2, <3>2, <3>3
  <2>3. CASE i + r >= W
    <3> DEFINE j == (i + r) - W
    <3>1. j \in Nat /\ j < r /\ j + (W - r) = i /\ i <= W + 16 /\ r <= W + 16 /\ ~(i + r < W)
      BY <1>1, <2>1, <2>3
    <3> HIDE DEF j
    <3>2. res \in Int /\ lo \in Int /\ hi \in Int
      BY <1>2, <1>3
    <3>3. res \div m = lo
      <4>1. res = m * lo + hi
        BY <1>2, <1>3
      <4> QED
        BY <1>2, <1>5, <3>2, <4>1, QuotientIs
    <3> HIDE DEF res
    <3>4. Bit(res \div m, j) = Bit(res, j + (W - r))
      <4>1. j + (W - r) <= W + 16
        BY <3>1
      <4> QED
        BY <1>1, <3>1, <3>2, <4>1, BitAbove DEF m
    <3>5. Bit(lo + d * hi, j) = Bit(lo, j)
      BY <1>1, <3>1, <3>2, BitBelow DEF d
    <3>6. a = lo + d * hi
      BY <1>2, <1>3
    <3>7. Bit(res, i) = Bit(a, j)
      BY <3>1, <3>3, <3>4, <3>5, <3>6
    <3> QED
      BY <3>1, <3>7 DEF j
  <2> QED
    BY <1>1, <2>1, <2>2, <2>3
<1> QED
  BY <1>4, <1>6, <1>7 DEF res, hi, d, m

LEMMA SignBit ==
  ASSUME NEW x \in Word
  PROVE  W - 1 \in Bits /\ (Negative(x) <=> W - 1 \in ToBits(x))
<1>1. /\ W - 1 \in Bits /\ Pow2[W - 1] = HalfRange /\ x \in Nat /\ HalfRange \in Nat \ {0}
      /\ x < 2 * HalfRange
  BY WidthIs, RangeIs DEF Bits, HalfRange
<1>2. x >= HalfRange => x \div HalfRange = 1
  <2>1. x >= HalfRange => x = HalfRange * 1 + (x - HalfRange) /\ x - HalfRange \in 0 .. HalfRange - 1
    BY <1>1
  <2> QED
    BY <1>1, <2>1, QuotientIs
<1>3. ~(x >= HalfRange) => x \div HalfRange = 0
  <2>1. ~(x >= HalfRange) => x \in 0 .. HalfRange - 1
    BY <1>1
  <2> QED
    BY <1>1, <2>1, SmallQuotient
<1>4. x >= HalfRange <=> (x \div HalfRange) % 2 = 1
  <2> HIDE DEF HalfRange
  <2> QED
    BY <1>2, <1>3
<1> QED
  BY <1>1, <1>4, SignIs DEF ToBits, Bit

LEMMA Rotation ==
  ASSUME NEW cpu \in Cpus, NEW a \in Word, NEW n \in Nat
  PROVE  Agrees(ror_with_carry(cpu, a, n), ManualShift(cpu, "ror", a, n))
<1> DEFINE r == n % W
           rotated == a \div Pow2[r] + Low(a * Pow2[W - r])
           res == IF r = 0 THEN a ELSE rotated
           S == {i \in Bits : (i + n) % W \in ToBits(a)}
           c == (n + W - 1) % W \in ToBits(a)
<1>1. W \in Nat \ {0} /\ W >= 4 /\ n \in Int
  BY WidthIs
<1>2. n # 0 => ManualShift(cpu, "ror", a, n) = Shifted(FromBits(S), c)
  BY DEF ManualShift, ShiftOf
<1>3. CASE n = 0
  BY <1>3 DEF ror_with_carry, ManualShift, Agrees
<1>4. CASE n # 0
  <2>1. r \in 0 .. W - 1 /\ n \div W \in Int /\ n = W * (n \div W) + r
    BY <1>1, RemainderOf
  <2>2. ror_with_carry(cpu, a, n) = Shifted(res, Negative(res))
    BY <1>4 DEF ror_with_carry
  <2>3. ASSUME NEW i \in Bits PROVE (i + n) % W = IF i + r < W THEN i + r ELSE (i + r) - W
    <3> DEFINE q == n \div W
               x == i + r
    <3>1. i \in 0 .. W - 1 /\ q \in Int
      BY <1>1, <2>1 DEF Bits
    <3>2. i + n = x + W * q /\ x \in 0 .. 2 * W - 1 /\ x \in Int
      BY <1>1, <2>1, <3>1
    <3> HIDE DEF q, x
    <3>3. (x + W * q) % W = x % W
      BY <1>1, <3>1, <3>2, WholeAdded
    <3>4. x < W => x % W = x
      BY <1>1, <3>2, SmallQuotient
    <3>5. ~(x < W) => x % W = x - W
      <4> SUFFICES ASSUME ~(x < W) PROVE x % W = x - W
        OBVIOUS
      <4> DEFINE y == x - W
      <4>1. x = W * 1 + y /\ y \in 0 .. W - 1
        BY <1>1, <3>2
      <4> HIDE DEF y
      <4>2. x % W = y
        BY <1>1, <3>2, <4>1, QuotientIs
      <4> QED
        BY <4>2 DEF y
    <3>6. (i + n) % W = x % W
      BY <3>2, <3>3
    <3>7. (i + n) % W = IF x < W THEN x ELSE x - W
      BY <3>4, <3>5, <3>6
    <3> QED
      BY <3>7 DEF x
  <2> HIDE DEF r
  <2>4. /\ res \in Word
        /\ \A i \in Bits : Bit(res, i) = Bit(a, IF i + r < W THEN i + r ELSE (i + r) - W)
    <3>1. CASE r = 0
      <4>1. \A i \in Bits : i + r < W /\ i + r = i
        BY <1>1, <3>1 DEF Bits
      <4> QED
        BY <3>1, <4>1
    <3>2. CASE r # 0
      <4>1. r \in 1 .. W - 1
        BY <1>1, <2>1, <3>2
      <4> QED
        BY <3>2, <4>1, RotatedBits
    <3> QED
      BY <3>1, <3>2
  <2> HIDE DEF res
  <2>5. \A i \in Bits : (IF i + r < W THEN i + r ELSE (i + r) - W) \in Bits
    BY <1>1, <2>1 DEF Bits
  <2>6. \A i \in Bits : i \in ToBits(res) <=> (i + n) % W \in ToBits(a)
    BY <2>3, <2>4, <2>5 DEF ToBits
  <2>7. ToBits(res) = S
    BY <2>6 DEF ToBits
  <2>8. FromBits(S) = res
    BY <2>4, <2>7, BitsMakeWord
  <2>9. c <=> Negative(res)
    <3>1. W - 1 \in Bits /\ (Negative(res) <=> W - 1 \in ToBits(res))
      BY <2>4, SignBit
    <3>2. (W - 1) + n = n + W - 1
      BY <1>1
    <3> QED
      BY <2>6, <3>1, <3>2
  <2>10. c \in BOOLEAN /\ Negative(res) \in BOOLEAN
    BY DEF Negative
  <2> HIDE DEF S, c
  <2> QED
    BY <1>2, <1>4, <2>2, <2>8, <2>9, <2>10, AgreesIs
<1> QED
  BY <1>3, <1>4

(***************************************************************************)
(* Shifts by any amount, 0, the width of a word and more included: value   *)
(* and carry are those of the manual, which shifts the number (asr the one *)
(* with a sign) by as many places, or takes the bits round.                *)
(***************************************************************************)
THEOREM ShiftsAsManual ==
  ASSUME NEW cpu \in Cpus, NEW a \in Word, NEW n \in Nat
  PROVE  /\ Agrees(lsl_with_carry(cpu, a, n), ManualShift(cpu, "lsl", a, n))
         /\ Agrees(lsr_with_carry(cpu, a, n), ManualShift(cpu, "lsr", a, n))
         /\ Agrees(asr_with_carry(cpu, a, n), ManualShift(cpu, "asr", a, n))
         /\ Agrees(ror_with_carry(cpu, a, n), ManualShift(cpu, "ror", a, n))
  BY LeftShift, RightShift, SignedShift, Rotation

-----------------------------------------------------------------------------
(* Loads and stores: a number is made of bytes by a recursion in Read, and  *)
(* by another in what the manual says.                                      *)

Numeral(Y, f, n) == /\ Y \in [0 .. n -> Nat] /\ Y[n] = 0
                    /\ \A i \in 0 .. n - 1 : Y[i] = f[i] + Pow2[B] * Y[i + 1]

LEMMA ByteRange == B \in Nat /\ B >= 1 /\ Pow2[B] \in Nat \ {0}
<1>1. B \in 0 .. W + 16
  BY ByteAssumption DEF W
<1> QED
  BY <1>1, ByteAssumption, PowerIs

LEMMA NumeralExists ==
  ASSUME NEW n \in Nat, NEW f \in [0 .. n - 1 -> Nat]
  PROVE  \E Y : Numeral(Y, f, n)
<1> DEFINE Part(Y, k) == /\ Y \in [n - k .. n -> Nat] /\ Y[n] = 0
                         /\ \A i \in n - k .. n - 1 : Y[i] = f[i] + Pow2[B] * Y[i + 1]
           T == {k \in 0 .. n : \E Y : Part(Y, k)}
<1>1. 0 \in T
  <2> DEFINE Y == [i \in n - 0 .. n |-> 0]
  <2>1. Part(Y, 0)
    OBVIOUS
  <2> HIDE DEF Y, Part
  <2> QED
    BY <2>1
<1>2. ASSUME NEW k \in 0 .. n - 1, k \in T PROVE k + 1 \in T
  <2>1. PICK Y : Part(Y, k)
    BY <1>2
  <2> DEFINE j == n - (k + 1)
             top == f[j] + Pow2[B] * Y[j + 1]
             X == [i \in j .. n |-> IF i = j THEN top ELSE Y[i]]
  <2>2. j \in 0 .. n - 1 /\ j + 1 = n - k /\ n - k \in 0 .. n /\ j # n /\ k + 1 \in 0 .. n
    OBVIOUS
  <2>3. top \in Nat
    <3> DEFINE u == f[j]
               v == Y[j + 1]
    <3>1. u \in Nat /\ v \in Nat
      BY <2>1, <2>2
    <3> HIDE DEF u, v
    <3>2. u + Pow2[B] * v \in Nat
      BY <3>1, ByteRange
    <3> QED
      BY <3>2 DEF u, v
  <2> HIDE DEF top
  <2>4. X \in [j .. n -> Nat] /\ X[n] = 0
    BY <2>1, <2>2, <2>3
  <2>5. ASSUME NEW i \in j .. n - 1 PROVE X[i] = f[i] + Pow2[B] * X[i + 1]
    <3>1. i + 1 # j /\ i + 1 \in j .. n /\ i \in j .. n
      BY <2>2
    <3>2. X[i + 1] = Y[i + 1]
      BY <3>1
    <3>3. CASE i = j
      BY <3>1, <3>2, <3>3 DEF top
    <3>4. CASE i # j
      <4>1. i \in n - k .. n - 1
        BY <2>2, <3>4
      <4> QED
        BY <2>1, <3>1, <3>2, <3>4, <4>1
    <3> QED
      BY <3>3, <3>4
  <2> HIDE DEF X
  <2>6. Part(X, k + 1)
    BY <2>4, <2>5
  <2> HIDE DEF Part
  <2> QED
    BY <2>2, <2>6
<1>3. n \in T
  <2> HIDE DEF T
  <2>1. Steps(T, n)
    BY <1>2 DEF Steps
  <2> QED
    BY <1>1, <2>1, UpTo
<1>4. PICK Y : Part(Y, n)
  BY <1>3
<1>5. Numeral(Y, f, n)
  BY <1>4 DEF Numeral
<1> QED
  BY <1>5

Solves(V, f, n) == /\ V[n] = 0
                   /\ \A i \in 0 .. n - 1 : \/ V[i] = f[i] + Pow2[B] * V[i + 1]
                                            \/ V[i] = Pow2[B] * V[i + 1] + f[i]

\* Whatever satisfies the equations is the number.
LEMMA NumeralAgrees ==
  ASSUME NEW n \in Nat, NEW f \in [0 .. n - 1 -> Nat], NEW X, Numeral(X, f, n),
         NEW V, Solves(V, f, n)
  PROVE  V[0] = X[0]
<1> DEFINE T == {k \in 0 .. n : V[n - k] = X[n - k]}
<1>1. 0 \in T
  BY DEF Numeral, Solves
<1>2. ASSUME NEW k \in 0 .. n - 1, k \in T PROVE k + 1 \in T
  <2> DEFINE j == n - (k + 1)
  <2>1. j \in 0 .. n - 1 /\ j + 1 = n - k /\ n - k \in 0 .. n /\ k + 1 \in 0 .. n
    OBVIOUS
  <2>2. V[j + 1] = X[j + 1] /\ X[j + 1] \in Nat /\ f[j] \in Nat
    BY <1>2, <2>1 DEF Numeral
  <2> HIDE DEF j
  <2>3. X[j] = f[j] + Pow2[B] * X[j + 1]
    BY <2>1 DEF Numeral
  <2>4. V[j] = f[j] + Pow2[B] * V[j + 1] \/ V[j] = Pow2[B] * V[j + 1] + f[j]
    BY <2>1 DEF Solves
  <2>5. Pow2[B] * X[j + 1] \in Nat
    BY <2>2, ByteRange
  <2>6. V[j] = X[j]
    BY <2>2, <2>3, <2>4, <2>5
  <2> QED
    BY <2>1, <2>6 DEF j
<1>3. n \in T
  <2> HIDE DEF T
  <2>1. Steps(T, n)
    BY <1>2 DEF Steps
  <2> QED
    BY <1>1, <2>1, UpTo
<1> QED
  BY <1>3

(***************************************************************************)
(* A load of any size finds what a store of any size has left, byte by     *)
(* byte and the lowest first, wherever the two overlap, and otherwise what *)
(* was there.                                                              *)
(***************************************************************************)
THEOREM LoadsWhatWasStored ==
  ASSUME NEW cpu \in Cpus, cpu.mem = program.mem,
         NEW m \in [from : Nat, to : Nat, size : 1 .. 4, value : Word], NEW loads \in 1 .. 4,
         m.from + loads <= RamSize, m.to + m.size <= RamSize
  PROVE  Read(Write(cpu, m.to, m.size, m.value), m.from, loads) = After(m, loads)
<1> DEFINE after == Write(cpu, m.to, m.size, m.value)
           stored == m.to .. m.to + m.size - 1
           f == [i \in 0 .. loads - 1 |-> IF m.from + i \in stored
                   THEN Byte(m.value, m.from + i - m.to) ELSE cpu.mem[m.from + i]]
           EqRead(Y) == Y = [i \in 0 .. loads |-> IF i = loads THEN 0
                               ELSE after.mem[m.from + i] + Pow2[B] * Y[i + 1]]
           EqAfter(Y) == Y = [i \in 0 .. loads |-> IF i = loads THEN 0 ELSE Pow2[B] * Y[i + 1] +
                                (IF m.from + i \in stored
                                 THEN Byte(m.value, m.from + i - m.to) ELSE program.mem[m.from + i])]
<1>1. m.from \in Nat /\ m.to \in Nat /\ m.size \in Nat /\ m.size <= 4 /\ loads \in Nat /\ loads <= 4
  OBVIOUS
<1>2. /\ m.from \in Nat /\ m.to \in Nat /\ m.size \in 1 .. 4 /\ m.value \in Nat /\ RamSize \in Nat
      /\ cpu.mem \in [0 .. RamSize - 1 -> 0 .. Pow2[B] - 1] /\ loads \in Nat
  <2>1. m.value \in Nat
    <3>1. m.value \in Word
      OBVIOUS
    <3> QED
      BY <3>1, RangeIs
  <2>2. RamSize \in Nat
    BY ThumbAssumption
  <2>3. cpu.mem \in [0 .. RamSize - 1 -> 0 .. Pow2[B] - 1]
    BY DEF Cpus
  <2> QED
    BY <2>1, <2>2, <2>3
<1>3. ASSUME NEW i \in 0 .. 3 PROVE Byte(m.value, i) \in Nat
  <2>1. B * i \in 0 .. W + 16
    <3>1. B * i \in Nat /\ B * i <= B * 3
      BY ByteRange
    <3> QED
      BY <3>1, ByteRange DEF W
  <2>2. Pow2[B * i] \in Nat \ {0}
    BY <2>1, PowerIs
  <2> DEFINE p == Pow2[B * i]
             q == m.value \div p
  <2>3. q \in Int
    <3>1. p \in Nat \ {0}
      BY <2>2
    <3> HIDE DEF p
    <3> QED
      BY <1>2, <3>1
  <2> HIDE DEF p, q
  <2>4. q % Pow2[B] \in 0 .. Pow2[B] - 1
    BY <2>3, ByteRange, RemainderOf
  <2>5. Byte(m.value, i) = q % Pow2[B]
    BY DEF Byte, q, p
  <2> QED
    BY <2>4, <2>5, ByteRange
<1>4. ASSUME NEW i \in 0 .. loads - 1
      PROVE  m.from + i \in 0 .. RamSize - 1 /\ f[i] \in Nat
  <2>1. m.from + i \in 0 .. RamSize - 1
    BY <1>2
  <2>2. m.from + i \in stored => m.from + i - m.to \in 0 .. 3
    <3> DEFINE u == m.from
               v == m.to
               w == m.size
    <3>1. u \in Nat /\ v \in Nat /\ w \in Nat /\ w <= 4 /\ i \in Int
      BY <1>1
    <3> HIDE DEF u, v, w
    <3>2. u + i \in v .. v + w - 1 => u + i - v \in 0 .. 3
      BY <3>1
    <3> QED
      BY <3>2 DEF u, v, w
  <2>3. cpu.mem[m.from + i] \in Nat
    BY <1>2, <2>1, ByteRange
  <2> HIDE DEF stored
  <2> QED
    BY <1>3, <2>1, <2>2, <2>3
<1>5. f \in [0 .. loads - 1 -> Nat]
  <2>1. f = [i \in 0 .. loads - 1 |-> f[i]]
    OBVIOUS
  <2> HIDE DEF f
  <2> QED
    BY <1>4, <2>1
<1>6. ASSUME NEW i \in 0 .. loads - 1 PROVE after.mem[m.from + i] = f[i]
  <2> DEFINE x == m.from + i
  <2>1. x \in DOMAIN cpu.mem
    BY <1>2, <1>4
  <2>2. after.mem = [a \in DOMAIN cpu.mem |->
             IF m.to + m.size <= RamSize /\ a \in stored
             THEN (m.value \div Pow2[B * (a - m.to)]) % Pow2[B] ELSE cpu.mem[a]]
    BY DEF Write, Cpus
  <2>3. after.mem[x] = IF x \in stored THEN Byte(m.value, x - m.to) ELSE cpu.mem[x]
    <3> HIDE DEF after, stored, x
    <3> QED
      BY <2>1, <2>2 DEF Byte
  <2> HIDE DEF after, stored
  <2> QED
    BY <2>3
<1> HIDE DEF f
<1>7. PICK X : Numeral(X, f, loads)
  BY <1>2, <1>5, NumeralExists
<1>8. /\ X \in [0 .. loads -> Nat] /\ X[loads] = 0
      /\ \A i \in 0 .. loads - 1 : X[i] = f[i] + Pow2[B] * X[i + 1]
  BY <1>7 DEF Numeral
<1>9. X = [i \in 0 .. loads |-> X[i]]
  BY <1>8
<1>10. ASSUME NEW V, Solves(V, f, loads) PROVE V[0] = X[0]
  <2>1. loads \in Nat
    BY <1>2
  <2> QED
    BY <1>5, <1>7, <1>10, <2>1, NumeralAgrees
<1>11. Read(after, m.from, loads) = X[0]
  <2> HIDE DEF after
  <2> DEFINE V == CHOOSE Y : EqRead(Y)
  <2>1. EqRead(X)
    <3>1. ASSUME NEW i \in 0 .. loads
          PROVE  X[i] = IF i = loads THEN 0 ELSE after.mem[m.from + i] + Pow2[B] * X[i + 1]
      <4>1. i # loads => i \in 0 .. loads - 1
        BY <1>2
      <4> QED
        BY <1>6, <1>8, <4>1
    <3> QED
      BY <1>9, <3>1
  <2>2. EqRead(V)
    <3> HIDE DEF EqRead
    <3> QED
      BY <2>1
  <2> HIDE DEF V
  <2>3. V[loads] = 0
    BY <1>2, <2>2
  <2>4. ASSUME NEW i \in 0 .. loads - 1 PROVE V[i] = f[i] + Pow2[B] * V[i + 1]
    <3>1. i \in 0 .. loads /\ i # loads
      BY <1>2
    <3>2. V[i] = after.mem[m.from + i] + Pow2[B] * V[i + 1]
      BY <2>2, <3>1
    <3> QED
      BY <1>6, <3>2
  <2>5. Solves(V, f, loads)
    BY <2>3, <2>4 DEF Solves
  <2>6. V[0] = X[0]
    BY <1>10, <2>5
  <2>7. Read(after, m.from, loads) = V[0]
    BY DEF Read, V
  <2> QED
    BY <2>6, <2>7
<1>12. After(m, loads) = X[0]
  <2> DEFINE V == CHOOSE Y : EqAfter(Y)
             g(i) == IF m.from + i \in stored
                     THEN Byte(m.value, m.from + i - m.to) ELSE program.mem[m.from + i]
  <2>1. ASSUME NEW i \in 0 .. loads - 1 PROVE g(i) = f[i] /\ f[i] \in Nat
    BY <1>4 DEF f
  <2>2. \A Y : EqAfter(Y) <=> Y = [i \in 0 .. loads |-> IF i = loads THEN 0
                                                  ELSE Pow2[B] * Y[i + 1] + g(i)]
    OBVIOUS
  <2> HIDE DEF g, EqAfter, stored
  <2>3. EqAfter(X)
    <3>1. ASSUME NEW i \in 0 .. loads
          PROVE  X[i] = IF i = loads THEN 0 ELSE Pow2[B] * X[i + 1] + g(i)
      <4>1. CASE i = loads
        BY <1>8, <4>1
      <4>2. CASE i # loads
        <5>1. i \in 0 .. loads - 1 /\ i + 1 \in 0 .. loads
          BY <1>2, <4>2
        <5>2. X[i + 1] \in Nat /\ g(i) = f[i] /\ f[i] \in Nat
          BY <1>8, <2>1, <5>1
        <5>3. Pow2[B] * X[i + 1] \in Nat
          BY <5>2, ByteRange
        <5>4. X[i] = f[i] + Pow2[B] * X[i + 1]
          BY <1>8, <5>1
        <5> QED
          BY <4>2, <5>2, <5>3, <5>4
      <4> QED
        BY <4>1, <4>2
    <3> QED
      BY <1>9, <2>2, <3>1
  <2>4. EqAfter(V)
    BY <2>3
  <2> HIDE DEF V
  <2>5. V[loads] = 0
    BY <1>2, <2>2, <2>4
  <2>6. ASSUME NEW i \in 0 .. loads - 1 PROVE V[i] = Pow2[B] * V[i + 1] + f[i]
    <3>1. i \in 0 .. loads /\ i # loads
      BY <1>2
    <3>2. V[i] = Pow2[B] * V[i + 1] + g(i)
      BY <2>4, <2>2, <3>1
    <3> QED
      BY <2>1, <3>2
  <2>7. Solves(V, f, loads)
    BY <2>5, <2>6 DEF Solves
  <2>8. V[0] = X[0]
    BY <1>10, <2>7
  <2>9. After(m, loads) = V[0]
    BY DEF After, V, EqAfter, stored
  <2> QED
    BY <2>9, <2>8
<1> QED
  BY <1>11, <1>12
=============================================================================
