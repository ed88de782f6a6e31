----------------------------- MODULE MCEmuThumb -----------------------------
(***************************************************************************)
(* Programs for EmuThumb with bytes of two bits: all opcodes in blocks,    *)
(* single instructions, the division of aeabi_div.S (the shift by 31 that  *)
(* looks at the top bit is one by 7 here), delay loops and timer waits.    *)
(***************************************************************************)
EXTENDS EmuThumb

Some == {0, 1, 2, 3, 7, 8, 64, 127, 128, 129, 254, 255}
Divided == {0, 1, 2, 3, 5, 7, 16, 63, 64, 100, 127, 128, 129, 200, 254, 255}
Halt == \hE7FE
Base == 64
Top32 == 32
Zeros == [i \in 0 .. 15 |-> 0]
Cells == [a \in 0 .. 31 |-> a % 4]
Program(kind, code, regs, c, means) ==
  [kind |-> kind, code |-> code \o <<Halt>>, mem |-> Cells, n |-> FALSE, z |-> FALSE,
   c |-> c, v |-> FALSE, means |-> means, opcodes |-> {},
   r |-> [i \in 0 .. 15 |-> IF i \in DOMAIN regs THEN regs[i]
                           ELSE IF i = 13 THEN Top32 ELSE IF i = 15 THEN Base ELSE 16 + i]]

Blocks == {[Program("opcodes", <<>>, Zeros, FALSE, {}) EXCEPT
              !.opcodes = 1024 * k .. 1024 * k + 1023] : k \in 0 .. 63}

\* two operands in r0 and r1
Regs(a, b) == [i \in {0, 1} |-> IF i = 0 THEN a ELSE b]
AluOp(alu) == \h4008 + 64 * alu
SumOf(x, y, carry, rd, kept) == [x |-> x, y |-> y, carry |-> One(carry), rd |-> rd, kept |-> kept]
Sums ==
  UNION {LET P(op, m) == Program("sum", <<op>>, Regs(a, b), c, m)
         IN {P(AluOp(5), SumOf(a, b, c, 0, TRUE)), P(AluOp(6), SumOf(a, Not(b), c, 0, TRUE)),
             P(AluOp(9), SumOf(0, Not(b), TRUE, 0, TRUE)),
             P(AluOp(10), SumOf(a, Not(b), TRUE, 0, FALSE)),
             P(AluOp(11), SumOf(a, b, FALSE, 0, FALSE)),
             P(\h1842, SumOf(a, b, FALSE, 2, TRUE)), P(\h1A42, SumOf(a, Not(b), TRUE, 2, TRUE)),
             P(\h1EC2, SumOf(a, Not(3), TRUE, 2, TRUE)), P(\h1DC2, SumOf(a, 7, FALSE, 2, TRUE)),
             P(\h2800 + b, SumOf(a, Not(b), TRUE, 0, FALSE)),
             P(\h3000 + b, SumOf(a, b, FALSE, 0, TRUE)),
             P(\h3800 + b, SumOf(a, Not(b), TRUE, 0, TRUE)),
             P(\h4508, SumOf(a, Not(b), TRUE, 0, FALSE))}
         : a \in Some, b \in Some, c \in BOOLEAN}

ShiftBy(how, a, n, rd) == [how |-> how, a |-> a, n |-> n, rd |-> rd]
Shifts ==
  UNION {LET P(op, amount, m) == Program("shift", <<op>>, Regs(a, amount), c, m)
         IN {P(AluOp(2), n, ShiftBy("lsl", a, n, 0)), P(AluOp(3), n, ShiftBy("lsr", a, n, 0)),
             P(AluOp(4), n, ShiftBy("asr", a, n, 0)), P(AluOp(7), n, ShiftBy("ror", a, n, 0))}
         : a \in Some, n \in Some \cup 0 .. 9, c \in BOOLEAN}
  \cup UNION {LET P(op, m) == Program("shift", <<op>>, Regs(a, 0), c, m)
         IN {P(64 * n + 2, ShiftBy("lsl", a, n, 2)),
             P(2048 + 64 * n + 2, ShiftBy("lsr", a, IF n = 0 THEN W ELSE n, 2)),
             P(4096 + 64 * n + 2, ShiftBy("asr", a, IF n = 0 THEN W ELSE n, 2))}
         : a \in Some, n \in {0, 1, 7, 8, 31}, c \in BOOLEAN}

\* cmp r0, r1; b<cond> over the next; movs r2, #0 (r2 is 1 before)
Conditions ==
  {Program("compare", <<AluOp(10), \hD000 + 256 * cond, \h2200>>,
           [i \in 0 .. 2 |-> IF i = 0 THEN a ELSE IF i = 1 THEN b ELSE 1], FALSE,
           [cond |-> cond, a |-> a, b |-> b])
   : a \in Some, b \in Some, cond \in {0, 1, 2, 3, 8, 9, 10, 11, 12, 13}}

\* a store to r2 + r3, then a load from r2 + r4, of sizes 4, 2 and 1; and a
\* word pushed and popped, or stored and loaded by a list
StoreOp == [s \in {4, 2, 1} |-> \h50D0 + (CASE s = 4 -> 0 [] s = 2 -> 512 [] OTHER -> 1024)]
LoadOp(s, signed) == \h5111 + (CASE s = 4 -> \h800 [] s = 2 /\ ~signed -> \hA00
  [] s = 1 /\ ~signed -> \hC00 [] s = 2 -> \hE00 [] OTHER -> \h600)
Memory ==
  {Program("memory", <<StoreOp[m.size], LoadOp(m.loads, m.signed)>>,
           [i \in {0, 2, 3, 4} |-> CASE i = 0 -> m.value [] i = 2 -> 8
                                     [] i = 3 -> m.to - 8 [] OTHER -> m.from - 8], FALSE, m)
   : m \in [value : {0, 27, 128, 228, 255}, size : {1, 2, 4}, to : 8 .. 12,
            loads : {1, 2, 4}, from : 8 .. 12, signed : BOOLEAN, rd : {1}]}
Lists ==
  {Program("memory", code, [i \in {0, 2} |-> IF i = 0 THEN v ELSE 8], FALSE,
           [value |-> v, size |-> 4, to |-> 8, loads |-> 4, from |-> 8, signed |-> FALSE, rd |-> 5])
   : code \in {<<\hB411, \hBC30, \h0025>>,  \* push {r0, r4}; pop {r4, r5}; movs r5, r4
               <<\hC203, \h3A08, \hCA30, \h0025>>, \* stmia r2!, {r0, r1}; subs r2, #8;
                                            \* ldmia r2!, {r4, r5}; movs r5, r4
               <<\h6010, \h6815>>,          \* str r0, [r2]; ldr r5, [r2]
               <<\h7010, \h7815>>}, v \in {0, 3}}

Idivmod ==
  << \hB530, \h2400, \h2500, \h2800, \hDA03, \h4240, \h2501, \h2201,
     \h4054, \h2900, \hDA02, \h4249, \h2201, \h4054, \hF000, \hF807,
     \h2C00, \hD000, \h4240, \h2D00, \hD000, \h4249, \hBD30, \hB510,
     \h2900, \hD103, \h4601, \h2000, \h1E40, \hBD10, \h4288, \hD202,
     \h4601, \h2000, \hBD10, \h2200, \h2301, \h4281, \hD805, \h09CC,
     \h2C00, \hD102, \h0049, \h005B, \hE7F7, \h4288, \hD301, \h1A40,
     \h431A, \h0849, \h085B, \hD1F8, \h4601, \h4610, \hBD10 >>
Entry(signed) == IF signed THEN Base ELSE Base + 46
Divisions ==
  {Program("divide", Idivmod,
           [i \in {0, 1, 14, 15} |-> CASE i = 0 -> n [] i = 1 -> d
              [] i = 14 -> Base + 2 * Len(Idivmod) + 1 [] OTHER -> Entry(signed)],
           FALSE, [n |-> n, d |-> d, signed |-> signed])
   : n \in Divided, d \in Divided, signed \in BOOLEAN}

\* nop; subs r3, #1; cmp r3, #0; bne; adds r1, r3, #1
Countdown == << \h46C0, \h3B01, \h2B00, \hD1FB, \h1C59 >>
\* the counter at sp + 4, the limit in r4, then ldr r5, [sp, #4]
Counter == << \hE003, \h9B01, \h3301, \h9301, \hE7FF, \h9B01, \h42A3, \hD9F8, \h9D01 >>
Delays ==
  {Program("delay", Countdown, [i \in {3} |-> n], FALSE, [stale |-> {}]) : n \in {1, 2, 40}}
  \cup {[Program("delay", Counter, [i \in {3, 4, 13} |-> CASE i = 4 -> limit [] i = 3 -> 9 [] OTHER -> 8],
                 FALSE, [stale |-> {3}])
         EXCEPT !.mem[12] = start % 4, !.mem[13] = start \div 4,
                !.mem[14] = 0, !.mem[15] = 0]
        : start \in {0, 1, 5, 7}, limit \in {0, 5, 6, 126}}

\* the timer in r2, the limit in r4
Waits ==
  {Program("timer", code, [i \in {2, 4} |-> IF i = 2 THEN TIMER_BASE ELSE limit], FALSE,
           [limit |-> limit])
   : code \in {<< \h6A51, \h6A93, \h42A3, \hD3FB >>,       \* compare, bcc back
               << \h6A93, \h42A3, \hD3FC >>,               \* poll, bcc back
               << \h6A93, \h42A3, \hD200, \hE7FB >>,       \* bcs out; b back
               << \h6A51, \h6A93, \h42A3, \hD201, \hBF20, \hE7F9 >>}, \* wfe
     limit \in {0, 3, 20, 40}}
\* a loop without end, and an opcode not known
NoEnd == Program("endless", << \h46C0, \hE7FD >>, Zeros, FALSE, {})
Endless == {NoEnd, Program("endless", << \hB100 >>, [i \in {15} |-> Base], FALSE, {})}
MCPrograms == Blocks \cup Sums \cup Shifts \cup Conditions \cup Memory \cup Lists
              \cup Divisions \cup Delays \cup Waits \cup Endless
=============================================================================
