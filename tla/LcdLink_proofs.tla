--------------------------- MODULE LcdLink_proofs ---------------------------
(***************************************************************************)
(* The signals of the display change only while its port is at rest, and   *)
(* what it shows only towards the picture that the drawing calls ask for,  *)
(* for every call, size of display and FIFO, and timing of the port.       *)
(***************************************************************************)
EXTENDS LcdLink, SequenceTheorems, WellFoundedInduction, NaturalsInduction, TLAPS

IsSend(a) == a[1] \in {"send", "dma"}
IsPut(a) == a[1] \in {"cs", "dc"}
IsIdle(a) == a[1] = "idle"
IsSeq(s) == \E S : s \in Seq(S)

\* Between a byte and a change of signals, and after the last byte, the driver
\* waits until the port is at rest.
Settled(s) ==
  /\ IsSeq(s)
  /\ \A k, i \in 1 .. Len(s) : k < i /\ IsSend(s[k]) /\ IsPut(s[i])
       => \E j \in k + 1 .. i - 1 : IsIdle(s[j])
  /\ \A k \in 1 .. Len(s) : IsSend(s[k]) => \E j \in k + 1 .. Len(s) : IsIdle(s[j])

\* That wait is still to come, before any such change.
Awaited(s) ==
  /\ \E j \in 1 .. Len(s) : IsIdle(s[j])
  /\ \A i \in 1 .. Len(s) : IsPut(s[i]) => \E j \in 1 .. i - 1 : IsIdle(s[j])

Quiet == spi.tx = <<>> /\ spi.busy = FALSE
\* A port that is not at rest is awaited.
PortInv ==
  /\ Settled(script)
  /\ spi.busy \in BOOLEAN /\ DOMAIN spi = {"tx", "rx", "overrun", "busy"}
  /\ {"cs", "dc", "x"} \subseteq DOMAIN lcd
  /\ puts.text # <<>> => puts \in TextCalls
  /\ Quiet \/ Awaited(script)

-----------------------------------------------------------------------------
(* Scripts                                                                  *)

\* u is s and then t.
Joined(u, s, t) ==
  /\ IsSeq(u) /\ Len(s) \in Nat /\ Len(t) \in Nat /\ Len(u) = Len(s) + Len(t)
  /\ \A i \in 1 .. Len(s) : u[i] = s[i]
  /\ \A i \in 1 .. Len(t) : u[Len(s) + i] = t[i]

LEMMA ConcatSeq ==
  ASSUME NEW s, NEW t, IsSeq(s), IsSeq(t)
  PROVE  Joined(s \o t, s, t)
<1>1. PICK S : s \in Seq(S)
  BY DEF IsSeq
<1>2. PICK T : t \in Seq(T)
  BY DEF IsSeq
<1>3. s \in Seq(S \cup T) /\ t \in Seq(S \cup T)
  BY <1>1, <1>2
<1> DEFINE U == S \cup T
<1> HIDE DEF U
<1>4. s \in Seq(U) /\ t \in Seq(U)
  BY <1>3 DEF U
<1>5. s \o t \in Seq(U)
  BY <1>4
<1> QED BY <1>4, <1>5 DEF IsSeq, Joined

LEMMA TailSeq ==
  ASSUME NEW s, IsSeq(s), s # <<>>
  PROVE  /\ IsSeq(Tail(s)) /\ Len(s) \in Nat \ {0} /\ Len(Tail(s)) = Len(s) - 1
         /\ \A i \in 1 .. Len(s) - 1 : Tail(s)[i] = s[i + 1]
<1>1. PICK S : s \in Seq(S)
  BY DEF IsSeq
<1> QED BY <1>1 DEF IsSeq

\* One settled script after another is settled.
LEMMA SettledConcat ==
  ASSUME NEW s, NEW t, Settled(s), Settled(t)
  PROVE  Settled(s \o t)
<1> DEFINE u == s \o t
<1>1. IsSeq(u) /\ Len(s) \in Nat /\ Len(t) \in Nat /\ Len(u) = Len(s) + Len(t)
  BY ConcatSeq DEF Settled, Joined
<1>2. \A i \in 1 .. Len(s) : u[i] = s[i]
  BY ConcatSeq DEF Settled, Joined
<1>4. \A i \in 1 .. Len(t) : Len(s) + i \in 1 .. Len(u) /\ u[Len(s) + i] = t[i]
  <2>1. \A i \in 1 .. Len(t) : u[Len(s) + i] = t[i]
    BY ConcatSeq DEF Settled, Joined
  <2> QED BY <1>1, <2>1
<1>3. \A i \in 1 .. Len(u) : i > Len(s) => i - Len(s) \in 1 .. Len(t) /\ u[i] = t[i - Len(s)]
  <2> SUFFICES ASSUME NEW i \in 1 .. Len(u), i > Len(s)
               PROVE  i - Len(s) \in 1 .. Len(t) /\ u[i] = t[i - Len(s)]
    OBVIOUS
  <2>1. i - Len(s) \in 1 .. Len(t) /\ Len(s) + (i - Len(s)) = i
    BY <1>1
  <2> HIDE DEF u
  <2> QED BY <1>4, <2>1
<1> HIDE DEF u
<1>5. ASSUME NEW k \in 1 .. Len(u), IsSend(u[k])
      PROVE  \E j \in k + 1 .. Len(u) : IsIdle(u[j])
  <2>1. CASE k <= Len(s)
    <3>1. k \in 1 .. Len(s) /\ IsSend(s[k])
      BY <1>1, <1>2, <1>5, <2>1
    <3>2. PICK j \in k + 1 .. Len(s) : IsIdle(s[j])
      BY <3>1 DEF Settled
    <3> QED BY <3>1, <3>2, <1>1, <1>2
  <2>2. CASE k > Len(s)
    <3>1. k - Len(s) \in 1 .. Len(t) /\ IsSend(t[k - Len(s)])
      BY <1>3, <1>5, <2>2
    <3>2. PICK j \in k - Len(s) + 1 .. Len(t) : IsIdle(t[j])
      BY <3>1 DEF Settled
    <3>3. Len(s) + j \in k + 1 .. Len(u) /\ IsIdle(u[Len(s) + j])
      BY <3>1, <3>2, <1>1, <1>4
    <3> QED BY <3>3
  <2> QED BY <1>1, <2>1, <2>2
<1>6. ASSUME NEW k \in 1 .. Len(u), NEW i \in 1 .. Len(u), k < i, IsSend(u[k]), IsPut(u[i])
      PROVE  \E j \in k + 1 .. i - 1 : IsIdle(u[j])
  <2>1. CASE i <= Len(s)
    <3>1. k \in 1 .. Len(s) /\ i \in 1 .. Len(s) /\ IsSend(s[k]) /\ IsPut(s[i])
      BY <1>1, <1>2, <1>6, <2>1
    <3>2. PICK j \in k + 1 .. i - 1 : IsIdle(s[j])
      BY <3>1, <1>6 DEF Settled
    <3> QED BY <3>1, <3>2, <1>1, <1>2
  <2>2. CASE i > Len(s) /\ k <= Len(s)
    <3>1. k \in 1 .. Len(s) /\ IsSend(s[k])
      BY <1>1, <1>2, <1>6, <2>2
    <3>2. PICK j \in k + 1 .. Len(s) : IsIdle(s[j])
      BY <3>1 DEF Settled
    <3> QED BY <3>1, <3>2, <1>1, <1>2, <2>2
  <2>3. CASE k > Len(s)
    <3>1. /\ k - Len(s) \in 1 .. Len(t) /\ IsSend(t[k - Len(s)])
          /\ i - Len(s) \in 1 .. Len(t) /\ IsPut(t[i - Len(s)])
          /\ k - Len(s) < i - Len(s)
      BY <1>1, <1>3, <1>6, <2>3
    <3>2. PICK j \in k - Len(s) + 1 .. i - Len(s) - 1 : IsIdle(t[j])
      BY <3>1 DEF Settled
    <3>3. Len(s) + j \in k + 1 .. i - 1 /\ j \in 1 .. Len(t) /\ IsIdle(u[Len(s) + j])
      BY <3>1, <3>2, <1>1, <1>4
    <3> QED BY <3>3
  <2> QED BY <1>1, <2>1, <2>2, <2>3
<1>7. Settled(u)
  BY <1>1, <1>5, <1>6 DEF Settled
<1> QED BY <1>7 DEF u

\* A sequence given by its elements.
LEMMA TransferSeq ==
  ASSUME NEW n \in Nat, NEW t, t = [i \in 1 .. n |-> t[i]]
  PROVE  IsSeq(t) /\ Len(t) = n
<1> DEFINE S == {t[i] : i \in 1 .. n}
<1>1. t \in [1 .. n -> S]
  OBVIOUS
<1> HIDE DEF S
<1>2. t \in Seq(S) /\ Len(t) = n
  BY <1>1
<1> QED BY <1>2 DEF IsSeq

\* What the parts of a script are.
LEMMA Parts ==
  /\ \A level : /\ IsSeq(cs(level)) /\ Len(cs(level)) = 1 /\ IsPut(cs(level)[1])
                /\ IsSeq(dc(level)) /\ Len(dc(level)) = 1 /\ IsPut(dc(level)[1])
  /\ IsSeq(spi_finish) /\ Len(spi_finish) = 4 /\ IsIdle(spi_finish[2])
  /\ \A i \in 1 .. 4 : ~IsSend(spi_finish[i]) /\ ~IsPut(spi_finish[i])
<1>1. \A a : IsSeq(<<a>>) /\ Len(<<a>>) = 1 /\ <<a>>[1] = a
  <2> TAKE a
  <2>1. a \in {a} /\ <<a>> \in Seq({a})
    OBVIOUS
  <2> QED BY <2>1 DEF IsSeq
<1>2. \A a, b, c, d : /\ IsSeq(<<a, b, c, d>>) /\ Len(<<a, b, c, d>>) = 4
                      /\ <<a, b, c, d>>[1] = a /\ <<a, b, c, d>>[2] = b
                      /\ <<a, b, c, d>>[3] = c /\ <<a, b, c, d>>[4] = d
  <2> TAKE a, b, c, d
  <2>1. <<a, b, c, d>> \in Seq({a, b, c, d})
    OBVIOUS
  <2> QED BY <2>1 DEF IsSeq
<1>3. ASSUME NEW level
      PROVE  /\ IsSeq(cs(level)) /\ Len(cs(level)) = 1 /\ IsPut(cs(level)[1])
             /\ IsSeq(dc(level)) /\ Len(dc(level)) = 1 /\ IsPut(dc(level)[1])
  <2>1. IsPut(<<"cs", level>>) /\ IsPut(<<"dc", level>>)
    BY DEF IsPut
  <2> QED BY <1>1, <2>1, Zenon DEF cs, dc
<1>4. /\ IsSeq(spi_finish) /\ Len(spi_finish) = 4
      /\ spi_finish[1] = <<"empty", 0>> /\ spi_finish[2] = <<"idle", 0>>
      /\ spi_finish[3] = <<"drain", 0>> /\ spi_finish[4] = <<"clear", 0>>
  BY <1>2, Zenon DEF spi_finish
<1>5. ASSUME NEW i \in 1 .. 4 PROVE ~IsSend(spi_finish[i]) /\ ~IsPut(spi_finish[i])
  <2>1. i \in {1, 2, 3, 4}
    OBVIOUS
  <2> QED BY <1>4, <2>1 DEF IsSend, IsPut
<1>6. IsIdle(spi_finish[2])
  BY <1>4 DEF IsIdle
<1> QED BY <1>3, <1>4, <1>5, <1>6

\* Bytes between two changes of signals, and the wait after them.
LEMMA SettledTransfer ==
  ASSUME NEW d, NEW t, IsSeq(t), \A i \in 1 .. Len(t) : IsSend(t[i])
  PROVE  Settled(dc(d) \o cs(0) \o t \o spi_finish \o cs(1))
<1> DEFINE a == dc(d) \o cs(0)
           b == a \o t
           f == spi_finish
           c == b \o f
           e == cs(1)
           u == c \o e
           n == Len(t)
<1>1. IsSeq(a) /\ Len(a) = 2
  <2>1. IsSeq(dc(d)) /\ Len(dc(d)) = 1 /\ IsSeq(cs(0)) /\ Len(cs(0)) = 1
    BY Parts, Zenon
  <2>2. Joined(a, dc(d), cs(0))
    BY <2>1, ConcatSeq, Zenon
  <2> QED BY <2>1, <2>2 DEF Joined
<1> HIDE DEF a
<1>2. /\ IsSeq(b) /\ n \in Nat /\ Len(b) = n + 2
      /\ \A i \in 1 .. n : b[2 + i] = t[i]
      /\ \A i \in 1 .. 2 : b[i] = a[i]
  <2>1. Joined(b, a, t)
    BY <1>1, ConcatSeq, Zenon
  <2> HIDE DEF b
  <2> QED BY <1>1, <2>1 DEF Joined
<1> HIDE DEF b, n
<1>3. /\ IsSeq(c) /\ Len(c) = n + 6 /\ \A i \in 1 .. n + 2 : c[i] = b[i]
      /\ \A i \in 1 .. 4 : c[n + 2 + i] = f[i]
  <2>1. IsSeq(f) /\ Len(f) = 4
    BY Parts, Zenon
  <2>2. Joined(c, b, f)
    BY <1>2, <2>1, ConcatSeq, Zenon
  <2> HIDE DEF c, f
  <2> QED BY <1>2, <2>1, <2>2 DEF Joined
<1>4. /\ \A i \in 1 .. 4 : ~IsSend(f[i]) /\ ~IsPut(f[i])
      /\ IsIdle(f[2])
  BY Parts
<1> HIDE DEF c, f
<1>5. /\ IsSeq(u) /\ Len(u) = n + 7 /\ \A i \in 1 .. n + 6 : u[i] = c[i]
      /\ u[n + 7] = e[1]
  <2>1. IsSeq(e) /\ Len(e) = 1
    BY Parts
  <2> HIDE DEF e
  <2>2. Joined(u, c, e)
    BY <1>3, <2>1, ConcatSeq, Zenon
  <2> HIDE DEF u
  <2>3. IsSeq(u) /\ Len(u) = n + 7 /\ \A i \in 1 .. n + 6 : u[i] = c[i]
    BY <1>2, <1>3, <2>1, <2>2 DEF Joined
  <2>4. 1 \in 1 .. Len(e) /\ Len(c) + 1 = n + 7
    BY <1>2, <1>3, <2>1
  <2>5. u[n + 7] = e[1]
    BY <2>2, <2>4, Zenon DEF Joined
  <2> QED BY <2>3, <2>5
<1>6. IsPut(u[n + 7])
  BY <1>5, Parts
<1> HIDE DEF u
<1>7. \A i \in 1 .. n : IsSend(u[2 + i])
  BY <1>2, <1>3, <1>5 DEF n
<1>8. \A i \in 1 .. 4 : ~IsSend(u[n + 2 + i]) /\ ~IsPut(u[n + 2 + i])
  BY <1>2, <1>3, <1>4, <1>5
<1>9. IsIdle(u[n + 4])
  BY <1>2, <1>3, <1>4, <1>5
<1>10. \A x : ~(IsSend(x) /\ IsPut(x))
  BY DEF IsSend, IsPut
<1>11. \A i \in 1 .. Len(u) : IsPut(u[i]) => i <= 2 \/ i = n + 7
  <2> SUFFICES ASSUME NEW i \in 1 .. Len(u), i > 2, i # n + 7 PROVE ~IsPut(u[i])
    BY <1>2, <1>5
  <2>1. CASE i <= n + 2
    <3>1. i - 2 \in 1 .. n /\ 2 + (i - 2) = i
      BY <1>2, <2>1
    <3> QED BY <1>7, <1>10, <3>1
  <2>2. CASE i > n + 2
    <3>1. i - (n + 2) \in 1 .. 4 /\ n + 2 + (i - (n + 2)) = i
      BY <1>2, <1>5, <2>2
    <3> QED BY <1>8, <3>1
  <2> QED BY <1>2, <2>1, <2>2
<1>12. \A i \in 1 .. Len(u) : IsSend(u[i]) => i <= n + 2
  <2> SUFFICES ASSUME NEW i \in 1 .. Len(u), i > n + 2 PROVE ~IsSend(u[i])
    BY <1>2, <1>5
  <2>1. CASE i = n + 7
    BY <1>6, <1>10, <2>1
  <2>2. CASE i # n + 7
    <3>1. i - (n + 2) \in 1 .. 4 /\ n + 2 + (i - (n + 2)) = i
      BY <1>2, <1>5, <2>2
    <3> QED BY <1>8, <3>1
  <2> QED BY <2>1, <2>2
<1>13. \A i \in 1 .. Len(u) : IsSend(u[i]) => i > 2
  <2>1. IsPut(u[1]) /\ IsPut(u[2])
    <3>1. a[1] = dc(d)[1] /\ a[2] = cs(0)[1]
      <4>1. IsSeq(dc(d)) /\ Len(dc(d)) = 1 /\ IsSeq(cs(0)) /\ Len(cs(0)) = 1
        BY Parts
      <4>2. Joined(a, dc(d), cs(0))
        BY <4>1, ConcatSeq, Zenon DEF a
      <4> QED BY <4>1, <4>2 DEF Joined
    <3>2. b[1] = a[1] /\ b[2] = a[2]
      BY <1>2
    <3>3. u[1] = b[1] /\ u[2] = b[2]
      BY <1>2, <1>3, <1>5
    <3> QED BY <3>1, <3>2, <3>3, Parts
  <2>2. ~IsSend(u[1]) /\ ~IsSend(u[2])
    BY <2>1, <1>10
  <2> SUFFICES ASSUME NEW i \in 1 .. Len(u), i <= 2 PROVE ~IsSend(u[i])
    BY <1>2, <1>5
  <2>3. i = 1 \/ i = 2
    BY <1>2, <1>5
  <2> QED BY <2>2, <2>3
<1>14. Settled(u)
  <2>1. \A k \in 1 .. Len(u) : IsSend(u[k]) => n + 4 \in k + 1 .. Len(u)
    BY <1>2, <1>5, <1>12
  <2>2. \A k, i \in 1 .. Len(u) : k < i /\ IsSend(u[k]) /\ IsPut(u[i]) => n + 4 \in k + 1 .. i - 1
    BY <1>2, <1>5, <1>11, <1>12, <1>13
  <2> QED BY <1>5, <1>9, <2>1, <2>2 DEF Settled
<1> QED BY <1>14 DEF u, e, c, b, a, f

LEMMA SendSeq ==
  ASSUME NEW n \in Nat, NEW bytes, DOMAIN bytes = 1 .. n
  PROVE  /\ Settled(Data(spi_write(bytes))) /\ Settled(Data(dma(bytes)))
         /\ \A d : Settled(dc(d) \o cs(0) \o spi_write(bytes) \o spi_finish \o cs(1))
<1> DEFINE s == spi_write(bytes)
           t == dma(bytes)
<1>1. /\ s = [i \in 1 .. n |-> s[i]] /\ t = [i \in 1 .. n |-> t[i]]
      /\ \A i \in 1 .. n : s[i] = <<"send", bytes[i]>> /\ t[i] = <<"dma", bytes[i]>>
  BY DEF spi_write, dma
<1>2. \A b : IsSend(<<"send", b>>) /\ IsSend(<<"dma", b>>)
  BY DEF IsSend
<1> HIDE DEF s, t
<1>3. /\ IsSeq(s) /\ Len(s) = n /\ \A i \in 1 .. n : IsSend(s[i])
      /\ IsSeq(t) /\ Len(t) = n /\ \A i \in 1 .. n : IsSend(t[i])
  BY <1>1, <1>2, TransferSeq
<1>4. \A d : /\ Settled(dc(d) \o cs(0) \o s \o spi_finish \o cs(1))
             /\ Settled(dc(d) \o cs(0) \o t \o spi_finish \o cs(1))
  BY <1>3, SettledTransfer, Zenon
<1> QED BY <1>4, Zenon DEF s, t, Data

LEMMA SettledCommand == \A command : Settled(lcd_command(command))
<1> TAKE command
<1>1. 1 \in Nat /\ DOMAIN <<command>> = 1 .. 1
  OBVIOUS
<1> QED BY <1>1, SendSeq, Zenon DEF lcd_command

LEMMA SettledCommandData ==
  ASSUME NEW command, NEW n \in Nat, NEW data, DOMAIN data = 1 .. n
  PROVE  Settled(lcd_command_data(command, data))
<1>1. Settled(Data(spi_write(data)))
  BY SendSeq, Zenon
<1> QED BY <1>1, SettledCommand, SettledConcat, Zenon DEF lcd_command_data

LEMMA SettledWindow == \A x1, y1, x2, y2 : Settled(lcd_set_window(x1, y1, x2, y2))
<1> TAKE x1, y1, x2, y2
<1>1. 4 \in Nat /\ \A a, b : DOMAIN Coordinates(a, b) = 1 .. 4
  BY DEF Coordinates
<1>2. /\ Settled(lcd_command_data(COLADDR, Coordinates(x1, x2)))
      /\ Settled(lcd_command_data(PAGEADDR, Coordinates(y1, y2)))
  BY <1>1, SettledCommandData, Zenon
<1> QED BY <1>2, SettledCommand, SettledConcat, Zenon DEF lcd_set_window

\* A window and its pixels.
LEMMA SettledPixels ==
  ASSUME NEW w \in Int, NEW h \in Int, w > 0, h > 0,
         NEW bytes, DOMAIN bytes = 1 .. 3 * w * h,
         NEW x1, NEW y1, NEW x2, NEW y2
  PROVE  /\ Settled(lcd_set_window(x1, y1, x2, y2) \o Data(spi_write(bytes)))
         /\ Settled(lcd_set_window(x1, y1, x2, y2) \o Data(dma(bytes)))
<1>1. 3 * w * h \in Nat
  <2>1. 3 * w \in Nat /\ h \in Nat
    OBVIOUS
  <2>2. \A i, j \in Nat : i * j \in Nat
    OBVIOUS
  <2> QED BY <2>1, <2>2
<1>2. Settled(Data(spi_write(bytes))) /\ Settled(Data(dma(bytes)))
  BY <1>1, SendSeq, Zenon
<1> QED BY <1>2, SettledWindow, SettledConcat, Zenon

LEMMA SettledEmpty == Settled(<<>>)
<1>1. <<>> \in Seq({}) /\ Len(<<>>) = 0
  OBVIOUS
<1> QED BY <1>1 DEF Settled, IsSeq

LEMMA Cut == \A a, n \in Int : Low(a) \in Int /\ High(a, n) \in Int
BY DEF Low, High

LEMMA SettledRectangle ==
  ASSUME NEW x1 \in Int, NEW y1 \in Int, NEW x2 \in Int, NEW y2 \in Int, NEW colour
  PROVE  Settled(Rectangle(x1, y1, x2, y2, colour))
<1> DEFINE left == Low(x1)
           top == Low(y1)
           w == High(x2, Width) - left + 1
           h == High(y2, Height) - top + 1
           bytes == PixelBytes(left, top, w, h, colour)
<1>1. Width \in Int /\ Height \in Int
  BY ScreenAssumption DEF ScreenAssumption
<1>2. w \in Int /\ h \in Int
  <2>1. left \in Int /\ top \in Int /\ High(x2, Width) \in Int /\ High(y2, Height) \in Int
    BY <1>1, Cut
  <2> QED BY <2>1
<1>3. DOMAIN bytes = 1 .. 3 * w * h
  BY DEF PixelBytes
<1>4. Rectangle(x1, y1, x2, y2, colour)
        = IF w <= 0 \/ h <= 0 THEN <<>>
          ELSE lcd_set_window(left, top, left + w - 1, top + h - 1) \o Data(spi_write(bytes))
  BY DEF Rectangle
<1> HIDE DEF bytes, w, h
<1>5. ~(w <= 0 \/ h <= 0) => w > 0 /\ h > 0
  BY <1>2
<1>6. CASE w <= 0 \/ h <= 0
  BY <1>4, <1>6, SettledEmpty
<1>7. CASE ~(w <= 0 \/ h <= 0)
  <2>1. \A a, b, c, d : Settled(lcd_set_window(a, b, c, d) \o Data(spi_write(bytes)))
    BY <1>2, <1>3, <1>5, <1>7, SettledPixels, Zenon
  <2> QED BY <1>4, <1>7, <2>1
<1> QED BY <1>6, <1>7

LEMMA SettledFill ==
  ASSUME NEW x1 \in Int, NEW y1 \in Int, NEW x2 \in Int, NEW y2 \in Int, NEW rgb
  PROVE  Settled(lcd_fill_rect(x1, y1, x2, y2, rgb))
BY SettledRectangle, Zenon DEF lcd_fill_rect

LEMMA SettledChar ==
  ASSUME NEW x \in Int, NEW y \in Int, NEW scale \in Int, NEW ch, NEW fg, NEW bg
  PROVE  Settled(lcd_draw_char(x, y, ch, fg, bg, scale))
<1>1. CellW \in Int /\ CellH \in Int
  BY ScreenAssumption DEF ScreenAssumption
<1>2. x + CellW * scale - 1 \in Int /\ y + CellH * scale - 1 \in Int
  BY <1>1
<1> QED BY <1>2, SettledRectangle, Zenon DEF lcd_draw_char

LEMMA SettledBlit ==
  ASSUME NEW c, {c.x, c.y, c.width, c.height} \subseteq Int
  PROVE  Settled(blit_rgb(c))
<1> DEFINE bytes == PixelBytes(c.x, c.y, c.width, c.height,
                      [p \in Pixels |-> c.rgb[(p[2] - c.y) * c.width + p[1] - c.x + 1]])
<1>1. CASE ~Accepted(c)
  BY <1>1, SettledEmpty DEF blit_rgb
<1>2. CASE Accepted(c)
  <2>1. DOMAIN bytes = 1 .. 3 * c.width * c.height
    BY DEF PixelBytes
  <2>2. c.width \in Int /\ c.height \in Int /\ c.width > 0 /\ c.height > 0
    BY <1>2 DEF Accepted
  <2>3. blit_rgb(c) = lcd_set_window(c.x, c.y, c.x + c.width - 1, c.y + c.height - 1)
                        \o Data(IF c.op = "dma" THEN dma(bytes) ELSE spi_write(bytes))
    BY <1>2 DEF blit_rgb
  <2> HIDE DEF bytes
  <2>4. \A p, q, r, s : /\ Settled(lcd_set_window(p, q, r, s) \o Data(spi_write(bytes)))
                        /\ Settled(lcd_set_window(p, q, r, s) \o Data(dma(bytes)))
    BY <2>1, <2>2, SettledPixels, Zenon
  <2>5. CASE c.op = "dma"
    BY <2>3, <2>4, <2>5
  <2>6. CASE c.op # "dma"
    BY <2>3, <2>4, <2>6
  <2> QED BY <2>5, <2>6
<1> QED BY <1>1, <1>2

LEMMA SettledScript ==
  ASSUME NEW c \in Calls, c.op # "puts" PROVE Settled(Script(c))
<1>1. /\ c.op \in {"clear", "fill", "blit", "dma"} /\ 0 \in Int /\ Width - 1 \in Int /\ Height - 1 \in Int
      /\ c.op = "fill" => c.x1 \in Int /\ c.y1 \in Int /\ c.x2 \in Int /\ c.y2 \in Int
      /\ c.op \in {"blit", "dma"} => {c.x, c.y, c.width, c.height} \subseteq Int
  BY ScreenAssumption DEF ScreenAssumption, TextCalls
<1>2. CASE c.op = "clear"
  BY <1>1, <1>2, SettledFill DEF Script
<1>3. CASE c.op = "fill"
  BY <1>1, <1>3, SettledFill DEF Script
<1>4. CASE c.op \in {"blit", "dma"}
  <2>1. Script(c) = blit_rgb(c)
    BY <1>4 DEF Script
  <2> QED BY <1>1, <1>4, <2>1, SettledBlit
<1> QED BY <1>1, <1>2, <1>3, <1>4

LEMMA SettledInit == Settled(lcd_init_panel)
<1>1. \A n \in Nat : DOMAIN Zeros(n) = 1 .. n
  BY DEF Zeros
<1>2. \A command : \A n \in Nat : Settled(lcd_command_data(command, Zeros(n)))
  BY <1>1, SettledCommandData, Zenon
<1>3. \A command : /\ Settled(lcd_command_data(command, Zeros(15)))
                   /\ Settled(lcd_command_data(command, Zeros(4)))
                   /\ Settled(lcd_command_data(command, Zeros(3)))
                   /\ Settled(lcd_command_data(command, Zeros(2)))
                   /\ Settled(lcd_command_data(command, Zeros(1)))
  BY <1>2
<1>4. \A command, byte : Settled(lcd_command_data(command, <<byte>>))
  <2> TAKE command, byte
  <2>1. 1 \in Nat /\ DOMAIN <<byte>> = 1 .. 1
    OBVIOUS
  <2> QED BY <2>1, SettledCommandData, Zenon
<1>5. \A s, t : Settled(s) /\ Settled(t) => Settled(s \o t)
  BY SettledConcat, Zenon
<1> DEFINE a == lcd_command_data(224, Zeros(15)) \o lcd_command_data(225, Zeros(15))
                  \o lcd_command_data(192, Zeros(2)) \o lcd_command_data(193, Zeros(1))
           b == a \o lcd_command_data(197, Zeros(3)) \o lcd_command_data(54, <<72>>)
                  \o lcd_command_data(58, <<102>>) \o lcd_command_data(176, Zeros(1))
           c == b \o lcd_command_data(177, Zeros(1)) \o lcd_command(33)
                  \o lcd_command_data(180, Zeros(1)) \o lcd_command_data(182, Zeros(3))
           d == c \o lcd_command_data(183, Zeros(1)) \o lcd_command_data(233, Zeros(1))
                  \o lcd_command_data(247, Zeros(4))
<1>6. Settled(a)
  BY <1>3, <1>5, ZenonT(40)
<1> HIDE DEF a
<1>7. Settled(b)
  BY <1>3, <1>4, <1>5, <1>6, ZenonT(40)
<1> HIDE DEF b
<1>8. Settled(c)
  BY <1>3, <1>5, <1>7, SettledCommand, ZenonT(40)
<1> HIDE DEF c
<1>9. Settled(d)
  BY <1>3, <1>5, <1>8, ZenonT(40)
<1> HIDE DEF d
<1>10. lcd_init_panel = d \o lcd_command(17) \o lcd_command(41)
  BY DEF lcd_init_panel, d, c, b, a
<1> QED BY <1>5, <1>9, <1>10, SettledCommand, Zenon

-----------------------------------------------------------------------------
(* The port                                                                 *)

LEMMA SettledTail ==
  ASSUME NEW s, Settled(s), s # <<>>
  PROVE  /\ Settled(Tail(s))
         /\ IsSend(s[1]) => Awaited(Tail(s))
         /\ Awaited(s) /\ ~IsIdle(s[1]) => Awaited(Tail(s))
         /\ Awaited(s) => ~IsPut(s[1])
<1> DEFINE t == Tail(s)
           n == Len(s)
<1>1. IsSeq(t) /\ n \in Nat \ {0} /\ Len(t) = n - 1 /\ \A i \in 1 .. n - 1 : t[i] = s[i + 1]
  BY TailSeq DEF Settled
<1> HIDE DEF t, n
\* The element after position i of the tail, and the one before position j of s.
<1>2. ASSUME NEW i \in Int, NEW j \in Int, i >= 1, j <= n, \E k \in i + 1 .. j : IsIdle(s[k])
      PROVE  \E k \in i .. j - 1 : IsIdle(t[k])
  <2>1. PICK k \in i + 1 .. j : IsIdle(s[k])
    BY <1>2
  <2>2. k - 1 \in i .. j - 1 /\ k - 1 \in 1 .. n - 1 /\ (k - 1) + 1 = k
    BY <1>1, <1>2
  <2> QED BY <1>1, <2>1, <2>2
<1>3. ASSUME NEW k \in 1 .. Len(t), IsSend(t[k]) PROVE \E j \in k + 1 .. Len(t) : IsIdle(t[j])
  <2>1. k + 1 \in 1 .. n /\ IsSend(s[k + 1]) /\ k + 1 \in Int /\ k + 1 >= 1 /\ n \in Int /\ n <= n
    BY <1>1, <1>3
  <2>2. \E j \in (k + 1) + 1 .. n : IsIdle(s[j])
    BY <2>1 DEF Settled, n
  <2>3. \E j \in k + 1 .. n - 1 : IsIdle(t[j])
    BY <1>2, <2>1, <2>2, Zenon
  <2> QED BY <1>1, <2>3
<1>4. ASSUME NEW k \in 1 .. Len(t), NEW i \in 1 .. Len(t), k < i, IsSend(t[k]), IsPut(t[i])
      PROVE  \E j \in k + 1 .. i - 1 : IsIdle(t[j])
  <2>1. /\ k + 1 \in 1 .. n /\ i + 1 \in 1 .. n /\ k + 1 < i + 1 /\ IsSend(s[k + 1]) /\ IsPut(s[i + 1])
        /\ k + 1 \in Int /\ i \in Int /\ k + 1 >= 1 /\ i <= n /\ i + 1 - 1 = i
    BY <1>1, <1>4
  <2>2. \E j \in (k + 1) + 1 .. i + 1 - 1 : IsIdle(s[j])
    BY <2>1 DEF Settled, n
  <2>3. \E j \in (k + 1) + 1 .. i : IsIdle(s[j])
    BY <2>1, <2>2
  <2> QED BY <1>2, <2>1, <2>3, Zenon
<1>5. Settled(t)
  BY <1>1, <1>3, <1>4 DEF Settled
<1>6. /\ 1 \in 1 .. n /\ 1 \in Int /\ 1 >= 1 /\ n \in Int /\ n <= n
      /\ \A i \in 1 .. n - 1 : i + 1 \in 1 .. n /\ 1 < i + 1 /\ i \in Int /\ i <= n /\ i + 1 - 1 = i
  BY <1>1
<1>7. ASSUME IsSend(s[1]) PROVE Awaited(t)
  <2>1. \E j \in 1 + 1 .. n : IsIdle(s[j])
    BY <1>6, <1>7, Zenon DEF Settled, n
  <2>2. \E j \in 1 .. n - 1 : IsIdle(t[j])
    BY <1>2, <1>6, <2>1, Zenon
  <2>3. ASSUME NEW i \in 1 .. n - 1, IsPut(t[i]) PROVE \E j \in 1 .. i - 1 : IsIdle(t[j])
    <3>1. IsPut(s[i + 1])
      BY <1>1, <2>3
    <3>2. \E j \in 1 + 1 .. i + 1 - 1 : IsIdle(s[j])
      BY <1>6, <1>7, <3>1 DEF Settled, n
    <3>3. \E j \in 1 + 1 .. i : IsIdle(s[j])
      BY <1>6, <3>2
    <3> QED BY <1>2, <1>6, <3>3, Zenon
  <2> QED BY <1>1, <2>2, <2>3 DEF Awaited
<1>8. ASSUME Awaited(s), ~IsIdle(s[1]) PROVE Awaited(t)
  <2>1. \A j \in Int : (\E k \in 1 .. j : IsIdle(s[k])) => \E k \in 1 + 1 .. j : IsIdle(s[k])
    BY <1>8
  <2>2. \E j \in 1 + 1 .. n : IsIdle(s[j])
    BY <1>6, <1>8, <2>1, Zenon DEF Awaited, n
  <2>3. \E j \in 1 .. n - 1 : IsIdle(t[j])
    BY <1>2, <1>6, <2>2, Zenon
  <2>4. ASSUME NEW i \in 1 .. n - 1, IsPut(t[i]) PROVE \E j \in 1 .. i - 1 : IsIdle(t[j])
    <3>1. IsPut(s[i + 1])
      BY <1>1, <2>4
    <3>2. \E j \in 1 .. i + 1 - 1 : IsIdle(s[j])
      BY <1>6, <1>8, <3>1 DEF Awaited, n
    <3>3. \E j \in 1 + 1 .. i : IsIdle(s[j])
      BY <1>6, <2>1, <3>2
    <3> QED BY <1>2, <1>6, <3>3, Zenon
  <2> QED BY <1>1, <2>3, <2>4 DEF Awaited
<1>9. Awaited(s) => ~IsPut(s[1])
  BY <1>1 DEF Awaited, n
<1> QED BY <1>5, <1>7, <1>8, <1>9 DEF t

\* The display's decoder leaves its signals alone.
LEMMA ByteKeepsSignals ==
  ASSUME NEW d, {"cs", "dc", "x"} \subseteq DOMAIN d.lcd, NEW byte
  PROVE  LET e == emu_lcd_spi_byte(d, byte)
         IN  e.lcd.cs = d.lcd.cs /\ e.lcd.dc = d.lcd.dc /\ DOMAIN e.lcd = DOMAIN d.lcd
<1> DEFINE Keeps(l) == l.cs = d.lcd.cs /\ l.dc = d.lcd.dc /\ DOMAIN l = DOMAIN d.lcd
           e == emu_lcd_spi_byte(d, byte)
<1>1. Keeps(TakesCommand(d.lcd, byte))
  BY DEF TakesCommand, Reset
<1>2. Keeps(TakesParam(d.lcd, byte))
  BY DEF TakesParam
<1>3. Keeps(TakesPixelByte(d, byte).lcd)
  BY DEF TakesPixelByte, NextPlace, Panel
<1>4. \/ e = d \/ e = Panel(TakesCommand(d.lcd, byte), d.shown)
      \/ e = Panel(TakesParam(d.lcd, byte), d.shown) \/ e = TakesPixelByte(d, byte)
  BY Zenon DEF emu_lcd_spi_byte
<1>5. \A l, f : Panel(l, f).lcd = l
  BY DEF Panel
<1>6. \/ e.lcd = d.lcd \/ e.lcd = TakesCommand(d.lcd, byte)
      \/ e.lcd = TakesParam(d.lcd, byte) \/ e.lcd = TakesPixelByte(d, byte).lcd
  BY <1>4, <1>5, Zenon
<1> QED BY <1>1, <1>2, <1>3, <1>6

LEMMA ServiceKeeps ==
  ASSUME PortInv, spi_service
  PROVE  /\ <<lcd.cs, lcd.dc>>' = <<lcd.cs, lcd.dc>> /\ {"cs", "dc", "x"} \subseteq DOMAIN lcd'
         /\ Serviced.busy \in BOOLEAN /\ DOMAIN Serviced = {"tx", "rx", "overrun", "busy"}
         /\ Quiet => Serviced = spi
<1>1. lcd'.cs = lcd.cs /\ lcd'.dc = lcd.dc /\ DOMAIN lcd' = DOMAIN lcd
  <2> DEFINE now == Panel(lcd, shown)
  <2>1. now.lcd = lcd
    BY DEF Panel
  <2>2. lcd' = IF Moves THEN emu_lcd_spi_byte(now, Head(spi.tx)).lcd ELSE lcd
    BY <2>1 DEF spi_service
  <2> HIDE DEF now
  <2> QED BY <2>1, <2>2, ByteKeepsSignals DEF PortInv
<1>2. Serviced.busy \in BOOLEAN /\ DOMAIN Serviced = {"tx", "rx", "overrun", "busy"}
  BY DEF Serviced, PortInv
<1>3. Quiet => Serviced = spi
  BY DEF Serviced, Quiet, Moves
<1> QED BY <1>1, <1>2, <1>3 DEF PortInv

LEMMA InitPort == LinkInit => PortInv
<1> SUFFICES ASSUME LinkInit PROVE PortInv
  OBVIOUS
<1>1. Settled(script)
  BY SettledInit DEF LinkInit
<1>2. Quiet /\ spi.busy \in BOOLEAN /\ DOMAIN spi = {"tx", "rx", "overrun", "busy"}
  BY DEF LinkInit, Quiet
<1>3. {"cs", "dc", "x"} \subseteq DOMAIN lcd /\ puts.text = <<>>
  BY DEF LinkInit, NoText
<1> QED BY <1>1, <1>2, <1>3 DEF PortInv

LEMMA NextPort == PortInv /\ [LinkNext]_linkVars => PortInv'
<1> SUFFICES ASSUME PortInv, [LinkNext]_linkVars PROVE PortInv'
  OBVIOUS
<1>1. /\ Settled(script) /\ spi.busy \in BOOLEAN /\ DOMAIN spi = {"tx", "rx", "overrun", "busy"}
      /\ {"cs", "dc", "x"} \subseteq DOMAIN lcd
      /\ puts.text # <<>> => puts \in TextCalls
      /\ Quiet \/ Awaited(script)
  BY DEF PortInv
<1>2. script = <<>> => Quiet
  <2>1. Len(<<>>) = 0
    OBVIOUS
  <2>2. ~Awaited(<<>>)
    BY <2>1 DEF Awaited
  <2> QED BY <1>1, <2>2
\* A step with the driver's access done, after which the port is at rest or awaited.
<1>3. ASSUME script # <<>>, Done, spi'.busy \in BOOLEAN, DOMAIN spi' = {"tx", "rx", "overrun", "busy"},
             {"cs", "dc", "x"} \subseteq DOMAIN lcd', Quiet' \/ Awaited(Tail(script))
      PROVE  PortInv'
  <2>1. Settled(Tail(script))
    BY <1>1, <1>3, SettledTail
  <2>2. script' = Tail(script) /\ puts' = puts
    BY <1>3 DEF Done
  <2>3. Settled(script)' /\ (Quiet \/ Awaited(script))' /\ (puts.text # <<>> => puts \in TextCalls)'
    BY <1>1, <1>3, <2>1, <2>2
  <2> QED BY <1>3, <2>3 DEF PortInv
\* Another access than the wait for the port at rest.
<1>4. ASSUME script # <<>>, ~IsIdle(script[1]), Awaited(script) PROVE Awaited(Tail(script))
  BY <1>1, <1>4, SettledTail
<1>5. CASE DrawCall
  <2>1. Quiet' /\ spi' = spi /\ lcd' = lcd
    BY <1>2, <1>5 DEF DrawCall, Quiet
  <2>2. PICK c \in Calls : IF c.op = "puts" THEN puts' = c /\ UNCHANGED script
                           ELSE script' = Script(c) /\ UNCHANGED puts
    BY <1>5 DEF DrawCall
  <2>3. Settled(script)' /\ (puts.text # <<>> => puts \in TextCalls)'
    <3>1. CASE c.op = "puts"
      <4>1. c \in TextCalls
        BY <3>1, ScreenAssumption DEF ScreenAssumption
      <4> QED BY <1>1, <2>2, <3>1, <4>1
    <3>2. CASE c.op # "puts"
      BY <1>1, <2>2, <3>2, SettledScript
    <3> QED BY <3>1, <3>2
  <2> QED BY <1>1, <2>1, <2>3 DEF PortInv
<1>6. CASE picocalc_lcd_puts
  <2>1. Quiet' /\ spi' = spi /\ lcd' = lcd
    BY <1>2, <1>6 DEF picocalc_lcd_puts, Quiet
  <2>2. puts \in TextCalls /\ puts.text # <<>>
    BY <1>1, <1>6 DEF picocalc_lcd_puts
  <2>3. CellW \in Int /\ AtLeastOne(puts.scale) \in Int /\ puts.x \in Int /\ puts.y \in Int
    BY <2>2, ScreenAssumption DEF ScreenAssumption, AtLeastOne, TextCalls
  <2>4. CellW * AtLeastOne(puts.scale) \in Int
    BY <2>3
  <2>5. Settled(script)'
    BY <1>6, <2>3, SettledChar DEF picocalc_lcd_puts
  <2>6. puts' \in TextCalls
    <3> DEFINE more == CellW * AtLeastOne(puts.scale)
    <3>1. puts' = [puts EXCEPT !.text = Tail(@), !.x = @ + more]
      BY <1>6 DEF picocalc_lcd_puts
    <3>2. more \in Int
      BY <2>4
    <3> HIDE DEF more
    <3> DEFINE text == Tail(puts.text)
               x == puts.x + more
    <3>3. text \in Seq(DOMAIN Alpha) /\ x \in Int
      BY <2>2, <2>3, <3>2 DEF TextCalls
    <3>4. puts' = [puts EXCEPT !.text = text, !.x = x]
      BY <2>2, <3>1 DEF TextCalls
    <3> HIDE DEF text, x
    <3> QED BY <2>2, <3>3, <3>4 DEF TextCalls
  <2> QED BY <1>1, <2>1, <2>5, <2>6 DEF PortInv
<1>7. CASE gpio_put
  <2>1. script # <<>> /\ IsPut(script[1]) /\ Done /\ spi' = spi
    BY <1>7 DEF gpio_put, At, IsPut
  <2>2. Quiet'
    BY <1>1, <2>1, SettledTail DEF Quiet
  <2>3. DOMAIN lcd' = DOMAIN lcd
    BY <1>7 DEF gpio_put, Signal
  <2> QED BY <1>1, <1>3, <2>1, <2>2, <2>3
<1>8. CASE spi_write_byte
  <2>1. script # <<>> /\ IsSend(script[1]) /\ Done /\ spi_service
    BY <1>8 DEF spi_write_byte, At, IsSend
  <2>2. spi'.busy \in BOOLEAN /\ DOMAIN spi' = {"tx", "rx", "overrun", "busy"}
    BY <1>8, <2>1, ServiceKeeps DEF spi_write_byte
  <2> QED BY <1>1, <1>3, <2>1, <2>2, SettledTail, ServiceKeeps
<1>9. CASE WaitEmpty
  <2>1. script # <<>> /\ ~IsIdle(script[1]) /\ Done /\ spi_service /\ spi' = Serviced
    BY <1>9 DEF WaitEmpty, At, IsIdle
  <2>2. Quiet' \/ Awaited(Tail(script))
    BY <1>1, <1>4, <2>1, ServiceKeeps DEF Quiet
  <2> QED BY <1>3, <2>1, <2>2, ServiceKeeps
<1>10. CASE WaitIdle
  <2>1. script # <<>> /\ Done /\ spi_service /\ spi' = Serviced /\ Quiet'
    BY <1>10, ServiceKeeps DEF WaitIdle, At, Quiet
  <2> QED BY <1>3, <2>1, ServiceKeeps
<1>11. CASE Drain
  <2>1. script # <<>> /\ ~IsIdle(script[1]) /\ spi_service
    BY <1>11 DEF Drain, At, IsIdle
  <2>2. CASE Serviced.rx > 0
    <3>1. spi' = [Serviced EXCEPT !.rx = @ - 1] /\ script' = script /\ puts' = puts
      BY <1>11, <2>2 DEF Drain
    <3>2. spi'.busy = Serviced.busy /\ spi'.tx = Serviced.tx /\ DOMAIN spi' = DOMAIN Serviced
      BY <2>1, <3>1, ServiceKeeps
    <3>3. Quiet => Quiet'
      BY <2>1, <3>2, ServiceKeeps DEF Quiet
    <3>4. Settled(script)' /\ (puts.text # <<>> => puts \in TextCalls)' /\ (Quiet \/ Awaited(script))'
      BY <1>1, <3>1, <3>3
    <3> QED BY <1>1, <2>1, <3>2, <3>4, ServiceKeeps DEF PortInv
  <2>3. CASE ~(Serviced.rx > 0)
    <3>1. spi' = Serviced /\ Done
      BY <1>11, <2>3 DEF Drain
    <3>2. Quiet' \/ Awaited(Tail(script))
      BY <1>1, <1>4, <2>1, <3>1, ServiceKeeps DEF Quiet
    <3> QED BY <1>3, <2>1, <3>1, <3>2, ServiceKeeps
  <2> QED BY <2>2, <2>3
<1>12. CASE ClearOverrun
  <2>1. script # <<>> /\ ~IsIdle(script[1]) /\ Done /\ lcd' = lcd
        /\ spi' = [spi EXCEPT !.overrun = FALSE]
    BY <1>12 DEF ClearOverrun, At, IsIdle
  <2>2. spi'.busy = spi.busy /\ spi'.tx = spi.tx /\ DOMAIN spi' = DOMAIN spi
    BY <1>1, <2>1
  <2>3. Quiet' \/ Awaited(Tail(script))
    BY <1>1, <1>4, <2>1, <2>2 DEF Quiet
  <2> QED BY <1>1, <1>3, <2>1, <2>2, <2>3
<1>13. CASE Time
  <2>1. /\ spi.busy /\ spi' = [spi EXCEPT !.busy = FALSE]
        /\ script' = script /\ puts' = puts /\ lcd' = lcd
    BY <1>13 DEF Time
  <2>2. Awaited(script)' /\ Settled(script)' /\ (puts.text # <<>> => puts \in TextCalls)'
    BY <1>1, <2>1 DEF Quiet
  <2>3. spi'.busy \in BOOLEAN /\ DOMAIN spi' = {"tx", "rx", "overrun", "busy"}
    BY <1>1, <2>1
  <2> QED BY <1>1, <2>1, <2>2, <2>3 DEF PortInv
<1>14. CASE Tick
  <2>1. Moves /\ spi' = Serviced /\ spi_service /\ script' = script /\ puts' = puts
    BY <1>14 DEF Tick
  <2>2. Awaited(script)' /\ Settled(script)' /\ (puts.text # <<>> => puts \in TextCalls)'
    BY <1>1, <2>1 DEF Quiet, Moves
  <2> QED BY <2>1, <2>2, ServiceKeeps DEF PortInv
<1>15. CASE UNCHANGED linkVars
  <2>1. UNCHANGED <<script, puts, spi, lcd>>
    BY <1>15 DEF linkVars
  <2>2. /\ Settled(script)' /\ (puts.text # <<>> => puts \in TextCalls)'
        /\ (Quiet \/ Awaited(script))'
    BY <1>1, <2>1 DEF Quiet
  <2> QED BY <1>1, <2>1, <2>2 DEF PortInv
<1> QED
  BY <1>5, <1>6, <1>7, <1>8, <1>9, <1>10, <1>11, <1>12, <1>13, <1>14, <1>15
  DEF LinkNext, Driver

\* The chip is selected, and a byte declared a command or data, only while no
\* byte is on its way: spi_finish in picocalc_lcd_bare.c is called wherever it
\* has to be.
THEOREM SelectsQuietly == LinkSpec => QuietSelect
<1>1. PortInv /\ [LinkNext]_linkVars
        => [<<lcd.cs, lcd.dc>>' # <<lcd.cs, lcd.dc>> => spi.tx = <<>> /\ ~spi.busy]_linkVars
  <2> SUFFICES ASSUME PortInv, LinkNext, <<lcd.cs, lcd.dc>>' # <<lcd.cs, lcd.dc>>
               PROVE  spi.tx = <<>> /\ ~spi.busy
    BY DEF linkVars
  <2>1. spi_service => <<lcd.cs, lcd.dc>>' = <<lcd.cs, lcd.dc>>
    BY ServiceKeeps
  <2>2. gpio_put
    <3>1. ~(spi_write_byte \/ WaitEmpty \/ WaitIdle \/ Drain \/ Tick)
      BY <2>1 DEF spi_write_byte, WaitEmpty, WaitIdle, Drain, Tick
    <3>2. ~(DrawCall \/ picocalc_lcd_puts \/ ClearOverrun \/ Time)
      BY DEF DrawCall, picocalc_lcd_puts, ClearOverrun, Time
    <3> QED BY <3>1, <3>2 DEF LinkNext, Driver
  <2>3. script # <<>> /\ IsPut(script[1])
    BY <2>2 DEF gpio_put, At, IsPut
  <2>4. Quiet
    BY <2>3, SettledTail DEF PortInv
  <2> QED BY <2>4 DEF Quiet
<1> QED BY <1>1, InitPort, NextPort, PTL DEF LinkSpec, QuietSelect

-----------------------------------------------------------------------------
(***************************************************************************)
(* Induction up to a number, in a form that needs no operator: a set of    *)
(* numbers that has 0 and with a number the next one has them all.         *)
(***************************************************************************)
LEMMA NatLeast ==
  ASSUME NEW S \in SUBSET Nat, S # {}
  PROVE  \E i \in S : \A j \in S : i <= j
<1> DEFINE Rel == {p \in Nat \X Nat : p[1] < p[2]}
<1>1. IsWellFoundedOn(Rel, Nat)
  BY NatLessThanWellFounded DEF OpToRel
<1>2. \E i \in S : \A j \in S : <<j, i>> \notin Rel
  <2> HIDE DEF Rel
  <2> QED
    BY <1>1, WFMin
<1>3. ASSUME NEW i \in S, NEW j \in S, <<j, i>> \notin Rel PROVE i <= j
  <2>1. <<j, i>> \in Nat \X Nat /\ i \in Nat /\ j \in Nat
    OBVIOUS
  <2>2. ~(j < i)
    BY <1>3, <2>1
  <2> QED
    BY <2>1, <2>2
<1> QED
  BY <1>2, <1>3

Steps(S, n) == \A k \in 0 .. n - 1 : k \in S => k + 1 \in S

LEMMA UpTo ==
  ASSUME NEW n \in Nat, NEW S, 0 \in S, Steps(S, n)
  PROVE  \A k \in 0 .. n : k \in S
<1> DEFINE Bad == (0 .. n) \ S
<1> SUFFICES ASSUME Bad # {} PROVE FALSE
  OBVIOUS
<1>1. PICK k \in Bad : \A j \in Bad : k <= j
  <2>1. Bad \in SUBSET Nat
    OBVIOUS
  <2> HIDE DEF Bad
  <2> QED
    BY <2>1, NatLeast
<1>2. k \in 1 .. n /\ k - 1 \in 0 .. n - 1 /\ k - 1 \notin Bad
  BY <1>1
<1>3. k - 1 \in S
  BY <1>2
<1> QED
  BY <1>1, <1>2, <1>3 DEF Steps

-----------------------------------------------------------------------------
(* What is drawn.  A run of a script takes the display from d to e, pixel   *)
(* by pixel towards the picture w, when nothing else reaches the display.   *)

Access(d, a) ==
  IF IsPut(a) THEN Panel(Signal(d.lcd, a), d.shown)
  ELSE IF IsSend(a) THEN emu_lcd_spi_byte(d, a[2])
  ELSE d
Toward(f, g, w) == g = f \/ \E p \in Pixels : g = [f EXCEPT ![p] = w[p]]
RunsAs(S, s, d, e, w) ==
  /\ S[0] = d /\ S[Len(s)] = e
  /\ \A i \in 1 .. Len(s) : S[i] = Access(S[i - 1], s[i]) /\ Toward(S[i - 1].shown, S[i].shown, w)
Run(s, d, e, w) == IsSeq(s) /\ \E S : RunsAs(S, s, d, e, w)

LEMMA SeqLen == ASSUME NEW s, IsSeq(s) PROVE Len(s) \in Nat
BY DEF IsSeq

LEMMA RunEmpty == ASSUME NEW d, NEW e, NEW w PROVE Run(<<>>, d, e, w) <=> d = e
<1>1. IsSeq(<<>>) /\ Len(<<>>) = 0
  BY SettledEmpty DEF Settled
<1>2. Run(<<>>, d, e, w) => d = e
  BY <1>1 DEF Run, RunsAs
<1>3. d = e => Run(<<>>, d, e, w)
  <2> DEFINE S == [i \in {0} |-> d]
  <2>1. d = e => RunsAs(S, <<>>, d, e, w)
    BY <1>1 DEF RunsAs
  <2> QED BY <1>1, <2>1 DEF Run
<1> QED BY <1>2, <1>3

LEMMA RunOne ==
  ASSUME NEW a, NEW d, NEW w, Toward(d.shown, Access(d, a).shown, w)
  PROVE  Run(<<a>>, d, Access(d, a), w)
<1> DEFINE e == Access(d, a)
           S == [i \in {0, 1} |-> IF i = 0 THEN d ELSE e]
<1>1. IsSeq(<<a>>) /\ Len(<<a>>) = 1 /\ <<a>>[1] = a
  <2>1. <<a>> \in Seq({a})
    OBVIOUS
  <2> QED BY <2>1 DEF IsSeq
<1> HIDE DEF e
<1>2. RunsAs(S, <<a>>, d, e, w)
  <2>1. S[0] = d /\ S[1] = e
    OBVIOUS
  <2>2. S[1] = Access(S[1 - 1], a) /\ Toward(S[1 - 1].shown, S[1].shown, w)
    BY <2>1 DEF e
  <2> HIDE DEF S
  <2> QED BY <1>1, <2>1, <2>2 DEF RunsAs
<1> QED BY <1>1, <1>2 DEF Run, e

\* The first access of a run, and the rest.
LEMMA RunFirst ==
  ASSUME NEW s, NEW d, NEW e, NEW w, Run(s, d, e, w), s # <<>>
  PROVE  /\ Toward(d.shown, Access(d, s[1]).shown, w)
         /\ Run(Tail(s), Access(d, s[1]), e, w)
<1>1. PICK S : RunsAs(S, s, d, e, w)
  BY DEF Run
<1> DEFINE n == Len(s)
           t == Tail(s)
           R == [i \in 0 .. n - 1 |-> S[i + 1]]
<1>2. IsSeq(t) /\ n \in Nat \ {0} /\ Len(t) = n - 1 /\ \A i \in 1 .. n - 1 : t[i] = s[i + 1]
  BY TailSeq DEF Run
<1>3. /\ S[0] = d /\ S[n] = e
      /\ \A i \in 1 .. n : S[i] = Access(S[i - 1], s[i]) /\ Toward(S[i - 1].shown, S[i].shown, w)
  BY <1>1 DEF RunsAs
<1> HIDE DEF n, t
<1>4. S[1] = Access(d, s[1]) /\ Toward(d.shown, S[1].shown, w)
  <2>1. 1 \in 1 .. n /\ 1 - 1 = 0
    BY <1>2
  <2> QED BY <1>3, <2>1
<1>5. RunsAs(R, t, S[1], e, w)
  <2>1. R[0] = S[1] /\ R[Len(t)] = e
    BY <1>2, <1>3
  <2>2. ASSUME NEW i \in 1 .. Len(t)
        PROVE  R[i] = Access(R[i - 1], t[i]) /\ Toward(R[i - 1].shown, R[i].shown, w)
    <3>1. i + 1 \in 1 .. n /\ (i + 1) - 1 = i /\ i \in 1 .. n - 1 /\ i \in 0 .. n - 1 /\ i - 1 \in 0 .. n - 1
      BY <1>2
    <3>2. R[i] = S[i + 1] /\ R[i - 1] = S[i]
      BY <3>1
    <3>3. S[i + 1] = Access(S[i], s[i + 1]) /\ Toward(S[i].shown, S[i + 1].shown, w)
      BY <1>3, <3>1
    <3> QED BY <1>2, <3>1, <3>2, <3>3
  <2> HIDE DEF R
  <2> QED BY <2>1, <2>2 DEF RunsAs
<1> QED BY <1>2, <1>4, <1>5 DEF Run, t

LEMMA RunConcat ==
  ASSUME NEW s, NEW t, NEW d, NEW m, NEW e, NEW w, Run(s, d, m, w), Run(t, m, e, w)
  PROVE  Run(s \o t, d, e, w)
<1>1. PICK S : RunsAs(S, s, d, m, w)
  BY DEF Run
<1>2. PICK T : RunsAs(T, t, m, e, w)
  BY DEF Run
<1> DEFINE u == s \o t
           l == Len(s)
           k == Len(t)
           R == [i \in 0 .. l + k |-> IF i <= l THEN S[i] ELSE T[i - l]]
<1>3. Joined(u, s, t)
  BY ConcatSeq DEF Run
<1> HIDE DEF u
<1>4. /\ IsSeq(u) /\ l \in Nat /\ k \in Nat /\ Len(u) = l + k
      /\ \A i \in 1 .. l : u[i] = s[i]
      /\ \A i \in 1 .. k : u[l + i] = t[i]
  BY <1>3 DEF Joined
<1>5. /\ S[0] = d /\ S[l] = m /\ T[0] = m /\ T[k] = e
      /\ \A i \in 1 .. l : S[i] = Access(S[i - 1], s[i]) /\ Toward(S[i - 1].shown, S[i].shown, w)
      /\ \A i \in 1 .. k : T[i] = Access(T[i - 1], t[i]) /\ Toward(T[i - 1].shown, T[i].shown, w)
  BY <1>1, <1>2 DEF RunsAs
<1> HIDE DEF l, k
<1>6. /\ \A i \in 0 .. l : R[i] = S[i]
      /\ \A i \in 0 .. k : R[l + i] = T[i]
  <2>1. \A i \in 0 .. l : R[i] = S[i]
    BY <1>4
  <2>2. ASSUME NEW i \in 0 .. k PROVE R[l + i] = T[i]
    <3>1. l + i \in 0 .. l + k /\ (l + i) - l = i
      BY <1>4
    <3>2. CASE i = 0
      <4>1. l + i = l /\ l \in 0 .. l
        BY <1>4, <3>2
      <4> QED BY <1>5, <2>1, <3>2, <4>1
    <3>3. CASE i # 0
      <4>1. ~(l + i <= l)
        BY <1>4, <3>3
      <4> QED BY <3>1, <4>1
    <3> QED BY <3>2, <3>3
  <2> QED BY <2>1, <2>2
<1> HIDE DEF R
<1>7. ASSUME NEW i \in 1 .. l + k
      PROVE  R[i] = Access(R[i - 1], u[i]) /\ Toward(R[i - 1].shown, R[i].shown, w)
  <2>1. CASE i <= l
    <3>1. i \in 1 .. l /\ i \in 0 .. l /\ i - 1 \in 0 .. l
      BY <1>4, <2>1
    <3> QED BY <1>4, <1>5, <1>6, <3>1
  <2>2. CASE i > l
    <3> DEFINE j == i - l
    <3>1. j \in 1 .. k /\ j \in 0 .. k /\ j - 1 \in 0 .. k /\ l + j = i /\ l + (j - 1) = i - 1
      BY <1>4, <2>2
    <3> HIDE DEF j
    <3>2. R[i] = T[j] /\ R[i - 1] = T[j - 1] /\ u[i] = t[j]
      BY <1>4, <1>6, <3>1
    <3> QED BY <1>5, <3>1, <3>2
  <2> QED BY <1>4, <2>1, <2>2
<1>8. RunsAs(R, u, d, e, w)
  <2>1. 0 \in 0 .. l /\ k \in 0 .. k
    BY <1>4
  <2>2. R[0] = d /\ R[l + k] = e
    BY <1>5, <1>6, <2>1
  <2> QED BY <1>4, <1>7, <2>2 DEF RunsAs
<1> QED BY <1>4, <1>8 DEF Run, u

-----------------------------------------------------------------------------
(* Commands and their parameters.                                           *)

Fields == {"cs", "dc", "sleep", "display_on", "invert", "madctl", "colmod", "command",
           "params", "pixel", "x0", "x1", "y0", "y1", "x", "y"}
IsLcd(l) == DOMAIN l = Fields

LEMMA Panels == \A l, f : Panel(l, f).lcd = l /\ Panel(l, f).shown = f
BY DEF Panel

LEMMA TowardItself == \A f, w : Toward(f, f, w)
BY DEF Toward

\* Accesses and what they do.
LEMMA PutAccess ==
  ASSUME NEW l, NEW f, NEW v
  PROVE  /\ Access(Panel(l, f), <<"dc", v>>) = Panel([l EXCEPT !.dc = v], f)
         /\ Access(Panel(l, f), <<"cs", v>>) = Panel([l EXCEPT !.cs = v], f)
<1>1. IsPut(<<"dc", v>>) /\ IsPut(<<"cs", v>>)
  BY DEF IsPut
<1>2. Signal(l, <<"dc", v>>) = [l EXCEPT !.dc = v] /\ Signal(l, <<"cs", v>>) = [l EXCEPT !.cs = v]
  BY DEF Signal
<1> QED BY <1>1, <1>2, Panels DEF Access

LEMMA WaitAccess ==
  ASSUME NEW d, NEW a, a \in {<<"empty", 0>>, <<"idle", 0>>, <<"drain", 0>>, <<"clear", 0>>}
  PROVE  Access(d, a) = d
<1>1. ~IsPut(a) /\ ~IsSend(a)
  BY DEF IsPut, IsSend
<1> QED BY <1>1 DEF Access

LEMMA SendAccess ==
  ASSUME NEW d, NEW byte
  PROVE  /\ Access(d, <<"send", byte>>) = emu_lcd_spi_byte(d, byte)
         /\ Access(d, <<"dma", byte>>) = emu_lcd_spi_byte(d, byte)
<1>1. /\ ~IsPut(<<"send", byte>>) /\ IsSend(<<"send", byte>>) /\ <<"send", byte>>[2] = byte
      /\ ~IsPut(<<"dma", byte>>) /\ IsSend(<<"dma", byte>>) /\ <<"dma", byte>>[2] = byte
  BY DEF IsPut, IsSend
<1> QED BY <1>1 DEF Access

LEMMA SignalRuns ==
  ASSUME NEW l, NEW f, NEW v, NEW w
  PROVE  /\ Run(dc(v), Panel(l, f), Panel([l EXCEPT !.dc = v], f), w)
         /\ Run(cs(v), Panel(l, f), Panel([l EXCEPT !.cs = v], f), w)
<1>1. /\ Access(Panel(l, f), <<"dc", v>>) = Panel([l EXCEPT !.dc = v], f)
      /\ Access(Panel(l, f), <<"cs", v>>) = Panel([l EXCEPT !.cs = v], f)
  BY PutAccess
<1>2. /\ Toward(Panel(l, f).shown, Access(Panel(l, f), <<"dc", v>>).shown, w)
      /\ Toward(Panel(l, f).shown, Access(Panel(l, f), <<"cs", v>>).shown, w)
  BY <1>1, Panels, TowardItself
<1>3. /\ Run(<<<<"dc", v>>>>, Panel(l, f), Access(Panel(l, f), <<"dc", v>>), w)
      /\ Run(<<<<"cs", v>>>>, Panel(l, f), Access(Panel(l, f), <<"cs", v>>), w)
  BY <1>2, RunOne, Zenon
<1> QED BY <1>1, <1>3 DEF dc, cs

LEMMA FinishRuns ==
  ASSUME NEW l, NEW f, NEW w
  PROVE  Run(spi_finish, Panel(l, f), Panel(l, f), w)
<1> DEFINE d == Panel(l, f)
           S == [i \in 0 .. 4 |-> d]
<1>1. IsSeq(spi_finish) /\ Len(spi_finish) = 4
  BY Parts
<1>2. \A i \in 1 .. 4 : Access(d, spi_finish[i]) = d
  <2> HIDE DEF d
  <2>1. \A i \in 1 .. 4 :
          spi_finish[i] \in {<<"empty", 0>>, <<"idle", 0>>, <<"drain", 0>>, <<"clear", 0>>}
    BY DEF spi_finish
  <2> QED BY <2>1, WaitAccess
<1>3. \A i \in 1 .. 4 : S[i] = Access(S[i - 1], spi_finish[i]) /\ Toward(S[i - 1].shown, S[i].shown, w)
  <2> SUFFICES ASSUME NEW i \in 1 .. 4
               PROVE  S[i] = Access(S[i - 1], spi_finish[i]) /\ Toward(S[i - 1].shown, S[i].shown, w)
    OBVIOUS
  <2>1. S[i] = d /\ S[i - 1] = d
    OBVIOUS
  <2> HIDE DEF S, d
  <2> QED BY <1>2, <2>1, TowardItself
<1>4. S[0] = d /\ S[4] = d
  OBVIOUS
<1> HIDE DEF S
<1>5. RunsAs(S, spi_finish, d, d, w)
  BY <1>1, <1>3, <1>4 DEF RunsAs
<1> QED BY <1>1, <1>5 DEF Run

\* The chip selected for a transfer, and after it.
On(l, v) == [[l EXCEPT !.dc = v] EXCEPT !.cs = 0]
Off(l) == [l EXCEPT !.cs = 1]

LEMMA TransferRuns ==
  ASSUME NEW l, NEW f, NEW v, NEW t, NEW m, NEW g, NEW w, Run(t, Panel(On(l, v), f), Panel(m, g), w)
  PROVE  Run(dc(v) \o cs(0) \o t \o spi_finish \o cs(1), Panel(l, f), Panel(Off(m), g), w)
<1>1. Run(dc(v), Panel(l, f), Panel([l EXCEPT !.dc = v], f), w)
  BY SignalRuns
<1>2. Run(cs(0), Panel([l EXCEPT !.dc = v], f), Panel(On(l, v), f), w)
  BY SignalRuns DEF On
<1>3. Run(spi_finish, Panel(m, g), Panel(m, g), w)
  BY FinishRuns
<1>4. Run(cs(1), Panel(m, g), Panel(Off(m), g), w)
  BY SignalRuns DEF Off
<1>5. Run(dc(v) \o cs(0), Panel(l, f), Panel(On(l, v), f), w)
  BY <1>1, <1>2, RunConcat, Zenon
<1>6. Run(dc(v) \o cs(0) \o t, Panel(l, f), Panel(m, g), w)
  BY <1>5, RunConcat, Zenon
<1>7. Run(dc(v) \o cs(0) \o t \o spi_finish, Panel(l, f), Panel(m, g), w)
  BY <1>3, <1>6, RunConcat, Zenon
<1> QED BY <1>4, <1>7, RunConcat, Zenon

LEMMA CommandRuns ==
  ASSUME NEW l, IsLcd(l), NEW f, NEW command, NEW w
  PROVE  Run(lcd_command(command), Panel(l, f), Panel(Off(TakesCommand(On(l, 0), command)), f), w)
<1> DEFINE k == On(l, 0)
           d == Panel(k, f)
           a == <<"send", command>>
<1>1. k.cs = 0 /\ k.dc = 0
  BY DEF On, IsLcd, Fields
<1>2. Access(d, a) = Panel(TakesCommand(k, command), f)
  <2>1. Access(d, a) = emu_lcd_spi_byte(d, command)
    BY SendAccess
  <2>2. d.lcd = k /\ d.shown = f
    BY Panels
  <2> HIDE DEF d, a, k
  <2> QED BY <1>1, <2>1, <2>2 DEF emu_lcd_spi_byte
<1>3. spi_write(<<command>>) = <<a>>
  BY DEF spi_write
<1>4. Toward(d.shown, Access(d, a).shown, w)
  BY <1>2, Panels, TowardItself
<1> HIDE DEF a, k
<1>5. Run(<<a>>, d, Panel(TakesCommand(k, command), f), w)
  BY <1>2, <1>4, RunOne
<1> QED BY <1>3, <1>5, TransferRuns DEF lcd_command, k

\* Any parameters: what is shown stays, and so does the format, but for its command.
LEMMA ParamStep ==
  ASSUME NEW l, IsLcd(l), l.cs = 0, l.dc = 1, lcd_expected_params(l.command) > 0, NEW f, NEW byte
  PROVE  Access(Panel(l, f), <<"send", byte>>) = Panel(TakesParam(l, byte), f)
<1> DEFINE d == Panel(l, f)
<1>1. Access(d, <<"send", byte>>) = emu_lcd_spi_byte(d, byte)
  BY SendAccess
<1>2. d.lcd = l /\ d.shown = f
  BY Panels
<1> HIDE DEF d
<1> QED BY <1>1, <1>2 DEF emu_lcd_spi_byte, d

KeepsFormat(l, m) ==
  IsLcd(m) /\ m.cs = l.cs /\ m.dc = l.dc /\ m.command = l.command /\ (l.command # 58 => m.colmod = l.colmod)

LEMMA DataStep ==
  ASSUME NEW l, IsLcd(l), l.cs = 0, l.dc = 1, l.command # MEMWRITE, NEW f, NEW byte
  PROVE  \E m : Access(Panel(l, f), <<"send", byte>>) = Panel(m, f) /\ KeepsFormat(l, m)
<1> DEFINE d == Panel(l, f)
<1>1. Access(d, <<"send", byte>>) = emu_lcd_spi_byte(d, byte)
  BY SendAccess
<1>2. d.lcd = l /\ d.shown = f
  BY Panels
<1>3. KeepsFormat(l, l)
  BY DEF KeepsFormat
<1>4. KeepsFormat(l, TakesParam(l, byte))
  <2> DEFINE params == IF Len(l.params) < 16 THEN Append(l.params, byte) ELSE l.params
             k == [l EXCEPT !.params = params]
             m == TakesParam(l, byte)
  <2>1. IsLcd(k) /\ k.cs = l.cs /\ k.dc = l.dc /\ k.command = l.command /\ k.colmod = l.colmod
    BY DEF IsLcd, Fields
  <2>2. \/ m = k
        \/ m = [k EXCEPT !.x0 = be16(params[1], params[2]), !.x1 = be16(params[3], params[4])]
        \/ m = [k EXCEPT !.y0 = be16(params[1], params[2]), !.y1 = be16(params[3], params[4])]
        \/ m = [k EXCEPT !.madctl = byte]
        \/ l.command = 58 /\ m = [k EXCEPT !.colmod = byte]
    <3> HIDE DEF params
    <3>1. m = IF Len(params) # lcd_expected_params(k.command) THEN k
              ELSE CASE k.command = COLADDR ->
                  [k EXCEPT !.x0 = be16(params[1], params[2]), !.x1 = be16(params[3], params[4])]
             [] k.command = PAGEADDR ->
                  [k EXCEPT !.y0 = be16(params[1], params[2]), !.y1 = be16(params[3], params[4])]
             [] k.command = 54 -> [k EXCEPT !.madctl = byte]
             [] k.command = 58 -> [k EXCEPT !.colmod = byte]
             [] OTHER -> k
      BY DEF TakesParam, params
    <3> HIDE DEF k, m
    <3> QED BY <2>1, <3>1
  <2> HIDE DEF k, m
  <2> DEFINE u == be16(params[1], params[2])
             v == be16(params[3], params[4])
  <2>3. /\ m = k \/ m = [k EXCEPT !.x0 = u, !.x1 = v] \/ m = [k EXCEPT !.y0 = u, !.y1 = v]
           \/ m = [k EXCEPT !.madctl = byte] \/ (l.command = 58 /\ m = [k EXCEPT !.colmod = byte])
    BY <2>2
  <2> HIDE DEF u, v
  <2>4. DOMAIN m = Fields /\ m.cs = k.cs /\ m.dc = k.dc /\ m.command = k.command
        /\ (l.command # 58 => m.colmod = k.colmod)
    BY <2>1, <2>3 DEF IsLcd, Fields
  <2> QED BY <2>1, <2>4 DEF KeepsFormat, IsLcd, m
<1>5. emu_lcd_spi_byte(d, byte) = Panel(l, f) \/ emu_lcd_spi_byte(d, byte) = Panel(TakesParam(l, byte), f)
  <2> HIDE DEF d
  <2>1. emu_lcd_spi_byte(d, byte) = d \/ emu_lcd_spi_byte(d, byte) = Panel(TakesParam(l, byte), f)
    BY <1>2 DEF emu_lcd_spi_byte
  <2> QED BY <2>1 DEF d
<1> QED BY <1>1, <1>3, <1>4, <1>5

\* A transfer that is not of pixels.
LEMMA DataRuns ==
  ASSUME NEW l, IsLcd(l), l.cs = 0, l.dc = 1, l.command # MEMWRITE, NEW f, NEW w,
         NEW n \in Nat, NEW bytes, DOMAIN bytes = 1 .. n
  PROVE  \E m : Run(spi_write(bytes), Panel(l, f), Panel(m, f), w) /\ KeepsFormat(l, m)
<1> DEFINE t == spi_write(bytes)
           d == Panel(l, f)
           Reaches(S, k) == /\ S[0] = d
                            /\ \A i \in 1 .. k : S[i] = Access(S[i - 1], t[i]) /\ Toward(S[i - 1].shown, S[i].shown, w)
                            /\ \E m : S[k] = Panel(m, f) /\ KeepsFormat(l, m)
           T == {k \in 0 .. n : \E S : Reaches(S, k)}
<1>1. 0 \in T
  <2> DEFINE S == [i \in {0} |-> d]
  <2>1. KeepsFormat(l, l)
    BY DEF KeepsFormat
  <2>2. S[0] = d
    OBVIOUS
  <2> HIDE DEF S
  <2>3. Reaches(S, 0)
    BY <2>1, <2>2
  <2> HIDE DEF Reaches
  <2> QED BY <2>3
<1>2. ASSUME NEW k \in 0 .. n - 1, k \in T PROVE k + 1 \in T
  <2>1. PICK S : Reaches(S, k)
    BY <1>2
  <2>2. PICK m : S[k] = Panel(m, f) /\ KeepsFormat(l, m)
    BY <2>1
  <2>3. k + 1 \in 1 .. n /\ t[k + 1] = <<"send", bytes[k + 1]>>
    BY DEF spi_write
  <2>4. PICK o : Access(Panel(m, f), t[k + 1]) = Panel(o, f) /\ KeepsFormat(m, o)
    <3>1. IsLcd(m) /\ m.cs = 0 /\ m.dc = 1 /\ m.command # MEMWRITE
      BY <2>2 DEF KeepsFormat
    <3> QED BY <2>3, <3>1, DataStep
  <2> DEFINE e == Panel(o, f)
             R == [i \in 0 .. k + 1 |-> IF i = k + 1 THEN e ELSE S[i]]
  <2>5. KeepsFormat(l, o)
    BY <2>2, <2>4 DEF KeepsFormat
  <2>6. R[k + 1] = e /\ \A i \in 0 .. k : R[i] = S[i]
    OBVIOUS
  <2> HIDE DEF R, t
  <2>7. R[k + 1] = Access(R[k], t[k + 1]) /\ Toward(R[k].shown, R[k + 1].shown, w)
    <3>1. R[k] = Panel(m, f) /\ e.shown = f /\ Panel(m, f).shown = f
      BY <2>2, <2>6, Panels
    <3> HIDE DEF e
    <3> QED BY <2>4, <2>6, <3>1, TowardItself DEF e
  <2>8. \A i \in 1 .. k + 1 : R[i] = Access(R[i - 1], t[i]) /\ Toward(R[i - 1].shown, R[i].shown, w)
    <3> SUFFICES ASSUME NEW i \in 1 .. k + 1
                 PROVE  R[i] = Access(R[i - 1], t[i]) /\ Toward(R[i - 1].shown, R[i].shown, w)
      OBVIOUS
    <3>1. CASE i = k + 1
      <4>1. i - 1 = k
        BY <3>1
      <4> QED BY <2>7, <3>1, <4>1
    <3>2. CASE i # k + 1
      <4>1. i \in 1 .. k /\ i \in 0 .. k /\ i - 1 \in 0 .. k
        BY <3>2
      <4> QED BY <2>1, <2>6, <4>1
    <3> QED BY <3>1, <3>2
  <2>9. Reaches(R, k + 1)
    <3>1. R[0] = d
      BY <2>1, <2>6
    <3> QED BY <2>5, <2>6, <2>8, <3>1
  <2> HIDE DEF Reaches
  <2> QED BY <2>9
<1> HIDE DEF T
<1>3. n \in T
  BY <1>1, <1>2, UpTo DEF Steps
<1>4. PICK S : Reaches(S, n)
  BY <1>3 DEF T
<1>5. IsSeq(t) /\ Len(t) = n
  <2>1. t = [i \in 1 .. n |-> t[i]]
    BY DEF spi_write
  <2> HIDE DEF t
  <2> QED BY <2>1, TransferSeq
<1>6. PICK m : S[n] = Panel(m, f) /\ KeepsFormat(l, m)
  BY <1>4
<1>7. RunsAs(S, t, d, Panel(m, f), w)
  BY <1>4, <1>5, <1>6 DEF RunsAs
<1> QED BY <1>5, <1>6, <1>7 DEF Run

\* A script that draws nothing and keeps the format of pixels.
Blind(s, w) ==
  \A l, f : IsLcd(l) => \E m : Run(s, Panel(l, f), Panel(m, f), w) /\ IsLcd(m) /\ m.colmod = l.colmod

LEMMA BlindConcat ==
  ASSUME NEW s, NEW t, NEW w, Blind(s, w), Blind(t, w) PROVE Blind(s \o t, w)
<1> SUFFICES ASSUME NEW l, NEW f, IsLcd(l)
             PROVE  \E m : Run(s \o t, Panel(l, f), Panel(m, f), w) /\ IsLcd(m) /\ m.colmod = l.colmod
  BY DEF Blind
<1>1. PICK m : Run(s, Panel(l, f), Panel(m, f), w) /\ IsLcd(m) /\ m.colmod = l.colmod
  BY DEF Blind
<1>2. PICK o : Run(t, Panel(m, f), Panel(o, f), w) /\ IsLcd(o) /\ o.colmod = m.colmod
  BY <1>1 DEF Blind
<1>3. Run(s \o t, Panel(l, f), Panel(o, f), w)
  BY <1>1, <1>2, RunConcat, Zenon
<1> QED BY <1>1, <1>2, <1>3

\* The decoder after a command and the chip selected again.
Commanded(l, command) == On(Off(TakesCommand(On(l, 0), command)), 1)

LEMMA Selected ==
  ASSUME NEW l, IsLcd(l), NEW v
  PROVE  /\ IsLcd(On(l, v)) /\ On(l, v).cs = 0 /\ On(l, v).dc = v
         /\ IsLcd(Off(l)) /\ Off(l).cs = 1
         /\ \A x \in Fields \ {"cs", "dc"} : On(l, v)[x] = l[x] /\ Off(l)[x] = l[x]
<1> DEFINE k == [l EXCEPT !.dc = v]
<1>1. IsLcd(k) /\ k.dc = v /\ \A x \in Fields \ {"cs", "dc"} : k[x] = l[x]
  BY DEF IsLcd, Fields
<1> HIDE DEF k
<1>2. /\ IsLcd([k EXCEPT !.cs = 0]) /\ [k EXCEPT !.cs = 0].cs = 0 /\ [k EXCEPT !.cs = 0].dc = k.dc
      /\ \A x \in Fields \ {"cs", "dc"} : [k EXCEPT !.cs = 0][x] = k[x]
  BY <1>1 DEF IsLcd, Fields
<1>3. IsLcd(Off(l)) /\ Off(l).cs = 1 /\ \A x \in Fields \ {"cs", "dc"} : Off(l)[x] = l[x]
  BY DEF IsLcd, Fields, Off
<1> QED BY <1>1, <1>2, <1>3 DEF On, k

LEMMA CommandKeeps ==
  ASSUME NEW l, IsLcd(l), NEW command, command # 1
  PROVE  LET m == TakesCommand(l, command)
         IN  /\ IsLcd(m) /\ m.command = command /\ m.colmod = l.colmod
             /\ m.params = <<>> /\ m.pixel = <<>>
             /\ m.x0 = l.x0 /\ m.x1 = l.x1 /\ m.y0 = l.y0 /\ m.y1 = l.y1
             /\ command = MEMWRITE => m.x = l.x0 /\ m.y = l.y0
<1> DEFINE k == [l EXCEPT !.command = command, !.params = <<>>, !.pixel = <<>>]
           m == TakesCommand(l, command)
<1>1. /\ IsLcd(k) /\ k.command = command /\ k.colmod = l.colmod
      /\ k.params = <<>> /\ k.pixel = <<>>
      /\ k.x0 = l.x0 /\ k.x1 = l.x1 /\ k.y0 = l.y0 /\ k.y1 = l.y1
  BY DEF IsLcd, Fields
<1>2. /\ \/ command = MEMWRITE /\ m = [k EXCEPT !.x = k.x0, !.y = k.y0]
         \/ command # MEMWRITE /\ m = [k EXCEPT !.sleep = (command = 16)]
         \/ command # MEMWRITE /\ m = [k EXCEPT !.invert = (command = 33)]
         \/ command # MEMWRITE /\ m = [k EXCEPT !.display_on = (command = 41)]
         \/ command # MEMWRITE /\ m = k
  <2>1. m = CASE command = MEMWRITE -> [k EXCEPT !.x = k.x0, !.y = k.y0]
              [] command \in {16, 17} -> [k EXCEPT !.sleep = (command = 16)]
              [] command \in {32, 33} -> [k EXCEPT !.invert = (command = 33)]
              [] command \in {40, 41} -> [k EXCEPT !.display_on = (command = 41)]
              [] command = 1 -> Reset(k)
              [] OTHER -> k
    BY DEF TakesCommand
  <2> HIDE DEF k, m
  <2> QED BY <2>1 DEF MEMWRITE
<1> HIDE DEF k, m
<1>3. /\ DOMAIN m = DOMAIN k /\ m.command = k.command /\ m.colmod = k.colmod
      /\ m.params = k.params /\ m.pixel = k.pixel
      /\ m.x0 = k.x0 /\ m.x1 = k.x1 /\ m.y0 = k.y0 /\ m.y1 = k.y1
      /\ command = MEMWRITE => m.x = k.x0 /\ m.y = k.y0
  BY <1>1, <1>2 DEF IsLcd, Fields
<1> QED BY <1>1, <1>3 DEF IsLcd, m

LEMMA BlindCommand ==
  ASSUME NEW command, command # 1, NEW w PROVE Blind(lcd_command(command), w)
<1> SUFFICES ASSUME NEW l, NEW f, IsLcd(l)
             PROVE  \E m : Run(lcd_command(command), Panel(l, f), Panel(m, f), w) /\ IsLcd(m) /\ m.colmod = l.colmod
  BY DEF Blind
<1> DEFINE k == On(l, 0)
           m == TakesCommand(k, command)
           o == Off(m)
<1>1. Run(lcd_command(command), Panel(l, f), Panel(o, f), w)
  BY CommandRuns
<1>2. "colmod" \in Fields \ {"cs", "dc"}
  BY DEF Fields
<1>3. IsLcd(k) /\ k.colmod = l.colmod
  BY <1>2, Selected
<1> HIDE DEF k
<1>4. IsLcd(m) /\ m.colmod = k.colmod
  BY <1>3, CommandKeeps
<1> HIDE DEF m
<1>5. IsLcd(o) /\ o.colmod = m.colmod
  BY <1>2, <1>4, Selected
<1> HIDE DEF o
<1> QED BY <1>1, <1>3, <1>4, <1>5

\* A command, and the decoder when its parameters begin.
LEMMA Begun ==
  ASSUME NEW l, IsLcd(l), NEW command, command # 1
  PROVE  LET m == Commanded(l, command)
         IN  /\ IsLcd(m) /\ m.cs = 0 /\ m.dc = 1 /\ m.command = command /\ m.colmod = l.colmod
             /\ m.params = <<>> /\ m.pixel = <<>>
             /\ m.x0 = l.x0 /\ m.x1 = l.x1 /\ m.y0 = l.y0 /\ m.y1 = l.y1
             /\ command = MEMWRITE => m.x = l.x0 /\ m.y = l.y0
<1> DEFINE k == On(l, 0)
           i == TakesCommand(k, command)
           o == Off(i)
           m == On(o, 1)
<1>1. {"command", "colmod", "params", "pixel", "x0", "x1", "y0", "y1", "x", "y"} \subseteq Fields \ {"cs", "dc"}
  BY DEF Fields
<1>2. IsLcd(k) /\ k.colmod = l.colmod /\ k.x0 = l.x0 /\ k.x1 = l.x1 /\ k.y0 = l.y0 /\ k.y1 = l.y1
  BY <1>1, Selected
<1> HIDE DEF k
<1>3. /\ IsLcd(i) /\ i.command = command /\ i.colmod = k.colmod
      /\ i.params = <<>> /\ i.pixel = <<>>
      /\ i.x0 = k.x0 /\ i.x1 = k.x1 /\ i.y0 = k.y0 /\ i.y1 = k.y1
      /\ command = MEMWRITE => i.x = k.x0 /\ i.y = k.y0
  BY <1>2, CommandKeeps
<1> HIDE DEF i
<1>4. IsLcd(o) /\ \A x \in Fields \ {"cs", "dc"} : o[x] = i[x]
  BY <1>3, Selected
<1> HIDE DEF o
<1>5. IsLcd(m) /\ m.cs = 0 /\ m.dc = 1 /\ \A x \in Fields \ {"cs", "dc"} : m[x] = o[x]
  BY <1>4, Selected
<1> HIDE DEF m
<1>6. m = Commanded(l, command)
  BY DEF Commanded, m, o, i, k
<1>7. /\ m.command = i.command /\ m.colmod = i.colmod /\ m.params = i.params /\ m.pixel = i.pixel
      /\ m.x0 = i.x0 /\ m.x1 = i.x1 /\ m.y0 = i.y0 /\ m.y1 = i.y1 /\ m.x = i.x /\ m.y = i.y
  BY <1>1, <1>4, <1>5
<1> QED BY <1>2, <1>3, <1>5, <1>6, <1>7

\* A command and what follows it.
LEMMA CommandDataRuns ==
  ASSUME NEW l, IsLcd(l), NEW command, NEW f, NEW t, NEW m, NEW g, NEW w,
         Run(t, Panel(Commanded(l, command), f), Panel(m, g), w)
  PROVE  Run(lcd_command(command) \o Data(t), Panel(l, f), Panel(Off(m), g), w)
<1> DEFINE o == Off(TakesCommand(On(l, 0), command))
<1>1. Run(lcd_command(command), Panel(l, f), Panel(o, f), w)
  BY CommandRuns
<1>2. Commanded(l, command) = On(o, 1)
  BY DEF Commanded
<1> HIDE DEF o
<1>3. Run(Data(t), Panel(o, f), Panel(Off(m), g), w)
  BY <1>2, TransferRuns DEF Data
<1> QED BY <1>1, <1>3, RunConcat, Zenon

LEMMA BlindCommandData ==
  ASSUME NEW command, command \notin {1, MEMWRITE, 58}, NEW n \in Nat, NEW data, DOMAIN data = 1 .. n, NEW w
  PROVE  Blind(lcd_command_data(command, data), w)
<1> DEFINE s == lcd_command_data(command, data)
<1> SUFFICES ASSUME NEW l, NEW f, IsLcd(l)
             PROVE  \E m : Run(s, Panel(l, f), Panel(m, f), w) /\ IsLcd(m) /\ m.colmod = l.colmod
  BY DEF Blind
<1> DEFINE k == Commanded(l, command)
<1>1. IsLcd(k) /\ k.cs = 0 /\ k.dc = 1 /\ k.command = command /\ k.colmod = l.colmod
  BY Begun
<1> HIDE DEF k
<1>2. PICK m : Run(spi_write(data), Panel(k, f), Panel(m, f), w) /\ KeepsFormat(k, m)
  BY <1>1, DataRuns
<1>3. Run(s, Panel(l, f), Panel(Off(m), f), w)
  BY <1>2, CommandDataRuns DEF k, lcd_command_data
<1>4. IsLcd(m) /\ m.colmod = k.colmod
  BY <1>1, <1>2 DEF KeepsFormat
<1>5. "colmod" \in Fields \ {"cs", "dc"}
  BY DEF Fields
<1>6. IsLcd(Off(m)) /\ Off(m).colmod = m.colmod
  BY <1>4, <1>5, Selected
<1> HIDE DEF s
<1> QED BY <1>1, <1>3, <1>4, <1>6

\* The format of three bytes to a pixel.
LEMMA FormatRuns ==
  ASSUME NEW l, IsLcd(l), NEW f, NEW w
  PROVE  \E m : Run(lcd_command_data(58, <<102>>), Panel(l, f), Panel(m, f), w) /\ IsLcd(m) /\ m.colmod = 102
<1> DEFINE k == Commanded(l, 58)
           m == TakesParam(k, 102)
           a == <<"send", 102>>
<1>1. IsLcd(k) /\ k.cs = 0 /\ k.dc = 1 /\ k.command = 58 /\ k.params = <<>>
  BY Begun
<1> HIDE DEF k
<1>2. IsLcd(m) /\ m.colmod = 102
  <2>1. Append(<<>>, 102) = <<102>> /\ Len(<<>>) = 0 /\ Len(<<102>>) = 1
    OBVIOUS
  <2> DEFINE o == [k EXCEPT !.params = <<102>>]
  <2>2. IsLcd(o) /\ o.command = 58
    BY <1>1 DEF IsLcd, Fields
  <2>3. lcd_expected_params(58) = 1
    BY DEF lcd_expected_params
  <2>4. m = [o EXCEPT !.colmod = 102]
    BY <1>1, <2>1, <2>2, <2>3 DEF TakesParam, COLADDR, PAGEADDR
  <2> HIDE DEF o, m
  <2> QED BY <2>2, <2>4 DEF IsLcd, Fields
<1>3. Access(Panel(k, f), a) = Panel(m, f)
  <2>1. lcd_expected_params(k.command) > 0
    BY <1>1 DEF lcd_expected_params
  <2> QED BY <1>1, <2>1, ParamStep
<1>4. Toward(Panel(k, f).shown, Access(Panel(k, f), a).shown, w)
  BY <1>3, Panels, TowardItself
<1>5. spi_write(<<102>>) = <<a>>
  BY DEF spi_write
<1> HIDE DEF a, m
<1>6. Run(spi_write(<<102>>), Panel(k, f), Panel(m, f), w)
  BY <1>3, <1>4, <1>5, RunOne
<1>7. Run(lcd_command_data(58, <<102>>), Panel(l, f), Panel(Off(m), f), w)
  BY <1>6, CommandDataRuns DEF lcd_command_data, k
<1>8. IsLcd(Off(m)) /\ Off(m).colmod = 102
  <2>1. "colmod" \in Fields \ {"cs", "dc"}
    BY DEF Fields
  <2> QED BY <1>2, <2>1, Selected
<1> QED BY <1>7, <1>8

LEMMA InitRuns ==
  ASSUME NEW l, IsLcd(l), NEW f, NEW w
  PROVE  \E m : Run(lcd_init_panel, Panel(l, f), Panel(m, f), w) /\ IsLcd(m) /\ m.colmod = 102
<1> DEFINE B(command) == lcd_command_data(command, Zeros(1))
           a == lcd_command_data(224, Zeros(15)) \o lcd_command_data(225, Zeros(15))
                  \o lcd_command_data(192, Zeros(2)) \o B(193)
                  \o lcd_command_data(197, Zeros(3)) \o lcd_command_data(54, <<72>>)
           b == a \o lcd_command_data(58, <<102>>)
           N == {1, 2, 3, 4, 15}
           C == {224, 225, 192, 193, 197, 54, 176, 177, 180, 182, 183, 233, 247}
<1>1. \A command \in C : \A n \in N : Blind(lcd_command_data(command, Zeros(n)), w)
  <2> SUFFICES ASSUME NEW command \in C, NEW n \in N PROVE Blind(lcd_command_data(command, Zeros(n)), w)
    OBVIOUS
  <2>1. command \notin {1, MEMWRITE, 58} /\ n \in Nat
    BY DEF MEMWRITE
  <2>2. DOMAIN Zeros(n) = 1 .. n
    BY DEF Zeros
  <2> HIDE DEF C, N
  <2> QED BY <2>1, <2>2, BlindCommandData
<1>2. Blind(lcd_command_data(54, <<72>>), w)
  <2>1. DOMAIN <<72>> = 1 .. 1 /\ 1 \in Nat /\ 54 \notin {1, MEMWRITE, 58}
    BY DEF MEMWRITE
  <2> QED BY <2>1, BlindCommandData
<1>3. Blind(lcd_command(33), w) /\ Blind(lcd_command(17), w) /\ Blind(lcd_command(41), w)
  <2>1. 33 # 1 /\ 17 # 1 /\ 41 # 1
    OBVIOUS
  <2> QED BY <2>1, BlindCommand, Zenon
<1>4. /\ Blind(lcd_command_data(224, Zeros(15)), w) /\ Blind(lcd_command_data(225, Zeros(15)), w)
      /\ Blind(lcd_command_data(192, Zeros(2)), w) /\ Blind(B(193), w)
      /\ Blind(lcd_command_data(197, Zeros(3)), w) /\ Blind(B(176), w) /\ Blind(B(177), w) /\ Blind(B(180), w)
      /\ Blind(lcd_command_data(182, Zeros(3)), w) /\ Blind(B(183), w) /\ Blind(B(233), w)
      /\ Blind(lcd_command_data(247, Zeros(4)), w)
  BY <1>1
<1> HIDE DEF B
<1>5. \A s, t : Blind(s, w) /\ Blind(t, w) => Blind(s \o t, w)
  BY BlindConcat, Zenon
<1>6. Blind(a, w)
  BY <1>2, <1>4, <1>5, ZenonT(40)
<1> HIDE DEF a
<1>7. PICK m : Run(a, Panel(l, f), Panel(m, f), w) /\ IsLcd(m)
  BY <1>6 DEF Blind
<1>8. PICK o : Run(lcd_command_data(58, <<102>>), Panel(m, f), Panel(o, f), w) /\ IsLcd(o) /\ o.colmod = 102
  BY <1>7, FormatRuns
<1>9. Run(b, Panel(l, f), Panel(o, f), w)
  BY <1>7, <1>8, RunConcat, Zenon
<1> HIDE DEF b
\* Each of the others is one more script after a run.
<1> DEFINE Starts(s) == \E q : Run(s, Panel(l, f), Panel(q, f), w) /\ IsLcd(q) /\ q.colmod = 102
<1>10. Starts(b)
  BY <1>8, <1>9
<1>11. ASSUME NEW s, NEW t, Starts(s), Blind(t, w) PROVE Starts(s \o t)
  <2>1. PICK q : Run(s, Panel(l, f), Panel(q, f), w) /\ IsLcd(q) /\ q.colmod = 102
    BY <1>11
  <2>2. PICK r : Run(t, Panel(q, f), Panel(r, f), w) /\ IsLcd(r) /\ r.colmod = q.colmod
    BY <1>11, <2>1 DEF Blind
  <2>3. Run(s \o t, Panel(l, f), Panel(r, f), w)
    BY <2>1, <2>2, RunConcat, Zenon
  <2> QED BY <2>1, <2>2, <2>3
<1> HIDE DEF Starts
<1> DEFINE c == b \o B(176) \o B(177) \o lcd_command(33) \o B(180)
           d == c \o lcd_command_data(182, Zeros(3)) \o B(183) \o B(233) \o lcd_command_data(247, Zeros(4))
<1>12. Starts(c)
  BY <1>3, <1>4, <1>10, <1>11, ZenonT(40)
<1> HIDE DEF c
<1>13. Starts(d)
  BY <1>4, <1>11, <1>12, ZenonT(40)
<1> HIDE DEF d
<1>14. Starts(d \o lcd_command(17) \o lcd_command(41))
  BY <1>3, <1>11, <1>13, ZenonT(40)
<1>15. lcd_init_panel = d \o lcd_command(17) \o lcd_command(41)
  BY DEF lcd_init_panel, d, c, b, a, B
<1> QED BY <1>14, <1>15 DEF Starts

-----------------------------------------------------------------------------
(* The window, and the pixels that fill it.                                 *)

LEMMA Divided ==
  ASSUME NEW w \in Nat \ {0}, NEW n \in Nat
  PROVE  n \div w \in Nat /\ n % w \in 0 .. w - 1 /\ n = (n \div w) * w + (n % w)
<1>1. n \div w \in Int /\ n % w \in 0 .. w - 1 /\ n = (n \div w) * w + (n % w)
  OBVIOUS
<1>2. n \div w >= 0
  OBVIOUS
<1> QED BY <1>1, <1>2

LEMMA Multiple ==
  ASSUME NEW w \in Nat, NEW q \in Nat, NEW d \in Nat
  PROVE  /\ q * w \in Nat
         /\ (q + 1) * w = q * w + w
         /\ (q + d) * w = q * w + d * w
         /\ d > 0 => d * w >= w
<1>1. q * w \in Nat /\ (q + 1) * w = q * w + w /\ (q + d) * w = q * w + d * w
  OBVIOUS
<1>2. d > 0 => d * w >= w
  <2> SUFFICES ASSUME d > 0 PROVE d * w >= w
    OBVIOUS
  <2> DEFINE e == d - 1
  <2>1. e \in Nat /\ d = e + 1
    OBVIOUS
  <2> HIDE DEF e
  <2>2. (e + 1) * w = e * w + w /\ e * w \in Nat
    BY <2>1
  <2> QED BY <2>1, <2>2
<1> QED BY <1>1, <1>2

LEMMA Quotient ==
  ASSUME NEW w \in Nat \ {0}, NEW q \in Nat, NEW r \in 0 .. w - 1
  PROVE  (q * w + r) \div w = q /\ (q * w + r) % w = r
OBVIOUS

\* A number below a product has its quotient below the factor.
LEMMA BelowProduct ==
  ASSUME NEW w \in Nat \ {0}, NEW h \in Nat, NEW n \in 0 .. h * w - 1
  PROVE  n \div w \in 0 .. h - 1 /\ n % w \in 0 .. w - 1
<1>1. h * w \in Nat /\ n \in Nat
  BY Multiple
<1> DEFINE q == n \div w
           r == n % w
<1>2. q \in Nat /\ r \in 0 .. w - 1 /\ n = q * w + r
  BY <1>1, Divided
<1> HIDE DEF q, r
<1>3. ~(q >= h)
  <2> SUFFICES ASSUME q >= h PROVE FALSE
    OBVIOUS
  <2> DEFINE d == q - h
  <2>1. d \in Nat /\ q = h + d
    BY <1>2
  <2> HIDE DEF d
  <2>2. q * w = h * w + d * w /\ d * w \in Nat /\ q * w \in Nat
    BY <1>2, <2>1, Multiple
  <2> QED BY <1>1, <1>2, <2>2
<1> QED BY <1>2, <1>3 DEF q, r

\* Two bytes hold a coordinate.
LEMMA TwoBytes ==
  ASSUME NEW a \in 0 .. ByteMod * ByteMod - 1
  PROVE  be16((a \div ByteMod) % ByteMod, a % ByteMod) = a
<1> DEFINE B == ByteMod
           q == a \div B
           r == a % B
<1>1. B \in Nat \ {0}
  BY PortAssumption
<1> HIDE DEF B
<1>2. B * B \in Nat /\ a \in Nat /\ a \in 0 .. B * B - 1
  BY <1>1, Multiple DEF B
<1>3. q \in 0 .. B - 1 /\ r \in 0 .. B - 1 /\ a = q * B + r
  BY <1>1, <1>2, BelowProduct, Divided
<1> HIDE DEF q, r
<1>4. q % B = q
  <2>1. (0 * B + q) % B = q
    BY <1>1, <1>3, Quotient
  <2>2. 0 * B + q = q
    BY <1>1, <1>3
  <2> QED BY <2>1, <2>2
<1> QED BY <1>3, <1>4 DEF be16, q, r, B

\* Sequences of up to four elements.
LEMMA Appended ==
  ASSUME NEW X, NEW s \in Seq(X), NEW d \in X, NEW t \in Seq(X), Len(t) = Len(s) + 1,
         t[Len(t)] = d, \A i \in 1 .. Len(s) : t[i] = s[i]
  PROVE  Append(s, d) = t
<1> DEFINE u == Append(s, d)
           n == Len(s)
<1>1. n \in Nat /\ u \in Seq(X) /\ Len(u) = n + 1 /\ u[n + 1] = d /\ \A i \in 1 .. n : u[i] = s[i]
  OBVIOUS
<1> HIDE DEF u, n
<1>2. \A i \in 1 .. n + 1 : u[i] = t[i]
  BY <1>1 DEF n
<1>3. u = t
  BY <1>1, <1>2, SeqEqual DEF n
<1> QED BY <1>3 DEF u

LEMMA FourAppended ==
  ASSUME NEW a, NEW b, NEW c, NEW d
  PROVE  /\ Append(<<>>,  a) = <<a>> /\ Append(<<a>>, b) = <<a, b>>
         /\ Append(<<a, b>>, c) = <<a, b, c>> /\ Append(<<a, b, c>>, d) = <<a, b, c, d>>
<1> DEFINE X == {a,b, c, d}
           p == <<a>>
           q == <<a, b>>
           s == <<a, b, c>>
           t == <<a, b, c, d>>
<1>1. {a,b, c, d} \subseteq X /\ {p, q, s, t} \subseteq Seq(X) /\ Len(p) = 1 /\ Len(q) = 2 /\ Len(s) = 3 /\ Len(t) = 4
  OBVIOUS
<1>2. /\ p[1] = a /\ q[1] = a /\ q[2] = b
      /\ s[1] = a /\ s[2] = b /\ s[3] = c /\ t[1] = a /\ t[2] = b /\ t[3] = c /\ t[4] = d
  OBVIOUS
<1> HIDE DEF X, p, q, s, t
<1>3. /\ \A i \in 1 .. Len(p) : q[i] = p[i]
      /\ \A i \in 1 .. Len(q) : s[i] = q[i]
      /\ \A i \in 1 .. Len(s) : t[i] = s[i]
  BY <1>1, <1>2
<1> DEFINE Longer(u, x, v) == /\ u \in Seq(X) /\ v \in Seq(X) /\ x \in X /\ Len(v) = Len(u) + 1
                              /\ v[Len(v)] = x /\ \A i \in 1 .. Len(u) : v[i] = u[i]
<1>4. \A u, x, v : Longer(u, x, v) => Append(u, x) = v
  BY Appended
<1>5. Longer(p, b, q) /\ Longer(q, c, s) /\ Longer(s, d, t)
  BY <1>1, <1>2, <1>3
<1> HIDE DEF Longer
<1>6. Append(p, b) = q /\ Append(q, c) = s /\ Append(s, d) = t
  BY <1>4, <1>5
<1>7. Append(<<>>,  a) = <<a>>
  OBVIOUS
<1> QED BY <1>6, <1>7 DEF p, q,s, t

LEMMA Appends ==
  /\ \A a : Append(<<>>, a) = <<a>>
  /\ \A a, b : Append(<<a>>, b) = <<a, b>>
  /\ \A a, b, c : Append(<<a, b>>, c) = <<a, b, c>>
  /\ \A a, b, c, d : Append(<<a, b, c>>, d) = <<a, b, c, d>>
<1> DEFINE All(a, b, c, d) ==
             /\ Append(<<>>, a) = <<a>> /\ Append(<<a>>, b) = <<a, b>>
             /\ Append(<<a, b>>, c) = <<a, b, c>> /\ Append(<<a, b, c>>, d) = <<a, b, c, d>>
<1>1. ASSUME NEW a, NEW b, NEW c, NEW d PROVE All(a, b, c, d)
  BY FourAppended
<1> HIDE DEF All
<1>2. /\ \A a : All(a, a, a, a)
      /\ \A a, b : All(a, b, b, b)
      /\ \A a, b, c : All(a, b, c, c)
      /\ \A a, b, c, d : All(a, b, c, d)
  BY <1>1
<1> QED BY <1>2 DEF All

LEMMA FourJoined ==
  ASSUME NEW a, NEW b, NEW c, NEW d
  PROVE  <<a>> \o <<b>> \o <<c>> \o <<d>> = <<a, b, c, d>>
<1> DEFINE X == {a,b, c, d}
<1>1. ASSUME NEW s \in Seq(X), NEW x \in X PROVE s \o <<x>> = Append(s, x)
  <2> HIDE DEF X
  <2> QED BY <1>1
<1>2. <<a>> \in Seq(X) /\ <<a, b>> \in Seq(X) /\ <<a, b, c>> \in Seq(X)
  OBVIOUS
<1>3. <<a>> \o <<b>> = <<a, b>>
  <2>1. <<a>> \o <<b>> = Append(<<a>>, b)
    BY <1>1, <1>2
  <2> QED BY <2>1, FourAppended
<1>4. <<a, b>> \o <<c>> = <<a, b, c>>
  <2>1. <<a, b>> \o <<c>> = Append(<<a, b>>, c)
    BY <1>1, <1>2
  <2> QED BY <2>1, FourAppended
<1>5. <<a, b, c>> \o <<d>> = <<a, b, c, d>>
  <2>1. <<a, b, c>> \o <<d>> = Append(<<a, b, c>>, d)
    BY <1>1, <1>2
  <2> QED BY <2>1, FourAppended
<1> QED BY <1>3, <1>4, <1>5

\* A parameter that is not the last of four.
Alike(m, l) ==
  /\ IsLcd(m) /\ m.cs = l.cs /\ m.dc = l.dc /\ m.command = l.command /\ m.colmod = l.colmod
  /\ m.x0 = l.x0 /\ m.x1 = l.x1 /\ m.y0 = l.y0 /\ m.y1 = l.y1

TakesOne(l, byte, params, f, w) ==
  \E m : Run(<<<<"send", byte>>>>, Panel(l, f), Panel(m, f), w) /\ Alike(m, l) /\ m.params = params

LEMMA ParamOfFour ==
  ASSUME NEW l, IsLcd(l), l.cs = 0, l.dc = 1, l.command \in {COLADDR, PAGEADDR}, NEW f, NEW w, NEW byte,
         NEW params, Append(l.params, byte) = params, Len(l.params) < 3, Len(params) < 4
  PROVE  TakesOne(l, byte, params, f, w)
<1> DEFINE m == [l EXCEPT !.params = params]
           a == <<"send", byte>>
<1>1. Alike(m, l) /\ m.params = params
  BY DEF IsLcd, Fields, Alike
<1>2. lcd_expected_params(l.command) = 4
  BY DEF lcd_expected_params, COLADDR, PAGEADDR
<1>3. m.command = l.command
  BY <1>1 DEF Alike
<1>4. TakesParam(l, byte) = m
  <2>1. Len(l.params) < 16
    OBVIOUS
  <2>2. Len(params) # lcd_expected_params(m.command)
    BY <1>2, <1>3
  <2> QED BY <2>1, <2>2 DEF TakesParam
<1> HIDE DEF m
<1>5. Access(Panel(l, f), a) = Panel(m, f)
  BY <1>2, <1>4, ParamStep
<1>6. Toward(Panel(l, f).shown, Access(Panel(l, f), a).shown, w)
  BY <1>5, Panels, TowardItself
<1> HIDE DEF a
<1>7. Run(<<a>>, Panel(l, f), Panel(m, f), w)
  BY <1>5, <1>6, RunOne
<1> QED BY <1>1, <1>7 DEF TakesOne, a

\* The corners of the window after its four parameters.
Cornered(l, m, a, b) ==
  /\ IsLcd(m) /\ m.colmod = l.colmod
  /\ IF l.command = COLADDR THEN m.x0 = a /\ m.x1 = b /\ m.y0 = l.y0 /\ m.y1 = l.y1
     ELSE m.y0 = a /\ m.y1 = b /\ m.x0 = l.x0 /\ m.x1 = l.x1

LEMMA LastOfFour ==
  ASSUME NEW l, IsLcd(l), l.cs = 0, l.dc = 1, l.command \in {COLADDR, PAGEADDR}, NEW f, NEW w,
         NEW a, NEW b, NEW c, NEW d, l.params = <<a, b, c>>
  PROVE  \E m : /\ Run(<<<<"send", d>>>>, Panel(l, f), Panel(m, f), w)
                /\ Cornered(l, m, be16(a, b), be16(c, d))
<1> DEFINE params == <<a, b, c, d>>
           m == TakesParam(l, d)
           o == [l EXCEPT !.params = params]
           s == <<"send", d>>
           u == be16(a, b)
           v == be16(c, d)
<1>1. IsLcd(o) /\ o.params = params /\ \A x \in Fields \ {"params"} : o[x] = l[x]
  BY DEF IsLcd, Fields
<1>2. /\ o.command = l.command /\ o.colmod = l.colmod
      /\ o.x0 = l.x0 /\ o.x1 = l.x1 /\ o.y0 = l.y0 /\ o.y1 = l.y1
  BY <1>1 DEF Fields
<1>3. lcd_expected_params(l.command) = 4
  BY DEF lcd_expected_params, COLADDR, PAGEADDR
<1>4. Append(l.params, d) = params /\ Len(l.params) = 3 /\ Len(params) = 4
  <2>1. Len(<<a, b, c>>) = 3 /\ Len(params) = 4
    OBVIOUS
  <2>2. Append(<<a, b, c>>, d) = params
    BY Appends, Zenon
  <2> HIDE DEF params
  <2> QED BY <2>1, <2>2
<1>5. m = IF l.command = COLADDR THEN [o EXCEPT !.x0 = u, !.x1 = v] ELSE [o EXCEPT !.y0 = u, !.y1 = v]
  <2>1. m = CASE o.command = COLADDR -> [o EXCEPT !.x0 = u, !.x1 = v]
              [] o.command = PAGEADDR -> [o EXCEPT !.y0 = u, !.y1 = v]
              [] o.command = 54 -> [o EXCEPT !.madctl = d]
              [] o.command = 58 -> [o EXCEPT !.colmod = d]
              [] OTHER -> o
    <3>1. params[1] = a /\ params[2] = b /\ params[3] = c /\ params[4] = d
      OBVIOUS
    <3>2. Len(l.params) < 16 /\ Len(params) = lcd_expected_params(o.command)
      BY <1>2, <1>3, <1>4
    <3> QED BY <1>4, <3>1, <3>2 DEF TakesParam
  <2> HIDE DEF o, m, u, v, params
  <2> QED BY <1>2, <2>1 DEF COLADDR, PAGEADDR
<1>6. Access(Panel(l, f), s) = Panel(m, f)
  BY <1>3, ParamStep
<1>7. Toward(Panel(l, f).shown, Access(Panel(l, f), s).shown, w)
  BY <1>6, Panels, TowardItself
<1> HIDE DEF o, m, u, v, params, s
<1>8. Cornered(l, m, u, v)
  <2>1. CASE l.command = COLADDR
    <3>1. m = [o EXCEPT !.x0 = u, !.x1 = v]
      BY <1>5, <2>1
    <3>2. /\ DOMAIN m = DOMAIN o /\ m.colmod = o.colmod
          /\ m.x0 = u /\ m.x1 = v /\ m.y0 = o.y0 /\ m.y1 = o.y1
      BY <1>1, <3>1 DEF IsLcd, Fields
    <3> QED BY <1>1, <1>2, <2>1, <3>2 DEF Cornered, IsLcd
  <2>2. CASE l.command # COLADDR
    <3>1. m = [o EXCEPT !.y0 = u, !.y1 = v]
      BY <1>5, <2>2
    <3>2. /\ DOMAIN m = DOMAIN o /\ m.colmod = o.colmod
          /\ m.y0 = u /\ m.y1 = v /\ m.x0 = o.x0 /\ m.x1 = o.x1
      BY <1>1, <3>1 DEF IsLcd, Fields
    <3> QED BY <1>1, <1>2, <2>2, <3>2 DEF Cornered, IsLcd
  <2> QED BY <2>1, <2>2
<1>9. Run(<<s>>, Panel(l, f), Panel(m, f), w)
  BY <1>6, <1>7, RunOne
<1> QED BY <1>8, <1>9 DEF s, u, v

LEMMA FourRuns ==
  ASSUME NEW l, IsLcd(l), l.cs = 0, l.dc = 1, l.command \in {COLADDR, PAGEADDR}, l.params = <<>>,
         NEW f, NEW w, NEW a, NEW b, NEW c, NEW d
  PROVE  \E m : /\ Run(spi_write(<<a, b, c, d>>), Panel(l, f), Panel(m, f), w)
                /\ Cornered(l, m, be16(a, b), be16(c, d))
<1> DEFINE S(byte) == <<<<"send", byte>>>>
<1>1. Len(<<>>) = 0 /\ Len(<<a>>) = 1 /\ Len(<<a, b>>) = 2 /\ Len(<<a, b, c>>) = 3
  OBVIOUS
<1>2. PICK l1 : Run(S(a), Panel(l, f), Panel(l1, f), w) /\ Alike(l1, l) /\ l1.params = <<a>>
  <2>1. Append(l.params, a) = <<a>>
    BY Appends
  <2>2. Len(l.params) < 3 /\ Len(<<a>>) < 4
    BY <1>1
  <2>3. TakesOne(l, a, <<a>>, f, w)
    BY <2>1, <2>2, ParamOfFour
  <2> QED BY <2>3 DEF TakesOne
<1>3. PICK l2 : Run(S(b), Panel(l1, f), Panel(l2, f), w) /\ Alike(l2, l1) /\ l2.params = <<a, b>>
  <2>1. Append(l1.params, b) = <<a, b>>
    BY <1>2, Appends
  <2>2. IsLcd(l1) /\ l1.cs = 0 /\ l1.dc = 1 /\ l1.command \in {COLADDR, PAGEADDR}
    BY <1>2 DEF Alike
  <2>3. Len(l1.params) < 3 /\ Len(<<a, b>>) < 4
    BY <1>1, <1>2
  <2>4. TakesOne(l1, b, <<a, b>>, f, w)
    BY <1>2, <2>1, <2>2, <2>3, ParamOfFour
  <2> QED BY <2>4 DEF TakesOne
<1>4. PICK l3 : Run(S(c), Panel(l2, f), Panel(l3, f), w) /\ Alike(l3, l2) /\ l3.params = <<a, b, c>>
  <2>1. Append(l2.params, c) = <<a, b, c>>
    BY <1>3, Appends
  <2>2. IsLcd(l2) /\ l2.cs = 0 /\ l2.dc = 1 /\ l2.command \in {COLADDR, PAGEADDR}
    BY <1>2, <1>3 DEF Alike
  <2>3. Len(l2.params) < 3 /\ Len(<<a, b, c>>) < 4
    BY <1>1, <1>3
  <2>4. TakesOne(l2, c, <<a, b, c>>, f, w)
    BY <1>3, <2>1, <2>2, <2>3, ParamOfFour
  <2> QED BY <2>4 DEF TakesOne
<1>5. PICK m : /\ Run(S(d), Panel(l3, f), Panel(m, f), w)
               /\ Cornered(l3, m, be16(a, b), be16(c, d))
  <2>1. IsLcd(l3) /\ l3.cs = 0 /\ l3.dc = 1 /\ l3.command \in {COLADDR, PAGEADDR}
    BY <1>2, <1>3, <1>4 DEF Alike
  <2> QED BY <1>4, <2>1, LastOfFour
<1>6. Cornered(l, m, be16(a, b), be16(c, d))
  BY <1>2, <1>3, <1>4, <1>5 DEF Cornered, Alike
<1>7. spi_write(<<a, b, c, d>>) = S(a) \o S(b) \o S(c) \o S(d)
  <2> DEFINE T(byte) == <<"send", byte>>
             u == <<a, b, c, d>>
  <2>1. DOMAIN u = 1 .. 4 /\ u[1] = a /\ u[2] = b /\ u[3] = c /\ u[4] = d
    OBVIOUS
  <2>2. spi_write(u) = [i \in DOMAIN u |-> T(u[i])]
    BY DEF spi_write
  <2> HIDE DEF T, u
  <2>3. [i \in 1 .. 4 |-> T(u[i])] = <<T(a), T(b), T(c), T(d)>>
    BY <2>1
  <2>4. <<T(a)>> \o <<T(b)>> \o <<T(c)>> \o <<T(d)>> = <<T(a), T(b), T(c), T(d)>>
    BY FourJoined
  <2> QED BY <2>1, <2>2, <2>3, <2>4 DEF T, u
<1> HIDE DEF S
<1>8. Run(S(a) \o S(b), Panel(l, f), Panel(l2, f), w)
  BY <1>2, <1>3, RunConcat, Zenon
<1>9. Run(S(a) \o S(b) \o S(c), Panel(l, f), Panel(l3, f), w)
  BY <1>4, <1>8, RunConcat, Zenon
<1>10. Run(S(a) \o S(b) \o S(c) \o S(d), Panel(l, f), Panel(m, f), w)
  BY <1>5, <1>9, RunConcat, Zenon
<1> QED BY <1>6, <1>7, <1>10

\* A window set: pixels begin at its corner.
Opened(m, x1, y1, x2, y2) ==
  /\ IsLcd(m) /\ m.colmod = 102 /\ m.command = MEMWRITE /\ m.pixel = <<>>
  /\ m.x0 = x1 /\ m.x1 = x2 /\ m.y0 = y1 /\ m.y1 = y2 /\ m.x = x1 /\ m.y = y1

LEMMA WindowRuns ==
  ASSUME NEW l, IsLcd(l), l.colmod = 102, NEW f, NEW w,
         NEW x1 \in 0 .. ByteMod * ByteMod - 1, NEW x2 \in 0 .. ByteMod * ByteMod - 1,
         NEW y1 \in 0 .. ByteMod * ByteMod - 1, NEW y2 \in 0 .. ByteMod * ByteMod - 1
  PROVE  \E m : /\ Run(lcd_set_window(x1, y1, x2, y2), Panel(l, f), Panel(m, f), w)
                /\ Opened(m, x1, y1, x2, y2)
<1> DEFINE Set(k, command, a, b, m) ==
             /\ Run(lcd_command_data(command, Coordinates(a, b)), Panel(k, f), Panel(m, f), w)
             /\ IsLcd(m) /\ m.colmod = k.colmod
             /\ command = COLADDR => m.x0 = a /\ m.x1 = b
             /\ command = PAGEADDR => m.y0 = a /\ m.y1 = b /\ m.x0 = k.x0 /\ m.x1 = k.x1
           A == lcd_command_data(COLADDR, Coordinates(x1, x2))
           P == lcd_command_data(PAGEADDR, Coordinates(y1, y2))
           C == lcd_command(MEMWRITE)
           hi(a) == (a \div ByteMod) % ByteMod
           lo(a) == a % ByteMod
           F == {"command", "colmod", "params", "pixel", "x0", "x1", "y0", "y1", "x", "y"}
<1>1. \A a \in 0 .. ByteMod * ByteMod - 1 : be16(hi(a), lo(a)) = a
  BY TwoBytes
<1>2. \A a, b : Coordinates(a, b) = <<hi(a), lo(a), hi(b), lo(b)>>
  BY DEF Coordinates
<1>3. F \subseteq Fields \ {"cs", "dc"}
  BY DEF Fields
<1> HIDE DEF hi, lo
<1>4. ASSUME NEW k, IsLcd(k), NEW command \in {COLADDR, PAGEADDR}, NEW a, NEW b,
             be16(hi(a), lo(a)) = a, be16(hi(b), lo(b)) = b
      PROVE  \E m : Set(k, command, a, b, m)
  <2> DEFINE o == Commanded(k, command)
  <2>1. /\ IsLcd(o) /\ o.cs = 0 /\ o.dc = 1 /\ o.command = command /\ o.colmod = k.colmod
        /\ o.params = <<>> /\ o.x0 = k.x0 /\ o.x1 = k.x1 /\ o.y0 = k.y0 /\ o.y1 = k.y1
    <3>1. command # 1
      BY DEF COLADDR, PAGEADDR
    <3> QED BY <1>4, <3>1, Begun
  <2> HIDE DEF o
  <2>2. PICK m : /\ Run(spi_write(<<hi(a), lo(a), hi(b), lo(b)>>), Panel(o, f), Panel(m, f), w)
                 /\ Cornered(o, m, a, b)
    BY <1>4, <2>1, FourRuns
  <2>3. Run(lcd_command_data(command, Coordinates(a, b)), Panel(k, f), Panel(Off(m), f), w)
    BY <1>2, <1>4, <2>2, CommandDataRuns DEF lcd_command_data, o
  <2>4. /\ IsLcd(Off(m)) /\ Off(m).colmod = m.colmod
        /\ Off(m).x0 = m.x0 /\ Off(m).x1 = m.x1 /\ Off(m).y0 = m.y0 /\ Off(m).y1 = m.y1
    BY <1>3, <2>2, Selected DEF Cornered
  <2>5. /\ command = COLADDR => m.x0 = a /\ m.x1 = b
        /\ command = PAGEADDR => m.y0 = a /\ m.y1 = b /\ m.x0 = k.x0 /\ m.x1 = k.x1
    BY <2>1, <2>2 DEF Cornered, COLADDR, PAGEADDR
  <2>6. m.colmod = k.colmod
    BY <2>1, <2>2 DEF Cornered
  <2> WITNESS Off(m)
  <2> QED BY <2>3, <2>4, <2>5, <2>6
<1> HIDE DEF Set
<1>5. PICK m : Set(l, COLADDR, x1, x2, m)
  BY <1>1, <1>4
<1> USE DEF Set
<1>6. Run(A, Panel(l, f), Panel(m, f), w) /\ IsLcd(m) /\ m.colmod = l.colmod /\ m.x0 = x1 /\ m.x1 = x2
  BY <1>5
<1> HIDE DEF Set
<1>7. PICK n : Set(m, PAGEADDR, y1, y2, n)
  BY <1>1, <1>4, <1>6
<1> USE DEF Set
<1>8. /\ Run(P, Panel(m, f), Panel(n, f), w) /\ IsLcd(n) /\ n.colmod = m.colmod
      /\ n.y0 = y1 /\ n.y1 = y2 /\ n.x0 = m.x0 /\ n.x1 = m.x1
  BY <1>7
<1> DEFINE k == On(n, 0)
           i == TakesCommand(k, MEMWRITE)
           o == Off(i)
<1>9. Run(C, Panel(n, f), Panel(o, f), w)
  BY <1>8, CommandRuns
<1>10. Opened(o, x1, y1, x2, y2)
  <2>1. /\ IsLcd(k) /\ k.colmod = 102
        /\ k.x0 = x1 /\ k.x1 = x2 /\ k.y0 = y1 /\ k.y1 = y2
    BY <1>3, <1>6, <1>8, Selected
  <2> HIDE DEF k
  <2>2. /\ IsLcd(i) /\ i.command = MEMWRITE /\ i.colmod = 102 /\ i.pixel = <<>>
        /\ i.x0 = x1 /\ i.x1 = x2 /\ i.y0 = y1 /\ i.y1 = y2 /\ i.x = x1 /\ i.y = y1
    <3>1. MEMWRITE # 1
      BY DEF MEMWRITE
    <3> QED BY <2>1, <3>1, CommandKeeps
  <2> HIDE DEF i
  <2>3. IsLcd(o) /\ \A x \in Fields \ {"cs", "dc"} : o[x] = i[x]
    BY <2>2, Selected
  <2>4. \A x \in F : o[x] = i[x]
    BY <1>3, <2>3
  <2> HIDE DEF o
  <2> QED BY <2>2, <2>3, <2>4 DEF Opened
<1> HIDE DEF o
<1>11. Run(A \o P, Panel(l, f), Panel(n, f), w)
  BY <1>6, <1>8, RunConcat, Zenon
<1>12. Run(A \o P \o C, Panel(l, f), Panel(o, f), w)
  BY <1>9, <1>11, RunConcat, Zenon
<1> QED BY <1>10, <1>12 DEF lcd_set_window

\* The pixels of a window, numbered row by row.
LEMMA NextCell ==
  ASSUME NEW w \in Nat \ {0}, NEW h \in Nat, NEW k \in 0 .. h * w - 1
  PROVE  /\ (k % w) + 1 <= w - 1 => (k + 1) % w = (k % w) + 1 /\ (k + 1) \div w = k \div w
         /\ (k % w) + 1 > w - 1 => (k + 1) % w = 0 /\ (k + 1) \div w = k \div w + 1
         /\ k + 1 < h * w => (k + 1) \div w <= h - 1
         /\ k + 1 = h * w => (k + 1) % w = 0 /\ (k + 1) \div w = h
         /\ k % w \in 0 .. w - 1 /\ k \div w \in 0 .. h - 1
<1> DEFINE q == k \div w
           r == k % w
<1>1. h * w \in Nat /\ k \in Nat
  BY Multiple
<1>2. q \in 0 .. h - 1 /\ r \in 0 .. w - 1 /\ k = q * w + r
  BY <1>1, BelowProduct, Divided
<1> HIDE DEF q, r
<1>3. r + 1 <= w - 1 => (k + 1) % w = r + 1 /\ (k + 1) \div w = q
  <2> SUFFICES ASSUME r + 1 <= w - 1 PROVE (k + 1) % w = r + 1 /\ (k + 1) \div w = q
    OBVIOUS
  <2> DEFINE s == r + 1
  <2>1. s \in 0 .. w - 1 /\ k + 1 = q * w + s
    <3>1. q * w \in Nat
      BY <1>2, Multiple
    <3> QED BY <1>2, <3>1
  <2> HIDE DEF s
  <2>2. (q * w + s) % w = s /\ (q * w + s) \div w = q
    BY <1>2, <2>1, Quotient
  <2> QED BY <2>1, <2>2 DEF s
<1>4. r + 1 > w - 1 => (k + 1) % w = 0 /\ (k + 1) \div w = q + 1
  <2> SUFFICES ASSUME r + 1 > w - 1 PROVE (k + 1) % w = 0 /\ (k + 1) \div w = q + 1
    OBVIOUS
  <2> DEFINE p == q + 1
  <2>1. p \in Nat /\ k + 1 = p * w + 0
    <3>1. q * w \in Nat /\ (q + 1) * w = q * w + w
      BY <1>2, Multiple
    <3> QED BY <1>2, <3>1
  <2> HIDE DEF p
  <2>2. 0 \in 0 .. w - 1
    OBVIOUS
  <2>3. (p * w + 0) % w = 0 /\ (p * w + 0) \div w = p
    BY <2>1, <2>2, Quotient, Zenon
  <2> QED BY <2>1, <2>3 DEF p
<1>5. k + 1 < h * w => (k + 1) \div w <= h - 1
  <2> SUFFICES ASSUME k + 1 < h * w PROVE (k + 1) \div w <= h - 1
    OBVIOUS
  <2>1. k + 1 \in 0 .. h * w - 1
    BY <1>1
  <2>2. (k + 1) \div w \in 0 .. h - 1
    BY <2>1, BelowProduct
  <2> QED BY <2>2
<1>6. k + 1 = h * w => (k + 1) % w = 0 /\ (k + 1) \div w = h
  <2> SUFFICES ASSUME k + 1 = h * w PROVE (k + 1) % w = 0 /\ (k + 1) \div w = h
    OBVIOUS
  <2>1. (h * w + 0) % w = 0 /\ (h * w + 0) \div w = h
    <3>1. 0 \in 0 .. w - 1
      OBVIOUS
    <3> QED BY <3>1, Quotient, Zenon
  <2>2. h * w + 0 = h * w
    BY <1>1
  <2> QED BY <2>1, <2>2
<1> QED BY <1>2, <1>3, <1>4, <1>5, <1>6 DEF q, r

Covers(p, left, top, width, height) == p[1] - left \in 0 .. width - 1 /\ p[2] - top \in 0 .. height - 1
Rank(p, left, top, width) == (p[2] - top) * width + (p[1] - left)
PlaceOf(k, left, top, width) == <<left + (k % width), top + k \div width>>
\* The picture when the first k pixels of a window are drawn as in w.
Painted(f, left, top, width, height, k, w) ==
  [p \in Pixels |-> IF Covers(p, left, top, width, height) /\ Rank(p, left, top, width) < k THEN w[p] ELSE f[p]]

Covered(f, left, top, width, height, w) ==
  [p \in Pixels |-> IF Covers(p, left, top, width, height) THEN w[p] ELSE f[p]]

\* A window of the display.
IsWindow(left, top, width, height) ==
  /\ {left, top} \subseteq Nat /\ {width, height} \subseteq Nat \ {0}
  /\ left + width <= Width /\ top + height <= Height

LEMMA WindowPlaces ==
  ASSUME NEW left, NEW top, NEW width, NEW height, IsWindow(left, top, width, height),
         NEW k \in 0 .. height * width - 1
  PROVE  LET p == PlaceOf(k, left, top, width)
         IN  p \in Pixels /\ Covers(p, left, top, width, height) /\ Rank(p, left, top, width) = k
<1> DEFINE q == k \div width
           r == k % width
           p == PlaceOf(k, left, top, width)
<1>1. /\ left \in Nat /\ top \in Nat /\ width \in Nat \ {0} /\ height \in Nat \ {0}
      /\ left + width <= Width /\ top + height <= Height /\ Width \in Nat /\ Height \in Nat
  BY ScreenAssumption DEF IsWindow
<1>2. q \in 0 .. height - 1 /\ r \in 0 .. width - 1 /\ k = q * width + r
  <2>1. height * width \in Nat /\ k \in Nat
    BY <1>1, Multiple
  <2> QED BY <1>1, <2>1, BelowProduct, Divided
<1>3. p = <<left + r, top + q>>
  BY DEF PlaceOf
<1> HIDE DEF q, r, p
<1>4. p[1] = left + r /\ p[2] = top + q
  BY <1>3
<1>5. (left + r) - left = r /\ (top + q) - top = q
  BY <1>1, <1>2
<1>6. left + r \in 0 .. Width - 1 /\ top + q \in 0 .. Height - 1
  BY <1>1, <1>2
<1>7. p \in Pixels
  BY <1>3, <1>6 DEF Pixels
<1>8. Covers(p, left, top, width, height)
  BY <1>2, <1>4, <1>5 DEF Covers
<1>9. Rank(p, left, top, width) = k
  BY <1>2, <1>4, <1>5 DEF Rank
<1> QED BY <1>7, <1>8, <1>9 DEF p

LEMMA RankOf ==
  ASSUME NEW left, NEW top, NEW width, NEW height, IsWindow(left, top, width, height),
         NEW p \in Pixels, Covers(p, left, top, width, height)
  PROVE  /\ Rank(p, left, top, width) \in 0 .. height * width - 1
         /\ p = PlaceOf(Rank(p, left, top, width), left, top, width)
<1> DEFINE q == p[2] - top
           r == p[1] - left
           k == q * width + r
<1>1. /\ left \in Nat /\ top \in Nat /\ width \in Nat \ {0} /\ height \in Nat \ {0}
      /\ Width \in Nat /\ Height \in Nat
  BY ScreenAssumption DEF IsWindow
<1>2. p = <<p[1], p[2]>> /\ p[1] \in Int /\ p[2] \in Int
  BY <1>1 DEF Pixels
<1>3. q \in 0 .. height - 1 /\ r \in 0 .. width - 1 /\ p[1] = left + r /\ p[2] = top + q
  BY <1>1, <1>2 DEF Covers
<1> HIDE DEF q, r
<1>4. k \div width = q /\ k % width = r
  <2>1. q \in Nat
    BY <1>1, <1>3
  <2> QED BY <1>1, <1>3, <2>1, Quotient, Zenon
<1>5. k \in 0 .. height * width - 1
  <2> DEFINE d == height - (q + 1)
  <2>1. d \in Nat /\ q + 1 \in Nat /\ height = (q + 1) + d
    BY <1>1, <1>3
  <2> HIDE DEF d
  <2>2. height * width = (q + 1) * width + d * width /\ d * width \in Nat
    BY <1>1, <2>1, Multiple
  <2>3. (q + 1) * width = q * width + width /\ q * width \in Nat
    BY <1>1, <1>3, Multiple
  <2> QED BY <1>1, <1>3, <2>2, <2>3
<1>6. Rank(p, left, top, width) = k
  BY DEF Rank, q, r
<1> HIDE DEF k
<1>7. p = PlaceOf(k, left, top, width)
  BY <1>2, <1>3, <1>4 DEF PlaceOf
<1> QED BY <1>5, <1>6, <1>7

\* After no, one more and all pixels.
PaintsOn(f, left, top, width, height, w) ==
  /\ Painted(f, left, top, width, height, 0, w) = f
  /\ Painted(f, left, top, width, height, height * width, w) = Covered(f, left, top, width, height, w)
  /\ \A k \in 0 .. height * width - 1 :
       Painted(f, left, top, width, height, k + 1, w)
         = [Painted(f, left, top, width, height, k, w) EXCEPT
              ![PlaceOf(k, left, top, width)] = w[PlaceOf(k, left, top, width)]]

LEMMA PaintedSteps ==
  ASSUME NEW left, NEW top, NEW width, NEW height, IsWindow(left, top, width, height), NEW f, NEW w,
         f = [p \in Pixels |-> f[p]]
  PROVE  PaintsOn(f, left, top, width, height, w)
<1> DEFINE In(p) == Covers(p, left, top, width, height)
           rank(p) == Rank(p, left, top, width)
           P(k) == Painted(f, left, top, width, height, k, w)
           n == height * width
<1>1. n \in Nat
  BY Multiple DEF IsWindow
<1>2. \A p \in Pixels : In(p) => rank(p) \in 0 .. n - 1 /\ p = PlaceOf(rank(p), left, top, width)
  BY RankOf
<1>3. \A k \in 0 .. n - 1 : LET p == PlaceOf(k, left, top, width) IN p \in Pixels /\ In(p) /\ rank(p) = k
  BY WindowPlaces
<1>4. \A k : P(k) = [p \in Pixels |-> IF In(p) /\ rank(p) < k THEN w[p] ELSE f[p]]
  BY DEF Painted
<1> HIDE DEF In, rank, n, P
<1>5. P(0) = f
  <2>1. \A p \in Pixels : ~(In(p) /\ rank(p) < 0)
    BY <1>1, <1>2
  <2>2. P(0) = [p \in Pixels |-> f[p]]
    BY <1>4, <2>1
  <2> QED BY <2>2
<1>6. P(n) = [p \in Pixels |-> IF In(p) THEN w[p] ELSE f[p]]
  <2>1. \A p \in Pixels : In(p) /\ rank(p) < n <=> In(p)
    BY <1>1, <1>2
  <2> QED BY <1>4, <2>1
<1>7. ASSUME NEW k \in 0 .. n - 1
      PROVE  P(k + 1) = [P(k) EXCEPT ![PlaceOf(k, left, top, width)] = w[PlaceOf(k, left, top, width)]]
  <2> DEFINE place == PlaceOf(k, left, top, width)
             A == P(k + 1)
             B == [P(k) EXCEPT ![place] = w[place]]
  <2>1. place \in Pixels /\ In(place) /\ rank(place) = k
    BY <1>3
  <2>2. \A p \in Pixels : In(p) /\ rank(p) < k + 1 <=> (In(p) /\ rank(p) < k) \/ p = place
    <3> SUFFICES ASSUME NEW p \in Pixels
                 PROVE  In(p) /\ rank(p) < k + 1 <=> (In(p) /\ rank(p) < k) \/ p = place
      OBVIOUS
    <3>1. In(p) => rank(p) \in Int /\ (rank(p) = k => p = place)
      BY <1>1, <1>2
    <3> HIDE DEF place
    <3> QED BY <1>1, <2>1, <3>1
  <2> HIDE DEF place
  <2>3. A = [p \in Pixels |-> IF In(p) /\ rank(p) < k + 1 THEN w[p] ELSE f[p]]
    BY <1>4
  <2>4. B = [p \in Pixels |-> IF p = place THEN w[p] ELSE IF In(p) /\ rank(p) < k THEN w[p] ELSE f[p]]
    BY <1>4, <2>1
  <2>5. \A p \in Pixels : A[p] = B[p]
    BY <2>2, <2>3, <2>4
  <2>6. A = [p \in Pixels |-> A[p]] /\ B = [p \in Pixels |-> B[p]]
    BY <2>3, <2>4
  <2> HIDE DEF A, B
  <2>7. A = B
    BY <2>5, <2>6
  <2> QED BY <2>7 DEF A, B, place
<1>8. P(n) = Covered(f, left, top, width, height, w)
  BY <1>6 DEF Covered, In
<1> QED BY <1>5, <1>7, <1>8 DEF P, n, PaintsOn

\* The decoder between two bytes of pixels.
Placed(m, pixel, x, y) == [[[m EXCEPT !.pixel = pixel] EXCEPT !.x = x] EXCEPT !.y = y]
Filling(m, left, top, width, height) ==
  /\ IsLcd(m) /\ m.cs = 0 /\ m.dc = 1 /\ m.command = MEMWRITE /\ m.colmod = 102
  /\ m.x0 = left /\ m.x1 = left + width - 1 /\ m.y0 = top /\ m.y1 = top + height - 1

LEMMA PlacedFields ==
  ASSUME NEW m, IsLcd(m), NEW pixel, NEW x, NEW y
  PROVE  LET l == Placed(m, pixel, x, y)
         IN  /\ IsLcd(l) /\ l.pixel = pixel /\ l.x = x /\ l.y = y
             /\ l.cs = m.cs /\ l.dc = m.dc /\ l.command = m.command /\ l.colmod = m.colmod
             /\ l.x0 = m.x0 /\ l.x1 = m.x1 /\ l.y0 = m.y0 /\ l.y1 = m.y1
<1> DEFINE a == [m EXCEPT !.pixel = pixel]
           b == [a EXCEPT !.x = x]
           l == [b EXCEPT !.y = y]
<1>1. /\ IsLcd(a) /\ a.pixel = pixel
      /\ a.cs = m.cs /\ a.dc = m.dc /\ a.command = m.command /\ a.colmod = m.colmod
      /\ a.x0 = m.x0 /\ a.x1 = m.x1 /\ a.y0 = m.y0 /\ a.y1 = m.y1
  BY DEF IsLcd, Fields
<1> HIDE DEF a
<1>2. /\ IsLcd(b) /\ b.pixel = pixel /\ b.x = x
      /\ b.cs = m.cs /\ b.dc = m.dc /\ b.command = m.command /\ b.colmod = m.colmod
      /\ b.x0 = m.x0 /\ b.x1 = m.x1 /\ b.y0 = m.y0 /\ b.y1 = m.y1
  BY <1>1 DEF IsLcd, Fields
<1> HIDE DEF b
<1>3. /\ IsLcd(l) /\ l.pixel = pixel /\ l.x = x /\ l.y = y
      /\ l.cs = m.cs /\ l.dc = m.dc /\ l.command = m.command /\ l.colmod = m.colmod
      /\ l.x0 = m.x0 /\ l.x1 = m.x1 /\ l.y0 = m.y0 /\ l.y1 = m.y1
  BY <1>2 DEF IsLcd, Fields
<1> QED BY <1>3 DEF Placed, a, b

LEMMA PlacedAgain ==
  ASSUME NEW m, IsLcd(m), NEW pixel, NEW x, NEW y
  PROVE  /\ \A q : [Placed(m, pixel, x, y) EXCEPT !.pixel = q] = Placed(m, q, x, y)
         /\ \A u : [Placed(m, pixel, x, y) EXCEPT !.x = u] = Placed(m, pixel, u, y)
         /\ \A u, v : [Placed(m, pixel, x, y) EXCEPT !.x = u, !.y = v] = Placed(m, pixel, u, v)
         /\ m = [i \in DOMAIN m |-> m[i]] => Placed(m, m.pixel, m.x, m.y) = m
BY DEF Placed, IsLcd, Fields

\* The channels of a pixel that the decoder has.
Part(c, r) == IF r = 0 THEN <<>> ELSE IF r = 1 THEN <<c[1]>> ELSE <<c[1], c[2]>>

LEMMA PartAppended ==
  ASSUME NEW c
  PROVE  /\ \A r \in 0 .. 1 : Append(Part(c, r), c[r + 1]) = Part(c, r + 1) /\ Len(Part(c, r + 1)) = r + 1
         /\ Append(Part(c, 2), c[3]) = <<c[1], c[2], c[3]>>
<1> DEFINE a == c[1]
           b == c[2]
           e == c[3]
<1>1. Append(<<>>, a) = <<a>> /\ Append(<<a>>, b) = <<a, b>> /\ Append(<<a, b>>, e) = <<a, b, e>>
  BY Appends
<1>2. Len(<<a>>) = 1 /\ Len(<<a, b>>) = 2
  OBVIOUS
<1>3. /\ Append(Part(c, 0), c[1]) = Part(c, 1) /\ Len(Part(c, 1)) = 1
      /\ Append(Part(c, 1), c[2]) = Part(c, 2) /\ Len(Part(c, 2)) = 2
      /\ Append(Part(c, 2), c[3]) = <<c[1], c[2], c[3]>>
  BY <1>1, <1>2 DEF Part
<1>4. ASSUME NEW r \in 0 .. 1
      PROVE  Append(Part(c, r), c[r + 1]) = Part(c, r + 1) /\ Len(Part(c, r + 1)) = r + 1
  <2>1. r = 0 \/ r = 1
    OBVIOUS
  <2>2. 0 + 1 = 1 /\ 1 + 1 = 2
    OBVIOUS
  <2> QED BY <1>3, <2>1, <2>2
<1> QED BY <1>3, <1>4

LEMMA PixelByte ==
  ASSUME NEW l, IsLcd(l), l.cs = 0, l.dc = 1, l.command = MEMWRITE, NEW f, NEW byte,
         NEW a, a \in {<<"send", byte>>, <<"dma", byte>>}
  PROVE  Access(Panel(l, f), a) = TakesPixelByte(Panel(l, f), byte)
<1> DEFINE d == Panel(l, f)
<1>1. Access(d, a) = emu_lcd_spi_byte(d, byte)
  BY SendAccess
<1>2. d.lcd = l
  BY Panels
<1> HIDE DEF d
<1>3. ~(lcd_expected_params(l.command) > 0)
  BY DEF lcd_expected_params, MEMWRITE
<1>4. emu_lcd_spi_byte(d, byte) = TakesPixelByte(d, byte)
  BY <1>2, <1>3 DEF emu_lcd_spi_byte
<1> QED BY <1>1, <1>4 DEF d

LEMMA PixelPart ==
  ASSUME NEW left, NEW top, NEW width, NEW height, NEW m, Filling(m, left, top, width, height),
         NEW x, NEW y, NEW f, NEW c, NEW r \in 0 .. 1,
         NEW a, a \in {<<"send", c[r + 1]>>, <<"dma", c[r + 1]>>}
  PROVE  Access(Panel(Placed(m, Part(c, r), x, y), f), a) = Panel(Placed(m, Part(c, r + 1), x, y), f)
<1> DEFINE l == Placed(m, Part(c, r), x, y)
           p == Append(Part(c, r), c[r + 1])
<1>1. IsLcd(m) /\ m.cs = 0 /\ m.dc = 1 /\ m.command = MEMWRITE /\ m.colmod = 102
  BY DEF Filling
<1>2. IsLcd(l) /\ l.cs = 0 /\ l.dc = 1 /\ l.command = MEMWRITE /\ l.colmod = 102 /\ l.pixel = Part(c, r)
  BY <1>1, PlacedFields
<1>3. \A q : [l EXCEPT !.pixel = q] = Placed(m, q, x, y)
  BY <1>1 DEF Placed, IsLcd, Fields
<1> HIDE DEF l
<1>4. Access(Panel(l, f), a) = TakesPixelByte(Panel(l, f), c[r + 1])
  BY <1>2, PixelByte
<1>5. p = Part(c, r + 1) /\ Len(p) = r + 1
  BY PartAppended
<1> HIDE DEF p
<1>6. ~Complete(l, p)
  <2>1. l.colmod # 85
    BY <1>2
  <2>2. Len(p) # 3
    <3>1. Len(p) = r + 1
      BY <1>5
    <3> QED BY <3>1
  <2> QED BY <2>1, <2>2 DEF Complete
<1>7. TakesPixelByte(Panel(l, f), c[r + 1]) = Panel([l EXCEPT !.pixel = p], f)
  <2>1. Panel(l, f).lcd = l /\ Panel(l, f).shown = f
    BY Panels
  <2>2. Append(l.pixel, c[r + 1]) = p
    BY <1>2 DEF p
  <2> QED BY <1>6, <2>1, <2>2 DEF TakesPixelByte
<1> QED BY <1>3, <1>4, <1>5, <1>7 DEF l

NextX(x, left, width) == IF x + 1 <= left + width - 1 THEN x + 1 ELSE left
NextY(x, y, left, top, width, height) ==
  IF x + 1 <= left + width - 1 THEN y ELSE IF y + 1 <= top + height - 1 THEN y + 1 ELSE top

LEMMA PixelWhole ==
  ASSUME NEW left, NEW top, NEW width, NEW height, NEW m, Filling(m, left, top, width, height),
         NEW x, NEW y, <<x, y>> \in Pixels, NEW f, NEW c, c = <<c[1], c[2], c[3]>>,
         NEW a, a \in {<<"send", c[3]>>, <<"dma", c[3]>>}
  PROVE  Access(Panel(Placed(m, Part(c, 2), x, y), f), a)
           = Panel(Placed(m, <<>>, NextX(x, left, width), NextY(x, y, left, top, width, height)),
                   [f EXCEPT ![<<x, y>>] = c])
<1> DEFINE l == Placed(m, Part(c, 2), x, y)
           k == Placed(m, <<>>, x, y)
           p == Append(Part(c, 2), c[3])
           g == [f EXCEPT ![<<x, y>>] = c]
           next == Placed(m, <<>>, NextX(x, left, width), NextY(x, y, left, top, width, height))
<1>1. /\ IsLcd(m) /\ m.cs = 0 /\ m.dc = 1 /\ m.command = MEMWRITE /\ m.colmod = 102
      /\ m.x0 = left /\ m.x1 = left + width - 1 /\ m.y0 = top /\ m.y1 = top + height - 1
  BY DEF Filling
<1>2. /\ IsLcd(l) /\ l.cs = 0 /\ l.dc = 1 /\ l.command = MEMWRITE /\ l.colmod = 102
      /\ l.pixel = Part(c, 2) /\ l.x = x /\ l.y = y
  BY <1>1, PlacedFields
<1>3. [l EXCEPT !.pixel = <<>>] = k
  BY <1>1 DEF Placed, IsLcd, Fields
<1>4. /\ k.x = x /\ k.y = y
      /\ k.x0 = left /\ k.x1 = left + width - 1 /\ k.y0 = top /\ k.y1 = top + height - 1
  BY <1>1, PlacedFields
<1>5. /\ \A u : [k EXCEPT !.x = u] = Placed(m, <<>>, u, y)
      /\ \A u, v : [k EXCEPT !.x = u, !.y = v] = Placed(m, <<>>, u, v)
  BY <1>1 DEF Placed, IsLcd, Fields
<1> HIDE DEF l, k
<1>6. Access(Panel(l, f), a) = TakesPixelByte(Panel(l, f), c[3])
  BY <1>2, PixelByte
<1>7. p = c /\ Len(p) = 3
  <2>1. p = <<c[1], c[2], c[3]>>
    BY PartAppended
  <2>2. Len(<<c[1], c[2], c[3]>>) = 3
    OBVIOUS
  <2> QED BY <2>1, <2>2
<1>8. Complete(l, p) /\ Rgb(l, p) = c
  BY <1>2, <1>7 DEF Complete, Rgb
<1>9. NextPlace(k) = next
  <2>1. CASE x + 1 <= left + width - 1
    <3>1. NextPlace(k) = [k EXCEPT !.x = x + 1]
      BY <1>4, <2>1 DEF NextPlace
    <3> QED BY <1>5, <2>1, <3>1 DEF NextX, NextY
  <2>2. CASE ~(x + 1 <= left + width - 1)
    <3> DEFINE v == IF y + 1 <= top + height - 1 THEN y + 1 ELSE top
    <3>1. NextPlace(k) = [k EXCEPT !.x = left, !.y = v]
      BY <1>4, <2>2 DEF NextPlace
    <3> QED BY <1>5, <2>2, <3>1 DEF NextX, NextY
  <2> QED BY <2>1, <2>2
<1>10. TakesPixelByte(Panel(l, f), c[3]) = Panel(next, g)
  <2> HIDE DEF p, next
  <2>1. Panel(l, f).lcd = l /\ Panel(l, f).shown = f
    BY Panels
  <2> QED BY <1>2, <1>3, <1>7, <1>8, <1>9, <2>1 DEF TakesPixelByte, p
<1> QED BY <1>6, <1>10 DEF l

\* The place of the decoder after k pixels.
PlaceX(k, left, width) == left + (k % width)
PlaceY(k, top, width, height) == IF k = height * width THEN top ELSE top + k \div width

LEMMA PlaceMoves ==
  ASSUME NEW left, NEW top, NEW width, NEW height, IsWindow(left, top, width, height),
         NEW k \in 0 .. height * width - 1
  PROVE  LET x == PlaceX(k, left, width)
             y == PlaceY(k, top, width, height)
         IN  /\ <<x, y>> = PlaceOf(k, left, top, width)
             /\ NextX(x, left, width) = PlaceX(k + 1, left, width)
             /\ NextY(x, y, left, top, width, height) = PlaceY(k + 1, top, width, height)
<1> DEFINE n == height * width
           q == k \div width
           r == k % width
           q1 == (k + 1) \div width
           r1 == (k + 1) % width
<1>1. left \in Nat /\ top \in Nat /\ width \in Nat \ {0} /\ height \in Nat \ {0}
  BY DEF IsWindow
<1>2. n \in Nat /\ k \in 0 .. n - 1
  BY <1>1, Multiple
<1>3. /\ r + 1 <= width - 1 => r1 = r + 1 /\ q1 = q
      /\ r + 1 > width - 1 => r1 = 0 /\ q1 = q + 1
      /\ k + 1 < n => q1 <= height - 1
      /\ k + 1 = n => r1 = 0 /\ q1 = height
      /\ r \in 0 .. width - 1 /\ q \in 0 .. height - 1
  BY <1>1, NextCell
<1>4. /\ PlaceX(k, left, width) = left + r /\ PlaceX(k + 1, left, width) = left + r1
      /\ PlaceOf(k, left, top, width) = <<left + r, top + q>>
  BY DEF PlaceX, PlaceOf
<1>5. /\ PlaceY(k, top, width, height) = IF k = n THEN top ELSE top + q
      /\ PlaceY(k + 1, top, width, height) = IF k + 1 = n THEN top ELSE top + q1
  BY DEF PlaceY
<1> HIDE DEF n, q, r, q1, r1
<1>6. k # n
  BY <1>2
<1>7. NextX(left + r, left, width) = left + r1
  BY <1>1, <1>2, <1>3 DEF NextX
<1>8. NextY(left + r, top + q, left, top, width, height) = IF k + 1 = n THEN top ELSE top + q1
  <2>1. CASE r + 1 <= width - 1
    <3>1. left + r + 1 <= left + width - 1 /\ k + 1 # n
      BY <1>1, <1>2, <1>3, <2>1
    <3> QED BY <1>3, <2>1, <3>1 DEF NextY
  <2>2. CASE r + 1 > width - 1
    <3>1. ~(left + r + 1 <= left + width - 1)
      BY <1>1, <1>3, <2>2
    <3>2. CASE k + 1 = n
      <4>1. q + 1 = height
        BY <1>1, <1>3, <2>2, <3>2
      <4>2. ~(top + q + 1 <= top + height - 1)
        BY <1>1, <1>3, <4>1
      <4> QED BY <3>1, <3>2, <4>2 DEF NextY
    <3>3. CASE k + 1 # n
      <4>1. q1 = q + 1 /\ q1 <= height - 1
        BY <1>2, <1>3, <2>2, <3>3
      <4>2. top + q + 1 <= top + height - 1 /\ top + q + 1 = top + q1
        BY <1>1, <1>3, <4>1
      <4> QED BY <3>1, <3>3, <4>2 DEF NextY
    <3> QED BY <3>2, <3>3
  <2> QED BY <1>1, <1>3, <2>1, <2>2
<1> QED BY <1>4, <1>5, <1>6, <1>7, <1>8

\* A transfer of pixels draws its window.
Transfers(t, bytes) ==
  /\ IsSeq(t) /\ DOMAIN bytes = 1 .. Len(t)
  /\ \A i \in 1 .. Len(t) : t[i] \in {<<"send", bytes[i]>>, <<"dma", bytes[i]>>}
\* The colours that are sent are those of the picture.
ColouredAs(colour, w, left, top, width, height) ==
  \A p \in Pixels : Covers(p, left, top, width, height)
    => colour[p] = w[p] /\ w[p] = <<w[p][1], w[p][2], w[p][3]>>

LEMMA PixelRuns ==
  ASSUME NEW left, NEW top, NEW width, NEW height, IsWindow(left, top, width, height),
         NEW m, Filling(m, left, top, width, height), m = [i \in DOMAIN m |-> m[i]],
         m.pixel = <<>>, m.x = left, m.y = top,
         NEW f, f = [p \in Pixels |-> f[p]], NEW w, NEW colour,
         ColouredAs(colour, w, left, top, width, height),
         NEW t, Transfers(t, PixelBytes(left, top, width, height, colour))
  PROVE  \E o : /\ Run(t, Panel(m, f), Panel(o, Covered(f, left, top, width, height, w)), w)
                /\ IsLcd(o) /\ o.colmod = 102
<1> DEFINE n == height * width
           bytes == PixelBytes(left, top, width, height, colour)
           k(i) == i \div 3
           r(i) == i % 3
           place(i) == PlaceOf(k(i), left, top, width)
           L(i) == Placed(m, Part(w[place(i)], r(i)), PlaceX(k(i), left, width), PlaceY(k(i), top, width, height))
           F(i) == Painted(f, left, top, width, height, k(i), w)
           S == [i \in 0 .. n * 3 |-> Panel(L(i), F(i))]
<1>1. left \in Nat /\ top \in Nat /\ width \in Nat \ {0} /\ height \in Nat \ {0} /\ n \in Nat \ {0}
  <2>1. left \in Nat /\ top \in Nat /\ width \in Nat \ {0} /\ height \in Nat \ {0}
    BY DEF IsWindow
  <2>2. n \in Nat /\ n >= width
    BY <2>1, Multiple
  <2> QED BY <2>1, <2>2
<1>2. IsSeq(t) /\ Len(t) = n * 3
  <2>1. DOMAIN bytes = 1 .. 3 * width * height
    BY DEF PixelBytes
  <2>2. IsSeq(t) /\ Len(t) \in Nat /\ DOMAIN bytes = 1 .. Len(t)
    BY SeqLen DEF Transfers
  <2> HIDE DEF bytes
  <2>3. 3 * width * height = n * 3 /\ n * 3 \in Nat
    BY <1>1
  <2>4. \A a, b \in Nat : 1 .. a = 1 .. b => a = b
    <3> SUFFICES ASSUME NEW a \in Nat, NEW b \in Nat, 1 .. a = 1 .. b PROVE a = b
      OBVIOUS
    <3>1. CASE a = 0
      <4>1. 1 \notin 1 .. b
        BY <3>1
      <4> QED BY <3>1, <4>1
    <3>2. CASE b = 0
      <4>1. 1 \notin 1 .. a
        BY <3>2
      <4> QED BY <3>2, <4>1
    <3>3. CASE a # 0 /\ b # 0
      <4>1. a \in 1 .. b /\ b \in 1 .. a
        BY <3>3
      <4> QED BY <4>1
    <3> QED BY <3>1, <3>2, <3>3
  <2> QED BY <2>1, <2>2, <2>3, <2>4
<1>3. ASSUME NEW i \in 0 .. n * 3 - 1
      PROVE  /\ k(i) \in 0 .. n - 1 /\ r(i) \in 0 .. 2
             /\ r(i) < 2 => k(i + 1) = k(i) /\ r(i + 1) = r(i) + 1
             /\ r(i) = 2 => k(i + 1) = k(i) + 1 /\ r(i + 1) = 0
             /\ t[i + 1] \in {<<"send", w[place(i)][r(i) + 1]>>, <<"dma", w[place(i)][r(i) + 1]>>}
             /\ place(i) \in Pixels /\ Covers(place(i), left, top, width, height)
  <2>1. /\ k(i) \in 0 .. n - 1 /\ r(i) \in 0 .. 2
        /\ r(i) + 1 <= 2 => k(i + 1) = k(i) /\ r(i + 1) = r(i) + 1
        /\ r(i) + 1 > 2 => k(i + 1) = k(i) + 1 /\ r(i + 1) = 0
    <3> HIDE DEF n
    <3>1. 3 \in Nat \ {0} /\ n \in Nat /\ 3 - 1 = 2
      BY <1>1
    <3>2. /\ (i % 3) + 1 <= 3 - 1 => (i + 1) % 3 = (i % 3) + 1 /\ (i + 1) \div 3 = i \div 3
          /\ (i % 3) + 1 > 3 - 1 => (i + 1) % 3 = 0 /\ (i + 1) \div 3 = i \div 3 + 1
          /\ i % 3 \in 0 .. 3 - 1 /\ i \div 3 \in 0 .. n - 1
      BY <3>1, NextCell, Zenon
    <3> QED BY <3>1, <3>2
  <2>2. place(i) \in Pixels /\ Covers(place(i), left, top, width, height)
    BY <2>1, WindowPlaces
  <2>3. bytes[i + 1] = w[place(i)][r(i) + 1]
    <3>1. i + 1 \in 1 .. 3 * width * height /\ (i + 1) - 1 = i
      BY <1>1
    <3>2. bytes[i + 1] = colour[place(i)][1 + r(i)]
      BY <3>1 DEF PixelBytes, PlaceOf
    <3>3. colour[place(i)] = w[place(i)]
      BY <2>2 DEF ColouredAs
    <3>4. 1 + r(i) = r(i) + 1
      BY <2>1
    <3> QED BY <3>2, <3>3, <3>4
  <2>4. t[i + 1] \in {<<"send", bytes[i + 1]>>, <<"dma", bytes[i + 1]>>}
    <3>1. i + 1 \in 1 .. Len(t)
      BY <1>1, <1>2
    <3> HIDE DEF bytes
    <3> QED BY <3>1 DEF Transfers, bytes
  <2> HIDE DEF bytes, n, k, r, place
  <2> QED BY <2>1, <2>2, <2>3, <2>4
<1>4. \A i \in 0 .. n * 3 : S[i] = Panel(L(i), F(i))
  OBVIOUS
<1>5. S[0] = Panel(m, f)
  <2>1. k(0) = 0 /\ r(0) = 0 /\ 0 \in 0 .. n * 3
    BY <1>1
  <2>2. PlaceX(0, left, width) = left /\ PlaceY(0, top, width, height) = top
    <3>1. 0 \in 0 .. width - 1 /\ 0 \in Nat
      BY <1>1
    <3>2. (0 * width + 0) \div width = 0 /\ (0 * width + 0) % width = 0
      BY <1>1, <3>1, Quotient, Zenon
    <3>3. 0 * width + 0 = 0
      BY <1>1
    <3>4. 0 \div width = 0 /\ 0 % width = 0
      BY <3>2, <3>3
    <3> QED BY <1>1, <3>4 DEF PlaceX, PlaceY
  <2>3. L(0) = Placed(m, <<>>, left, top)
    BY <2>1, <2>2 DEF Part
  <2>4. Placed(m, <<>>, left, top) = m
    BY PlacedAgain DEF Filling
  <2>5. F(0) = f
    BY <2>1, PaintedSteps DEF PaintsOn
  <2> QED BY <1>4, <2>1, <2>3, <2>4, <2>5
<1>6. S[n * 3] = Panel(L(n * 3), Covered(f, left, top, width, height, w))
  <2>1. k(n * 3) = n /\ n * 3 \in 0 .. n * 3
    <3>1. n \in Nat /\ 3 \in Nat \ {0} /\ 0 \in 0 .. 3 - 1
      BY <1>1
    <3> HIDE DEF n
    <3>2. (n * 3 + 0) \div 3 = n
      BY <3>1, Quotient, Zenon
    <3> QED BY <3>1, <3>2
  <2>2. F(n * 3) = Covered(f, left, top, width, height, w)
    BY <2>1, PaintedSteps DEF PaintsOn
  <2> QED BY <1>4, <2>1, <2>2
<1>7. IsLcd(L(n * 3)) /\ L(n * 3).colmod = 102
  BY PlacedFields DEF Filling
<1>8. \A q \in 0 .. height * width - 1 :
        Painted(f, left, top, width, height, q + 1, w)
          = [Painted(f, left, top, width, height, q, w) EXCEPT
               ![PlaceOf(q, left, top, width)] = w[PlaceOf(q, left, top, width)]]
  <2>1. PaintsOn(f, left, top, width, height, w)
    BY PaintedSteps
  <2> QED BY <2>1 DEF PaintsOn
<1>9. ASSUME NEW i \in 1 .. n * 3
      PROVE  S[i] = Access(S[i - 1], t[i]) /\ Toward(S[i - 1].shown, S[i].shown, w)
  <2> DEFINE j == i - 1
  <2>1. j \in 0 .. n * 3 - 1 /\ j \in 0 .. n * 3 /\ j + 1 = i /\ j + 1 \in 0 .. n * 3
    BY <1>1
  <2> HIDE DEF j
  <2> DEFINE c == w[place(j)]
             x == PlaceX(k(j), left, width)
             y == PlaceY(k(j), top, width, height)
  <2>2. S[j] = Panel(L(j), F(j)) /\ S[j + 1] = Panel(L(j + 1), F(j + 1))
    BY <1>4, <2>1
  <2>3. /\ k(j) \in 0 .. n - 1 /\ r(j) \in 0 .. 2
        /\ r(j) < 2 => k(j + 1) = k(j) /\ r(j + 1) = r(j) + 1
        /\ r(j) = 2 => k(j + 1) = k(j) + 1 /\ r(j + 1) = 0
        /\ t[j + 1] \in {<<"send", c[r(j) + 1]>>, <<"dma", c[r(j) + 1]>>}
        /\ place(j) \in Pixels /\ Covers(place(j), left, top, width, height)
    BY <1>3, <2>1
  <2> HIDE DEF S, k, r, n
  <2>4. S[j + 1] = Access(S[j], t[j + 1]) /\ Toward(S[j].shown, S[j + 1].shown, w)
    <3>1. CASE r(j) < 2
      <4>1. k(j + 1) = k(j) /\ r(j + 1) = r(j) + 1 /\ r(j) \in 0 .. 1
        BY <2>3, <3>1
      <4>2. L(j + 1) = Placed(m, Part(c, r(j) + 1), x, y) /\ F(j + 1) = F(j)
        BY <4>1
      <4>3. Access(Panel(L(j), F(j)), t[j + 1]) = Panel(Placed(m, Part(c, r(j) + 1), x, y), F(j))
        BY <2>3, <4>1, PixelPart
      <4>4. S[j + 1] = Access(S[j], t[j + 1])
        BY <2>2, <4>2, <4>3
      <4>5. S[j].shown = F(j) /\ S[j + 1].shown = F(j)
        BY <2>2, <4>2, Panels
      <4> QED BY <4>4, <4>5, TowardItself
    <3>2. CASE r(j) = 2
      <4> DEFINE q == k(j)
                 g == [F(j) EXCEPT ![place(j)] = c]
      <4>1. k(j + 1) = q + 1 /\ r(j + 1) = 0
        BY <2>3, <3>2
      <4>2. /\ <<x, y>> = place(j)
            /\ NextX(x, left, width) = PlaceX(q + 1, left, width)
            /\ NextY(x, y, left, top, width, height) = PlaceY(q + 1, top, width, height)
        BY <2>3, PlaceMoves DEF n
      <4>3. L(j + 1) = Placed(m, <<>>, NextX(x, left, width), NextY(x, y, left, top, width, height))
        BY <4>1, <4>2 DEF Part
      <4>4. F(j + 1) = g
        <5>1. q \in 0 .. height * width - 1
          BY <2>3 DEF n
        <5>2. Painted(f, left, top, width, height, q + 1, w)
                = [Painted(f, left, top, width, height, q, w) EXCEPT
                     ![PlaceOf(q, left, top, width)] = w[PlaceOf(q, left, top, width)]]
          BY <5>1, <1>8
        <5> QED BY <4>1, <5>2
      <4>5. c = <<c[1], c[2], c[3]>>
        BY <2>3 DEF ColouredAs
      <4>6. t[j + 1] \in {<<"send", c[3]>>, <<"dma", c[3]>>}
        BY <2>3, <3>2
      <4>7. <<x, y>> \in Pixels
        BY <2>3, <4>2
      <4> DEFINE next == Placed(m, <<>>, NextX(x, left, width), NextY(x, y, left, top, width, height))
      <4>8. Access(Panel(Placed(m, Part(c, 2), x, y), F(j)), t[j + 1]) = Panel(next, [F(j) EXCEPT ![<<x, y>>] = c])
        <5> HIDE DEF c, x, y, F
        <5> QED BY <4>5, <4>6, <4>7, PixelWhole
      <4>9. S[j + 1] = Access(S[j], t[j + 1])
        BY <2>2, <3>2, <4>2, <4>3, <4>4, <4>8
      <4>10. S[j].shown = F(j) /\ S[j + 1].shown = g
        BY <2>2, <4>4, Panels
      <4>11. Toward(F(j), g, w)
        <5> HIDE DEF place, F
        <5> QED BY <2>3 DEF Toward
      <4> QED BY <4>9, <4>10, <4>11
    <3> QED BY <2>3, <3>1, <3>2
  <2> QED BY <2>1, <2>4 DEF j
<1> HIDE DEF S, L, F
<1>10. RunsAs(S, t, Panel(m, f), Panel(L(n * 3), Covered(f, left, top, width, height, w)), w)
  <2> HIDE DEF n
  <2> QED BY <1>2, <1>5, <1>6, <1>9 DEF RunsAs
<1> QED BY <1>2, <1>7, <1>10 DEF Run

-----------------------------------------------------------------------------
(* The drawing calls.                                                       *)

\* The decoder between two calls.
IsReady(l) == IsLcd(l) /\ l.colmod = 102
IsPicture(f) == f = [p \in Pixels |-> f[p]]
IsColour(c) == c = <<c[1], c[2], c[3]>>
\* A script that draws an area as in the picture w, and nothing else.
Upon(f, A, w) == [p \in Pixels |-> IF p \in A THEN w[p] ELSE f[p]]
Draws(s, A, w) ==
  \A l, f : IsReady(l) /\ IsPicture(f)
    => \E o : Run(s, Panel(l, f), Panel(o, Upon(f, A, w)), w) /\ IsReady(o)

LEMMA NothingDrawn == ASSUME NEW w PROVE Draws(<<>>, {}, w)
<1> SUFFICES ASSUME NEW l, NEW f, IsReady(l), IsPicture(f)
             PROVE  \E o : Run(<<>>, Panel(l, f), Panel(o, Upon(f, {}, w)), w) /\ IsReady(o)
  BY DEF Draws
<1>1. Upon(f, {}, w) = f
  BY DEF Upon, IsPicture
<1>2. Run(<<>>, Panel(l, f), Panel(l, f), w)
  BY RunEmpty
<1> QED BY <1>1, <1>2

LEMMA WindowDraws ==
  ASSUME NEW left, NEW top, NEW width, NEW height, IsWindow(left, top, width, height),
         NEW w, NEW colour, ColouredAs(colour, w, left, top, width, height),
         NEW t, Transfers(t, PixelBytes(left, top, width, height, colour))
  PROVE  Draws(lcd_set_window(left, top, left + width - 1, top + height - 1) \o Data(t),
               {p \in Pixels : Covers(p, left, top, width, height)}, w)
<1> DEFINE A == {p \in Pixels : Covers(p, left, top, width, height)}
           x2 == left + width - 1
           y2 == top + height - 1
           s == lcd_set_window(left, top, x2, y2)
<1> SUFFICES ASSUME NEW l, NEW f, IsReady(l), IsPicture(f)
             PROVE  \E o : Run(s \o Data(t), Panel(l, f), Panel(o, Upon(f, A, w)), w) /\ IsReady(o)
  BY DEF Draws
<1>1. /\ left \in 0 .. ByteMod * ByteMod - 1 /\ top \in 0 .. ByteMod * ByteMod - 1
      /\ x2 \in 0 .. ByteMod * ByteMod - 1 /\ y2 \in 0 .. ByteMod * ByteMod - 1
  <2> DEFINE B == ByteMod * ByteMod
  <2>1. B \in Nat
    BY PortAssumption, Multiple
  <2>2. Width \in 0 .. B /\ Height \in 0 .. B
    BY PortAssumption
  <2> HIDE DEF B
  <2>3. /\ left \in Nat /\ top \in Nat /\ width \in Nat \ {0} /\ height \in Nat \ {0}
        /\ left + width <= Width /\ top + height <= Height
    BY DEF IsWindow
  <2>4. left \in 0 .. B - 1 /\ top \in 0 .. B - 1 /\ x2 \in 0 .. B - 1 /\ y2 \in 0 .. B - 1
    BY <2>1, <2>2, <2>3
  <2> QED BY <2>4 DEF B
<1>2. PICK m : Run(s, Panel(l, f), Panel(m, f), w) /\ Opened(m, left, top, x2, y2)
  BY <1>1, WindowRuns DEF IsReady
<1> DEFINE k == On(m, 1)
<1>3. /\ IsLcd(k) /\ k.cs = 0 /\ k.dc = 1 /\ k.command = MEMWRITE /\ k.colmod = 102 /\ k.pixel = <<>>
      /\ k.x0 = left /\ k.x1 = x2 /\ k.y0 = top /\ k.y1 = y2 /\ k.x = left /\ k.y = top
  <2>1. {"command", "colmod", "params", "pixel", "x0", "x1", "y0", "y1", "x", "y"} \subseteq Fields \ {"cs", "dc"}
    BY DEF Fields
  <2>2. IsLcd(m)
    BY <1>2 DEF Opened
  <2>3. IsLcd(k) /\ k.cs = 0 /\ k.dc = 1 /\ \A x \in Fields \ {"cs", "dc"} : k[x] = m[x]
    BY <2>2, Selected
  <2> HIDE DEF k
  <2>4. /\ k.command = m.command /\ k.colmod = m.colmod /\ k.pixel = m.pixel
        /\ k.x0 = m.x0 /\ k.x1 = m.x1 /\ k.y0 = m.y0 /\ k.y1 = m.y1 /\ k.x = m.x /\ k.y = m.y
    BY <2>1, <2>3
  <2> QED BY <1>2, <2>3, <2>4 DEF Opened
<1>4. k = [i \in DOMAIN k |-> k[i]]
  BY DEF On
<1> HIDE DEF k
<1>5. Filling(k, left, top, width, height)
  BY <1>3 DEF Filling
<1>6. PICK o : /\ Run(t, Panel(k, f), Panel(o, Covered(f, left, top, width, height, w)), w)
               /\ IsLcd(o) /\ o.colmod = 102
  BY <1>3, <1>4, <1>5, PixelRuns DEF IsPicture
<1>7. Covered(f, left, top, width, height, w) = Upon(f, A, w)
  BY DEF Covered, Upon
<1>8. Run(Data(t), Panel(m, f), Panel(Off(o), Upon(f, A, w)), w)
  BY <1>6, <1>7, TransferRuns DEF Data, k
<1>9. IsReady(Off(o))
  <2>1. "colmod" \in Fields \ {"cs", "dc"}
    BY DEF Fields
  <2> QED BY <1>6, <2>1, Selected DEF IsReady
<1>10. Run(s \o Data(t), Panel(l, f), Panel(Off(o), Upon(f, A, w)), w)
  BY <1>2, <1>8, RunConcat, Zenon
<1> QED BY <1>9, <1>10

\* The bytes of pixels, moved by the processor or by DMA.
LEMMA PixelTransfers ==
  ASSUME NEW left, NEW top, NEW width \in Nat, NEW height \in Nat, NEW colour
  PROVE  LET bytes == PixelBytes(left, top, width, height, colour)
         IN  Transfers(spi_write(bytes), bytes) /\ Transfers(dma(bytes), bytes)
<1> DEFINE bytes == PixelBytes(left, top, width, height, colour)
           n == 3 * width * height
<1>1. n \in Nat /\ DOMAIN bytes = 1 .. n
  BY Multiple DEF PixelBytes
<1> HIDE DEF bytes, n
<1>2. ASSUME NEW t, t \in {spi_write(bytes), dma(bytes)}
      PROVE  Transfers(t, bytes)
  <2>1. t = [i \in 1 .. n |-> t[i]] /\ \A i \in 1 .. n : t[i] \in {<<"send", bytes[i]>>, <<"dma", bytes[i]>>}
    BY <1>1, <1>2 DEF spi_write, dma
  <2>2. IsSeq(t) /\ Len(t) = n
    BY <1>1, <2>1, TransferSeq
  <2> QED BY <1>1, <2>1, <2>2 DEF Transfers
<1>3. Transfers(spi_write(bytes), bytes) /\ Transfers(dma(bytes), bytes)
  BY <1>2
<1> QED BY <1>3 DEF bytes

Box(x1, y1, x2, y2) == {p \in Pixels : p[1] \in x1 .. x2 /\ p[2] \in y1 .. y2}

LEMMA RectangleDraws ==
  ASSUME NEW x1 \in Int, NEW y1 \in Int, NEW x2 \in Int, NEW y2 \in Int, NEW w, NEW colour,
         \A p \in Box(x1, y1, x2, y2) : colour[p] = w[p] /\ IsColour(w[p])
  PROVE  Draws(Rectangle(x1, y1, x2, y2, colour), Box(x1, y1, x2, y2), w)
<1> DEFINE left == Low(x1)
           top == Low(y1)
           right == High(x2, Width)
           bottom == High(y2, Height)
           width == right - left + 1
           height == bottom - top + 1
           A == Box(x1, y1, x2, y2)
           t == spi_write(PixelBytes(left, top, width, height, colour))
           s == lcd_set_window(left, top, left + width - 1, top + height - 1) \o Data(t)
<1>1. Width \in Nat /\ Height \in Nat
  BY ScreenAssumption
<1>2. /\ left \in Nat /\ top \in Nat /\ right \in Int /\ bottom \in Int
      /\ right <= Width - 1 /\ bottom <= Height - 1
      /\ \A i \in 0 .. Width - 1 : i \in x1 .. x2 <=> i \in left .. right
      /\ \A i \in 0 .. Height - 1 : i \in y1 .. y2 <=> i \in top .. bottom
  BY <1>1 DEF Low, High
<1>3. Rectangle(x1, y1, x2, y2, colour) = IF width <= 0 \/ height <= 0 THEN <<>> ELSE s
  BY DEF Rectangle
<1>4. A = {p \in Pixels : p[1] \in left .. right /\ p[2] \in top .. bottom}
  BY <1>2 DEF Box, Pixels
<1> HIDE DEF left, top, right, bottom
<1>5. CASE width <= 0 \/ height <= 0
  <2>1. A = {}
    BY <1>2, <1>4, <1>5
  <2>2. Draws(<<>>, {}, w)
    BY NothingDrawn
  <2>3. Rectangle(x1, y1, x2, y2, colour) = <<>>
    BY <1>3, <1>5
  <2> QED BY <2>1, <2>2, <2>3
<1>6. CASE ~(width <= 0 \/ height <= 0)
  <2>1. IsWindow(left, top, width, height)
    BY <1>1, <1>2, <1>6 DEF IsWindow
  <2>2. A = {p \in Pixels : Covers(p, left, top, width, height)}
    <3>1. \A p \in Pixels : p[1] \in left .. right /\ p[2] \in top .. bottom <=> Covers(p, left, top, width, height)
      BY <1>1, <1>2 DEF Covers, Pixels
    <3> HIDE DEF A
    <3> QED BY <1>4, <3>1
  <2>3. ColouredAs(colour, w, left, top, width, height)
    BY <2>2 DEF ColouredAs, IsColour
  <2>4. Transfers(t, PixelBytes(left, top, width, height, colour))
    <3>1. width \in Nat /\ height \in Nat
      BY <1>2, <1>6
    <3> HIDE DEF width, height
    <3> QED BY <3>1, PixelTransfers
  <2> HIDE DEF t, A, width, height
  <2>5. Draws(s, A, w)
    BY <2>1, <2>2, <2>3, <2>4, WindowDraws
  <2>6. Rectangle(x1, y1, x2, y2, colour) = s
    BY <1>3, <1>6 DEF width, height
  <2> QED BY <2>5, <2>6 DEF A
<1> QED BY <1>5, <1>6

\* A script that turns the picture f into w.
Paints(s, f, w) == \A l : IsReady(l) => \E o : Run(s, Panel(l, f), Panel(o, w), w) /\ IsReady(o)

LEMMA DrawsPaints ==
  ASSUME NEW s, NEW A, NEW f, NEW w, Draws(s, A, w), IsPicture(f), IsPicture(w),
         \A p \in Pixels : p \notin A => w[p] = f[p]
  PROVE  Paints(s, f, w)
<1>1. Upon(f, A, w) = w
  BY DEF Upon, IsPicture
<1> QED BY <1>1 DEF Draws, Paints

LEMMA Triples == \A c \in Colours : IsColour(c)
BY DEF Colours, IsColour

LEMMA FillPaints ==
  ASSUME NEW x1 \in Int, NEW y1 \in Int, NEW x2 \in Int, NEW y2 \in Int, NEW rgb \in Colours,
         NEW f, IsPicture(f)
  PROVE  LET w == sim_fill_rect(f, x1, y1, x2, y2, rgb)
         IN  IsPicture(w) /\ Paints(lcd_fill_rect(x1, y1, x2, y2, rgb), f, w)
<1> DEFINE w == sim_fill_rect(f, x1, y1, x2, y2, rgb)
           A == Box(x1, y1, x2, y2)
           colour == [p \in Pixels |-> rgb]
<1>1. w = [p \in Pixels |-> IF p \in A THEN rgb ELSE f[p]]
  BY DEF sim_fill_rect, Box
<1>2. A \subseteq Pixels
  BY DEF Box
<1>3. IsColour(rgb)
  BY Triples
<1> HIDE DEF w, A
<1>4. IsPicture(w)
  BY <1>1 DEF IsPicture
<1>5. \A p \in A : colour[p] = w[p] /\ IsColour(w[p])
  BY <1>1, <1>2, <1>3
<1> HIDE DEF colour
<1>6. Draws(Rectangle(x1, y1, x2, y2, colour), A, w)
  BY <1>5, RectangleDraws DEF A
<1>7. Paints(Rectangle(x1, y1, x2, y2, colour), f, w)
  BY <1>1, <1>4, <1>6, DrawsPaints
<1> QED BY <1>4, <1>7 DEF lcd_fill_rect, w, colour

LEMMA BlitPaints ==
  ASSUME NEW c \in Calls, c.op \in {"blit", "dma"}, NEW f, IsPicture(f)
  PROVE  LET w == picocalc_lcd_blit_rgb(f, c) IN IsPicture(w) /\ Paints(blit_rgb(c), f, w)
<1> DEFINE w == picocalc_lcd_blit_rgb(f, c)
           A == {p \in Pixels : Covers(p, c.x, c.y, c.width, c.height)}
           I(p) == (p[2] - c.y) * c.width + p[1] - c.x + 1
           colour == [p \in Pixels |-> c.rgb[I(p)]]
           bytes == PixelBytes(c.x, c.y, c.width, c.height, colour)
           t == IF c.op = "dma" THEN dma(bytes) ELSE spi_write(bytes)
           s == lcd_set_window(c.x, c.y, c.x + c.width - 1, c.y + c.height - 1) \o Data(t)
<1>1. /\ {c.x, c.y, c.width, c.height} \subseteq Int
      /\ c.width > 0 /\ c.height > 0 => c.rgb \in [1 .. c.width * c.height -> Colours]
  BY ScreenAssumption DEF TextCalls
<1>2. w = [p \in Pixels |-> IF Accepted(c) /\ Covers(p, c.x, c.y, c.width, c.height) THEN c.rgb[I(p)] ELSE f[p]]
  BY DEF picocalc_lcd_blit_rgb, Covers
<1>3. IsPicture(w)
  BY <1>2 DEF IsPicture
<1>4. blit_rgb(c) = IF Accepted(c) THEN s ELSE <<>>
  BY DEF blit_rgb
<1> HIDE DEF w
<1>5. CASE ~Accepted(c)
  <2>1. \A p \in Pixels : w[p] = f[p]
    BY <1>2, <1>5
  <2>2. Paints(<<>>, f, w)
    BY <1>3, <2>1, NothingDrawn, DrawsPaints
  <2> QED BY <1>3, <1>4, <1>5, <2>2 DEF w
<1>6. CASE Accepted(c)
  <2>1. IsWindow(c.x, c.y, c.width, c.height)
    BY <1>1, <1>6 DEF Accepted, IsWindow
  <2>2. ASSUME NEW p \in Pixels, Covers(p, c.x, c.y, c.width, c.height)
        PROVE  colour[p] = w[p] /\ IsColour(w[p])
    <3>1. Rank(p, c.x, c.y, c.width) \in 0 .. c.height * c.width - 1
      BY <2>1, <2>2, RankOf
    <3>2. I(p) \in 1 .. c.width * c.height
      <4>1. p[1] \in Int /\ p[2] \in Int
        BY ScreenAssumption DEF Pixels
      <4>2. c.x \in Int /\ c.y \in Int /\ c.width \in Int /\ c.height \in Int
        BY <1>1
      <4>3. c.height * c.width = c.width * c.height
        BY <4>2
      <4>4. (p[2] - c.y) * c.width \in Int
        BY <4>1, <4>2
      <4>5. I(p) = Rank(p, c.x, c.y, c.width) + 1
        <5> DEFINE q == (p[2] - c.y) * c.width
        <5>1. q \in Int
          BY <4>4
        <5> HIDE DEF q
        <5>2. q + p[1] - c.x + 1 = q + (p[1] - c.x) + 1
          BY <4>1, <4>2, <5>1
        <5> QED BY <5>2 DEF Rank, q
      <4> HIDE DEF I
      <4> QED BY <3>1, <4>2, <4>3, <4>5
    <3>3. c.rgb[I(p)] \in Colours
      <4> HIDE DEF I
      <4> QED BY <1>1, <1>6, <3>2 DEF Accepted
    <3> HIDE DEF I
    <3> QED BY <1>2, <1>6, <2>2, <3>3, Triples
  <2>3. ColouredAs(colour, w, c.x, c.y, c.width, c.height)
    BY <2>2 DEF ColouredAs, IsColour
  <2>4. Transfers(t, bytes)
    <3>1. c.width \in Nat /\ c.height \in Nat
      BY <1>1, <1>6 DEF Accepted
    <3> HIDE DEF colour
    <3>2. Transfers(spi_write(bytes), bytes) /\ Transfers(dma(bytes), bytes)
      BY <3>1, PixelTransfers
    <3> HIDE DEF bytes
    <3> QED BY <3>2
  <2> HIDE DEF t, colour
  <2>5. Draws(s, A, w)
    BY <2>1, <2>3, <2>4, WindowDraws
  <2> HIDE DEF s
  <2>6. \A p \in Pixels : p \notin A => w[p] = f[p]
    BY <1>2
  <2> HIDE DEF A
  <2>7. Paints(s, f, w)
    BY <1>3, <2>5, <2>6, DrawsPaints
  <2> QED BY <1>3, <1>4, <1>6, <2>7 DEF w
<1> QED BY <1>5, <1>6

LEMMA CallPaints ==
  ASSUME NEW c \in Calls, c.op # "puts", NEW f, IsPicture(f)
  PROVE  IsPicture(Draw(f, c)) /\ Paints(Script(c), f, Draw(f, c))
<1>1. CASE c.op = "clear"
  <2>1. c.rgb \in Colours /\ 0 \in Int /\ Width - 1 \in Int /\ Height - 1 \in Int
    BY <1>1, ScreenAssumption DEF TextCalls
  <2>2. Draw(f, c) = sim_fill_rect(f, 0, 0, Width - 1, Height - 1, c.rgb)
    BY <1>1 DEF Draw
  <2>3. Script(c) = lcd_fill_rect(0, 0, Width - 1, Height - 1, c.rgb)
    BY <1>1 DEF Script
  <2> QED BY <2>1, <2>2, <2>3, FillPaints
<1>2. CASE c.op = "fill"
  <2>1. c.rgb \in Colours /\ c.x1 \in Int /\ c.y1 \in Int /\ c.x2 \in Int /\ c.y2 \in Int
    BY <1>2, ScreenAssumption DEF TextCalls
  <2>2. Draw(f, c) = sim_fill_rect(f, c.x1, c.y1, c.x2, c.y2, c.rgb)
    BY <1>2 DEF Draw
  <2>3. Script(c) = lcd_fill_rect(c.x1, c.y1, c.x2, c.y2, c.rgb)
    BY <1>2 DEF Script
  <2> QED BY <2>1, <2>2, <2>3, FillPaints
<1>3. CASE c.op \in {"blit", "dma"}
  <2>1. Draw(f, c) = picocalc_lcd_blit_rgb(f, c) /\ Script(c) = blit_rgb(c)
    BY <1>3 DEF Draw, Script
  <2> QED BY <1>3, <2>1, BlitPaints
<1>4. c.op \in {"clear", "fill", "blit", "dma"}
  BY ScreenAssumption DEF TextCalls
<1> QED BY <1>1, <1>2, <1>3, <1>4

\* A character: each pixel of its cell has the colour of its square.
InkAt(x, y, ch, fg, bg, scale, p) ==
  blend_color(fg, bg, Alpha[ch][(p[2] - y) \div scale][(p[1] - x) \div scale])

LEMMA BlendIsColour ==
  ASSUME NEW fg \in Colours, NEW bg \in Colours, NEW alpha
  PROVE  IsColour(blend_color(fg, bg, alpha)) /\ sim_blend_color(fg, bg, alpha) = blend_color(fg, bg, alpha)
<1>1. sim_blend_color(fg, bg, alpha) = blend_color(fg, bg, alpha)
  BY DEF sim_blend_color, blend_color, sim_blend_channel, blend_channel
<1>2. IsColour([i \in 1 .. 3 |-> blend_channel(fg[i], bg[i], alpha)])
  <2> DEFINE b(i) == blend_channel(fg[i], bg[i], alpha)
  <2> HIDE DEF b
  <2>1. IsColour([i \in 1 .. 3 |-> b(i)])
    BY DEF IsColour
  <2> QED BY <2>1 DEF b
<1>3. IsColour(fg) /\ IsColour(bg)
  BY Triples
<1> QED BY <1>1, <1>2, <1>3 DEF blend_color

LEMMA SquareOf ==
  ASSUME NEW a \in Int, NEW p \in Int, NEW scale \in Nat \ {0}, NEW n \in Nat
  PROVE  /\ \A i \in 0 .. n - 1 : p - (a + i * scale) \in 0 .. scale - 1
              => i = (p - a) \div scale /\ p \in a .. a + n * scale - 1
         /\ p \in a .. a + n * scale - 1
              => /\ (p - a) \div scale \in 0 .. n - 1
                 /\ p - (a + ((p - a) \div scale) * scale) \in 0 .. scale - 1
<1> DEFINE u == p - a
<1>1. ASSUME NEW i \in 0 .. n - 1, p - (a + i * scale) \in 0 .. scale - 1
      PROVE  i = u \div scale /\ p \in a .. a + n * scale - 1
  <2> DEFINE r == p - (a + i * scale)
             j == i * scale
             d == n - (i + 1)
  <2>1. i \in Nat /\ j \in Nat /\ n * scale \in Nat
    BY Multiple
  <2>2. r \in 0 .. scale - 1 /\ u = j + r
    BY <1>1, <2>1
  <2>3. d \in Nat /\ n = (i + 1) + d /\ i + 1 \in Nat
    OBVIOUS
  <2> HIDE DEF r, d
  <2>4. (i * scale + r) \div scale = i
    BY <2>1, <2>2, Quotient, Zenon
  <2>5. n * scale = (i + 1) * scale + d * scale /\ d * scale \in Nat /\ (i + 1) * scale = j + scale
    BY <2>1, <2>3, Multiple
  <2> HIDE DEF j
  <2>6. p >= a /\ p <= a + n * scale - 1
    BY <2>1, <2>2, <2>5
  <2>7. i = u \div scale
    BY <2>2, <2>4 DEF j
  <2> QED BY <2>1, <2>6, <2>7
<1>2. ASSUME p \in a .. a + n * scale - 1
      PROVE  u \div scale \in 0 .. n - 1 /\ p - (a + (u \div scale) * scale) \in 0 .. scale - 1
  <2> DEFINE q == u \div scale
             r == u % scale
  <2>1. n * scale \in Nat
    BY Multiple
  <2>2. u \in 0 .. n * scale - 1 /\ u \in Nat
    BY <1>2, <2>1
  <2> HIDE DEF u
  <2>3. q \in 0 .. n - 1 /\ r \in 0 .. scale - 1 /\ u = q * scale + r
    BY <2>2, BelowProduct, Divided
  <2> HIDE DEF q, r
  <2>4. q * scale \in Nat
    BY <2>3, Multiple
  <2>5. p - (a + q * scale) = r
    BY <2>3, <2>4 DEF u
  <2> QED BY <2>3, <2>5 DEF q
<1> QED BY <1>1, <1>2

CharShown(f, x, y, ch, fg, bg, scale) ==
  [p \in Pixels |-> IF p \in Box(x, y, x + CellW * scale - 1, y + CellH * scale - 1)
                    THEN InkAt(x, y, ch, fg, bg, scale, p) ELSE f[p]]

LEMMA CharPicture ==
  ASSUME NEW f, NEW x \in Int, NEW y \in Int, NEW ch \in DOMAIN Alpha,
         NEW fg \in Colours, NEW bg \in Colours, NEW scale \in Nat \ {0}
  PROVE  sim_draw_char(f, x, y, ch, fg, bg, scale) = CharShown(f, x, y, ch, fg, bg, scale)
<1> DEFINE A == Box(x, y, x + CellW * scale - 1, y + CellH * scale - 1)
           cell == sim_fill_rect(f, x, y, x + CellW * scale - 1, y + CellH * scale - 1, bg)
           Squares(p) ==
             {s \in (0 .. CellH - 1) \X (0 .. CellW - 1) :
                /\ Alpha[ch][s[1]][s[2]] # 0
                /\ p[1] - (x + s[2] * scale) \in 0 .. scale - 1
                /\ p[2] - (y + s[1] * scale) \in 0 .. scale - 1}
           Value(p) ==
             IF Squares(p) = {} THEN cell[p]
             ELSE LET s == CHOOSE s \in Squares(p) : TRUE
                  IN  sim_blend_color(fg, bg, Alpha[ch][s[1]][s[2]])
           row(p) == (p[2] - y) \div scale
           col(p) == (p[1] - x) \div scale
<1>1. sim_draw_char(f, x, y, ch, fg, bg, scale) = [p \in Pixels |-> Value(p)]
  BY DEF sim_draw_char
<1>2. \A p \in Pixels : cell[p] = IF p \in A THEN bg ELSE f[p]
  BY DEF sim_fill_rect, Box
<1>3. CellW \in Nat /\ CellH \in Nat /\ \A p \in Pixels : p[1] \in Int /\ p[2] \in Int
  BY ScreenAssumption DEF Pixels
<1>4. \A p \in Pixels : p \in A <=> p[1] \in x .. x + CellW * scale - 1 /\ p[2] \in y .. y + CellH * scale - 1
  BY DEF Box
<1> HIDE DEF A, cell
<1>5. ASSUME NEW p \in Pixels
      PROVE  /\ \A s \in Squares(p) : s = <<row(p), col(p)>> /\ Alpha[ch][row(p)][col(p)] # 0 /\ p \in A
             /\ p \in A /\ Alpha[ch][row(p)][col(p)] # 0 => <<row(p), col(p)>> \in Squares(p)
  <2>1. p[1] \in Int /\ p[2] \in Int
    BY <1>3
  <2>2. ASSUME NEW s \in Squares(p)
        PROVE  s = <<row(p), col(p)>> /\ Alpha[ch][row(p)][col(p)] # 0 /\ p \in A
    <3>1. s = <<s[1], s[2]>> /\ s[1] \in 0 .. CellH - 1 /\ s[2] \in 0 .. CellW - 1
      BY <1>3
    <3>2. /\ Alpha[ch][s[1]][s[2]] # 0
          /\ p[1] - (x + s[2] * scale) \in 0 .. scale - 1
          /\ p[2] - (y + s[1] * scale) \in 0 .. scale - 1
      OBVIOUS
    <3>3. s[2] = col(p) /\ p[1] \in x .. x + CellW * scale - 1
      <4>1. \A i \in 0 .. CellW - 1 : p[1] - (x + i * scale) \in 0 .. scale - 1
              => i = col(p) /\ p[1] \in x .. x + CellW * scale - 1
        BY <1>3, <2>1, SquareOf
      <4> HIDE DEF row, col
      <4> QED BY <3>1, <3>2, <4>1
    <3>4. s[1] = row(p) /\ p[2] \in y .. y + CellH * scale - 1
      <4>1. \A i \in 0 .. CellH - 1 : p[2] - (y + i * scale) \in 0 .. scale - 1
              => i = row(p) /\ p[2] \in y .. y + CellH * scale - 1
        BY <1>3, <2>1, SquareOf
      <4> HIDE DEF row, col
      <4> QED BY <3>1, <3>2, <4>1
    <3> HIDE DEF row, col, Squares
    <3> QED BY <1>4, <3>1, <3>2, <3>3, <3>4
  <2>3. ASSUME p \in A, Alpha[ch][row(p)][col(p)] # 0
        PROVE  <<row(p), col(p)>> \in Squares(p)
    <3>1. p[1] \in x .. x + CellW * scale - 1 /\ p[2] \in y .. y + CellH * scale - 1
      BY <1>4, <2>3
    <3>2. col(p) \in 0 .. CellW - 1 /\ p[1] - (x + col(p) * scale) \in 0 .. scale - 1
      BY <1>3, <2>1, <3>1, SquareOf
    <3>3. row(p) \in 0 .. CellH - 1 /\ p[2] - (y + row(p) * scale) \in 0 .. scale - 1
      BY <1>3, <2>1, <3>1, SquareOf
    <3> HIDE DEF row, col
    <3> QED BY <2>3, <3>2, <3>3
  <2> QED BY <2>2, <2>3
<1>6. ASSUME NEW p \in Pixels
      PROVE  Value(p) = IF p \in A THEN InkAt(x, y, ch, fg, bg, scale, p) ELSE f[p]
  <2> DEFINE alpha == Alpha[ch][row(p)][col(p)]
  <2>1. InkAt(x, y, ch, fg, bg, scale, p) = blend_color(fg, bg, alpha)
    BY DEF InkAt
  <2>2. alpha = 0 => blend_color(fg, bg, alpha) = bg
    BY DEF blend_color
  <2>3. sim_blend_color(fg, bg, alpha) = blend_color(fg, bg, alpha)
    BY BlendIsColour
  <2>4. /\ \A s \in Squares(p) : s = <<row(p), col(p)>> /\ alpha # 0 /\ p \in A
        /\ p \in A /\ alpha # 0 => <<row(p), col(p)>> \in Squares(p)
    BY <1>5
  <2>5. Value(p) = IF Squares(p) = {} THEN cell[p]
                   ELSE LET s == CHOOSE s \in Squares(p) : TRUE
                        IN  sim_blend_color(fg, bg, Alpha[ch][s[1]][s[2]])
    OBVIOUS
  <2> HIDE DEF Squares, Value
  <2>6. CASE Squares(p) = {}
    <3>1. Value(p) = IF p \in A THEN bg ELSE f[p]
      BY <1>2, <2>5, <2>6
    <3>2. p \in A => alpha = 0
      <4> HIDE DEF alpha
      <4> QED BY <2>4, <2>6
    <3> HIDE DEF alpha
    <3> QED BY <2>1, <2>2, <3>1, <3>2
  <2>7. CASE Squares(p) # {}
    <3> DEFINE s == CHOOSE s \in Squares(p) : TRUE
    <3>1. s \in Squares(p)
      BY <2>7
    <3>2. Value(p) = sim_blend_color(fg, bg, Alpha[ch][s[1]][s[2]])
      BY <2>5, <2>7
    <3> HIDE DEF s
    <3>3. s = <<row(p), col(p)>> /\ p \in A
      BY <2>4, <3>1
    <3>4. s[1] = row(p) /\ s[2] = col(p)
      BY <3>3
    <3> HIDE DEF row, col
    <3> QED BY <2>1, <2>3, <3>2, <3>3, <3>4
  <2> QED BY <2>6, <2>7
<1> HIDE DEF Value
<1> QED BY <1>1, <1>6 DEF A, CharShown

LEMMA CharDraws ==
  ASSUME NEW x \in Int, NEW y \in Int, NEW ch, NEW fg \in Colours, NEW bg \in Colours,
         NEW scale \in Nat, NEW w,
         \A p \in Box(x, y, x + CellW * scale - 1, y + CellH * scale - 1) :
            w[p] = InkAt(x, y, ch, fg, bg, scale, p)
  PROVE  Draws(lcd_draw_char(x, y, ch, fg, bg, scale),
               Box(x, y, x + CellW * scale - 1, y + CellH * scale - 1), w)
<1> DEFINE x2 == x + CellW * scale - 1
           y2 == y + CellH * scale - 1
           colour == [p \in Pixels |-> blend_color(fg, bg, Alpha[ch][(p[2] - y) \div scale][(p[1] - x) \div scale])]
<1>1. x2 \in Int /\ y2 \in Int
  BY ScreenAssumption, Multiple
<1>2. \A p \in Box(x, y, x2, y2) : colour[p] = w[p] /\ IsColour(w[p])
  BY BlendIsColour DEF InkAt, Box
<1>3. lcd_draw_char(x, y, ch, fg, bg, scale) = Rectangle(x, y, x2, y2, colour)
  BY DEF lcd_draw_char
<1> HIDE DEF x2, y2, colour
<1>4. Draws(Rectangle(x, y, x2, y2, colour), Box(x, y, x2, y2), w)
  BY <1>1, <1>2, RectangleDraws
<1> QED BY <1>3, <1>4 DEF x2, y2

-----------------------------------------------------------------------------
(* Text.                                                                    *)

CharX(c, i) == c.x + (i - 1) * CellW * AtLeastOne(c.scale)
CellOf(c, i) ==
  Box(CharX(c, i), c.y, CharX(c, i) + CellW * AtLeastOne(c.scale) - 1, c.y + CellH * AtLeastOne(c.scale) - 1)
InkOf(c, i, p) == InkAt(CharX(c, i), c.y, c.text[i], c.fg, c.bg, AtLeastOne(c.scale), p)

LEMMA TextFields ==
  ASSUME NEW c \in TextCalls
  PROVE  /\ c.x \in Int /\ c.y \in Int /\ c.fg \in Colours /\ c.bg \in Colours
         /\ c.text \in Seq(DOMAIN Alpha) /\ Len(c.text) \in Nat /\ DOMAIN c.text = 1 .. Len(c.text)
         /\ AtLeastOne(c.scale) \in Nat \ {0} /\ CellW \in Nat /\ CellH \in Nat
         /\ \A i \in 1 .. Len(c.text) : c.text[i] \in DOMAIN Alpha
         /\ \A i \in Int : CharX(c, i) \in Int
<1>1. /\ c.x \in Int /\ c.y \in Int /\ c.fg \in Colours /\ c.bg \in Colours /\ c.scale \in Int
      /\ c.text \in Seq(DOMAIN Alpha) /\ CellW \in Nat /\ CellH \in Nat
  BY ScreenAssumption DEF TextCalls
<1>2. AtLeastOne(c.scale) \in Nat \ {0}
  BY <1>1 DEF AtLeastOne
<1>3. Len(c.text) \in Nat /\ DOMAIN c.text = 1 .. Len(c.text)
  BY <1>1, LenProperties
<1>4. \A i \in 1 .. Len(c.text) : c.text[i] \in DOMAIN Alpha
  BY <1>1, <1>3, ElementOfSeq
<1> DEFINE s == AtLeastOne(c.scale)
<1> HIDE DEF s
<1>5. \A i \in Int : CharX(c, i) \in Int
  BY <1>1, <1>2 DEF CharX, s
<1> QED BY <1>1, <1>2, <1>3, <1>4, <1>5

\* The cells lie side by side.
LEMMA CellsApart ==
  ASSUME NEW c \in TextCalls, NEW i \in Nat, NEW j \in Nat, i < j, NEW p \in CellOf(c, i)
  PROVE  p \notin CellOf(c, j)
<1> DEFINE u == CellW * AtLeastOne(c.scale)
           k == i - 1
           d == j - i
           x == c.x
<1>1. u \in Nat /\ x \in Int
  <2>1. AtLeastOne(c.scale) \in Nat /\ CellW \in Nat /\ x \in Int
    BY TextFields
  <2> QED BY <2>1, Multiple
<1>2. CharX(c, i) = x + k * u /\ CharX(c, j) = x + (k + d) * u
  <2> DEFINE s == AtLeastOne(c.scale)
  <2>1. s \in Int /\ CellW \in Int
    BY TextFields
  <2> HIDE DEF s
  <2>2. \A a \in Int : a * CellW * s = a * (CellW * s)
    BY <2>1
  <2>3. k \in Int /\ j - 1 \in Int /\ j - 1 = k + d
    OBVIOUS
  <2> QED BY <2>2, <2>3 DEF CharX, s
<1>3. d \in Nat \ {0} /\ k \in Int
  OBVIOUS
<1>4. p[1] \in CharX(c, i) .. CharX(c, i) + u - 1
  BY DEF CellOf, Box
<1>5. p \in CellOf(c, j) => p[1] \in CharX(c, j) .. CharX(c, j) + u - 1
  BY DEF CellOf, Box
<1> HIDE DEF u, k, d, x
<1>6. (k + d) * u = k * u + d * u /\ d * u >= u /\ k * u \in Int /\ d * u \in Int
  <2>1. d * u >= u /\ d * u \in Int
    BY <1>1, <1>3, Multiple
  <2> QED BY <1>1, <1>3, <2>1
<1>7. p[1] \in Int
  BY <1>4
<1> QED BY <1>1, <1>2, <1>4, <1>5, <1>6, <1>7

LEMMA LastIn ==
  ASSUME NEW n \in Nat, NEW S \in SUBSET (1 .. n), S # {}
  PROVE  Max(S) \in S
<1> DEFINE T == {n - i : i \in S}
<1>1. T \in SUBSET Nat /\ T # {}
  <2>1. \A i \in S : n - i \in Nat
    OBVIOUS
  <2> QED BY <2>1
<1>2. PICK m \in T : \A j \in T : m <= j
  <2> HIDE DEF T
  <2> QED BY <1>1, NatLeast
<1>3. PICK i \in S : m = n - i
  BY <1>2
<1>4. \A j \in S : i >= j
  <2> SUFFICES ASSUME NEW j \in S PROVE i >= j
    OBVIOUS
  <2>1. n - j \in T
    OBVIOUS
  <2>2. n - i <= n - j
    BY <1>2, <1>3, <2>1
  <2> QED BY <2>2
<1> QED BY <1>4, Zenon DEF Max

LEMMA LastOf ==
  ASSUME NEW k \in Nat \ {0}
  PROVE  Max(1 .. k) = k /\ (1 .. k) \ {Max(1 .. k)} = 1 .. k - 1 /\ 1 .. k # {}
<1>1. \A x : x \in 1 .. k /\ (\A y \in 1 .. k : x >= y) <=> x = k
  OBVIOUS
<1>2. Max(1 .. k) = k
  BY <1>1, Zenon DEF Max
<1>3. (1 .. k) \ {k} = 1 .. k - 1 /\ k \in 1 .. k
  OBVIOUS
<1> QED BY <1>2, <1>3

\* What a text is drawn as.
TextShown(f, c, S) ==
  [p \in Pixels |-> IF \E i \in S : p \in CellOf(c, i)
                    THEN InkOf(c, CHOOSE i \in 1 .. Len(c.text) : p \in CellOf(c, i), p) ELSE f[p]]

LEMMA CharAdded ==
  ASSUME NEW c \in TextCalls, NEW S \in SUBSET (1 .. Len(c.text)), NEW m \in S, NEW f
  PROVE  TextShown(f, c, S)
           = sim_draw_char(TextShown(f, c, S \ {m}), CharX(c, m), c.y, c.text[m], c.fg, c.bg, AtLeastOne(c.scale))
<1> DEFINE n == Len(c.text)
           Which(p) == CHOOSE i \in 1 .. n : p \in CellOf(c, i)
           g == TextShown(f, c, S \ {m})
           h == sim_draw_char(g, CharX(c, m), c.y, c.text[m], c.fg, c.bg, AtLeastOne(c.scale))
<1>1. n \in Nat /\ m \in 1 .. n /\ S \subseteq 1 .. n
  BY TextFields
<1>2. /\ c.x \in Int /\ c.y \in Int /\ c.fg \in Colours /\ c.bg \in Colours
      /\ AtLeastOne(c.scale) \in Nat \ {0} /\ c.text[m] \in DOMAIN Alpha /\ CharX(c, m) \in Int
  BY <1>1, TextFields
<1>3. h = [p \in Pixels |-> IF p \in CellOf(c, m) THEN InkOf(c, m, p) ELSE g[p]]
  <2> HIDE DEF g
  <2> DEFINE scale == AtLeastOne(c.scale)
             x == CharX(c, m)
  <2>1. scale \in Nat \ {0} /\ x \in Int
    BY <1>2
  <2> HIDE DEF scale, x
  <2>2. sim_draw_char(g, x, c.y, c.text[m], c.fg, c.bg, scale)
          = CharShown(g, x, c.y, c.text[m], c.fg, c.bg, scale)
    BY <1>2, <2>1, CharPicture
  <2> QED BY <2>2 DEF CharShown, CellOf, InkOf, scale, x
<1>4. \A p \in Pixels : p \in CellOf(c, m) => Which(p) = m
  <2> SUFFICES ASSUME NEW p \in Pixels, p \in CellOf(c, m) PROVE Which(p) = m
    OBVIOUS
  <2>1. \A i \in 1 .. n : p \in CellOf(c, i) => i = m
    <3> SUFFICES ASSUME NEW i \in 1 .. n, p \in CellOf(c, i), i # m PROVE FALSE
      OBVIOUS
    <3>1. i \in Nat /\ m \in Nat /\ (i < m \/ m < i)
      BY <1>1
    <3> QED BY <3>1, CellsApart
  <2>2. Which(p) \in 1 .. n /\ p \in CellOf(c, Which(p))
    BY <1>1
  <2> QED BY <2>1, <2>2
<1>5. TextShown(f, c, S) = [p \in Pixels |-> IF \E i \in S : p \in CellOf(c, i) THEN InkOf(c, Which(p), p) ELSE f[p]]
  BY DEF TextShown
<1>6. g = [p \in Pixels |-> IF \E i \in S \ {m} : p \in CellOf(c, i) THEN InkOf(c, Which(p), p) ELSE f[p]]
  BY DEF TextShown
<1> HIDE DEF h, g, Which
<1>7. \A p \in Pixels : (\E i \in S : p \in CellOf(c, i)) <=> p \in CellOf(c, m) \/ \E i \in S \ {m} : p \in CellOf(c, i)
  OBVIOUS
<1>8. ASSUME NEW p \in Pixels
      PROVE  TextShown(f, c, S)[p] = h[p]
  <2>1. CASE p \in CellOf(c, m)
    <3>1. TextShown(f, c, S)[p] = InkOf(c, Which(p), p)
      BY <1>5, <1>7, <2>1
    <3>2. h[p] = InkOf(c, m, p)
      BY <1>3, <2>1
    <3>3. Which(p) = m
      BY <1>4, <2>1
    <3> QED BY <3>1, <3>2, <3>3
  <2>2. CASE p \notin CellOf(c, m)
    <3>1. h[p] = g[p]
      BY <1>3, <2>2
    <3>2. TextShown(f, c, S)[p] = IF \E i \in S \ {m} : p \in CellOf(c, i) THEN InkOf(c, Which(p), p) ELSE f[p]
      BY <1>5, <1>7, <2>2
    <3> QED BY <1>6, <3>1, <3>2
  <2> QED BY <2>1, <2>2
<1>9. /\ TextShown(f, c, S) = [p \in Pixels |-> TextShown(f, c, S)[p]]
      /\ h = [p \in Pixels |-> h[p]]
  BY <1>3, <1>5
<1>10. TextShown(f, c, S) = h
  <2> DEFINE t == TextShown(f, c, S)
  <2>1. t = [p \in Pixels |-> t[p]] /\ h = [p \in Pixels |-> h[p]] /\ \A p \in Pixels : t[p] = h[p]
    BY <1>8, <1>9
  <2> HIDE DEF t
  <2>2. t = h
    BY <2>1
  <2> QED BY <2>2 DEF t
<1> QED BY <1>10 DEF h, g

LEMMA TextPicture ==
  ASSUME NEW c \in TextCalls, NEW f, IsPicture(f)
  PROVE  picocalc_lcd_puts_scale(f, c) = TextShown(f, c, 1 .. Len(c.text))
<1> DEFINE n == Len(c.text)
           idx == [i \in DOMAIN c.text |-> i]
           Step(g, i) == sim_draw_char(g, c.x + (i - 1) * CellW * AtLeastOne(c.scale), c.y, c.text[i], c.fg, c.bg,
                                       AtLeastOne(c.scale))
           Eq(F) == F = [S \in SUBSET DOMAIN idx |-> IF S = {} THEN f ELSE Step(F[S \ {Max(S)}], idx[Max(S)])]
           Z == CHOOSE F : Eq(F)
           G == [S \in SUBSET DOMAIN idx |-> TextShown(f, c, S)]
<1>1. n \in Nat /\ DOMAIN c.text = 1 .. n /\ DOMAIN idx = 1 .. n /\ \A i \in 1 .. n : idx[i] = i
  BY TextFields
<1>2. picocalc_lcd_puts_scale(f, c) = Z[DOMAIN idx]
  BY DEF picocalc_lcd_puts_scale, FoldLeftDomain, FoldLeft, MapThenFoldSet, Max
<1>3. \A S \in SUBSET (1 .. n) : \A m \in S : TextShown(f, c, S) = Step(TextShown(f, c, S \ {m}), m)
  BY CharAdded DEF CharX
<1> HIDE DEF Step, idx
<1>4. Eq(G)
  <2>1. TextShown(f, c, {}) = f
    BY DEF TextShown, IsPicture
  <2>2. ASSUME NEW S \in SUBSET DOMAIN idx, S # {}
        PROVE  TextShown(f, c, S) = Step(G[S \ {Max(S)}], idx[Max(S)])
    <3>1. Max(S) \in S
      BY <1>1, <2>2, LastIn
    <3>2. Max(S) \in 1 .. n /\ S \ {Max(S)} \in SUBSET DOMAIN idx
      BY <1>1, <3>1
    <3>3. G[S \ {Max(S)}] = TextShown(f, c, S \ {Max(S)}) /\ idx[Max(S)] = Max(S)
      BY <1>1, <3>2
    <3> QED BY <1>1, <1>3, <3>1, <3>3
  <2> QED BY <2>1, <2>2
<1>5. Eq(Z)
  <2> HIDE DEF Eq
  <2> QED BY <1>4, Zenon
<1> HIDE DEF Z
<1> DEFINE K == {k \in 0 .. n : Z[1 .. k] = TextShown(f, c, 1 .. k)}
<1>6. 0 \in K
  <2>1. 1 .. 0 = {} /\ {} \in SUBSET DOMAIN idx
    OBVIOUS
  <2>2. TextShown(f, c, {}) = f
    BY DEF TextShown, IsPicture
  <2> QED BY <1>1, <1>5, <2>1, <2>2
<1>7. ASSUME NEW k \in 0 .. n - 1, k \in K PROVE k + 1 \in K
  <2> DEFINE j == k + 1
  <2>1. j \in 1 .. n /\ j \in Nat \ {0} /\ j \in 0 .. n /\ j - 1 = k /\ 1 .. j \in SUBSET (1 .. n) /\ j \in 1 .. j
    BY <1>1
  <2> HIDE DEF j
  <2>2. Max(1 .. j) = j /\ (1 .. j) \ {Max(1 .. j)} = 1 .. k /\ 1 .. j # {}
    BY <2>1, LastOf
  <2>3. Z[1 .. j] = Step(Z[1 .. k], j)
    <3> DEFINE T == 1 .. j
    <3>1. T \in SUBSET DOMAIN idx /\ T # {} /\ Max(T) = j /\ T \ {Max(T)} = 1 .. k /\ idx[j] = j
      BY <1>1, <2>1, <2>2
    <3> HIDE DEF T
    <3>2. Z[T] = Step(Z[T \ {Max(T)}], idx[Max(T)])
      BY <1>5, <3>1
    <3> QED BY <3>1, <3>2 DEF T
  <2>4. TextShown(f, c, 1 .. j) = Step(TextShown(f, c, 1 .. k), j)
    BY <1>3, <2>1, <2>2
  <2> QED BY <1>7, <2>1, <2>3, <2>4 DEF j
<1> HIDE DEF K
<1>8. n \in K
  BY <1>1, <1>6, <1>7, UpTo DEF Steps
<1> QED BY <1>1, <1>2, <1>8 DEF K

-----------------------------------------------------------------------------
(* What is on its way: the bytes of the port and then the rest of the      *)
(* script take the display from d to e.                                    *)

Way(tx, d, s, e, w) == IsSeq(tx) /\ \E m : Run(spi_write(tx), d, m, w) /\ Run(s, m, e, w)

LEMMA TupleSeq ==
  ASSUME NEW n \in Nat, NEW A, NEW t \in [1 .. n -> A]
  PROVE  t \in Seq(A) /\ Len(t) = n
OBVIOUS

\* The transfer of one byte more.
LEMMA SendsMore ==
  ASSUME NEW t, IsSeq(t), NEW b
  PROVE  IsSeq(Append(t, b)) /\ spi_write(Append(t, b)) = spi_write(t) \o <<<<"send", b>>>>
<1>1. PICK S : t \in Seq(S)
  BY DEF IsSeq
<1> DEFINE B == S \cup {b}
           A == {<<"send", x>> : x \in B}
           u == Append(t, b)
           n == Len(t)
<1>2. t \in Seq(B) /\ b \in B
  BY <1>1
<1> HIDE DEF B
<1>3. /\ u \in Seq(B) /\ n \in Nat /\ Len(u) = n + 1 /\ DOMAIN t = 1 .. n /\ DOMAIN u = 1 .. n + 1
      /\ \A i \in 1 .. n : u[i] = t[i]
      /\ u[n + 1] = b
  BY <1>2
<1> HIDE DEF u, n
<1>4. /\ spi_write(u) \in [1 .. n + 1 -> A] /\ spi_write(t) \in [1 .. n -> A]
      /\ \A i \in 1 .. n + 1 : spi_write(u)[i] = <<"send", u[i]>>
      /\ \A i \in 1 .. n : spi_write(t)[i] = <<"send", t[i]>>
  <2>1. \A i \in 1 .. n + 1 : u[i] \in B
    BY <1>3, ElementOfSeq
  <2>2. \A i \in 1 .. n : t[i] \in B
    BY <1>2, <1>3, ElementOfSeq DEF n
  <2> QED BY <1>3, <2>1, <2>2 DEF spi_write
<1> DEFINE s == <<"send", b>>
           v == spi_write(t)
           r == spi_write(u)
<1>5. s \in A
  BY <1>2
<1>6. s = <<"send", u[n + 1]>>
  BY <1>3
<1> HIDE DEF A, s, v, r
<1>7. v \in Seq(A) /\ r \in Seq(A) /\ Len(v) = n /\ Len(r) = n + 1
  <2>1. n \in Nat /\ n + 1 \in Nat /\ v \in [1 .. n -> A] /\ r \in [1 .. n + 1 -> A]
    BY <1>3, <1>4 DEF v, r
  <2> QED BY <2>1, TupleSeq, Zenon
<1>8. ASSUME NEW i \in 1 .. n PROVE r[i] = v[i]
  <2>1. i \in 1 .. n + 1 /\ u[i] = t[i]
    BY <1>3
  <2>2. r[i] = <<"send", u[i]>> /\ v[i] = <<"send", t[i]>>
    BY <1>4, <2>1, Zenon DEF v, r
  <2> QED BY <2>1, <2>2
<1>9. r[n + 1] = s
  BY <1>3, <1>4, <1>6 DEF r
<1>10. /\ v \o <<s>> \in Seq(A) /\ Len(v \o <<s>>) = n + 1
       /\ \A i \in 1 .. n + 1 : (v \o <<s>>)[i] = r[i]
  BY <1>3, <1>5, <1>7, <1>8, <1>9
<1>11. v \o <<s>> = r
  BY <1>7, <1>10, SeqEqual
<1> QED BY <1>3, <1>11 DEF IsSeq, v, r, s, u

\* The transfer of the first byte, and of the others.
LEMMA SendsFirst ==
  ASSUME NEW t, IsSeq(t), t # <<>>
  PROVE  /\ spi_write(t) # <<>> /\ spi_write(t)[1] = <<"send", Head(t)>>
         /\ IsSeq(Tail(t)) /\ Tail(spi_write(t)) = spi_write(Tail(t))
<1>1. PICK B : t \in Seq(B)
  BY DEF IsSeq
<1> DEFINE A == {<<"send", x>> : x \in B}
           u == Tail(t)
           n == Len(t)
           v == spi_write(t)
           r == spi_write(u)
<1>2. /\ u \in Seq(B) /\ n \in Nat \ {0} /\ Len(u) = n - 1 /\ DOMAIN t = 1 .. n /\ DOMAIN u = 1 .. n - 1
      /\ \A i \in 1 .. n - 1 : u[i] = t[i + 1]
      /\ Head(t) = t[1]
  BY <1>1
<1> HIDE DEF u, n
<1>3. /\ \A i \in 1 .. n : t[i] \in B
      /\ \A i \in 1 .. n - 1 : u[i] \in B
  BY <1>1, <1>2, ElementOfSeq DEF n
<1>4. /\ v \in [1 .. n -> A] /\ r \in [1 .. n - 1 -> A]
      /\ \A i \in 1 .. n : v[i] = <<"send", t[i]>>
      /\ \A i \in 1 .. n - 1 : r[i] = <<"send", u[i]>>
  BY <1>2, <1>3 DEF spi_write
<1> HIDE DEF A, v, r
<1>5. v \in Seq(A) /\ r \in Seq(A) /\ Len(v) = n /\ Len(r) = n - 1
  <2>1. n \in Nat /\ n - 1 \in Nat
    BY <1>2
  <2> QED BY <1>4, <2>1, TupleSeq, Zenon
<1>6. ASSUME NEW i \in 1 .. n - 1 PROVE r[i] = v[i + 1]
  <2>1. i + 1 \in 1 .. n /\ u[i] = t[i + 1]
    BY <1>2
  <2>2. r[i] = <<"send", u[i]>> /\ v[i + 1] = <<"send", t[i + 1]>>
    BY <1>4, <2>1, Zenon
  <2> QED BY <2>1, <2>2
<1>7. v # <<>>
  BY <1>2, <1>5
<1>8. Tail(v) \in Seq(A) /\ Len(Tail(v)) = n - 1 /\ \A i \in 1 .. n - 1 : Tail(v)[i] = v[i + 1]
  BY <1>2, <1>5, <1>7
<1>9. Tail(v) = r
  BY <1>5, <1>6, <1>8, SeqEqual
<1>10. v[1] = <<"send", Head(t)>>
  BY <1>2, <1>4
<1> QED BY <1>2, <1>7, <1>9, <1>10 DEF IsSeq, v, r, u

LEMMA SendsNothing == IsSeq(<<>>) /\ spi_write(<<>>) = <<>>
<1>1. IsSeq(<<>>)
  BY SettledEmpty DEF Settled
<1> QED BY <1>1 DEF spi_write

\* A byte goes out.
LEMMA WayMoves ==
  ASSUME NEW tx, NEW d, NEW s, NEW e, NEW w, Way(tx, d, s, e, w), tx # <<>>
  PROVE  LET next == emu_lcd_spi_byte(d, Head(tx))
         IN  Toward(d.shown, next.shown, w) /\ Way(Tail(tx), next, s, e, w)
<1> DEFINE next == emu_lcd_spi_byte(d, Head(tx))
<1>1. PICK m : Run(spi_write(tx), d, m, w) /\ Run(s, m, e, w)
  BY DEF Way
<1>2. /\ spi_write(tx) # <<>> /\ spi_write(tx)[1] = <<"send", Head(tx)>>
      /\ IsSeq(Tail(tx)) /\ Tail(spi_write(tx)) = spi_write(Tail(tx))
  BY SendsFirst DEF Way
<1>3. Access(d, spi_write(tx)[1]) = next
  BY <1>2, SendAccess
<1> HIDE DEF next
<1>4. Toward(d.shown, next.shown, w) /\ Run(spi_write(Tail(tx)), next, m, w)
  BY <1>1, <1>2, <1>3, RunFirst
<1>5. Way(Tail(tx), next, s, e, w)
  BY <1>1, <1>2, <1>4 DEF Way
<1> QED BY <1>4, <1>5 DEF next

\* The driver waits, or hands over a byte.
LEMMA WayWaits ==
  ASSUME NEW tx, NEW d, NEW s, NEW e, NEW w, Way(tx, d, s, e, w),
         s # <<>>, ~IsPut(s[1]), ~IsSend(s[1])
  PROVE  Way(tx, d, Tail(s), e, w)
<1>1. PICK m : Run(spi_write(tx), d, m, w) /\ Run(s, m, e, w)
  BY DEF Way
<1>2. Access(m, s[1]) = m
  BY DEF Access
<1>3. Run(Tail(s), m, e, w)
  BY <1>1, <1>2, RunFirst
<1> QED BY <1>1, <1>3 DEF Way

LEMMA WaySends ==
  ASSUME NEW tx, NEW d, NEW s, NEW e, NEW w, Way(tx, d, s, e, w), s # <<>>, IsSend(s[1])
  PROVE  Way(Append(tx, s[1][2]), d, Tail(s), e, w)
<1> DEFINE b == s[1][2]
<1>1. PICK m : Run(spi_write(tx), d, m, w) /\ Run(s, m, e, w)
  BY DEF Way
<1> DEFINE o == emu_lcd_spi_byte(m, b)
<1>2. Access(m, s[1]) = o /\ Access(m, <<"send", b>>) = o
  <2>1. ~IsPut(s[1])
    BY DEF IsPut, IsSend
  <2> QED BY <2>1, SendAccess DEF Access
<1> HIDE DEF o, b
<1>3. Toward(m.shown, o.shown, w) /\ Run(Tail(s), o, e, w)
  BY <1>1, <1>2, RunFirst
<1>4. Run(<<<<"send", b>>>>, m, o, w)
  BY <1>2, <1>3, RunOne
<1>5. Run(spi_write(tx) \o <<<<"send", b>>>>, d, o, w)
  BY <1>1, <1>4, RunConcat, Zenon
<1>6. IsSeq(Append(tx, b)) /\ spi_write(Append(tx, b)) = spi_write(tx) \o <<<<"send", b>>>>
  BY SendsMore DEF Way
<1>7. Run(spi_write(Append(tx, b)), d, o, w)
  BY <1>5, <1>6
<1>8. Way(Append(tx, b), d, Tail(s), e, w)
  BY <1>3, <1>6, <1>7 DEF Way
<1> QED BY <1>8 DEF b

\* With nothing in the port the display is where the script starts.
LEMMA WayQuiet ==
  ASSUME NEW d, NEW s, NEW e, NEW w
  PROVE  Way(<<>>, d, s, e, w) <=> Run(s, d, e, w)
<1>1. \A m : Run(spi_write(<<>>), d, m, w) <=> d = m
  BY RunEmpty, SendsNothing
<1> QED BY <1>1, SendsNothing DEF Way

LEMMA WayPuts ==
  ASSUME NEW l, NEW f, NEW s, NEW e, NEW w, Way(<<>>, Panel(l, f), s, e, w), s # <<>>, IsPut(s[1])
  PROVE  Way(<<>>, Panel(Signal(l, s[1]), f), Tail(s), e, w)
<1>1. Access(Panel(l, f), s[1]) = Panel(Signal(l, s[1]), f)
  BY Panels DEF Access
<1>2. Run(Tail(s), Panel(Signal(l, s[1]), f), e, w)
  BY <1>1, RunFirst, WayQuiet
<1> QED BY <1>2, WayQuiet

\* What is left of a text is what a picture f lacks of the picture w.
Remains(c, f, w) ==
  /\ \A i \in 1 .. Len(c.text) : \A p \in CellOf(c, i) : w[p] = InkOf(c, i, p)
  /\ \A p \in Pixels : f[p] = w[p] \/ \E i \in 1 .. Len(c.text) : p \in CellOf(c, i)

LEMMA NothingRemains ==
  ASSUME NEW c, c.text = <<>>, NEW f, NEW w, IsPicture(f), IsPicture(w)
  PROVE  Remains(c, f, w) <=> f = w
<1>1. 1 .. Len(c.text) = {}
  OBVIOUS
<1>2. Remains(c, f, w) <=> \A p \in Pixels : f[p] = w[p]
  BY <1>1 DEF Remains
<1>3. (\A p \in Pixels : f[p] = w[p]) => f = w
  BY DEF IsPicture
<1> QED BY <1>2, <1>3

\* A text that is called for remains as a whole.
LEMMA TextRemains ==
  ASSUME NEW c \in TextCalls, NEW f, IsPicture(f)
  PROVE  LET w == picocalc_lcd_puts_scale(f, c)
         IN  IsPicture(w) /\ Remains(c, f, w)
<1> DEFINE n == Len(c.text)
           w == TextShown(f, c, 1 .. n)
<1>1. picocalc_lcd_puts_scale(f, c) = w
  BY TextPicture
<1>2. /\ IsPicture(w)
      /\ \A p \in Pixels : w[p] = IF \E i \in 1 .. n : p \in CellOf(c, i)
                                  THEN InkOf(c, CHOOSE i \in 1 .. n : p \in CellOf(c, i), p) ELSE f[p]
  BY DEF TextShown, IsPicture
<1> HIDE DEF w
<1>3. ASSUME NEW i \in 1 .. n, NEW p \in CellOf(c, i) PROVE w[p] = InkOf(c, i, p)
  <2> DEFINE j == CHOOSE k \in 1 .. n : p \in CellOf(c, k)
  <2>1. j \in 1 .. n /\ p \in CellOf(c, j)
    BY <1>3, Zenon
  <2>2. p \in Pixels
    BY DEF CellOf, Box
  <2>3. w[p] = InkOf(c, j, p)
    BY <1>2, <1>3, <2>2
  <2> HIDE DEF j
  <2>4. i = j
    <3>1. n \in Nat
      BY TextFields
    <3>2. i \in Nat /\ j \in Nat /\ (i < j \/ j < i \/ i = j)
      BY <2>1, <3>1
    <3> QED BY <1>3, <2>1, <3>2, CellsApart
  <2> QED BY <2>3, <2>4
<1>4. ASSUME NEW p \in Pixels PROVE f[p] = w[p] \/ \E i \in 1 .. n : p \in CellOf(c, i)
  BY <1>2
<1>5. Remains(c, f, w)
  BY <1>3, <1>4 DEF Remains
<1> QED BY <1>1, <1>2, <1>5

\* The first character is drawn, and the others remain.
LEMMA CharRemains ==
  ASSUME NEW c \in TextCalls, c.text # <<>>, NEW f, NEW w, Remains(c, f, w),
         NEW d, d = [c EXCEPT !.text = Tail(@), !.x = @ + CellW * AtLeastOne(c.scale)]
  PROVE  /\ Draws(lcd_draw_char(c.x, c.y, Head(c.text), c.fg, c.bg, AtLeastOne(c.scale)), CellOf(c, 1), w)
         /\ Remains(d, Upon(f, CellOf(c, 1), w), w)
<1> DEFINE n == Len(c.text)
           u == CellW * AtLeastOne(c.scale)
           s == AtLeastOne(c.scale)
           g == Upon(f, CellOf(c, 1), w)
<1>1. /\ c.x \in Int /\ c.y \in Int /\ c.fg \in Colours /\ c.bg \in Colours
      /\ s \in Nat \ {0} /\ CellW \in Nat /\ c.text \in Seq(DOMAIN Alpha)
  BY TextFields
<1>2. /\ n \in Nat \ {0} /\ Head(c.text) = c.text[1] /\ Len(Tail(c.text)) = n - 1
      /\ \A i \in 1 .. n - 1 : Tail(c.text)[i] = c.text[i + 1]
  BY <1>1
<1>3. /\ d.text = Tail(c.text) /\ d.x = c.x + u /\ d.y = c.y /\ d.fg = c.fg /\ d.bg = c.bg /\ d.scale = c.scale
  BY DEF TextCalls
<1>4. u \in Nat
  BY <1>1, Multiple
<1>5. CharX(c, 1) = c.x
  <2> HIDE DEF s
  <2> QED BY <1>1 DEF CharX, s
<1>6. Draws(lcd_draw_char(c.x, c.y, Head(c.text), c.fg, c.bg, s), CellOf(c, 1), w)
  <2>1. CellOf(c, 1) = Box(c.x, c.y, c.x + CellW * s - 1, c.y + CellH * s - 1)
    BY <1>5 DEF CellOf
  <2>2. \A p \in CellOf(c, 1) : w[p] = InkAt(c.x, c.y, Head(c.text), c.fg, c.bg, s, p)
    <3>1. 1 \in 1 .. n
      BY <1>2
    <3>2. \A p \in CellOf(c, 1) : w[p] = InkOf(c, 1, p)
      BY <3>1 DEF Remains
    <3> QED BY <1>2, <1>5, <3>2 DEF InkOf
  <2> HIDE DEF s
  <2> QED BY <1>1, <2>1, <2>2, CharDraws
<1>7. ASSUME NEW i \in 1 .. n - 1
      PROVE  CellOf(d, i) = CellOf(c, i + 1) /\ \A p : InkOf(d, i, p) = InkOf(c, i + 1, p)
  <2>1. CharX(d, i) = CharX(c, i + 1)
    <3>1. \A a \in Int : a * CellW * s = a * (CellW * s)
      BY <1>1
    <3>2. i - 1 \in Int /\ i \in Int /\ (i + 1) - 1 = i
      BY <1>2
    <3> DEFINE k == i - 1
    <3>3. CharX(d, i) = c.x + u + k * u /\ CharX(c, i + 1) = c.x + i * u
      BY <1>3, <3>1, <3>2 DEF CharX
    <3> HIDE DEF u
    <3>4. i * u = u + k * u /\ k * u \in Int
      <4>1. i = 1 + k
        BY <3>2
      <4> HIDE DEF k
      <4> QED BY <1>4, <3>2, <4>1 DEF k
    <3> QED BY <1>1, <1>4, <3>3, <3>4
  <2>2. d.text[i] = c.text[i + 1]
    BY <1>2, <1>3
  <2> HIDE DEF n
  <2> QED BY <1>3, <2>1, <2>2 DEF CellOf, InkOf
<1>8. ASSUME NEW i \in 1 .. Len(d.text), NEW p \in CellOf(d, i) PROVE w[p] = InkOf(d, i, p)
  <2>1. i \in 1 .. n - 1 /\ i + 1 \in 1 .. n
    BY <1>2, <1>3
  <2> QED BY <1>7, <2>1 DEF Remains
<1>9. ASSUME NEW p \in Pixels PROVE g[p] = w[p] \/ \E i \in 1 .. Len(d.text) : p \in CellOf(d, i)
  <2>1. CASE p \in CellOf(c, 1)
    BY <2>1 DEF Upon
  <2>2. CASE p \notin CellOf(c, 1)
    <3>1. g[p] = f[p]
      BY <2>2 DEF Upon
    <3>2. CASE \E i \in 1 .. n : p \in CellOf(c, i)
      <4>1. PICK i \in 1 .. n : p \in CellOf(c, i)
        BY <3>2
      <4>2. i - 1 \in 1 .. n - 1 /\ i - 1 \in 1 .. Len(d.text) /\ (i - 1) + 1 = i
        BY <1>2, <1>3, <2>2, <4>1
      <4>3. p \in CellOf(d, i - 1)
        BY <1>7, <4>1, <4>2
      <4> QED BY <4>2, <4>3
    <3>3. CASE ~(\E i \in 1 .. n : p \in CellOf(c, i))
      BY <3>1, <3>3 DEF Remains
    <3> QED BY <3>2, <3>3
  <2> QED BY <2>1, <2>2
<1>10. Remains(d, g, w)
  BY <1>8, <1>9 DEF Remains
<1> QED BY <1>6, <1>10

-----------------------------------------------------------------------------
(* The link between two steps.                                              *)

\* What is on its way, and the rest of a text, complete the picture.
Finishing(tx, d, s, c, w) ==
  \E l, f : Way(tx, d, s, Panel(l, f), w) /\ IsReady(l) /\ IsPicture(f) /\ Remains(c, f, w)
DrawInv ==
  IsPicture(shown) /\ IsPicture(wanted) /\ Finishing(spi.tx, Panel(lcd, shown), script, puts, wanted)

\* The decoder's result is its state and a picture.
LEMMA ByteIsPanel ==
  ASSUME NEW l, NEW f, NEW byte
  PROVE  LET e == emu_lcd_spi_byte(Panel(l, f), byte) IN Panel(e.lcd, e.shown) = e
<1> DEFINE d == Panel(l, f)
           e == emu_lcd_spi_byte(d, byte)
<1>1. \A m, g : Panel(Panel(m, g).lcd, Panel(m, g).shown) = Panel(m, g)
  BY Panels
<1>2. \E m, g : e = Panel(m, g)
  <2>1. \/ e = d \/ e = Panel(TakesCommand(d.lcd, byte), d.shown)
        \/ e = Panel(TakesParam(d.lcd, byte), d.shown) \/ e = TakesPixelByte(d, byte)
    BY Zenon DEF emu_lcd_spi_byte
  <2>2. \E m, g : TakesPixelByte(d, byte) = Panel(m, g)
    BY Zenon DEF TakesPixelByte
  <2> HIDE DEF e
  <2> QED BY <2>1, <2>2, Zenon
<1> HIDE DEF e
<1>3. Panel(e.lcd, e.shown) = e
  BY <1>1, <1>2
<1> QED BY <1>3 DEF e

LEMMA TowardPicture ==
  ASSUME NEW f, NEW g, NEW w, IsPicture(f), Toward(f, g, w)
  PROVE  IsPicture(g) /\ (g = f \/ \E p \in Pixels : f[p] # w[p] /\ g = [f EXCEPT ![p] = w[p]])
<1>1. CASE g = f
  BY <1>1
<1>2. ASSUME NEW p \in Pixels, g = [f EXCEPT ![p] = w[p]]
      PROVE  IsPicture(g) /\ (f[p] # w[p] \/ g = f)
  BY <1>2 DEF IsPicture
<1> QED BY <1>1, <1>2 DEF Toward

\* Looking after the port, whether a byte goes out or not.
LEMMA ServiceDraws ==
  ASSUME PortInv, DrawInv, spi_service
  PROVE  /\ Finishing(Serviced.tx, Panel(lcd, shown)', script, puts, wanted)
         /\ IsPicture(shown') /\ Toward(shown, shown', wanted)
<1>1. PICK l, f : /\ Way(spi.tx, Panel(lcd, shown), script, Panel(l, f), wanted)
                  /\ IsReady(l) /\ IsPicture(f) /\ Remains(puts, f, wanted)
  BY DEF DrawInv, Finishing
<1> DEFINE now == Panel(lcd, shown)
           next == emu_lcd_spi_byte(now, Head(spi.tx))
<1>2. CASE Moves
  <2>1. Serviced.tx = Tail(spi.tx) /\ spi.tx # <<>>
    BY <1>2 DEF Serviced, Moves, PortInv
  <2>2. lcd' = next.lcd /\ shown' = next.shown
    BY <1>2 DEF spi_service
  <2>3. Panel(next.lcd, next.shown) = next /\ now.shown = shown
    BY ByteIsPanel, Panels
  <2>4. Toward(now.shown, next.shown, wanted) /\ Way(Tail(spi.tx), next, script, Panel(l, f), wanted)
    BY <1>1, <2>1, WayMoves
  <2> HIDE DEF next, now
  <2>5. Panel(lcd, shown)' = next /\ Toward(shown, shown', wanted)
    BY <2>2, <2>3, <2>4
  <2>6. IsPicture(shown')
    BY <2>5, TowardPicture DEF DrawInv
  <2> QED BY <1>1, <2>1, <2>4, <2>5, <2>6 DEF Finishing
<1>3. CASE ~Moves
  <2>1. Serviced = spi
    BY <1>3 DEF Serviced
  <2>2. lcd' = now.lcd /\ shown' = now.shown
    BY <1>3 DEF spi_service
  <2>3. lcd' = lcd /\ shown' = shown
    BY <2>2, Panels
  <2> QED BY <1>1, <2>1, <2>3, TowardItself DEF DrawInv, Finishing
<1> QED BY <1>2, <1>3

LEMMA InitDraws == LinkInit => DrawInv /\ ScreenInit
<1> SUFFICES ASSUME LinkInit PROVE DrawInv /\ ScreenInit
  OBVIOUS
<1>1. /\ ScreenInit /\ script = lcd_init_panel /\ puts.text = <<>> /\ spi.tx = <<>>
  BY DEF LinkInit, NoText
<1>2. IsLcd(lcd)
  BY DEF LinkInit, IsLcd, Fields
<1>3. IsPicture(shown) /\ wanted = shown
  BY <1>1 DEF ScreenInit, IsPicture
<1>4. PICK l : Run(script, Panel(lcd, shown), Panel(l, shown), wanted) /\ IsLcd(l) /\ l.colmod = 102
  BY <1>1, <1>2, InitRuns
<1>5. Way(spi.tx, Panel(lcd, shown), script, Panel(l, shown), wanted)
  BY <1>1, <1>4, WayQuiet
<1>6. Remains(puts, shown, wanted)
  BY <1>1, <1>3, NothingRemains
<1> QED BY <1>1, <1>3, <1>4, <1>5, <1>6 DEF DrawInv, Finishing, IsReady

\* Each step of the link keeps the invariant, and is a call, a pixel painted
\* or nothing that the display shows.
LEMMA NextDraws == PortInv /\ DrawInv /\ [LinkNext]_linkVars => DrawInv' /\ [ScreenNext]_<<shown, wanted>>
<1> SUFFICES ASSUME PortInv, DrawInv, [LinkNext]_linkVars
             PROVE  DrawInv' /\ [ScreenNext]_<<shown, wanted>>
  OBVIOUS
<1>1. PICK l, f : /\ Way(spi.tx, Panel(lcd, shown), script, Panel(l, f), wanted)
                  /\ IsReady(l) /\ IsPicture(f) /\ Remains(puts, f, wanted)
  BY DEF DrawInv, Finishing
<1>2. IsPicture(shown) /\ IsPicture(wanted)
  BY DEF DrawInv
\* A step that is not a call paints a pixel or none.
<1>3. ASSUME wanted' = wanted, Toward(shown, shown', wanted) PROVE [ScreenNext]_<<shown, wanted>>
  <2>1. shown' = shown \/ \E p \in Pixels : shown[p] # wanted[p] /\ shown' = [shown EXCEPT ![p] = wanted[p]]
    BY <1>2, <1>3, TowardPicture
  <2> QED BY <1>3, <2>1 DEF ScreenNext, Paint
\* One that leaves the display alone.
<1>4. ASSUME shown' = shown, wanted' = wanted, puts' = puts,
             Way(spi.tx, Panel(lcd, shown), script, Panel(l, f), wanted)'
      PROVE  DrawInv' /\ [ScreenNext]_<<shown, wanted>>
  <2>1. Way(spi'.tx, Panel(lcd', shown'), script', Panel(l, f), wanted')
    BY <1>4
  <2>2. DrawInv'
    BY <1>1, <1>2, <1>4, <2>1 DEF DrawInv, Finishing
  <2> QED BY <1>4, <2>2
\* And one that looks after the port.
<1>5. ASSUME spi_service, wanted' = wanted, puts' = puts,
             \A e : Way(Serviced.tx, Panel(lcd, shown)', script, e, wanted)
                      => Way(spi'.tx, Panel(lcd, shown)', script', e, wanted)
      PROVE  DrawInv' /\ [ScreenNext]_<<shown, wanted>>
  <2>1. /\ Finishing(Serviced.tx, Panel(lcd, shown)', script, puts, wanted)
        /\ IsPicture(shown') /\ Toward(shown, shown', wanted)
    BY <1>5, ServiceDraws
  <2>2. PICK m, g : /\ Way(Serviced.tx, Panel(lcd, shown)', script, Panel(m, g), wanted)
                    /\ IsReady(m) /\ IsPicture(g) /\ Remains(puts, g, wanted)
    BY <2>1 DEF Finishing
  <2>3. Way(spi'.tx, Panel(lcd, shown)', script', Panel(m, g), wanted)
    BY <1>5, <2>2
  <2>4. Finishing(spi.tx, Panel(lcd, shown), script, puts, wanted)'
    BY <1>5, <2>2, <2>3 DEF Finishing
  <2>5. IsPicture(wanted')
    BY <1>2, <1>5
  <2> QED BY <1>3, <1>5, <2>1, <2>4, <2>5 DEF DrawInv
<1>6. script # <<>> /\ ~IsPut(script[1]) /\ ~IsSend(script[1])
        => \A tx, d, e : Way(tx, d, script, e, wanted) => Way(tx, d, Tail(script), e, wanted)
  BY WayWaits
\* At the end of a script the display is ready, and shows all but the rest of a text.
<1>7. ASSUME script = <<>> PROVE spi.tx = <<>> /\ lcd = l /\ shown = f
  <2>1. Quiet
    <3>1. Len(<<>>) = 0 /\ ~Awaited(<<>>)
      BY DEF Awaited
    <3> QED BY <1>7, <3>1 DEF PortInv
  <2>2. spi.tx = <<>>
    BY <2>1 DEF Quiet
  <2>3. Panel(lcd, shown) = Panel(l, f)
    <3>1. Run(<<>>, Panel(lcd, shown), Panel(l, f), wanted)
      BY <1>1, <1>7, <2>2, WayQuiet
    <3> QED BY <3>1, RunEmpty
  <2> QED BY <2>2, <2>3, Panels
<1>8. CASE DrawCall
  <2>1. script = <<>> /\ puts.text = <<>> /\ shown' = shown /\ spi' = spi /\ lcd' = lcd
    BY <1>8 DEF DrawCall
  <2>2. PICK c \in Calls : /\ wanted' = Draw(wanted, c)
                           /\ IF c.op = "puts" THEN puts' = c /\ UNCHANGED script
                              ELSE script' = Script(c) /\ UNCHANGED puts
    BY <1>8 DEF DrawCall
  <2>3. spi.tx = <<>> /\ IsReady(lcd) /\ shown = wanted
    BY <1>1, <1>2, <1>7, <2>1, NothingRemains
  <2>4. [ScreenNext]_<<shown, wanted>>
    BY <2>1, <2>2, <2>3 DEF ScreenNext, Call
  <2>5. IsPicture(wanted') /\ Finishing(<<>>, Panel(lcd, shown), script', puts', wanted')
    <3>1. CASE c.op = "puts"
      <4>1. c \in TextCalls
        BY <3>1, ScreenAssumption
      <4>2. wanted' = picocalc_lcd_puts_scale(shown, c) /\ puts' = c /\ script' = <<>>
        BY <2>1, <2>2, <2>3, <3>1 DEF Draw
      <4>3. IsPicture(wanted') /\ Remains(c, shown, wanted')
        BY <1>2, <4>1, <4>2, TextRemains
      <4>4. Way(<<>>, Panel(lcd, shown), <<>>, Panel(lcd, shown), wanted')
        BY RunEmpty, WayQuiet
      <4> QED BY <1>2, <2>3, <4>2, <4>3, <4>4 DEF Finishing
    <3>2. CASE c.op # "puts"
      <4>1. IsPicture(wanted') /\ Paints(Script(c), shown, wanted')
        BY <1>2, <2>2, <2>3, <3>2, CallPaints
      <4>2. PICK o : Run(Script(c), Panel(lcd, shown), Panel(o, wanted'), wanted') /\ IsReady(o)
        BY <2>3, <4>1 DEF Paints
      <4>3. Way(<<>>, Panel(lcd, shown), Script(c), Panel(o, wanted'), wanted')
        BY <4>2, WayQuiet
      <4>4. script' = Script(c) /\ puts' = puts
        BY <2>2, <3>2
      <4>5. Remains(puts, wanted', wanted')
        BY <2>1, <4>1, NothingRemains
      <4> QED BY <4>1, <4>2, <4>3, <4>4, <4>5 DEF Finishing
    <3> QED BY <3>1, <3>2
  <2>6. Finishing(spi.tx, Panel(lcd, shown), script, puts, wanted)'
    BY <2>1, <2>3, <2>5
  <2>7. IsPicture(shown')
    BY <1>2, <2>1
  <2> QED BY <2>4, <2>5, <2>6, <2>7 DEF DrawInv
<1>9. CASE picocalc_lcd_puts
  <2>1. /\ script = <<>> /\ puts.text # <<>> /\ puts \in TextCalls
        /\ shown' = shown /\ wanted' = wanted /\ spi' = spi /\ lcd' = lcd
    BY <1>9 DEF picocalc_lcd_puts, PortInv
  <2>2. spi.tx = <<>> /\ IsReady(lcd) /\ Remains(puts, shown, wanted)
    BY <1>1, <1>7, <2>1
  <2>3. /\ script' = lcd_draw_char(puts.x, puts.y, Head(puts.text), puts.fg, puts.bg, AtLeastOne(puts.scale))
        /\ puts' = [puts EXCEPT !.text = Tail(@), !.x = @ + CellW * AtLeastOne(puts.scale)]
    BY <1>9 DEF picocalc_lcd_puts
  <2> DEFINE g == Upon(shown, CellOf(puts, 1), wanted)
  <2>4. Draws(script', CellOf(puts, 1), wanted) /\ Remains(puts', g, wanted)
    BY <2>1, <2>2, <2>3, CharRemains
  <2>5. PICK o : Run(script', Panel(lcd, shown), Panel(o, g), wanted) /\ IsReady(o)
    BY <1>2, <2>2, <2>4 DEF Draws
  <2>6. IsPicture(g)
    BY DEF IsPicture, Upon
  <2>7. Way(<<>>, Panel(lcd, shown), script', Panel(o, g), wanted)
    BY <2>5, WayQuiet
  <2> HIDE DEF g
  <2>8. Finishing(spi.tx, Panel(lcd, shown), script, puts, wanted)'
    BY <2>1, <2>2, <2>4, <2>5, <2>6, <2>7 DEF Finishing
  <2> QED BY <1>2, <2>1, <2>8 DEF DrawInv
<1>10. CASE gpio_put
  <2>1. /\ script # <<>> /\ IsPut(script[1]) /\ Done /\ spi' = spi /\ shown' = shown
        /\ lcd' = Signal(lcd, script[1])
    BY <1>10 DEF gpio_put, At, IsPut
  <2>2. spi.tx = <<>>
    BY <2>1, SettledTail DEF PortInv, Quiet
  <2>3. Way(<<>>, Panel(Signal(lcd, script[1]), shown), Tail(script), Panel(l, f), wanted)
    BY <1>1, <2>1, <2>2, WayPuts
  <2> QED BY <1>4, <2>1, <2>2, <2>3 DEF Done
<1>11. CASE spi_write_byte
  <2>1. script # <<>> /\ IsSend(script[1]) /\ Done /\ spi_service
    BY <1>11 DEF spi_write_byte, At, IsSend
  <2>2. spi'.tx = Append(Serviced.tx, script[1][2])
    BY <1>11, <2>1, ServiceKeeps DEF spi_write_byte
  <2>3. \A e : Way(Serviced.tx, Panel(lcd, shown)', script, e, wanted)
                 => Way(spi'.tx, Panel(lcd, shown)', Tail(script), e, wanted)
    BY <2>1, <2>2, WaySends
  <2> QED BY <1>5, <2>1, <2>3 DEF Done
<1>12. ASSUME script # <<>>, ~IsPut(script[1]), ~IsSend(script[1]), Done, spi_service, spi'.tx = Serviced.tx
       PROVE  DrawInv' /\ [ScreenNext]_<<shown, wanted>>
  BY <1>5, <1>6, <1>12 DEF Done
<1>13. CASE WaitEmpty \/ WaitIdle
  <2>1. script # <<>> /\ ~IsPut(script[1]) /\ ~IsSend(script[1]) /\ Done /\ spi_service /\ spi' = Serviced
    BY <1>13 DEF WaitEmpty, WaitIdle, At, IsPut, IsSend
  <2> QED BY <1>12, <2>1
<1>14. CASE Drain
  <2>1. script # <<>> /\ ~IsPut(script[1]) /\ ~IsSend(script[1]) /\ spi_service
    BY <1>14 DEF Drain, At, IsPut, IsSend
  <2>2. CASE Serviced.rx > 0
    <3>1. spi' = [Serviced EXCEPT !.rx = @ - 1] /\ UNCHANGED <<wanted, script, puts>>
      BY <1>14, <2>2 DEF Drain
    <3>2. spi'.tx = Serviced.tx
      BY <2>1, <3>1, ServiceKeeps
    <3> QED BY <1>5, <2>1, <3>1, <3>2
  <2>3. CASE ~(Serviced.rx > 0)
    <3>1. spi' = Serviced /\ Done
      BY <1>14, <2>3 DEF Drain
    <3> QED BY <1>12, <2>1, <3>1
  <2> QED BY <2>2, <2>3
<1>15. CASE ClearOverrun
  <2>1. /\ script # <<>> /\ ~IsPut(script[1]) /\ ~IsSend(script[1]) /\ Done /\ lcd' = lcd /\ shown' = shown
        /\ spi'.tx = spi.tx
    BY <1>15 DEF ClearOverrun, At, IsPut, IsSend, PortInv
  <2>2. Way(spi.tx, Panel(lcd, shown), Tail(script), Panel(l, f), wanted)
    BY <1>1, <1>6, <2>1
  <2> QED BY <1>4, <2>1, <2>2 DEF Done
<1>16. CASE Time
  <2>1. UNCHANGED <<shown, wanted, script, puts, lcd>> /\ spi'.tx = spi.tx
    BY <1>16 DEF Time, PortInv
  <2> QED BY <1>1, <1>4, <2>1
<1>17. CASE Tick
  <2>1. spi' = Serviced /\ spi_service /\ UNCHANGED <<wanted, script, puts>>
    BY <1>17 DEF Tick
  <2> QED BY <1>5, <2>1
<1>18. CASE UNCHANGED linkVars
  <2>1. UNCHANGED <<shown, wanted, script, puts, spi, lcd>>
    BY <1>18 DEF linkVars
  <2> QED BY <1>1, <1>4, <2>1
<1> QED
  BY <1>8, <1>9, <1>10, <1>11, <1>13, <1>14, <1>15, <1>16, <1>17, <1>18
  DEF LinkNext, Driver

\* What the display shows changes only towards what the calls have asked for,
\* pixel by pixel, and a call starts only when nothing of the last one is
\* missing: for every call, size of display and FIFO, and timing of the port,
\* the driver, the port and the decoder draw as the simulator draws.
THEOREM DrawsAsSimulated == LinkSpec => ScreenSteps
<1>1. LinkInit => ScreenInit /\ PortInv /\ DrawInv
  BY InitDraws, InitPort
<1>2. PortInv /\ DrawInv /\ [LinkNext]_linkVars => PortInv' /\ DrawInv' /\ [ScreenNext]_<<shown, wanted>>
  BY NextPort, NextDraws
<1> QED BY <1>1, <1>2, PTL DEF LinkSpec, ScreenSteps
=============================================================================
